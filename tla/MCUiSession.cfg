SPECIFICATION Spec
CONSTANTS
    Accounts = {alice, bob}
    FirstAccount = alice
    NoAccount = NoAccount
    NoAddress = NoAddress
    Calls <- DemocracyCalls
    MaxBalance = 1
INVARIANTS
    TypeOK
    SelectorAgrees
    BalanceSettled
    CallsEndWithPage
PROPERTIES
    LoaderEnds
