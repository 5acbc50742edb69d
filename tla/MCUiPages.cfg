SPECIFICATION Spec
CONSTANTS
    MaxClicks = 2
    Api <- SmallApi
    MaxCoins = 1
    NaN = NaN
    Senders = {me, ann}
    FirstSender = me
    Recipients = {ann, nobody}
    Accounts = {unset, me, ann}
    Unset = unset
    MaxBalance = 1
    MaxSubscribed = 6
    MaxCalled = 3
    HexTexts = {none, ab, cd}
    OddTexts = {abc}
    EmptyText = none
    NoBytes = NoBytes
    Files = {old, new}
    MaxSubmitted = 2
INVARIANTS
    TypeOK
    WatchesLatest
    SubmitFits
    ShownIsTransferred
    TransferSettled
    DisabledMeansSending
PROPERTIES
    SendingEnds
    
CHECK_DEADLOCK FALSE
