--------------------------- MODULE TransferStarts ---------------------------
(***************************************************************************)
(* The balances the transfer form shows (updateStarting of                 *)
(* TransferCoins.js).  Every render subscribes to the balance of the       *)
(* sender and of the recipient, with a closure over what the render has    *)
(* shown, and no subscription is ever ended: those to former recipients    *)
(* still set what is shown as the balance of the present one.              *)
(***************************************************************************)
EXTENDS FiniteSets, Naturals

CONSTANTS
    Senders,        \* the addresses of the keyring
    FirstSender,    \* the one selected at first
    Recipients,     \* what can be typed as the recipient's
    Accounts,       \* the addresses the node accepts
    Unset,          \* the empty address of the first render
    MaxBalance,     \* bound
    MaxSubscribed,  \* bound: different subscriptions
    MaxCalled       \* bound: callbacks on their way

ASSUME AddressesAssumption ==
    /\ FirstSender \in Senders /\ Senders \subseteq Accounts
    /\ Unset \in Accounts /\ MaxBalance \in Nat
    /\ MaxSubscribed \in Nat /\ MaxCalled \in Nat

VARIABLES
    balances,                   \* the chain
    sndrAddr, rcptAddr,
    sndrStart, rcptStart,
    rcptAddrCrit,               \* "", "Ok" or "Err"
    subscribed,                 \* the subscriptions, by their closure
    called                      \* callbacks on their way

startsVars == <<balances, sndrAddr, rcptAddr, sndrStart, rcptStart, rcptAddrCrit,
                subscribed, called>>

Balances == 0..MaxBalance
Addresses == Recipients \cup Accounts

\* The states a callback has closed over, with the side it is for.
Closures == [side : {"sndr", "rcpt"}, addr : Addresses, start : Balances,
             crit : {"", "Ok", "Err"}]

StartsTypeOK ==
    /\ balances \in [Accounts -> Balances]
    /\ sndrAddr \in Senders /\ rcptAddr \in Addresses
    /\ sndrStart \in Balances /\ rcptStart \in Balances
    /\ rcptAddrCrit \in {"", "Ok", "Err"}
    /\ subscribed \subseteq Closures /\ called \subseteq Closures

-----------------------------------------------------------------------------
(* Rendering *)

\* Mutant: only a change of the recipient subscribes to its balance.
ClosuresOnlyNew(sndr, rcpt, sndrCoins, rcptCoins, crit) ==
    {[side |-> "sndr", addr |-> sndr, start |-> sndrCoins, crit |-> ""]}
        \cup IF rcpt = rcptAddr THEN {}
             ELSE {[side |-> "rcpt", addr |-> rcpt, start |-> rcptCoins, crit |-> crit]}

\* updateStarting: the two callbacks of a render that shows this.  The
\* sender's has no use for the criterion.
ClosuresOf(sndr, rcpt, sndrCoins, rcptCoins, crit) ==
    {[side |-> "sndr", addr |-> sndr, start |-> sndrCoins, crit |-> ""],
     [side |-> "rcpt", addr |-> rcpt, start |-> rcptCoins, crit |-> crit]}

\* A render adds its callbacks to those in rest.  For an address the node
\* does not accept the promise rejects, once.
Subscribe(rest) ==
    LET new == ClosuresOf(sndrAddr', rcptAddr', sndrStart', rcptStart', rcptAddrCrit')
    IN  /\ subscribed' = subscribed \cup {c \in new : c.addr \in Accounts}
        /\ called' = rest \cup new
        /\ Cardinality(subscribed') <= MaxSubscribed /\ Cardinality(called') <= MaxCalled

\* The first render has no addresses yet; the sender's is set at once.
StartsInit ==
    /\ balances = [account \in Accounts |-> 0]
    /\ sndrAddr = FirstSender /\ rcptAddr = Unset
    /\ sndrStart = 0 /\ rcptStart = 0 /\ rcptAddrCrit = ""
    /\ subscribed = UNION {ClosuresOf(sndr, Unset, 0, 0, "") : sndr \in {Unset, sndrAddr}}
    /\ called = subscribed

-----------------------------------------------------------------------------
(* Handlers *)

\* Another account is selected.
SelectSender(addr) ==
    /\ addr # sndrAddr
    /\ sndrAddr' = addr
    /\ UNCHANGED <<balances, rcptAddr, sndrStart, rcptStart, rcptAddrCrit>>
    /\ Subscribe(called)

\* updateRcptAddr.
TypeRcptAddr(addr) ==
    /\ addr # rcptAddr
    /\ rcptAddr' = addr
    /\ UNCHANGED <<balances, sndrAddr, sndrStart, rcptStart, rcptAddrCrit>>
    /\ Subscribe(called)

\* What the closure does not know to be shown already is set.
Set(known, value, shown) == IF known # value THEN value ELSE shown

\* The callback of c is called: with the balance of its address, or with the
\* rejection of it.
Called(c) ==
    /\ c \in called
    /\ \/ /\ c.addr \in Accounts /\ c.side = "sndr"
          /\ sndrStart' = Set(c.start, balances[c.addr], sndrStart)
          /\ UNCHANGED <<rcptStart, rcptAddrCrit>>
       \/ /\ c.addr \in Accounts /\ c.side = "rcpt"
          /\ rcptStart' = Set(c.start, balances[c.addr], rcptStart)
          /\ rcptAddrCrit' = Set(c.crit, "Ok", rcptAddrCrit)
          /\ UNCHANGED sndrStart
       \/ /\ c.addr \notin Accounts
          /\ rcptAddrCrit' = Set(c.crit, "Err", rcptAddrCrit)
          /\ UNCHANGED <<sndrStart, rcptStart>>
    /\ UNCHANGED <<balances, sndrAddr, rcptAddr>>
    /\ IF <<sndrStart, rcptStart, rcptAddrCrit>>' # <<sndrStart, rcptStart, rcptAddrCrit>>
       THEN Subscribe(called \ {c})
       ELSE /\ called' = called \ {c}
            /\ UNCHANGED subscribed

\* A block changes the balance of an account: every subscription to it hears.
BalanceChanges(account, coins) ==
    /\ coins # balances[account]
    /\ balances' = [balances EXCEPT ![account] = coins]
    /\ called' = called \cup {c \in subscribed : c.addr = account}
    /\ Cardinality(called') <= MaxCalled
    /\ UNCHANGED <<sndrAddr, rcptAddr, sndrStart, rcptStart, rcptAddrCrit, subscribed>>

StartsNext ==
    \/ \E addr \in Senders : SelectSender(addr)
    \/ \E addr \in Recipients : TypeRcptAddr(addr)
    \/ \E c \in called : Called(c)
    \/ \E account \in Accounts, coins \in Balances : BalanceChanges(account, coins)

-----------------------------------------------------------------------------
(* Properties *)

\* Once no callback is on its way, the form shows the balances of the sender
\* and of the recipient typed, and whether there is such an address, although
\* the subscriptions of former recipients have been setting them too.
TransferSettled ==
    called = {} =>
        /\ sndrStart = balances[sndrAddr]
        /\ IF rcptAddr \in Accounts
           THEN rcptStart = balances[rcptAddr] /\ rcptAddrCrit = "Ok"
           ELSE rcptAddrCrit = "Err"

=============================================================================
