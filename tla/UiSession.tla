----------------------------- MODULE UiSession ------------------------------
(***************************************************************************)
(* The session of the UI: the connection to the node and the keyring       *)
(* (SubstrateContext.js), what App mounts depending on them, the account   *)
(* that is selected with the balance beside it (AccountSelector.js), and   *)
(* the calls the democracy page tracks (useCall.js).  A reconnection       *)
(* unmounts everything and mounts it again.  React runs the effects of a   *)
(* change before the next event, so an action is the change, the cleanups  *)
(* of the effects before it and the effects after it.                      *)
(***************************************************************************)
EXTENDS Naturals

CONSTANTS
    Accounts,       \* the addresses of the keyring
    FirstAccount,   \* its first
    NoAccount,      \* the empty address
    NoAddress,      \* App's address before the selector was mounted
    Calls,          \* what the democracy page calls
    MaxBalance      \* bound

ASSUME SessionAssumption ==
    /\ FirstAccount \in Accounts /\ NoAccount \notin Accounts /\ NoAddress \notin Accounts
    /\ NoAddress # NoAccount
    /\ Calls \cap (Accounts \cup {NoAccount, NoAddress}) = {} /\ MaxBalance \in Nat

VARIABLES
    link,           \* the websocket is "up" or "down"
    loading,        \* the api asks the node for its metadata
    initialised,    \* the api has been ready once
    apiState, keyringState,
    accountAddress, \* App's
    accountSelected, accountBalance,    \* the selector's, once mounted
    page,           \* the route
    subs,           \* subscriptions asked for or standing
    balances        \* the chain

connectionVars == <<link, loading, initialised, apiState, keyringState>>
accountVars == <<accountAddress, accountSelected, accountBalance>>
vars == <<connectionVars, accountVars, page, subs, balances>>

Balances == 0..MaxBalance
Pages == {"siip", "democracy"}

\* A subscription is to the balance of an account or to a call.  A call waits
\* for its timer first.  Its effect holds it until the cleanup: then it has
\* leaked if the component is still there to be told, and is gone otherwise.
\* A value is due that has not been shown.
Subscriptions ==
    [of : Accounts \cup Calls, stage : {"timer", "asked", "standing"},
     held : {"effect", "leaked", "gone"}, due : BOOLEAN]

TypeOK ==
    /\ link \in {"up", "down"} /\ loading \in BOOLEAN /\ initialised \in BOOLEAN
    /\ apiState \in {"CONNECT_INIT", "CONNECTING", "READY", "ERROR"}
    /\ keyringState \in {"LOADING", "READY", "ERROR"}
    /\ accountAddress \in Accounts \cup {NoAccount, NoAddress}
    /\ accountSelected \in Accounts \cup {NoAccount}
    /\ accountBalance \in Balances
    /\ page \in Pages
    /\ subs \subseteq Subscriptions
    /\ balances \in [Accounts -> Balances]

\* After the first render, which calls connect and loadAccounts.
Init ==
    /\ link = "down" /\ loading = FALSE /\ initialised = FALSE
    /\ apiState = "CONNECT_INIT" /\ keyringState = "LOADING"
    /\ accountAddress = NoAddress /\ accountSelected = NoAccount /\ accountBalance = 0
    /\ page \in Pages
    /\ subs = {}
    /\ balances = [account \in Accounts |-> 0]

-----------------------------------------------------------------------------
(* Effects and their cleanups *)

OfCalls(ss) == {s \in ss : s.of \in Calls}
OfBalance(ss) == {s \in ss : s.of \in Accounts}

Ask(of) == [of |-> of, stage |-> "asked", held |-> "effect", due |-> FALSE]

\* The effect of BalanceAnnotation.
BalanceAsked(account) == {Ask(a) : a \in {account} \cap Accounts}

\* Mutant: the effect returns no cleanup.
BalanceCleanedNot(ss) == ss

\* Its cleanup when another account is selected: as long as the promise has
\* not resolved there is nothing to unsubscribe with.
BalanceCleaned(ss) ==
    {s \in ss : s.held = "leaked"}
        \cup {[s EXCEPT !.held = "leaked"] : s \in {t \in ss : t.stage = "asked"}}

\* useCall: subscribe.
CallsTimed(p) ==
    {[Ask(c) EXCEPT !.stage = "timer"] : c \in {d \in Calls : p = "democracy"}}

\* Mutant: what has not been established is not ended.
CallsCleanedStanding(ss) == {s \in ss : s.stage = "asked"}

\* unsubscribe: the promise, once it resolves, is given the call that ends it.
\* The timer finds the component unmounted.
CallsCleaned(ss) == {[s EXCEPT !.held = "gone"] : s \in {t \in ss : t.stage = "asked"}}

\* Nothing is mounted any more.  What is still heard of a balance is ignored.
Unmounted(ss) == CallsCleaned(OfCalls(ss))

\* Mutant: the address of no account.
InitialAddressOfNobody == NoAddress

InitialAddress == FirstAccount

Shell(api, keys) == api = "READY" /\ keys = "READY"

\* App renders for these states, after everything was unmounted if again.
\* The selector is a new instance when it is mounted.
Render(api, keys, again) ==
    /\ apiState' = api /\ keyringState' = keys
    /\ LET before == Shell(apiState, keyringState)
       IN  \/ /\ Shell(api, keys) /\ (again \/ ~before)
              /\ accountAddress' = InitialAddress
              /\ accountSelected' = InitialAddress /\ accountBalance' = 0
              /\ subs' = Unmounted(subs) \cup BalanceAsked(InitialAddress) \cup CallsTimed(page)
           \/ /\ ~Shell(api, keys) /\ before
              /\ subs' = Unmounted(subs)
              /\ UNCHANGED accountVars
           \/ /\ IF before THEN Shell(api, keys) /\ ~again ELSE ~Shell(api, keys)
              /\ UNCHANGED <<accountVars, subs>>

-----------------------------------------------------------------------------
(* The connection *)

\* Mutant: isReady is not asked.
StateConnectedNoReady == "CONNECTING"

\* Mutant: a connection is taken for a ready api.
StateConnectedEarly == "READY"

\* CONNECT, and CONNECT_SUCCESS at once if isReady has resolved before.
StateConnected == IF initialised THEN "READY" ELSE "CONNECTING"

\* connected.
Connect ==
    /\ link = "down"
    /\ link' = "up" /\ loading' = TRUE
    /\ Render(StateConnected, keyringState, TRUE)
    /\ UNCHANGED <<initialised, page, balances>>

\* The metadata is there: ready, the first time.
Loaded ==
    /\ loading
    /\ loading' = FALSE /\ initialised' = TRUE
    /\ Render(IF initialised THEN apiState ELSE "READY", keyringState, FALSE)
    /\ UNCHANGED <<link, page, balances>>

\* error, after the api could not load it.
LoadFails ==
    /\ loading
    /\ loading' = FALSE
    /\ Render("ERROR", keyringState, FALSE)
    /\ UNCHANGED <<link, initialised, page, balances>>

\* The socket closes.  Nobody listens, but what is being loaded may fail.
Disconnect ==
    /\ link = "up"
    /\ link' = "down" /\ loading' = FALSE
    /\ \E api \in {apiState} \cup {e \in {"ERROR"} : loading} : Render(api, keyringState, FALSE)
    /\ UNCHANGED <<initialised, page, balances>>

\* error, of the socket.
SocketError ==
    /\ link = "down" /\ apiState # "ERROR"
    /\ Render("ERROR", keyringState, FALSE)
    /\ UNCHANGED <<link, loading, initialised, page, balances>>

\* SET_KEYRING or KEYRING_ERROR, when the extension has answered.
LoadAccounts(keys) ==
    /\ keyringState = "LOADING" /\ keys \in {"READY", "ERROR"}
    /\ Render(apiState, keys, FALSE)
    /\ UNCHANGED <<link, loading, initialised, page, balances>>

-----------------------------------------------------------------------------
(* The user *)

\* onChange of the selector, which can be cleared.
SelectAccount(account) ==
    /\ Shell(apiState, keyringState) /\ account # accountSelected
    /\ accountAddress' = account /\ accountSelected' = account
    /\ subs' = OfCalls(subs) \cup BalanceCleaned(OfBalance(subs)) \cup BalanceAsked(account)
    /\ UNCHANGED <<connectionVars, accountBalance, page, balances>>

GoTo(p) ==
    /\ Shell(apiState, keyringState) /\ p # page
    /\ page' = p
    /\ subs' = OfBalance(subs) \cup CallsCleaned(OfCalls(subs)) \cup CallsTimed(p)
    /\ UNCHANGED <<connectionVars, accountVars, balances>>

-----------------------------------------------------------------------------
(* Subscriptions *)

\* The timer of subscribe.
Timer(s) ==
    /\ s.of \in Calls /\ s.stage = "timer"
    /\ subs' = (subs \ {s}) \cup {[s EXCEPT !.stage = "asked"]}
    /\ UNCHANGED <<connectionVars, accountVars, page, balances>>

\* The promise resolves with the first value; what is gone is ended.
Stands(s) ==
    /\ link = "up" /\ s.stage = "asked"
    /\ subs' = (subs \ {s}) \cup
          {t \in {[s EXCEPT !.stage = "standing", !.due = s.of \in Accounts]} : t.held # "gone"}
    /\ UNCHANGED <<connectionVars, accountVars, page, balances>>

\* The promise rejects, which is logged.
Rejects(s) ==
    /\ s.stage = "asked"
    /\ subs' = subs \ {s}
    /\ UNCHANGED <<connectionVars, accountVars, page, balances>>

\* setAccountBalance.
Deliver(s) ==
    /\ link = "up" /\ s.of \in Accounts /\ s.due
    /\ accountBalance' = balances[s.of]
    /\ subs' = (subs \ {s}) \cup {[s EXCEPT !.due = FALSE]}
    /\ UNCHANGED <<connectionVars, accountAddress, accountSelected, page, balances>>

BalanceChanges(account, coins) ==
    /\ coins # balances[account]
    /\ balances' = [balances EXCEPT ![account] = coins]
    /\ subs' = {[s EXCEPT !.due = @ \/ (s.of = account /\ s.stage = "standing")] : s \in subs}
    /\ UNCHANGED <<connectionVars, accountVars, page>>

Next ==
    \/ Connect \/ Loaded \/ LoadFails \/ Disconnect \/ SocketError
    \/ \E keys \in {"READY", "ERROR"} : LoadAccounts(keys)
    \/ \E account \in Accounts \cup {NoAccount} : SelectAccount(account)
    \/ \E p \in Pages : GoTo(p)
    \/ \E s \in subs : Timer(s) \/ Stands(s) \/ Rejects(s) \/ Deliver(s)
    \/ \E account \in Accounts, coins \in Balances : BalanceChanges(account, coins)

\* A node that is connected answers, or the call fails.
Spec == Init /\ [][Next]_vars /\ WF_vars(Loaded \/ LoadFails)

-----------------------------------------------------------------------------
(* Properties *)

\* What is mounted has an api that is ready and an account of the keyring, or
\* none, and the account the selector shows is the one the pages sign with:
\* two states of different components, one of which starts anew with every
\* reconnection.
SelectorAgrees ==
    Shell(apiState, keyringState) =>
        /\ initialised
        /\ accountAddress = accountSelected

\* Once every subscription to a balance stands and has been heard, the
\* balance beside the selector is that of the selected account, whatever was
\* selected before, unless a subscription leaked because the account was
\* changed before it stood.
BalanceSettled ==
    /\ Shell(apiState, keyringState)
    /\ \E s \in subs : s.of = accountSelected
    /\ \A s \in OfBalance(subs) : s.stage = "standing" /\ ~s.due /\ s.held # "leaked"
    => accountBalance = balances[accountSelected]

\* A call that stands belongs to the democracy page on the screen, however
\* early the page was left or the connection was lost after it was asked for.
CallsEndWithPage ==
    \A s \in OfCalls(subs) :
        s.stage # "asked" \/ s.held # "gone" =>
            page = "democracy" /\ Shell(apiState, keyringState)

\* The loader does not stay: as long as the node is connected, the api gets
\* ready or the error is shown, also after a reconnection, which emits ready
\* no more.
LoaderEnds ==
    link = "up" /\ apiState \in {"CONNECT_INIT", "CONNECTING"}
        ~> link = "down" \/ apiState \in {"READY", "ERROR"}

=============================================================================
