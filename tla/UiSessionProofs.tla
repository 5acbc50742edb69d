-------------------------- MODULE UiSessionProofs ---------------------------
(***************************************************************************)
(* What UiSession's runs check of two accounts, proved for any keyring,    *)
(* any calls and any balances.                                             *)
(***************************************************************************)
EXTENDS UiSession, TLAPS

-----------------------------------------------------------------------------
(* Effects and cleanups *)

\* The effect of the selector subscribes to the account, unless it is none.
LEMMA EffectAsksBalance ==
    ASSUME NEW account, NEW s \in BalanceAsked(account)
    PROVE  /\ s \in Subscriptions
           /\ s.of = account /\ account \in Accounts
           /\ s.stage = "asked" /\ s.held = "effect" /\ ~s.due
<1>1. s = Ask(account) /\ account \in Accounts
  BY DEF BalanceAsked
<1>2. QED
  BY <1>1 DEF Ask, Subscriptions

\* The effects of the democracy page start the timers of its calls.
LEMMA EffectTimesCalls ==
    ASSUME NEW p, NEW s \in CallsTimed(p)
    PROVE  /\ s \in Subscriptions
           /\ s.of \in Calls /\ p = "democracy"
           /\ s.stage = "timer" /\ s.held = "effect" /\ ~s.due
<1>1. PICK c \in Calls : s = [Ask(c) EXCEPT !.stage = "timer"] /\ p = "democracy"
  BY DEF CallsTimed
<1>2. s = [of |-> c, stage |-> "timer", held |-> "effect", due |-> FALSE]
  BY <1>1 DEF Ask
<1>3. s \in Subscriptions
  BY <1>2 DEF Subscriptions
<1>4. s.of = c /\ s.stage = "timer" /\ s.held = "effect" /\ s.due = FALSE
  BY <1>2
<1>5. QED
  BY <1>1, <1>3, <1>4

\* The cleanup of the selector leaks what was only asked for.
LEMMA CleanupLeaks ==
    ASSUME NEW ss \in SUBSET Subscriptions, NEW s \in BalanceCleaned(ss)
    PROVE  /\ s \in Subscriptions /\ s.held = "leaked"
           /\ s \in ss \/ s.stage = "asked"
           /\ \E t \in ss : s.of = t.of /\ s.due = t.due /\ s.stage = t.stage
<1>1. CASE s \in ss /\ s.held = "leaked"
  BY <1>1
<1>2. CASE \E t \in ss : t.stage = "asked" /\ s = [t EXCEPT !.held = "leaked"]
  <2>1. PICK t \in ss : t.stage = "asked" /\ s = [t EXCEPT !.held = "leaked"]
    BY <1>2
  <2>2. QED
    BY <2>1 DEF Subscriptions
<1>3. QED
  BY <1>1, <1>2 DEF BalanceCleaned

\* The cleanups of useCall leave only what is ended when it stands.
LEMMA CleanupEndsCalls ==
    ASSUME NEW ss \in SUBSET Subscriptions, NEW s \in CallsCleaned(ss)
    PROVE  /\ s \in Subscriptions /\ s.stage = "asked" /\ s.held = "gone"
           /\ \E t \in ss : s.of = t.of /\ s.due = t.due /\ s.stage = t.stage
<1>1. PICK t \in ss : t.stage = "asked" /\ s = [t EXCEPT !.held = "gone"]
  BY DEF CallsCleaned
<1>2. QED
  BY <1>1 DEF Subscriptions

\* Unmounting leaves no call that nobody ends.
LEMMA UnmountingEnds ==
    ASSUME subs \subseteq Subscriptions, NEW s \in Unmounted(subs)
    PROVE  /\ s \in Subscriptions /\ s.of \in Calls
           /\ s.stage = "asked" /\ s.held = "gone"
           /\ \E t \in subs : s.of = t.of /\ s.due = t.due /\ s.stage = t.stage
<1>1. OfCalls(subs) \in SUBSET Subscriptions
  BY DEF OfCalls
<1>2. s \in CallsCleaned(OfCalls(subs))
  BY DEF Unmounted
<1>3. \E t \in OfCalls(subs) : s.of = t.of /\ s.due = t.due /\ s.stage = t.stage
  BY <1>1, <1>2, CleanupEndsCalls
<1>4. QED
  BY <1>1, <1>2, <1>3, CleanupEndsCalls DEF OfCalls

\* What a rendering leaves: everything, nothing but calls to be ended, or the
\* effects of a selector and a page that are mounted.
RenderedSubs(p) ==
    Unmounted(subs) \cup BalanceAsked(InitialAddress) \cup CallsTimed(p)

\* What a rendering mounts.
LEMMA RenderingRemounts ==
    ASSUME NEW api, NEW keys, NEW again, Render(api, keys, again)
    PROVE  /\ apiState' = api /\ keyringState' = keys
           /\ \/ /\ Shell(api, keys)
                 /\ subs' = RenderedSubs(page)
                 /\ accountAddress' = InitialAddress
                 /\ accountSelected' = InitialAddress /\ accountBalance' = 0
              \/ /\ ~Shell(api, keys)
                 /\ subs' = Unmounted(subs)
                 /\ UNCHANGED accountVars
              \/ /\ Shell(api, keys) = Shell(apiState, keyringState)
                 /\ UNCHANGED <<accountVars, subs>>
  BY DEF Render, RenderedSubs, Shell

-----------------------------------------------------------------------------
(* Types *)

\* What a rendering leaves is well typed when the states it renders are.
LEMMA RenderingKeepsTypes ==
    ASSUME TypeOK, NEW keys \in {"LOADING", "READY", "ERROR"}, NEW again,
           NEW api \in {"CONNECT_INIT", "CONNECTING", "READY", "ERROR"},
           Render(api, keys, again)
    PROVE  /\ apiState' = api /\ keyringState' = keys
           /\ accountAddress' \in Accounts \cup {NoAccount, NoAddress}
           /\ accountSelected' \in Accounts \cup {NoAccount}
           /\ accountBalance' \in Balances
           /\ subs' \subseteq Subscriptions
<1>1. subs \subseteq Subscriptions
  BY DEF TypeOK
<1>2. Unmounted(subs) \subseteq Subscriptions /\ RenderedSubs(page) \subseteq Subscriptions
  BY <1>1, UnmountingEnds, EffectAsksBalance, EffectTimesCalls DEF RenderedSubs
<1>3. InitialAddress \in Accounts /\ 0 \in Balances
  BY SessionAssumption DEF InitialAddress, Balances
<1>4. CASE subs' = RenderedSubs(page) /\ accountAddress' = InitialAddress
           /\ accountSelected' = InitialAddress /\ accountBalance' = 0
  BY <1>2, <1>3, <1>4, RenderingRemounts
<1>5. CASE subs' \in {subs, Unmounted(subs)} /\ UNCHANGED accountVars
  BY <1>1, <1>2, <1>5, RenderingRemounts DEF TypeOK, accountVars
<1>6. QED
  BY <1>4, <1>5, RenderingRemounts

\* The states of the session keep their types.
THEOREM TypeCorrect == Spec => []TypeOK
<1>1. Init => TypeOK
  <2>1. 0 \in Balances
    BY SessionAssumption DEF Balances
  <2>2. Init => balances \in [Accounts -> Balances]
    BY <2>1 DEF Init
  <2>3. QED
    BY <2>1, <2>2 DEF Init, TypeOK
<1>2. TypeOK /\ [Next]_vars => TypeOK'
  <2> SUFFICES ASSUME TypeOK, [Next]_vars PROVE TypeOK'
    OBVIOUS
  <2> USE DEF TypeOK
  <2>1. CASE Connect
    <3>1. StateConnected \in {"CONNECTING", "READY"}
      BY DEF StateConnected
    <3>2. QED
      BY <2>1, <3>1, RenderingKeepsTypes DEF Connect
  <2>2. CASE Loaded
    <3>1. PICK api \in {apiState, "READY"} : Render(api, keyringState, FALSE)
      BY <2>2 DEF Loaded
    <3>2. QED
      BY <2>2, <3>1, RenderingKeepsTypes DEF Loaded
  <2>3. CASE LoadFails
    BY <2>3, RenderingKeepsTypes DEF LoadFails
  <2>4. CASE Disconnect
    <3>1. PICK api \in {apiState, "ERROR"} : Render(api, keyringState, FALSE)
      BY <2>4 DEF Disconnect
    <3>2. QED
      BY <2>4, <3>1, RenderingKeepsTypes DEF Disconnect
  <2>5. CASE SocketError
    BY <2>5, RenderingKeepsTypes DEF SocketError
  <2>6. CASE \E keys \in {"READY", "ERROR"} : LoadAccounts(keys)
    BY <2>6, RenderingKeepsTypes DEF LoadAccounts
  <2>7. ASSUME NEW account \in Accounts \cup {NoAccount}, SelectAccount(account) PROVE TypeOK'
    <3>1. OfCalls(subs) \subseteq Subscriptions /\ OfBalance(subs) \in SUBSET Subscriptions
      BY DEF OfCalls, OfBalance
    <3>2. subs' \subseteq Subscriptions
      BY <2>7, <3>1, CleanupLeaks, EffectAsksBalance DEF SelectAccount
    <3>3. QED
      BY <2>7, <3>2 DEF SelectAccount, connectionVars
  <2>8. ASSUME NEW p \in Pages, GoTo(p) PROVE TypeOK'
    <3>1. OfCalls(subs) \in SUBSET Subscriptions /\ OfBalance(subs) \subseteq Subscriptions
      BY DEF OfCalls, OfBalance
    <3>2. subs' \subseteq Subscriptions
      BY <2>8, <3>1, CleanupEndsCalls, EffectTimesCalls DEF GoTo
    <3>3. QED
      BY <2>8, <3>2 DEF GoTo, connectionVars, accountVars
  <2>9. ASSUME NEW s \in subs, Timer(s) \/ Stands(s) \/ Rejects(s) \/ Deliver(s) PROVE TypeOK'
    <3>1. s \in Subscriptions
      OBVIOUS
    <3>2. CASE Timer(s)
      <4>1. [s EXCEPT !.stage = "asked"] \in Subscriptions
        BY <3>1 DEF Subscriptions
      <4>2. QED
        BY <3>2, <4>1 DEF Timer, connectionVars, accountVars
    <3>3. CASE Stands(s)
      <4>1. \A due \in BOOLEAN :
               [s EXCEPT !.stage = "standing", !.due = due] \in Subscriptions
        BY <3>1 DEF Subscriptions
      <4>2. subs' \subseteq Subscriptions
        <5>1. (s.of \in Accounts) \in BOOLEAN
          OBVIOUS
        <5>2. [s EXCEPT !.stage = "standing", !.due = s.of \in Accounts] \in Subscriptions
          BY <4>1, <5>1
        <5>3. QED
          BY <3>3, <5>2 DEF Stands
      <4>3. QED
        BY <3>3, <4>2 DEF Stands, connectionVars, accountVars
    <3>4. CASE Rejects(s)
      BY <3>4 DEF Rejects, connectionVars, accountVars
    <3>5. CASE Deliver(s)
      <4>1. [s EXCEPT !.due = FALSE] \in Subscriptions
        BY <3>1 DEF Subscriptions
      <4>2. accountBalance' \in Balances
        BY <3>5 DEF Deliver
      <4>3. QED
        BY <3>5, <4>1, <4>2 DEF Deliver, connectionVars
    <3>6. QED
      BY <2>9, <3>2, <3>3, <3>4, <3>5
  <2>10. ASSUME NEW account \in Accounts, NEW coins \in Balances, BalanceChanges(account, coins)
         PROVE TypeOK'
    <3>1. \A s \in subs : [s EXCEPT !.due = @ \/ (s.of = account /\ s.stage = "standing")] \in Subscriptions
      BY DEF Subscriptions
    <3>2. QED
      BY <2>10, <3>1 DEF BalanceChanges, connectionVars, accountVars
  <2>11. CASE UNCHANGED vars
    BY <2>11 DEF vars, connectionVars, accountVars
  <2>12. QED
    BY <2>1, <2>2, <2>3, <2>4, <2>5, <2>6, <2>7, <2>8, <2>9, <2>10, <2>11 DEF Next
<1>3. QED
  BY <1>1, <1>2, PTL DEF Spec

-----------------------------------------------------------------------------
(* The account that signs *)

\* Why the selector agrees: whatever mounts it also mounts an api that has
\* been ready, and starts both states from the same address.
SelectorInv ==
    /\ apiState = "READY" => initialised
    /\ SelectorAgrees

\* A rendering that says READY only when the api is keeps SelectorInv.
LEMMA RenderingAgrees ==
    ASSUME SelectorInv, NEW api, NEW keys, NEW again, Render(api, keys, again),
           api = "READY" => initialised'
    PROVE  SelectorInv'
<1>1. apiState' = api /\ keyringState' = keys
  BY RenderingRemounts
<1>2. CASE accountAddress' = accountSelected'
  BY <1>1, <1>2 DEF SelectorInv, SelectorAgrees, Shell
<1>3. CASE ~Shell(api, keys)
  BY <1>1, <1>3 DEF SelectorInv, SelectorAgrees, Shell
<1>4. CASE Shell(api, keys) = Shell(apiState, keyringState) /\ UNCHANGED accountVars
  BY <1>1, <1>4 DEF SelectorInv, SelectorAgrees, Shell, accountVars
<1>5. QED
  BY <1>2, <1>3, <1>4, RenderingRemounts

\* The account the selector shows is the one the pages sign with, through any
\* number of reconnections, and what is mounted has an api that is ready.
THEOREM SelectorAlwaysAgrees == Spec => []SelectorAgrees
<1>1. Init => SelectorInv
  BY DEF Init, SelectorInv, SelectorAgrees, Shell
<1>2. SelectorInv /\ [Next]_vars => SelectorInv'
  <2> SUFFICES ASSUME SelectorInv, [Next]_vars PROVE SelectorInv'
    OBVIOUS
  <2>1. CASE Connect
    <3>1. StateConnected = "READY" => initialised
      BY DEF StateConnected
    <3>2. QED
      BY <2>1, <3>1, RenderingAgrees DEF Connect
  <2>2. CASE Loaded
    <3>1. PICK api \in {apiState, "READY"} : Render(api, keyringState, FALSE)
      BY <2>2 DEF Loaded
    <3>2. QED
      BY <2>2, <3>1, RenderingAgrees DEF Loaded
  <2>3. CASE LoadFails
    BY <2>3, RenderingAgrees DEF LoadFails
  <2>4. CASE Disconnect
    <3>1. PICK api \in {apiState, "ERROR"} : Render(api, keyringState, FALSE)
      BY <2>4 DEF Disconnect
    <3>2. QED
      BY <2>4, <3>1, RenderingAgrees DEF Disconnect, SelectorInv
  <2>5. CASE SocketError
    BY <2>5, RenderingAgrees DEF SocketError
  <2>6. CASE \E keys \in {"READY", "ERROR"} : LoadAccounts(keys)
    <3>1. PICK keys \in {"READY", "ERROR"} : LoadAccounts(keys)
      BY <2>6
    <3>2. QED
      BY <3>1, RenderingAgrees DEF LoadAccounts, SelectorInv
  <2>7. CASE \E account \in Accounts \cup {NoAccount} : SelectAccount(account)
    BY <2>7 DEF SelectAccount, connectionVars, SelectorInv, SelectorAgrees, Shell
  <2>8. CASE UNCHANGED <<connectionVars, accountAddress, accountSelected>>
    BY <2>8 DEF connectionVars, SelectorInv, SelectorAgrees, Shell
  <2>9. CASE \E p \in Pages : GoTo(p)
    BY <2>8, <2>9 DEF GoTo, accountVars
  <2>10. CASE \E s \in subs : Timer(s) \/ Stands(s) \/ Rejects(s) \/ Deliver(s)
    BY <2>8, <2>10 DEF Timer, Stands, Rejects, Deliver, accountVars
  <2>11. CASE \E account \in Accounts, coins \in Balances : BalanceChanges(account, coins)
    BY <2>8, <2>11 DEF BalanceChanges, accountVars
  <2>12. CASE UNCHANGED vars
    BY <2>8, <2>12 DEF vars, accountVars
  <2>13. QED
    BY <2>1, <2>2, <2>3, <2>4, <2>5, <2>6, <2>7, <2>9, <2>10, <2>11, <2>12 DEF Next
<1>3. SelectorInv => SelectorAgrees
  BY DEF SelectorInv
<1>4. QED
  BY <1>1, <1>2, <1>3, PTL DEF Spec

-----------------------------------------------------------------------------
(* Tracked calls *)

\* No rendering leaves a call behind that nobody ends.
LEMMA RenderingEndsCalls ==
    ASSUME TypeOK, CallsEndWithPage, NEW api, NEW keys, NEW again,
           Render(api, keys, again), page' = page
    PROVE  CallsEndWithPage'
<1>1. apiState' = api /\ keyringState' = keys /\ subs \subseteq Subscriptions
  BY RenderingRemounts DEF TypeOK
<1>2. SUFFICES ASSUME NEW s \in subs', s.of \in Calls, s.stage # "asked" \/ s.held # "gone"
               PROVE  page = "democracy" /\ Shell(api, keys)
  BY <1>1 DEF CallsEndWithPage, OfCalls, Shell
<1>3. s \notin Unmounted(subs)
  BY <1>1, <1>2, UnmountingEnds
<1>4. CASE Shell(api, keys) /\ subs' = RenderedSubs(page)
  <2>1. s \notin BalanceAsked(InitialAddress)
    BY <1>2, EffectAsksBalance, SessionAssumption
  <2>2. s \in CallsTimed(page)
    BY <1>2, <1>3, <1>4, <2>1 DEF RenderedSubs
  <2>3. QED
    BY <1>4, <2>2, EffectTimesCalls
<1>5. CASE subs' = Unmounted(subs)
  BY <1>2, <1>3, <1>5
<1>6. CASE Shell(api, keys) = Shell(apiState, keyringState) /\ subs' = subs
  BY <1>2, <1>6 DEF CallsEndWithPage, OfCalls
<1>7. QED
  BY <1>4, <1>5, <1>6, RenderingRemounts

\* A call that stands belongs to the democracy page on the screen.
THEOREM TrackedCallsEnd == Spec => []CallsEndWithPage
<1>1. Init => CallsEndWithPage
  BY DEF Init, CallsEndWithPage, OfCalls
<1>2. TypeOK /\ CallsEndWithPage /\ [Next]_vars => CallsEndWithPage'
  <2> SUFFICES ASSUME TypeOK, CallsEndWithPage, [Next]_vars PROVE CallsEndWithPage'
    OBVIOUS
  <2>1. \A s \in subs : s.of \in Calls /\ (s.stage # "asked" \/ s.held # "gone")
             => page = "democracy" /\ Shell(apiState, keyringState)
    BY DEF CallsEndWithPage, OfCalls
  <2>2. subs \subseteq Subscriptions
    BY DEF TypeOK
  <2>3. CASE Connect \/ Loaded \/ LoadFails \/ Disconnect \/ SocketError
               \/ \E keys \in {"READY", "ERROR"} : LoadAccounts(keys)
    <3>1. page' = page /\ \E api, keys, again : Render(api, keys, again)
      BY <2>3 DEF Connect, Loaded, LoadFails, Disconnect, SocketError, LoadAccounts
    <3>2. QED
      BY <3>1, RenderingEndsCalls
  <2>4. ASSUME NEW account \in Accounts \cup {NoAccount}, SelectAccount(account)
        PROVE  CallsEndWithPage'
    <3>1. SUFFICES ASSUME NEW s \in subs', s.of \in Calls, s.stage # "asked" \/ s.held # "gone"
                   PROVE  page = "democracy" /\ Shell(apiState, keyringState)
      BY <2>4 DEF SelectAccount, connectionVars, CallsEndWithPage, OfCalls, Shell
    <3>2. s \notin BalanceAsked(account)
      BY <3>1, EffectAsksBalance, SessionAssumption
    <3>3. OfBalance(subs) \in SUBSET Subscriptions
      BY <2>2 DEF OfBalance
    <3>4. s \notin BalanceCleaned(OfBalance(subs))
      BY <3>1, <3>3, CleanupLeaks, SessionAssumption DEF OfBalance
    <3>5. QED
      BY <2>1, <2>4, <3>1, <3>2, <3>4 DEF SelectAccount, OfCalls
  <2>5. ASSUME NEW p \in Pages, GoTo(p) PROVE CallsEndWithPage'
    <3>1. SUFFICES ASSUME NEW s \in subs', s.of \in Calls, s.stage # "asked" \/ s.held # "gone"
                   PROVE  p = "democracy"
      BY <2>5 DEF GoTo, connectionVars, CallsEndWithPage, OfCalls, Shell
    <3>2. OfCalls(subs) \in SUBSET Subscriptions
      BY <2>2 DEF OfCalls
    <3>3. s \notin CallsCleaned(OfCalls(subs)) /\ s \notin OfBalance(subs)
      BY <3>1, <3>2, CleanupEndsCalls, SessionAssumption DEF OfBalance
    <3>4. QED
      BY <2>5, <3>1, <3>3, EffectTimesCalls DEF GoTo
  <2>6. ASSUME UNCHANGED <<connectionVars, page>>,
               \A s \in subs' : s.stage # "asked" \/ s.held # "gone" =>
                   \E t \in subs : s.of = t.of /\ (t.stage # "asked" \/ t.held # "gone")
        PROVE  CallsEndWithPage'
    <3>1. SUFFICES ASSUME NEW s \in subs', s.of \in Calls, s.stage # "asked" \/ s.held # "gone"
                   PROVE  page = "democracy" /\ Shell(apiState, keyringState)
      BY <2>6 DEF connectionVars, CallsEndWithPage, OfCalls, Shell
    <3>2. PICK t \in subs : s.of = t.of /\ (t.stage # "asked" \/ t.held # "gone")
      BY <2>6, <3>1
    <3>3. QED
      BY <2>1, <3>1, <3>2
  <2>7. ASSUME NEW s \in subs, Timer(s) \/ Stands(s) \/ Rejects(s) \/ Deliver(s)
        PROVE  CallsEndWithPage'
    <3>1. CASE Timer(s)
      <4>1. [s EXCEPT !.stage = "asked"].of = s.of
        BY <2>2 DEF Subscriptions
      <4>2. QED
        BY <2>6, <3>1, <4>1 DEF Timer
    <3>2. CASE Stands(s)
      <4>1. \A due : /\ [s EXCEPT !.stage = "standing", !.due = due].of = s.of
                     /\ [s EXCEPT !.stage = "standing", !.due = due].held = s.held
        BY <2>2 DEF Subscriptions
      <4>2. QED
        BY <2>6, <3>2, <4>1 DEF Stands
    <3>3. CASE Rejects(s)
      BY <2>6, <3>3 DEF Rejects
    <3>4. CASE Deliver(s)
      <4>1. /\ [s EXCEPT !.due = FALSE].of = s.of
            /\ [s EXCEPT !.due = FALSE].stage = s.stage
            /\ [s EXCEPT !.due = FALSE].held = s.held
        BY <2>2 DEF Subscriptions
      <4>2. QED
        BY <2>6, <3>4, <4>1 DEF Deliver
    <3>5. QED
      BY <2>7, <3>1, <3>2, <3>3, <3>4
  <2>8. ASSUME NEW account \in Accounts, NEW coins \in Balances, BalanceChanges(account, coins)
        PROVE  CallsEndWithPage'
    <3>1. \A s \in subs : \A due :
             /\ [s EXCEPT !.due = due].of = s.of
             /\ [s EXCEPT !.due = due].stage = s.stage
             /\ [s EXCEPT !.due = due].held = s.held
      BY <2>2 DEF Subscriptions
    <3>2. ASSUME NEW t \in subs'
          PROVE  \E s \in subs : t.of = s.of /\ t.stage = s.stage /\ t.held = s.held
      <4>1. PICK s \in subs : t = [s EXCEPT !.due = s.due \/ (s.of = account /\ s.stage = "standing")]
        BY <2>8 DEF BalanceChanges
      <4>2. QED
        BY <3>1, <4>1
    <3>3. QED
      BY <2>6, <2>8, <3>2 DEF BalanceChanges
  <2>9. CASE UNCHANGED vars
    BY <2>6, <2>9 DEF vars
  <2>10. QED
    BY <2>3, <2>4, <2>5, <2>7, <2>8, <2>9 DEF Next
<1>3. QED
  BY <1>1, <1>2, TypeCorrect, PTL DEF Spec

-----------------------------------------------------------------------------
(* The balance beside the selector *)

\* Why the balance settles: an effect has subscribed to the selected account,
\* and as long as no subscription that leaked stands, what was heard last is
\* what the chain says.
BalanceInv ==
    /\ \A s \in OfBalance(subs) :
          s.held = "leaked" \/ (s.held = "effect" /\ s.of = accountSelected)
    /\ \A s \in OfBalance(subs) : s.due => s.stage = "standing"
    /\ (\A s \in OfBalance(subs) : s.held = "leaked" => s.stage = "asked") =>
          \A s \in OfBalance(subs) :
              s.stage = "standing" /\ ~s.due => accountBalance = balances[s.of]

\* After every cleanup nothing that an effect holds stands yet.
LEMMA AskingEstablishes ==
    ASSUME \A s \in OfBalance(subs') :
               \/ s.held = "leaked" /\ (s.due => s.stage = "standing")
               \/ s.held = "effect" /\ s.of = accountSelected' /\ s.stage = "asked" /\ ~s.due
    PROVE  BalanceInv'
  BY DEF BalanceInv, OfBalance

\* A step that changes neither the balances nor the subscriptions to them.
LEMMA BalanceUntouched ==
    ASSUME BalanceInv, OfBalance(subs') = OfBalance(subs),
           UNCHANGED <<accountSelected, accountBalance, balances>>
    PROVE  BalanceInv'
  BY DEF BalanceInv, OfBalance

\* A rendering settles the balance: what its effects ask for is still to come.
LEMMA RenderingSettles ==
    ASSUME TypeOK, BalanceInv, NEW api, NEW keys, NEW again, Render(api, keys, again),
           UNCHANGED balances
    PROVE  BalanceInv'
<1>1. subs \subseteq Subscriptions
  BY DEF TypeOK
<1>2. \A s \in Unmounted(subs) : s.of \notin Accounts
  BY <1>1, UnmountingEnds, SessionAssumption
<1>3. CASE subs' = RenderedSubs(page) /\ accountSelected' = InitialAddress
  <2>1. \A s \in OfBalance(subs') : s \in BalanceAsked(InitialAddress)
    BY <1>2, <1>3, EffectTimesCalls, SessionAssumption DEF OfBalance, RenderedSubs
  <2>2. QED
    BY <1>3, <2>1, EffectAsksBalance, AskingEstablishes
<1>4. CASE subs' = Unmounted(subs)
  BY <1>2, <1>4, AskingEstablishes DEF OfBalance
<1>5. CASE UNCHANGED <<accountVars, subs>>
  BY <1>5, BalanceUntouched DEF accountVars
<1>6. QED
  BY <1>3, <1>4, <1>5, RenderingRemounts

\* When another account is selected.
LEMMA SelectingSettles ==
    ASSUME TypeOK, BalanceInv, NEW account, SelectAccount(account)
    PROVE  BalanceInv'
<1>1. OfBalance(subs) \in SUBSET Subscriptions
  BY DEF TypeOK, OfBalance
<1>2. SUFFICES ASSUME NEW s \in OfBalance(subs')
               PROVE  \/ s.held = "leaked" /\ (s.due => s.stage = "standing")
                      \/ s.held = "effect" /\ s.of = account /\ s.stage = "asked" /\ ~s.due
  BY AskingEstablishes DEF SelectAccount
<1>3. s \in BalanceCleaned(OfBalance(subs)) \/ s \in BalanceAsked(account)
  BY <1>2, SessionAssumption DEF SelectAccount, OfBalance, OfCalls
<1>4. CASE s \in BalanceCleaned(OfBalance(subs))
  BY <1>1, <1>4, CleanupLeaks DEF BalanceInv
<1>5. CASE s \in BalanceAsked(account)
  BY <1>5, EffectAsksBalance
<1>6. QED
  BY <1>3, <1>4, <1>5

\* When a subscription stands, is refused, or is heard.
LEMMA HearingSettles ==
    ASSUME TypeOK, BalanceInv, NEW s \in subs, s.of \in Accounts,
           Stands(s) \/ Rejects(s) \/ Deliver(s)
    PROVE  BalanceInv'
<1>1. s \in Subscriptions /\ s \in OfBalance(subs) /\ subs \subseteq Subscriptions
  BY DEF TypeOK, OfBalance
<1>2. UNCHANGED <<accountSelected, balances>>
  BY DEF Stands, Rejects, Deliver, accountVars
<1>3. CASE Stands(s)
  <2> DEFINE t == [s EXCEPT !.stage = "standing", !.due = s.of \in Accounts]
  <2>1. \A due : LET r == [s EXCEPT !.stage = "standing", !.due = due]
                IN  r.of = s.of /\ r.held = s.held /\ r.stage = "standing" /\ r.due = due
    BY <1>1 DEF Subscriptions
  <2>2. t.of = s.of /\ t.held = s.held /\ t.stage = "standing" /\ t.due
    BY <2>1
  <2>3. subs' \subseteq (subs \ {s}) \cup {t} /\ s.stage = "asked" /\ accountBalance' = accountBalance
    BY <1>3 DEF Stands, accountVars
  <2>4. t \in subs'
    BY <1>1, <1>3, <2>2 DEF Stands, BalanceInv
  <2>5. subs' = (subs \ {s}) \cup {t}
    BY <1>3, <2>3, <2>4 DEF Stands
  <2> HIDE DEF t
  <2>6. OfBalance(subs') = (OfBalance(subs) \ {s}) \cup {t}
    BY <2>2, <2>5 DEF OfBalance
  <2>7. QED
    BY <1>1, <1>2, <2>2, <2>3, <2>6 DEF BalanceInv
<1>4. CASE Rejects(s)
  <2>1. OfBalance(subs') = OfBalance(subs) \ {s} /\ s.stage = "asked"
        /\ accountBalance' = accountBalance
    BY <1>4 DEF Rejects, OfBalance, accountVars
  <2>2. QED
    BY <1>2, <2>1 DEF BalanceInv
<1>5. CASE Deliver(s)
  <2> DEFINE t == [s EXCEPT !.due = FALSE]
  <2>1. t.of = s.of /\ t.held = s.held /\ t.stage = s.stage /\ ~t.due
    BY <1>1 DEF Subscriptions
  <2>2. subs' = (subs \ {s}) \cup {t} /\ accountBalance' = balances[s.of] /\ s.due
    BY <1>5 DEF Deliver
  <2> HIDE DEF t
  <2>3. OfBalance(subs') = (OfBalance(subs) \ {s}) \cup {t} /\ s.stage = "standing"
    BY <1>1, <2>1, <2>2 DEF OfBalance, BalanceInv
  <2>4. CASE s.held = "leaked"
    BY <1>1, <1>2, <2>1, <2>3, <2>4 DEF BalanceInv
  <2>5. CASE s.held = "effect" /\ s.of = accountSelected
    BY <1>1, <1>2, <2>1, <2>2, <2>3, <2>5 DEF BalanceInv
  <2>6. QED
    BY <1>1, <2>4, <2>5 DEF BalanceInv
<1>6. QED
  BY <1>3, <1>4, <1>5

\* When the chain changes a balance.
LEMMA ChangingSettles ==
    ASSUME TypeOK, BalanceInv, NEW account \in Accounts, NEW coins,
           BalanceChanges(account, coins)
    PROVE  BalanceInv'
<1>1. UNCHANGED <<accountSelected, accountBalance>> /\ subs \subseteq Subscriptions
  BY DEF BalanceChanges, accountVars, TypeOK
<1> DEFINE after(s) == [s EXCEPT !.due = s.due \/ (s.of = account /\ s.stage = "standing")]
<1>2. \A s \in subs : /\ after(s).of = s.of /\ after(s).held = s.held
                      /\ after(s).stage = s.stage
                      /\ after(s).due <=> s.due \/ (s.of = account /\ s.stage = "standing")
  BY <1>1 DEF Subscriptions
<1>3. subs' = {after(s) : s \in subs}
  BY DEF BalanceChanges
<1>4. \A a \in Accounts : a # account => balances'[a] = balances[a]
  BY DEF BalanceChanges, TypeOK
<1> HIDE DEF after
<1>5. \A t \in OfBalance(subs') : \E s \in OfBalance(subs) : t = after(s)
  BY <1>2, <1>3 DEF OfBalance
<1>6. \A s \in OfBalance(subs) : after(s) \in OfBalance(subs') /\ s \in subs /\ s.of \in Accounts
  BY <1>2, <1>3 DEF OfBalance
<1>7. \A t \in OfBalance(subs') :
         /\ t.held = "leaked" \/ (t.held = "effect" /\ t.of = accountSelected')
         /\ t.due => t.stage = "standing"
  BY <1>1, <1>2, <1>5, <1>6 DEF BalanceInv
<1>8. ASSUME \A t \in OfBalance(subs') : t.held = "leaked" => t.stage = "asked",
             NEW t \in OfBalance(subs'), t.stage = "standing", ~t.due
      PROVE  accountBalance' = balances'[t.of]
  <2>1. \A s \in OfBalance(subs) : s.held = "leaked" => s.stage = "asked"
    BY <1>2, <1>6, <1>8
  <2>2. PICK s \in OfBalance(subs) : t = after(s)
    BY <1>5, <1>8
  <2>3. s.stage = "standing" /\ ~s.due /\ s.of # account /\ t.of = s.of /\ s.of \in Accounts
    BY <1>2, <1>6, <1>8, <2>2
  <2>4. accountBalance = balances[s.of]
    BY <2>1, <2>3 DEF BalanceInv
  <2>5. QED
    BY <1>1, <1>4, <2>3, <2>4
<1>9. (\A t \in OfBalance(subs') : t.held = "leaked" => t.stage = "asked")
        => \A t \in OfBalance(subs') :
              t.stage = "standing" /\ ~t.due => accountBalance' = balances'[t.of]
  BY <1>8
<1>10. QED
  BY <1>7, <1>9 DEF BalanceInv

\* Once every subscription to a balance stands and has been heard, and none
\* leaked, the balance shown is that of the selected account.
THEOREM BalanceSettles == Spec => []BalanceSettled
<1>1. Init => BalanceInv
  BY DEF Init, BalanceInv, OfBalance
<1>2. TypeOK /\ BalanceInv /\ [Next]_vars => BalanceInv'
  <2> SUFFICES ASSUME TypeOK, BalanceInv, [Next]_vars PROVE BalanceInv'
    OBVIOUS
  <2>1. CASE Connect \/ Loaded \/ LoadFails \/ Disconnect \/ SocketError
               \/ \E keys \in {"READY", "ERROR"} : LoadAccounts(keys)
    <3>1. UNCHANGED balances /\ \E api, keys, again : Render(api, keys, again)
      BY <2>1 DEF Connect, Loaded, LoadFails, Disconnect, SocketError, LoadAccounts
    <3>2. QED
      BY <3>1, RenderingSettles
  <2>2. CASE \E account \in Accounts \cup {NoAccount} : SelectAccount(account)
    BY <2>2, SelectingSettles
  <2>3. ASSUME NEW p \in Pages, GoTo(p) PROVE BalanceInv'
    <3>1. OfCalls(subs) \in SUBSET Subscriptions
      BY DEF TypeOK, OfCalls
    <3>2. \A s \in CallsCleaned(OfCalls(subs)) \cup CallsTimed(p) : s.of \notin Accounts
      BY <3>1, CleanupEndsCalls, EffectTimesCalls, SessionAssumption DEF OfCalls
    <3>3. OfBalance(subs') = OfBalance(subs)
      BY <2>3, <3>2 DEF GoTo, OfBalance
    <3>4. QED
      BY <2>3, <3>3, BalanceUntouched DEF GoTo, accountVars
  <2>4. ASSUME NEW s \in subs, Timer(s) \/ Stands(s) \/ Rejects(s) \/ Deliver(s)
        PROVE  BalanceInv'
    <3>1. s \in Subscriptions
      BY DEF TypeOK
    <3>2. CASE s.of \in Accounts /\ ~Timer(s)
      BY <2>4, <3>2, HearingSettles
    <3>3. CASE Timer(s)
      <4>1. s.of \notin Accounts /\ [s EXCEPT !.stage = "asked"].of = s.of
        BY <3>1, <3>3, SessionAssumption DEF Subscriptions, Timer
      <4>2. OfBalance(subs') = OfBalance(subs)
        BY <3>3, <4>1 DEF Timer, OfBalance
      <4>3. QED
        BY <3>3, <4>2, BalanceUntouched DEF Timer, accountVars
    <3>4. CASE s.of \notin Accounts /\ (Stands(s) \/ Rejects(s) \/ Deliver(s))
      <4>1. \A due : [s EXCEPT !.stage = "standing", !.due = due].of = s.of
        BY <3>1 DEF Subscriptions
      <4>2. OfBalance(subs') = OfBalance(subs)
        BY <3>4, <4>1 DEF Stands, Rejects, Deliver, OfBalance
      <4>3. QED
        BY <3>4, <4>2, BalanceUntouched DEF Stands, Rejects, Deliver, accountVars
    <3>5. QED
      BY <2>4, <3>2, <3>3, <3>4
  <2>5. CASE \E account \in Accounts, coins \in Balances : BalanceChanges(account, coins)
    BY <2>5, ChangingSettles
  <2>6. CASE UNCHANGED vars
    BY <2>6, BalanceUntouched DEF vars, accountVars
  <2>7. QED
    BY <2>1, <2>2, <2>3, <2>4, <2>5, <2>6 DEF Next
<1>3. TypeOK /\ BalanceInv => BalanceSettled
  <2> SUFFICES ASSUME TypeOK, BalanceInv, NEW s \in subs, s.of = accountSelected,
                      \A t \in OfBalance(subs) : t.stage = "standing" /\ ~t.due /\ t.held # "leaked"
               PROVE  accountBalance = balances[accountSelected]
    BY DEF BalanceSettled
  <2>1. s \in OfBalance(subs)
    BY SessionAssumption DEF TypeOK, Subscriptions, OfBalance
  <2>2. QED
    BY <2>1 DEF BalanceInv
<1>4. QED
  BY <1>1, <1>2, <1>3, TypeCorrect, PTL DEF Spec

=============================================================================
