------------------------------ MODULE TxButton ------------------------------
(***************************************************************************)
(* The buttons of the UI that call the node (TxButton.js): the group of    *)
(* three for an extrinsic, or a single one.  Each click starts an          *)
(* asynchronous call whose handlers set the status of the page around the  *)
(* buttons, which they share.  The function that ends a button's last call *)
(* is kept in the unsub of that button, but only from the moment the call  *)
(* is established: a click before that starts a second call beside it.     *)
(***************************************************************************)
EXTENDS Naturals, FiniteSets

CONSTANT MaxClicks      \* bound: clicks that do something

ASSUME MaxClicksAssumption == MaxClicks \in Nat

VARIABLES
    type,       \* the types of the buttons that are shown
    accountPair,\* the account: "none", "local" or "injected" by an extension
    unsub,      \* of each button: 0, the call it ends, or Promise
    calls,      \* the calls, by the click that started them
    clicks,
    status,     \* the status shown: its text, and the click it is about
    early       \* history, of each button: clicks while a call was under way

buttonVars == <<type, accountPair, unsub, calls, clicks, status, early>>

SudoTypes == {"SUDO-TX", "UNCHECKED-SUDO-TX"}
SignedTypes == SudoTypes \cup {"SIGNED-TX"}
TxTypes == SignedTypes \cup {"UNSIGNED-TX"}
ButtonTypes == TxTypes \cup {"QUERY", "RPC", "CONSTANT"}

\* The instances of TxButton: those of TxGroupButton, each with its own
\* states, or the only one.
Group == {"UNSIGNED-TX", "SIGNED-TX", "SUDO-TX"}
Instances == Group \cup {"single"}

\* unsub when signAndSend was not awaited.
Promise == MaxClicks + 1

\* A call waits for the signer of its account, has been sent to the node, is
\* established, or can set the status no more.  It knows the button that
\* started it, which may be gone.
CallStages == {"account", "sent", "live", "over"}
Call(b, stage) == [type |-> type[b], stage |-> stage, at |-> b]
Showing(text, id) == [text |-> text, about |-> id]
StatusTexts == {"", "Sending", "Failed", "Reported", "Finalized"}

ButtonTypeOK ==
    /\ type \in UNION {[bs -> ButtonTypes] : bs \in {Group, {"single"}}}
    /\ accountPair \in {"none", "local", "injected"}
    /\ unsub \in [Instances -> 0..Promise]
    /\ clicks \in 0..MaxClicks
    /\ calls \in [1..clicks -> [type : ButtonTypes, stage : CallStages,
                                at : Instances \cup {"gone"}]]
    /\ status \in [text : StatusTexts, about : 0..clicks]
    /\ early \in [Instances -> 0..clicks]

ButtonInit ==
    /\ accountPair \in {"none", "local", "injected"}
    /\ unsub = [b \in Instances |-> 0]
    /\ calls = << >> /\ clicks = 0
    /\ status = Showing("", 0)
    /\ early = [b \in Instances |-> 0]

-----------------------------------------------------------------------------
(* Clicks *)

\* Mutant: the former call is forgotten, not ended.
EndedNot(id) == calls

\* unsub().
Ended(id) == IF id \in DOMAIN calls THEN [calls EXCEPT ![id].stage = "over"] ELSE calls

\* Where the new call may stand when the click has been handled.  Without an
\* account getFromAcct throws, and arguments that cannot be encoded throw: the
\* status stays "Sending...".
FirstStages(t) ==
    CASE t = "CONSTANT" -> {"over"}
      [] t \in SignedTypes /\ accountPair = "none" -> {"over"}
      [] t \in SignedTypes /\ accountPair = "injected" -> {"account"}
      [] t \in {"QUERY", "RPC"} -> {"sent"}
      [] OTHER -> {"sent", "over"}

\* What a call that is sent leaves in unsub: sudoTx and uncheckedSudoTx keep
\* the promise of signAndSend.
SentUnsub(t, former) == IF t \in SudoTypes THEN Promise ELSE former

CallsAt(b) == {id \in 1..clicks : calls[id].at = b}
Live(b) == {id \in CallsAt(b) : calls[id].stage = "live"}
UnderWay(b) == {id \in CallsAt(b) : calls[id].stage \in {"account", "sent"}}

\* isSudoer: the account may be the one of the sudo key.
Disabled(b) == type[b] \in SudoTypes /\ accountPair = "none"

\* transaction.  With a promise in unsub it throws before it does anything.
Click(b, stage) ==
    /\ clicks < MaxClicks /\ ~Disabled(b)
    /\ stage \in FirstStages(type[b])
    /\ unsub[b] # Promise
    /\ clicks' = clicks + 1
    /\ calls' = [id \in 1..clicks + 1 |->
                    IF id \in 1..clicks THEN Ended(unsub[b])[id] ELSE Call(b, stage)]
    /\ unsub' = [unsub EXCEPT ![b] = IF stage = "sent" THEN SentUnsub(type[b], 0) ELSE 0]
    /\ status' = Showing(IF type[b] = "CONSTANT" THEN "Reported" ELSE "Sending", clicks')
    /\ early' = IF UnderWay(b) = {} THEN early ELSE [early EXCEPT ![b] = @ + 1]
    /\ UNCHANGED <<type, accountPair>>

-----------------------------------------------------------------------------
(* The calls *)

Proceed(id, stage) == calls' = [calls EXCEPT ![id].stage = stage]

\* setUnsub of the button of a call; when it is gone it has no effect.
SetUnsub(id, value) ==
    unsub' = [b \in Instances |-> IF b = calls[id].at THEN value ELSE unsub[b]]

\* The extension hands over the signer, and the transaction is sent.
SignerFound(id) ==
    /\ calls[id].stage = "account"
    /\ Proceed(id, "sent")
    /\ IF calls[id].type \in SudoTypes THEN SetUnsub(id, Promise) ELSE UNCHANGED unsub
    /\ UNCHANGED <<type, accountPair, clicks, status, early>>

\* web3FromSource rejects, or the arguments throw, which nobody handles.
SignerMissing(id) ==
    /\ calls[id].stage = "account"
    /\ Proceed(id, "over")
    /\ UNCHANGED <<type, accountPair, unsub, clicks, status, early>>

\* The subscription stands: what was awaited goes to unsub.
Established(id) ==
    /\ calls[id].stage = "sent"
    /\ Proceed(id, "live")
    /\ IF calls[id].type \in SudoTypes THEN UNCHANGED unsub ELSE SetUnsub(id, id)
    /\ UNCHANGED <<type, accountPair, clicks, status, early>>

\* Mutant: the rejection of a transaction is not caught.
RejectedUnseen(id) == status

\* txErrHandler; the rejection of a query or of an RPC is nobody's.
Rejected(id) ==
    IF calls[id].type \in TxTypes THEN Showing("Failed", id) ELSE status

\* The node refuses.  What txErrHandler returns goes to unsub.
Refused(id) ==
    /\ calls[id].stage = "sent"
    /\ Proceed(id, "over")
    /\ status' = Rejected(id)
    /\ IF calls[id].type \in {"SIGNED-TX", "UNSIGNED-TX"} THEN SetUnsub(id, 0)
       ELSE UNCHANGED unsub
    /\ UNCHANGED <<type, accountPair, clicks, early>>

\* txResHandler, queryResHandler.
Report(id) ==
    /\ calls[id].stage = "live"
    /\ status' = Showing("Reported", id)
    /\ UNCHANGED <<type, accountPair, unsub, calls, clicks, early>>

\* The last status of a transaction.
Finalized(id) ==
    /\ calls[id].stage = "live" /\ calls[id].type \in TxTypes
    /\ Proceed(id, "over")
    /\ status' = Showing("Finalized", id)
    /\ UNCHANGED <<type, accountPair, unsub, clicks, early>>

Answers(id) == Established(id) \/ Refused(id)
Reports(id) == Report(id) \/ Finalized(id)

ButtonNext ==
    \/ \E b \in DOMAIN type, stage \in CallStages : Click(b, stage)
    \/ \E id \in 1..clicks : SignerFound(id) \/ SignerMissing(id)
    \/ \E id \in 1..clicks : Answers(id) \/ Reports(id)

\* The page shows buttons of these types.  The single button keeps its states
\* when its type changes.  Group and single button replace each other: the new
\* ones start without an unsub, while the calls of the former go on and set
\* the status.
Retype(types) ==
    /\ type' = types
    /\ IF DOMAIN types = DOMAIN type
       THEN UNCHANGED <<unsub, calls, early>>
       ELSE /\ unsub' = [b \in Instances |-> 0]
            /\ calls' = [id \in 1..clicks |-> [calls[id] EXCEPT !.at = "gone"]]
            /\ early' = [b \in Instances |-> 0]
    /\ UNCHANGED <<accountPair, clicks, status>>

-----------------------------------------------------------------------------
(* Properties *)

\* A button leaves at most one call subscribed to, and one more for each click
\* that came while a call of its own was under way, whatever mixture of calls
\* was answered, refused or ended in whatever order; without such a click it
\* is the call of its last click.  The calls of the other buttons of a group
\* are not ended: only when one button got all the clicks, and none early, is
\* the status shown about the last of them.
WatchesLatest ==
    /\ \A b \in DOMAIN type :
          /\ Cardinality(Live(b)) <= 1 + early[b]
          /\ early[b] = 0 => \A id \in Live(b), later \in CallsAt(b) : later <= id
    /\ \A b \in DOMAIN type :
          early[b] = 0 /\ CallsAt(b) = 1..clicks => status.about = clicks

\* A transaction that was sent does not leave "Sending..." on the page:
\* whether the node takes it or refuses it, the status changes.
SendingEnds ==
    \A id \in 1..MaxClicks :
        /\ id \in 1..clicks
        /\ calls[id].type \in TxTypes /\ calls[id].stage = "sent"
        /\ status = Showing("Sending", id)
        ~> status # Showing("Sending", id)

=============================================================================
