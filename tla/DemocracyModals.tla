-------------------------- MODULE DemocracyModals ---------------------------
(***************************************************************************)
(* The modals of the democracy page: VoteModal, ProposalModal and          *)
(* PreimageModal.  A modal submits with a TxButton, whose statuses set a   *)
(* state of the modal and close it; closing removes the button, but not    *)
(* its subscription, so later statuses of a transaction meet a modal that  *)
(* was reopened for another.                                               *)
(***************************************************************************)
EXTENDS FiniteSets, Naturals

CONSTANTS
    HexTexts,       \* what can be typed as the hash and has an even length
    OddTexts,       \* what can be typed and has not
    EmptyText,      \* nothing typed: no digits, so even
    NoBytes,        \* preimageHashBytes before anything was typed
    Files,          \* what can be dropped into the preimage modal
    MaxSubmitted    \* bound: transactions

ASSUME HexAssumption == EmptyText \in HexTexts /\ NoBytes \notin HexTexts
ASSUME SubmittedAssumption == MaxSubmitted \in Nat

VARIABLES
    modal,          \* "vote", "proposal" or "preimage"
    isOpen,
    preimageHash,   \* the text typed
    preimageHashBytes,  \* by the text they are of
    reading, preimage,  \* files being read; the file read, or NoBytes
    txStatus,       \* the status of the modal; a vote has none
    txs,            \* the transactions under way, by their number
    txUnsub,          \* the transaction the next click of a button ends, or 0
    threw           \* history: the last click came to nothing

fieldVars == <<preimageHash, preimageHashBytes, reading, preimage>>
modalVars == <<modal, isOpen, fieldVars, txStatus, txs, txUnsub, threw>>

Buttons == {"aye", "nay", "submit"}
ButtonsOf(m) == IF m = "vote" THEN {"aye", "nay"} ELSE {"submit"}

\* A transaction is on its way to the node, is watched, or has reported its
\* stage.  It was clicked at a button, "gone" when that was removed.
TxStages == {"Sent", "Watched", "Future", "Ready", "InBlock"}
TxStatuses == {"none", "Sending", "Failed", "Future", "Ready", "InBlock", "Finalized"}

ModalTypeOK ==
    /\ modal \in {"vote", "proposal", "preimage"} /\ isOpen \in BOOLEAN
    /\ preimageHash \in HexTexts \cup OddTexts
    /\ preimageHashBytes \in HexTexts \cup {NoBytes}
    /\ reading \subseteq Files /\ preimage \in Files \cup {NoBytes}
    /\ txStatus \in TxStatuses /\ threw \in BOOLEAN
    /\ txs \subseteq [id : 1..MaxSubmitted, stage : TxStages, at : Buttons \cup {"gone"}]
    /\ txUnsub \in [Buttons -> 0..MaxSubmitted]

ModalInit ==
    /\ modal \in {"vote", "proposal", "preimage"} /\ isOpen = FALSE
    /\ preimageHash = EmptyText /\ preimageHashBytes = NoBytes
    /\ reading = {} /\ preimage = NoBytes
    /\ txStatus = "none" /\ threw = FALSE
    /\ txs = {} /\ txUnsub = [b \in Buttons |-> 0]

-----------------------------------------------------------------------------
(* Opening, closing, filling in *)

Open ==
    /\ ~isOpen
    /\ isOpen' = TRUE
    /\ UNCHANGED <<modal, fieldVars, txStatus, txs, txUnsub, threw>>

\* The buttons go with the modal; what they watch goes on.
Unwatched(ts) == {[tx EXCEPT !.at = "gone"] : tx \in ts}

\* setClose, after txs became ts.  The bytes of a proposal stay.
SetClose(ts) ==
    /\ isOpen' = FALSE
    /\ preimageHash' = EmptyText
    /\ preimage' = NoBytes
    /\ txStatus' = "none"
    /\ txs' = Unwatched(ts)
    /\ txUnsub' = [b \in Buttons |-> 0]
    /\ threw' = FALSE

Cancel ==
    /\ isOpen
    /\ SetClose(txs)
    /\ UNCHANGED <<modal, preimageHashBytes, reading>>

\* hexStringToByteArr, or the bytes there were when it throws.
Decoded(text) == IF text \in HexTexts THEN text ELSE preimageHashBytes

TypeHash(text) ==
    /\ modal = "proposal" /\ isOpen
    /\ text # preimageHash
    /\ preimageHash' = text
    /\ preimageHashBytes' = Decoded(text)
    /\ UNCHANGED <<modal, isOpen, reading, preimage, txStatus, txs, txUnsub, threw>>

\* onDrop, and the onload of its reader, whenever that comes.
Drop(file) ==
    /\ modal = "preimage" /\ isOpen
    /\ reading' = reading \cup {file}
    /\ UNCHANGED <<modal, isOpen, preimageHash, preimageHashBytes, preimage,
                   txStatus, txs, txUnsub, threw>>

Load(file) ==
    /\ file \in reading
    /\ reading' = reading \ {file}
    /\ preimage' = file
    /\ UNCHANGED <<modal, isOpen, preimageHash, preimageHashBytes, txStatus,
                   txs, txUnsub, threw>>

-----------------------------------------------------------------------------
(* Submitting *)

\* disabled, and allParamsFilled of the button.
CanSubmit ==
    CASE modal = "vote"     -> TRUE
      [] modal = "proposal" -> txStatus # "Sending" /\ preimageHashBytes # NoBytes
      [] modal = "preimage" -> txStatus # "Sending" /\ preimage # NoBytes

\* A click on a button ends what it watched, and "Sending..." is set.
Submit(b, id) ==
    /\ isOpen /\ CanSubmit
    /\ \A tx \in txs : tx.id # id
    /\ txs' = {tx \in txs : tx.at # b \/ tx.id # txUnsub[b]}
                  \cup {[id |-> id, stage |-> "Sent", at |-> b]}
    /\ txUnsub' = [txUnsub EXCEPT ![b] = 0]
    /\ txStatus' = IF modal = "vote" THEN txStatus ELSE "Sending"
    /\ threw' = FALSE
    /\ UNCHANGED <<modal, isOpen, fieldVars>>

\* There is no account, its signer is missing, or the balance typed is no
\* number: nothing is sent, and nobody hears of it.
TxThrows(tx) ==
    /\ tx.stage = "Sent"
    /\ txs' = txs \ {tx}
    /\ threw' = (threw \/ tx.at # "gone")
    /\ UNCHANGED <<modal, isOpen, fieldVars, txStatus, txUnsub>>

\* setUnsub; of a button that is gone it has no effect.
UnsubAfter(tx, id) == IF tx.at \in Buttons THEN [txUnsub EXCEPT ![tx.at] = id] ELSE txUnsub

TxWatched(tx) ==
    /\ tx.stage = "Sent"
    /\ txs' = (txs \ {tx}) \cup {[tx EXCEPT !.stage = "Watched"]}
    /\ txUnsub' = UnsubAfter(tx, tx.id)
    /\ UNCHANGED <<modal, isOpen, fieldVars, txStatus, threw>>

\* setStatus closes the modal.
Closes(status) ==
    status \in IF modal = "vote" THEN {"Ready"} ELSE {"Ready", "InBlock"}

\* Mutant: the failure of a transaction is not caught.
ShownNotFailed(status) == IF status = "Failed" THEN txStatus ELSE status

\* What setTxStatus is called with.
Shown(status) == status

\* setStatus of the modal.
SetStatus(status, rest, unsubAfter) ==
    /\ IF Closes(status)
       THEN SetClose(rest)
       ELSE /\ txStatus' = IF modal = "vote" THEN txStatus ELSE Shown(status)
            /\ txs' = rest
            /\ txUnsub' = unsubAfter
            /\ UNCHANGED <<isOpen, preimageHash, preimage, threw>>
    /\ UNCHANGED <<modal, preimageHashBytes, reading>>

\* A transaction may have to wait for an earlier nonce before it is ready.
NextStatus(stage) ==
    CASE stage = "Sent"    -> {}
      [] stage = "Watched" -> {"Future", "Ready"}
      [] stage = "Future"  -> {"Ready"}
      [] stage = "Ready"   -> {"InBlock"}
      [] stage = "InBlock" -> {"Finalized"}

\* txResHandler; nothing follows the last status.
TxReports(tx) ==
    \E status \in NextStatus(tx.stage) :
        LET next == {[tx EXCEPT !.stage = status] : s \in {status} \ {"Finalized"}}
        IN  SetStatus(status, (txs \ {tx}) \cup next, txUnsub)

\* txErrHandler.
TxFails(tx) ==
    tx.stage = "Sent" /\ SetStatus("Failed", txs \ {tx}, UnsubAfter(tx, 0))

\* The node takes or refuses a transaction that reaches it, and reports.
TxAnswered(tx) == TxThrows(tx) \/ TxWatched(tx) \/ TxFails(tx) \/ TxReports(tx)

ModalNext ==
    \/ Open \/ Cancel
    \/ \E text \in HexTexts \cup OddTexts : TypeHash(text)
    \/ \E file \in Files : Drop(file)
    \/ \E file \in reading : Load(file)
    \/ \E b \in ButtonsOf(modal), id \in 1..MaxSubmitted : Submit(b, id)
    \/ \E tx \in txs : TxAnswered(tx)

-----------------------------------------------------------------------------
(* Properties *)

\* The submit button does not stay disabled: "Sending..." is the status of a
\* transaction that has reported nothing yet and will, whatever older
\* transactions report, and however often the modal was closed, unless the
\* click itself came to nothing.
DisabledMeansSending ==
    modal # "vote" /\ txStatus = "Sending" =>
        threw \/ \E tx \in txs : tx.stage \in {"Sent", "Watched"} /\ tx.at = "submit"


=============================================================================
