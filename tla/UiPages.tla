------------------------------ MODULE UiPages -------------------------------
(***************************************************************************)
(* The pages of the UI with forms of their own, one of which App's routes  *)
(* mount at a time: a page starts from its initial states and is gone with *)
(* its states when another is mounted.  The interactor is composed with    *)
(* its TxButtons; the balances page is checked in two halves, the amounts  *)
(* typed and the balances subscribed to, that share only the balances      *)
(* shown.                                                                  *)
(***************************************************************************)
EXTENDS TxButton, Interactor, TransferAmounts, TransferStarts, DemocracyModals

VARIABLE page

vars == <<page, buttonVars, interactorVars, amountsVars, startsVars, modalVars>>

Pages == {"interactor", "amounts", "balances", "democracy"}

TypeOK ==
    /\ page \in Pages
    /\ ButtonTypeOK /\ InteractorTypeOK /\ AmountsTypeOK /\ StartsTypeOK /\ ModalTypeOK

\* The states of the pages that are not mounted play no part.
Init ==
    /\ page \in Pages
    /\ InteractorInit /\ ButtonInit /\ type = Submits(interxType)
    /\ AmountsInit /\ StartsInit /\ ModalInit
    /\ page # "interactor" => accountPair = "none"
    /\ page # "democracy" => modal = "vote"

-----------------------------------------------------------------------------
(* The interactor with the buttons it renders *)

FormChanges ==
    /\ InteractorNext
    /\ IF interxType' = interxType THEN UNCHANGED buttonVars
       ELSE Retype(Submits(interxType'))

ButtonWorks ==
    /\ ButtonNext
    /\ clicks' # clicks => SubmitEnabled
    /\ UNCHANGED interactorVars

InteractorPage ==
    /\ page = "interactor"
    /\ FormChanges \/ ButtonWorks
    /\ UNCHANGED <<page, amountsVars, startsVars, modalVars>>

-----------------------------------------------------------------------------
(* The other pages *)

AmountsPage ==
    /\ page = "amounts"
    /\ AmountsNext
    /\ UNCHANGED <<page, buttonVars, interactorVars, startsVars, modalVars>>

BalancesPage ==
    /\ page = "balances"
    /\ StartsNext
    /\ UNCHANGED <<page, buttonVars, interactorVars, amountsVars, modalVars>>

DemocracyPage ==
    /\ page = "democracy"
    /\ ModalNext
    /\ UNCHANGED <<page, buttonVars, interactorVars, amountsVars, startsVars>>

Next == InteractorPage \/ AmountsPage \/ BalancesPage \/ DemocracyPage

\* The node answers what it is asked, and reports on a transaction it took.
OfCall(id, step) ==
    /\ page = "interactor" /\ id \in 1..clicks /\ step
    /\ UNCHANGED <<page, interactorVars, amountsVars, startsVars, modalVars>>

OfTx(id) ==
    /\ page = "democracy"
    /\ \E tx \in txs : tx.id = id /\ TxAnswered(tx)
    /\ UNCHANGED <<page, buttonVars, interactorVars, amountsVars, startsVars>>

Fairness ==
    /\ \A id \in 1..MaxClicks :
          WF_vars(OfCall(id, Answers(id))) /\ WF_vars(OfCall(id, Reports(id)))
    /\ \A id \in 1..MaxSubmitted : WF_vars(OfTx(id))

Spec == Init /\ [][Next]_vars /\ Fairness

=============================================================================
