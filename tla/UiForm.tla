------------------------------- MODULE UiForm -------------------------------
(***************************************************************************)
(* The certificate forms of the UI (GettersAndSetters.js, SiipCommon.js):  *)
(* one set of input fields shared by the cards Register, Modify and        *)
(* Delete.  Every render asks the node to validate every field, with a     *)
(* closure over the verdicts of that render; every change of the domain    *)
(* adds a subscription to its certificate that is never ended.  Answers    *)
(* come in any order, or not at all.  The chain is NameService, where      *)
(* others register too.                                                    *)
(***************************************************************************)
EXTENDS FiniteSets, Naturals

CONSTANTS
    Fields, Domain,     \* the validated fields, Domain the one of the name
    DomainTexts,        \* what can be typed as the domain
    FieldTexts,         \* what can be typed into the other fields
    Empty,              \* the empty text of every field at first
    Blanks,             \* the texts of spaces only, which trim() empties
    Domains,            \* what check_domain accepts
    FieldValues,        \* what the checks of the other fields accept
    Users, Me,          \* who calls the pallet, and whose form this is
    Free, Nobody,       \* no certificate; nothing looked up yet
    MaxInFlight         \* bound: requests in flight while the user types

ASSUME FieldsAssumption == Domain \in Fields /\ IsFiniteSet(Fields)
ASSUME UsersAssumption == Me \in Users
ASSUME TextsAssumption ==
    /\ Domains \subseteq DomainTexts \ (Blanks \cup {Empty})
    /\ FieldValues \subseteq FieldTexts
ASSUME NobodyAssumption == Nobody \notin DomainTexts \cup {Empty}
ASSUME BoundsAssumption == MaxInFlight \in Nat

VARIABLES
    holding,        \* the chain: domain -> Free or holder and the other fields
    input,          \* inputDomain, inputName, ...
    validity,       \* domainValidity, ...: "" before the first answer
    allFieldsValid,
    requests,       \* validation requests in flight
    failed,         \* history: a request failed since the last render
    watched,        \* domains whose certificate is subscribed to
    due,            \* what was typed as a domain and has a value on its way
    shown, domainExists,    \* the db* states as one certificate
    about,          \* history: the domain whose certificate is shown
    overtaken       \* history: an older domain's value came after that of
                    \* the domain in the form

form == <<input, validity, allFieldsValid, requests, failed>>
lookup == <<watched, due, shown, domainExists, about, overtaken>>
vars == <<holding, form, lookup>>

Texts == DomainTexts \cup FieldTexts \cup {Empty}
Others == Fields \ {Domain}
Service == INSTANCE NameService WITH
    Holders <- Users, NameSet <- Domains,
    Bindings <- [Others -> FieldValues]

\* storage of a map with a default: every text has a value.
CertificateOf(d) == IF d \in Domains THEN holding[d] ELSE Free

Accepts(f, t) == IF f = Domain THEN t \in Domains ELSE t \in FieldValues

\* Mutant: the node does not know the method of a field, as with validate_tip.
VerdictUndefined(f, t) ==
    IF f # Domain THEN "undefined" ELSE IF Accepts(f, t) THEN "Ok" ELSE "Err"

Verdict(f, t) == IF Accepts(f, t) THEN "Ok" ELSE "Err"
Trimmed(t) == IF t \in Blanks THEN Empty ELSE t

\* A request for a verdict on a text.  fine is what updateValidity of the
\* asking render will find, "none" for a request of onChange, which does not
\* call it.
Requests == [field : Fields, text : Texts, fine : {"valid", "invalid", "none"}]

\* updateValidity: no verdict includes 'Err:'.
NoErr(v) == \A f \in Fields : v[f] # "Err"
Finding(v) == IF NoErr(v) THEN "valid" ELSE "invalid"

\* Mutant: only what has no verdict yet is asked for.
AskedOnce(inp, v) ==
    {[field |-> f, text |-> inp[f], fine |-> Finding(v)] : f \in {g \in Fields : v[g] = ""}}

\* What the body of the component asks whenever it is rendered.
Asked(inp, v) ==
    {[field |-> f, text |-> inp[f], fine |-> Finding(v)] : f \in Fields}

TypeOK ==
    /\ holding \in [Domains -> {Free} \cup Service!Holdings]
    /\ input \in [Fields -> Texts] /\ input[Domain] \in DomainTexts \cup {Empty}
    /\ validity \in [Fields -> {"", "Ok", "Err"}]
    /\ allFieldsValid \in BOOLEAN /\ failed \in BOOLEAN
    /\ requests \subseteq Requests
    /\ watched \subseteq Domains /\ due \subseteq DomainTexts
    /\ shown \in {Free} \cup Service!Holdings
    /\ domainExists \in BOOLEAN
    /\ about \in DomainTexts \cup {Nobody} /\ overtaken \in BOOLEAN

Init ==
    /\ Service!ServiceInit
    /\ input = [f \in Fields |-> Empty]
    /\ validity = [f \in Fields |-> ""]
    /\ allFieldsValid = FALSE
    /\ requests = Asked(input, validity)
    /\ failed = FALSE
    /\ watched = {} /\ due = {}
    /\ shown = Free /\ domainExists = FALSE
    /\ about = Nobody /\ overtaken = FALSE

-----------------------------------------------------------------------------
(* Rendering *)

\* The component is rendered with what the handler has set, after the
\* requests in rest.
Render(rest) ==
    /\ requests' = rest \cup Asked(input', validity')
    /\ failed' = FALSE

\* React renders when a state changed; when it was set to what it is, React
\* may render once more.
MayRender(rest, changed) ==
    \/ Render(rest)
    \/ /\ ~changed
       /\ requests' = rest
       /\ UNCHANGED failed

-----------------------------------------------------------------------------
(* Typing *)

OnChange(f, t) ==
    /\ Cardinality(requests) <= MaxInFlight
    /\ t # input[f]
    /\ input' = [input EXCEPT ![f] = t]
    /\ UNCHANGED <<validity, allFieldsValid>>
    /\ Render(requests \cup {[field |-> f, text |-> t, fine |-> "none"]})

\* updateInputName and its likes.
EditField(f, t) ==
    /\ f \in Others
    /\ OnChange(f, t)
    /\ UNCHANGED <<holding, lookup>>

\* Mutant: a domain that is subscribed to is not subscribed to again.
AskedOnceFor(t) == due \cup ({t} \ watched)

\* updateDb subscribes to the certificate of what is typed, and to that of a
\* domain typed before once more.
AskedFor(t) == due \cup {t}

\* updateInputDomain.  A text that is no domain never has a certificate: its
\* first value is the only one.
EditDomain(t) ==
    /\ OnChange(Domain, t)
    /\ watched' = watched \cup ({t} \cap Domains)
    /\ due' = AskedFor(t)
    /\ overtaken' = FALSE
    /\ UNCHANGED <<holding, shown, domainExists, about>>

\* updateInputTip, reverseLookup and its results (two elements are never the
\* same object) set states nothing here depends on: the component is rendered.
RenderAgain ==
    /\ UNCHANGED <<input, validity, allFieldsValid>>
    /\ Render(requests)
    /\ UNCHANGED <<holding, lookup>>

-----------------------------------------------------------------------------
(* Answers of the validation requests *)

\* The verdict is set, then updateValidity sets what it found when the asking
\* component was rendered.  Copies of r may stay in flight.
Answer(r) ==
    /\ r \in requests
    /\ validity' = [validity EXCEPT ![r.field] = Verdict(r.field, r.text)]
    /\ allFieldsValid' = IF r.fine = "none" THEN allFieldsValid ELSE r.fine = "valid"
    /\ UNCHANGED <<holding, input, lookup>>
    /\ \E rest \in {requests, requests \ {r}} :
          MayRender(rest, <<validity, allFieldsValid>>' # <<validity, allFieldsValid>>)

\* fetch or json() rejects: nobody handles it.
Fail(r) ==
    /\ r \in requests
    /\ requests' = requests \ {r}
    /\ failed' = TRUE
    /\ UNCHANGED <<holding, input, validity, allFieldsValid, lookup>>

-----------------------------------------------------------------------------
(* Certificates *)

\* queryResHandler of updateDb, for a subscription to d, whatever the domain
\* in the form is by now.  Other subscriptions to d may still have to tell.
Deliver(d) ==
    /\ d \in due
    /\ due' \in {due, due \ {d}}
    /\ shown' = CertificateOf(d)
    /\ domainExists' = (CertificateOf(d) # Free)
    /\ about' = d
    /\ overtaken' = (d # input[Domain] /\ (overtaken \/ input[Domain] \notin due))
    /\ UNCHANGED <<input, validity, allFieldsValid>>
    /\ MayRender(requests, <<shown, domainExists>>' # <<shown, domainExists>>)
    /\ UNCHANGED <<holding, watched>>

\* The node tells every subscription to a domain whose certificate changed.
Notify == due' = due \cup {d \in watched : holding'[d] # holding[d]}

\* A block includes an extrinsic of anybody: of this user too, submitted
\* earlier from this form.
ChainMoves ==
    /\ Service!ServiceNext
    /\ Notify
    /\ UNCHANGED <<form, watched, shown, domainExists, about, overtaken>>

-----------------------------------------------------------------------------
(* Submitting *)

\* Mutant: Register is offered whatever the verdicts are.
CardEnabledUnvalidated(method) ==
    /\ domainExists = (method # "Register")
    /\ method = "Modify" => allFieldsValid

\* The enableButton of the cards.
CardEnabled(method) ==
    /\ domainExists = (method # "Register")
    /\ IF method = "Delete" THEN validity[Domain] # "" ELSE allFieldsValid

\* SubmitButton: what the call of the card takes.
ParamFields(method) == IF method = "Delete" THEN {Domain} ELSE Fields

\* allParamsFilled of its TxButton.
AllParamsFilled(method) == \A f \in ParamFields(method) : input[f] # Empty

Enabled(method) == CardEnabled(method) /\ AllParamsFilled(method)

\* The parameters as TxButton sends them.
Params == [f \in Fields |-> Trimmed(input[f])]
BindingOf(params) == [f \in Others |-> params[f]]

\* Whether the pallet takes the call of this user now.
Succeeds(method) ==
    LET d == Params[Domain]
    IN  /\ \A f \in ParamFields(method) : Accepts(f, Params[f])
        /\ IF method = "Register" THEN holding[d] = Free
           ELSE holding[d] # Free /\ holding[d].holder = Me
        /\ method = "Modify" => holding[d].binding # BindingOf(Params)

\* The button is clicked and the extrinsic included in the next block (in a
\* later one: ChainMoves).  When the pallet refuses it nothing changes.
Submit(method) ==
    /\ Enabled(method)
    /\ IF Succeeds(method)
       THEN LET d == Params[Domain]
            IN  CASE method = "Register" -> Service!Claim(Me, d, BindingOf(Params))
                  [] method = "Modify"   -> Service!Rebind(Me, d, BindingOf(Params))
                  [] method = "Delete"   -> Service!Release(Me, d)
       ELSE UNCHANGED holding
    /\ Notify
    /\ UNCHANGED <<form, watched, shown, domainExists, about, overtaken>>

Next ==
    \/ \E f \in Others, t \in FieldTexts : EditField(f, t)
    \/ \E t \in DomainTexts : EditDomain(t)
    \/ RenderAgain
    \/ \E r \in requests : Answer(r)
    \/ \E r \in requests : Fail(r)
    \/ \E d \in due : Deliver(d)
    \/ ChainMoves
    \/ \E method \in {"Register", "Modify", "Delete"} : Submit(method)

Spec == Init /\ [][Next]_vars

-----------------------------------------------------------------------------
(* Properties *)

\* When every request of the last render has been answered, each verdict is
\* the one on the text in the field, and allFieldsValid says whether all are
\* accepted, however many answers came late, in whatever order, and to
\* whatever older text: an answer that changes anything renders, and a render
\* asks again.
Settled ==
    requests = {} /\ ~failed =>
        /\ \A f \in Fields : validity[f] = Verdict(f, input[f])
        /\ allFieldsValid = \A f \in Fields : Accepts(f, input[f])

\* With nothing on its way for it, the certificate shown is that of its domain
\* as it is on the chain; and its domain is the one in the form once that has
\* been told of, unless an older domain, whose subscription is never ended,
\* was told of later.
LookupCurrent ==
    /\ about # Nobody /\ about \notin due =>
          shown = CertificateOf(about) /\ domainExists = (shown # Free)
    /\ input[Domain] \notin due /\ ~overtaken =>
          about = input[Domain] \/ (about = Nobody /\ input[Domain] = Empty)

\* Then the buttons agree with the pallet: Register and Modify are offered
\* when the domain whose certificate is shown is free, or taken, and that is
\* the domain in the form as long as no older one was told of later (when it
\* was, Register may be offered for a taken domain).  In all cases their
\* fields are those the pallet accepts after TxButton has trimmed them, except
\* that a name of spaces, which the node finds valid, is sent as an empty one.
ButtonsTellTheChain ==
    requests = {} /\ ~failed =>
        \A method \in {"Register", "Modify"} : Enabled(method) =>
            /\ about \notin due =>
                  (method = "Register") = (CertificateOf(about) = Free)
            /\ input[Domain] \notin due /\ ~overtaken =>
                  (method = "Register") = (CertificateOf(input[Domain]) = Free)
            /\ \A f \in Fields : input[f] \notin Blanks => Accepts(f, Trimmed(input[f]))

=============================================================================
