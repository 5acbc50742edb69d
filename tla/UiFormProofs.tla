---------------------------- MODULE UiFormProofs ----------------------------
(***************************************************************************)
(* What the certificate forms promise, for any number of fields, texts,    *)
(* users and requests in flight.                                           *)
(***************************************************************************)
EXTENDS UiForm, TLAPS

\* The request a render with the present input and verdicts makes for f.
Pending(f) == [field |-> f, text |-> input[f], fine |-> Finding(validity)]

\* Why the verdicts settle: unless a request failed, a verdict that is not the
\* one on the text in the field is being asked for, and as long as
\* allFieldsValid may be wrong every request of the last render is in flight.
FormInv ==
    ~failed =>
        /\ \A f \in Fields :
              Pending(f) \in requests \/ validity[f] = Verdict(f, input[f])
        /\ \/ \A f \in Fields : Pending(f) \in requests
           \/ allFieldsValid = NoErr(validity)

\* Why the certificate shown is current: its domain is subscribed to, and
\* whatever the chain changed is on its way; and as every change of the domain
\* asks for it, its value has come last or another's has come later.
LookupInv ==
    /\ domainExists = (shown # Free)
    /\ due \cap Domains \subseteq watched
    /\ about \in Domains => about \in watched
    /\ about # Nobody /\ about \notin due => shown = CertificateOf(about)
    /\ about = Nobody => shown = Free
    /\ input[Domain] \notin due /\ ~overtaken =>
          about = input[Domain] \/ (about = Nobody /\ input[Domain] = Empty)

-----------------------------------------------------------------------------
(* Rendering *)

\* Pending of the next state, by its definition.
LEMMA PendingPrime ==
    {Pending(f)' : f \in Fields} = Asked(input', validity')
BY DEF Pending, Asked

\* After a render everything is being asked for.
LEMMA RenderEstablishes ==
    ASSUME NEW rest, Render(rest)
    PROVE  FormInv'
<1>1. \A f \in Fields : Pending(f)' \in requests'
  BY DEF Render, Pending, Asked
<1> QED BY <1>1 DEF FormInv

\* A render asks what can be answered.
LEMMA AskedType ==
    ASSUME NEW inp \in [Fields -> Texts], NEW v
    PROVE  Asked(inp, v) \subseteq Requests
BY DEF Asked, Requests, Finding

\* A render keeps the types.
LEMMA RenderType ==
    ASSUME NEW rest, rest \subseteq Requests, Render(rest),
           input' \in [Fields -> Texts]
    PROVE  requests' \subseteq Requests /\ failed' \in BOOLEAN
BY AskedType DEF Render

\* A verdict is typed.
LEMMA VerdictType ==
    \A f, t : Verdict(f, t) \in {"Ok", "Err"}
BY DEF Verdict

-----------------------------------------------------------------------------
(* Types *)

\* What the form makes of its fields is a certificate.
LEMMA CertificateType ==
    ASSUME TypeOK, NEW d
    PROVE  CertificateOf(d) \in {Free} \cup Service!Holdings
BY DEF TypeOK, CertificateOf

\* A step of the name service keeps the chain typed.
LEMMA ServiceType ==
    ASSUME TypeOK, Service!ServiceNext
    PROVE  holding' \in [Domains -> {Free} \cup Service!Holdings]
<1>1. PICK h \in Users, n \in Domains :
         \/ \E b \in [Others -> FieldValues] :
               Service!Claim(h, n, b) \/ Service!Rebind(h, n, b)
         \/ Service!Release(h, n)
  BY DEF Service!ServiceNext
<1>2. \A b \in [Others -> FieldValues] : Service!Holding(h, b) \in Service!Holdings
  BY DEF Service!Holding, Service!Holdings
<1>3. \E v \in {Free} \cup Service!Holdings : holding' = [holding EXCEPT ![n] = v]
  BY <1>1, <1>2 DEF Service!Claim, Service!Rebind, Service!Release
<1> QED BY <1>1, <1>3 DEF TypeOK

\* Typing keeps the types.
LEMMA OnChangeType ==
    ASSUME TypeOK, NEW f \in Fields, NEW t \in Texts, OnChange(f, t)
    PROVE  /\ input' = [input EXCEPT ![f] = t]
           /\ input' \in [Fields -> Texts]
           /\ requests' \subseteq Requests /\ failed' \in BOOLEAN
<1>1. input' = [input EXCEPT ![f] = t] /\ input' \in [Fields -> Texts]
  BY DEF OnChange, TypeOK
<1>2. requests \cup {[field |-> f, text |-> t, fine |-> "none"]} \subseteq Requests
  <2>1. [field |-> f, text |-> t, fine |-> "none"] \in Requests
    BY DEF Requests
  <2> QED BY <2>1 DEF TypeOK
<1>3. Render(requests \cup {[field |-> f, text |-> t, fine |-> "none"]})
  BY DEF OnChange
<1> HIDE DEF Render
<1> QED BY <1>1, <1>2, <1>3, RenderType

\* What a submission does to the chain is a step of the name service.
LEMMA SubmitIsService ==
    ASSUME TypeOK, NEW method \in {"Register", "Modify", "Delete"}, Submit(method)
    PROVE  Service!ServiceNext \/ UNCHANGED holding
<1>1. CASE ~Succeeds(method)
  BY <1>1 DEF Submit
<1>2. CASE Succeeds(method)
  <2> DEFINE d == Params[Domain]
             b == BindingOf(Params)
  <2>1. Domain \in Fields /\ Me \in Users
    BY FieldsAssumption, UsersAssumption
  <2>2. d \in Domains
    BY <1>2, <2>1 DEF Succeeds, ParamFields, Accepts
  <2>3. CASE method = "Delete"
    BY <1>2, <2>1, <2>2, <2>3 DEF Submit, Service!ServiceNext
  <2>4. CASE method # "Delete"
    <3>1. \A f \in Others : Params[f] \in FieldValues
      BY <1>2, <2>4 DEF Succeeds, ParamFields, Accepts, Others
    <3>2. b \in [Others -> FieldValues]
      BY <3>1 DEF BindingOf
    <3>3. Service!Claim(Me, d, b) \/ Service!Rebind(Me, d, b)
      BY <1>2, <2>4 DEF Submit
    <3> QED BY <2>1, <2>2, <3>2, <3>3 DEF Service!ServiceNext
  <2> QED BY <2>3, <2>4
<1> QED BY <1>1, <1>2

\* The states of the form have their types, and the verdicts are strings
\* updateValidity can read.
THEOREM TypeCorrect == Spec => []TypeOK
<1>1. Init => TypeOK
  <2> SUFFICES ASSUME Init PROVE TypeOK
    OBVIOUS
  <2>1. input \in [Fields -> Texts] /\ input[Domain] = Empty
    BY FieldsAssumption DEF Init, Texts
  <2>2. requests \subseteq Requests
    BY <2>1, AskedType DEF Init
  <2> QED BY <2>1, <2>2 DEF Init, TypeOK, Service!ServiceInit
<1>2. TypeOK /\ [Next]_vars => TypeOK'
  <2> SUFFICES ASSUME TypeOK, [Next]_vars PROVE TypeOK'
    OBVIOUS
  <2>1. ASSUME NEW f \in Others, NEW t \in FieldTexts, EditField(f, t)
        PROVE  TypeOK'
    <3>1. f \in Fields /\ f # Domain /\ t \in Texts
      BY DEF Others, Texts
    <3>2. OnChange(f, t)
      BY <2>1 DEF EditField
    <3>3. input'[Domain] = input[Domain]
      BY <3>1, <3>2, OnChangeType, FieldsAssumption DEF TypeOK
    <3> QED BY <2>1, <3>1, <3>2, <3>3, OnChangeType DEF TypeOK, EditField, OnChange, lookup
  <2>2. ASSUME NEW t \in DomainTexts, EditDomain(t)
        PROVE  TypeOK'
    <3>1. Domain \in Fields /\ t \in Texts
      BY FieldsAssumption DEF Texts
    <3>2. OnChange(Domain, t)
      BY <2>2 DEF EditDomain
    <3>3. input'[Domain] = t
      BY <3>1, <3>2, OnChangeType DEF TypeOK
    <3> QED BY <2>2, <3>1, <3>2, <3>3, OnChangeType DEF TypeOK, EditDomain, OnChange, AskedFor
  <2>3. CASE RenderAgain
    <3>1. Render(requests) /\ input' = input
      BY <2>3 DEF RenderAgain
    <3>2. requests' \subseteq Requests /\ failed' \in BOOLEAN
      BY <3>1, RenderType DEF TypeOK
    <3> QED BY <2>3, <3>2 DEF TypeOK, RenderAgain, lookup
  <2>4. ASSUME NEW r \in requests, Answer(r)
        PROVE  TypeOK'
    <3>1. r \in Requests /\ requests \subseteq Requests
      BY DEF TypeOK
    <3>2. validity' \in [Fields -> {"", "Ok", "Err"}] /\ allFieldsValid' \in BOOLEAN
      BY <2>4, <3>1, VerdictType DEF TypeOK, Answer, Requests
    <3>3. requests' \subseteq Requests /\ failed' \in BOOLEAN
      <4>1. PICK rest \in {requests, requests \ {r}} :
               \/ Render(rest)
               \/ requests' = rest /\ failed' = failed
        BY <2>4 DEF Answer, MayRender
      <4>2. input' = input
        BY <2>4 DEF Answer
      <4> QED BY <3>1, <4>1, <4>2, RenderType DEF TypeOK
    <3> QED BY <2>4, <3>2, <3>3 DEF TypeOK, Answer, lookup
  <2>5. ASSUME NEW r \in requests, Fail(r)
        PROVE  TypeOK'
    BY <2>5 DEF TypeOK, Fail, lookup
  <2>6. ASSUME NEW d \in due, Deliver(d)
        PROVE  TypeOK'
    <3>1. requests' \subseteq Requests /\ failed' \in BOOLEAN
      <4>1. Render(requests) \/ (requests' = requests /\ failed' = failed)
        BY <2>6 DEF Deliver, MayRender
      <4>2. input' = input
        BY <2>6 DEF Deliver
      <4> QED BY <4>1, <4>2, RenderType DEF TypeOK
    <3> QED BY <2>6, <3>1, CertificateType DEF TypeOK, Deliver
  <2>7. CASE ChainMoves
    <3>1. due' \subseteq DomainTexts
      BY <2>7, TextsAssumption DEF ChainMoves, Notify, TypeOK
    <3> QED BY <2>7, <3>1, ServiceType DEF TypeOK, ChainMoves, form
  <2>8. ASSUME NEW method \in {"Register", "Modify", "Delete"}, Submit(method)
        PROVE  TypeOK'
    <3>1. due' \subseteq DomainTexts
      BY <2>8, TextsAssumption DEF Submit, Notify, TypeOK
    <3>2. holding' \in [Domains -> {Free} \cup Service!Holdings]
      BY <2>8, SubmitIsService, ServiceType DEF TypeOK
    <3> QED BY <2>8, <3>1, <3>2 DEF TypeOK, Submit, form
  <2>9. CASE UNCHANGED vars
    BY <2>9 DEF TypeOK, vars, form, lookup
  <2> QED BY <2>1, <2>2, <2>3, <2>4, <2>5, <2>6, <2>7, <2>8, <2>9 DEF Next
<1> QED BY <1>1, <1>2, PTL DEF Spec

-----------------------------------------------------------------------------
(* The verdicts *)

\* A request that is answered without a render changed nothing: the others of
\* the last render are still in flight.
LEMMA AnswerKeeps ==
    ASSUME TypeOK, FormInv, NEW r \in requests, Answer(r)
    PROVE  FormInv'
<1>1. PICK rest \in {requests, requests \ {r}} :
         MayRender(rest, <<validity, allFieldsValid>>' # <<validity, allFieldsValid>>)
  BY DEF Answer
<1>2. CASE Render(rest)
  BY <1>2, RenderEstablishes
<1>3. CASE ~Render(rest)
  <2>1. /\ validity' = validity /\ allFieldsValid' = allFieldsValid /\ input' = input
        /\ requests' = rest /\ failed' = failed
    BY <1>1, <1>3 DEF MayRender, Answer
  <2> SUFFICES ASSUME ~failed PROVE FormInv'
    BY <2>1 DEF FormInv
  <2>2. \A f \in Fields : Pending(f)' = Pending(f)
    BY <2>1 DEF Pending, Finding, NoErr
  <2>3. \A f \in Fields : Pending(f) \in rest \/ Pending(f) = r \/ Pending(f) \notin requests
    OBVIOUS
  <2>4. r.field \in Fields /\ validity[r.field] = Verdict(r.field, r.text)
    <3>1. r.field \in Fields
      BY DEF TypeOK, Requests
    <3> QED BY <2>1, <3>1 DEF Answer, TypeOK
  <2>5. ASSUME NEW f \in Fields, Pending(f) = r
        PROVE  /\ validity[f] = Verdict(f, input[f])
               /\ allFieldsValid = NoErr(validity)
    <3>1. r.field = f /\ r.text = input[f] /\ r.fine = Finding(validity)
      BY <2>5 DEF Pending
    <3>2. allFieldsValid = (Finding(validity) = "valid")
      BY <2>1, <3>1 DEF Answer, Finding
    <3> QED BY <2>4, <3>1, <3>2 DEF Finding, NoErr
  <2>6. \A f \in Fields : Pending(f) \in rest \/ validity[f] = Verdict(f, input[f])
    BY <2>3, <2>5 DEF FormInv
  <2>7. (\A f \in Fields : Pending(f) \in rest) \/ allFieldsValid = NoErr(validity)
    BY <2>3, <2>5 DEF FormInv
  <2> QED BY <2>1, <2>2, <2>6, <2>7 DEF FormInv, NoErr
<1> QED BY <1>2, <1>3

\* FormInv is inductive, given the types.
LEMMA FormInductive ==
    ASSUME TypeOK, FormInv, [Next]_vars
    PROVE  FormInv'
<1>1. ASSUME UNCHANGED form PROVE FormInv'
  BY <1>1 DEF FormInv, form, Pending, Finding, NoErr
<1>2. ASSUME NEW f \in Others, NEW t \in FieldTexts, EditField(f, t)
      PROVE  FormInv'
  BY <1>2, RenderEstablishes DEF EditField, OnChange
<1>3. ASSUME NEW t \in DomainTexts, EditDomain(t)
      PROVE  FormInv'
  BY <1>3, RenderEstablishes DEF EditDomain, OnChange
<1>4. CASE RenderAgain
  BY <1>4, RenderEstablishes DEF RenderAgain
<1>5. ASSUME NEW r \in requests, Answer(r)
      PROVE  FormInv'
  BY <1>5, AnswerKeeps
<1>6. ASSUME NEW r \in requests, Fail(r)
      PROVE  FormInv'
  BY <1>6 DEF Fail, FormInv
<1>7. ASSUME NEW d \in due, Deliver(d)
      PROVE  FormInv'
  <2>1. CASE Render(requests)
    BY <2>1, RenderEstablishes
  <2>2. CASE ~Render(requests)
    BY <1>1, <1>7, <2>2 DEF Deliver, MayRender, form
  <2> QED BY <2>1, <2>2
<1>8. CASE ChainMoves
  BY <1>1, <1>8 DEF ChainMoves
<1>9. ASSUME NEW method \in {"Register", "Modify", "Delete"}, Submit(method)
      PROVE  FormInv'
  BY <1>1, <1>9 DEF Submit
<1>10. CASE UNCHANGED vars
  BY <1>1, <1>10 DEF vars
<1> QED BY <1>2, <1>3, <1>4, <1>5, <1>6, <1>7, <1>8, <1>9, <1>10 DEF Next

\* FormInv implies Settled.
LEMMA FormSettles ==
    ASSUME FormInv
    PROVE  Settled
<1> SUFFICES ASSUME requests = {}, ~failed
             PROVE  /\ \A f \in Fields : validity[f] = Verdict(f, input[f])
                    /\ allFieldsValid = \A f \in Fields : Accepts(f, input[f])
  BY DEF Settled
<1>1. \A f \in Fields : validity[f] = Verdict(f, input[f])
  BY DEF FormInv
<1>2. allFieldsValid = NoErr(validity)
  BY FieldsAssumption DEF FormInv
<1>3. NoErr(validity) = \A f \in Fields : Accepts(f, input[f])
  BY <1>1 DEF NoErr, Verdict
<1> QED BY <1>1, <1>2, <1>3

\* Late answers, in any order and to any older text, leave no wrong verdict
\* behind once every request of the last render has been answered.
THEOREM VerdictsSettle == Spec => []Settled
<1>1. Init => FormInv
  BY DEF Init, FormInv, Pending, Asked
<1>2. TypeOK /\ FormInv /\ [Next]_vars => FormInv'
  BY FormInductive
<1>3. FormInv => Settled
  BY FormSettles
<1> QED BY <1>1, <1>2, <1>3, TypeCorrect, PTL DEF Spec

-----------------------------------------------------------------------------
(* The certificate shown *)

\* A block tells every subscribed domain whose certificate it changed.
LEMMA NotifyKeeps ==
    ASSUME LookupInv, Notify,
           watched' = watched, shown' = shown, about' = about,
           domainExists' = domainExists, input' = input, overtaken' = overtaken
    PROVE  LookupInv'
<1>1. due \subseteq due' /\ due' \cap Domains \subseteq watched
  BY DEF LookupInv, Notify
<1>2. ASSUME about # Nobody, about \notin due'
      PROVE  shown = CertificateOf(about)'
  <2>1. shown = CertificateOf(about)
    BY <1>1, <1>2 DEF LookupInv
  <2>2. about \in Domains => holding'[about] = holding[about]
    BY <1>2 DEF LookupInv, Notify
  <2> QED BY <2>1, <2>2 DEF CertificateOf
<1>3. input'[Domain] \notin due' /\ ~overtaken' =>
         about' = input'[Domain] \/ (about' = Nobody /\ input'[Domain] = Empty)
  BY <1>1 DEF LookupInv
<1> QED BY <1>1, <1>2, <1>3 DEF LookupInv

\* LookupInv is inductive, given the types.
LEMMA LookupInductive ==
    ASSUME TypeOK, LookupInv, [Next]_vars
    PROVE  LookupInv'
<1>1. ASSUME UNCHANGED <<holding, lookup>>, input'[Domain] = input[Domain]
      PROVE  LookupInv'
  BY <1>1 DEF LookupInv, lookup, CertificateOf
<1>2. ASSUME NEW f \in Others, NEW t \in FieldTexts, EditField(f, t)
      PROVE  LookupInv'
  <2>1. f # Domain /\ Domain \in Fields
    BY FieldsAssumption DEF Others
  <2> QED BY <1>1, <1>2, <2>1 DEF EditField, OnChange, TypeOK
<1>3. ASSUME NEW t \in DomainTexts, EditDomain(t)
      PROVE  LookupInv'
  <2>1. Domain \in Fields
    BY FieldsAssumption
  <2>2. /\ input'[Domain] = t /\ due' = due \cup {t}
        /\ watched' = watched \cup ({t} \cap Domains)
        /\ UNCHANGED <<holding, shown, domainExists, about>>
    BY <1>3, <2>1 DEF EditDomain, AskedFor, OnChange, TypeOK
  <2> QED BY <2>2 DEF LookupInv, CertificateOf
<1>4. CASE RenderAgain
  BY <1>1, <1>4 DEF RenderAgain
<1>5. ASSUME NEW r \in requests, Answer(r)
      PROVE  LookupInv'
  BY <1>1, <1>5 DEF Answer
<1>6. ASSUME NEW r \in requests, Fail(r)
      PROVE  LookupInv'
  BY <1>1, <1>6 DEF Fail
<1>7. ASSUME NEW d \in due, Deliver(d)
      PROVE  LookupInv'
  <2>1. /\ about' = d /\ shown' = CertificateOf(d) /\ domainExists' = (shown' # Free)
        /\ due' \in {due, due \ {d}} /\ watched' = watched /\ holding' = holding
        /\ input' = input
        /\ overtaken' = (d # input[Domain] /\ (overtaken \/ input[Domain] \notin due))
    BY <1>7 DEF Deliver
  <2>2. d \in Domains => d \in watched
    BY DEF LookupInv
  <2>3. d # Nobody
    BY NobodyAssumption DEF TypeOK
  <2>4. input'[Domain] \notin due' /\ ~overtaken' => about' = input'[Domain]
    BY <2>1
  <2> QED BY <2>1, <2>2, <2>3, <2>4 DEF LookupInv, CertificateOf
<1>8. CASE ChainMoves
  BY <1>8, NotifyKeeps DEF ChainMoves, form
<1>9. ASSUME NEW method \in {"Register", "Modify", "Delete"}, Submit(method)
      PROVE  LookupInv'
  BY <1>9, NotifyKeeps DEF Submit, form
<1>10. CASE UNCHANGED vars
  BY <1>1, <1>10 DEF vars, form
<1> QED BY <1>2, <1>3, <1>4, <1>5, <1>6, <1>7, <1>8, <1>9, <1>10 DEF Next

\* LookupInv holds always.
LEMMA LookupInvHolds == Spec => []LookupInv
<1>1. Init => LookupInv
  BY NobodyAssumption, TextsAssumption, FieldsAssumption DEF Init, LookupInv
<1>2. TypeOK /\ LookupInv /\ [Next]_vars => LookupInv'
  BY LookupInductive
<1> QED BY <1>1, <1>2, TypeCorrect, PTL DEF Spec

\* LookupInv implies LookupCurrent.
LEMMA LookupIsCurrent ==
    ASSUME TypeOK, LookupInv
    PROVE  LookupCurrent
BY NobodyAssumption DEF TypeOK, LookupInv, LookupCurrent

\* With nothing on its way for it the certificate shown is that of its domain
\* on the chain, and its domain is the one in the form unless the value of an
\* older one came later.
THEOREM LookupIsAlwaysCurrent == Spec => []LookupCurrent
<1>1. TypeOK /\ LookupInv => LookupCurrent
  BY LookupIsCurrent
<1> QED BY <1>1, LookupInvHolds, TypeCorrect, PTL

\* Settled verdicts and a current certificate make the buttons right.
LEMMA ButtonsFollow ==
    ASSUME Settled, LookupInv
    PROVE  ButtonsTellTheChain
<1> SUFFICES ASSUME requests = {}, ~failed,
                    NEW method \in {"Register", "Modify"}, Enabled(method)
             PROVE  /\ about \notin due =>
                          (method = "Register") = (CertificateOf(about) = Free)
                    /\ input[Domain] \notin due /\ ~overtaken =>
                          (method = "Register") = (CertificateOf(input[Domain]) = Free)
                    /\ \A f \in Fields :
                          input[f] \notin Blanks => Accepts(f, Trimmed(input[f]))
  BY DEF ButtonsTellTheChain
<1>1. domainExists = (method # "Register") /\ allFieldsValid
  <2>1. CardEnabled(method) /\ method # "Delete"
    BY DEF Enabled
  <2> QED BY <2>1 DEF CardEnabled
<1>2. input[Domain] # Empty
  BY FieldsAssumption DEF Enabled, AllParamsFilled, ParamFields
<1>3. about \notin due => shown = CertificateOf(about)
  BY NobodyAssumption, TextsAssumption DEF LookupInv, CertificateOf
<1>4. about \notin due => domainExists = (CertificateOf(about) # Free)
  BY <1>3 DEF LookupInv
<1>5. input[Domain] \notin due /\ ~overtaken => about = input[Domain]
  BY <1>2 DEF LookupInv
<1>6. \A f \in Fields : Accepts(f, input[f])
  BY <1>1 DEF Settled
<1> QED BY <1>1, <1>4, <1>5, <1>6 DEF Trimmed

\* Register and Modify are offered when the domain whose certificate is shown
\* is free, or taken, which is the domain in the form unless the value of an
\* older one came later, and only with fields the pallet accepts, a blank name
\* apart.
THEOREM ButtonsAreRight == Spec => []ButtonsTellTheChain
<1>1. Settled /\ LookupInv => ButtonsTellTheChain
  BY ButtonsFollow
<1> QED BY <1>1, VerdictsSettle, LookupInvHolds, PTL

-----------------------------------------------------------------------------
(* The chain *)

\* What typing, rendering and answers leave alone, submissions and blocks
\* change as the name service allows.
LEMMA FormStepIsService ==
    ASSUME TypeOK, [Next]_vars
    PROVE  [Service!ServiceNext]_holding
<1>1. ASSUME NEW method \in {"Register", "Modify", "Delete"}, Submit(method)
      PROVE  Service!ServiceNext \/ UNCHANGED holding
  BY <1>1, SubmitIsService
<1>2. CASE ChainMoves
  BY <1>2 DEF ChainMoves
<1>3. ASSUME \/ \E f \in Others, t \in FieldTexts : EditField(f, t)
             \/ \E t \in DomainTexts : EditDomain(t)
             \/ RenderAgain
             \/ \E r \in requests : Answer(r) \/ Fail(r)
             \/ \E d \in due : Deliver(d)
             \/ UNCHANGED vars
      PROVE  UNCHANGED holding
  BY <1>3 DEF EditField, EditDomain, RenderAgain, Answer, Fail, Deliver, vars
<1> QED BY <1>1, <1>2, <1>3 DEF Next

\* The forms are one more client of the name service: with everything they
\* submit, and whatever others register meanwhile, the certificates on the
\* chain change as NameService says.
THEOREM FormUsesService == Spec => Service!ServiceSpec
<1>1. Init => Service!ServiceInit
  BY DEF Init
<1>2. TypeOK /\ [Next]_vars => [Service!ServiceNext]_holding
  BY FormStepIsService
<1> QED BY <1>1, <1>2, TypeCorrect, PTL DEF Spec, Service!ServiceSpec

=============================================================================
