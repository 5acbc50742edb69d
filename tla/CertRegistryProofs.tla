------------------------- MODULE CertRegistryProofs -------------------------
(***************************************************************************)
(* Theorems about CertRegistry for any accounts, domains, addresses and    *)
(* fields, and behaviours of any length.                                   *)
(***************************************************************************)
EXTENDS CertRegistry, DataLemmas, TLAPS

-----------------------------------------------------------------------------
(* Retain *)

\* What Retain returns: a list made of the entries of the other domains, each
\* at a position that respects their old order.
LEMMA RetainKeeps ==
    ASSUME NEW certs \in Seq(Certificates), NEW d
    PROVE  /\ Retain(certs, d) \in Seq(Certificates)
           /\ \A k \in 1..Len(Retain(certs, d)) :
                 \E i \in Kept(certs, d) : /\ RankIn(Kept(certs, d), i) = k
                                           /\ Retain(certs, d)[k] = certs[i]
           /\ \A i \in Kept(certs, d) :
                 /\ RankIn(Kept(certs, d), i) \in 1..Len(Retain(certs, d))
                 /\ Retain(certs, d)[RankIn(Kept(certs, d), i)] = certs[i]
           /\ \A i, j \in Kept(certs, d) :
                 i < j => RankIn(Kept(certs, d), i) < RankIn(Kept(certs, d), j)
<1>1. Kept(certs, d) \in SUBSET (1..Len(certs))
  BY DEF Kept
<1> QED
  BY <1>1, EntriesKept DEF Retain

\* Retain adds nothing and leaves nothing of the domain it filters out.
LEMMA RetainFrom ==
    ASSUME NEW certs \in Seq(Certificates), NEW d,
           NEW k \in 1..Len(Retain(certs, d))
    PROVE  \E j \in 1..Len(certs) :
              Retain(certs, d)[k] = certs[j] /\ certs[j].domain # d
<1>1. PICK j \in Kept(certs, d) : Retain(certs, d)[k] = certs[j]
  BY RetainKeeps
<1> QED
  BY <1>1 DEF Kept

-----------------------------------------------------------------------------
(* Types *)

\* The three calls keep what is stored well typed: only validated fields and
\* account ids reach the maps and the events.
LEMMA TypeStep == TypeOK /\ [Next]_vars => TypeOK'
<1> SUFFICES ASSUME TypeOK, [Next]_vars
             PROVE  TypeOK'
  OBVIOUS
<1>1. ASSUME NEW origin \in Origins, NEW s \in Submissions,
             FieldError(s) = Ok, origin \in Accounts
      PROVE  /\ NewCertificate(origin, s) \in Certificates
             /\ s.domain \in Domains /\ s.ip \in Ips
  BY <1>1, ValidFields
     DEF FieldError, Ok, NewCertificate, Certificates, Submissions
<1>2. ASSUME NEW error \in Errors \cup {Ok}, Fail(error)
      PROVE  TypeOK'
  BY <1>2 DEF Fail, TypeOK
<1>3. ASSUME NEW event \in Events, Deposit(event)
      PROVE  events' \in Seq(Events)
  BY <1>3, AppendProperties DEF Deposit, TypeOK
<1>4. ASSUME NEW origin \in Origins, NEW s \in Submissions, Register(origin, s)
      PROVE  TypeOK'
  <2>1. CASE Fail(RegisterResult(origin, s))
    <3>1. RegisterResult(origin, s) \in Errors \cup {Ok}
      BY DEF RegisterResult, FieldError, Errors, Ok
    <3> QED
      BY <1>2, <2>1, <3>1
  <2>2. CASE ~Fail(RegisterResult(origin, s))
    <3> DEFINE cert == NewCertificate(origin, s)
    <3>1. RegisterResult(origin, s) = Ok
      BY <1>4, <2>2 DEF Register
    <3>2. origin \in Accounts /\ FieldError(s) = Ok
      BY <3>1 DEF RegisterResult, Ok
    <3>3. cert \in Certificates /\ s.domain \in Domains /\ s.ip \in Ips
      BY <1>1, <3>2
    <3>4. certificateMap' \in [Domains -> Certificates \cup {Absent}]
      BY <1>4, <2>2, <3>3 DEF Register, TypeOK
    <3>5. Append(reverseMap[s.ip], cert) \in Seq(Certificates)
      BY <3>3, AppendProperties DEF TypeOK
    <3>6. reverseMap' \in [Ips -> Seq(Certificates)]
      BY <1>4, <2>2, <3>5 DEF Register, TypeOK
    <3>7. [kind |-> "Registered", cert |-> cert, who |-> origin] \in Events
      BY <3>2, <3>3 DEF Events
    <3>8. events' \in Seq(Events)
      BY <1>3, <1>4, <2>2, <3>7 DEF Register
    <3> QED
      BY <1>4, <2>2, <3>4, <3>6, <3>8 DEF Register, TypeOK
  <2> QED
    BY <2>1, <2>2
<1>5. ASSUME NEW origin \in Origins, NEW s \in Submissions, Modify(origin, s)
      PROVE  TypeOK'
  <2>1. CASE Fail(ModifyResult(origin, s))
    <3>1. ModifyResult(origin, s) \in Errors \cup {Ok}
      BY DEF ModifyResult, FieldError, Errors, Ok
    <3> QED
      BY <1>2, <2>1, <3>1
  <2>2. CASE ~Fail(ModifyResult(origin, s))
    <3> DEFINE cert == NewCertificate(origin, s)
               kept == Retain(reverseMap[s.ip], s.domain)
    <3>1. ModifyResult(origin, s) = Ok
      BY <1>5, <2>2 DEF Modify
    <3>2. origin \in Accounts /\ FieldError(s) = Ok /\ Registered(s.domain)
      BY <3>1 DEF ModifyResult, Ok
    <3>3. cert \in Certificates /\ s.domain \in Domains /\ s.ip \in Ips
      BY <1>1, <3>2
    <3>4. certificateMap[s.domain] \in Certificates
      BY <3>2, <3>3 DEF Registered, TypeOK
    <3>5. certificateMap' \in [Domains -> Certificates \cup {Absent}]
      BY <1>5, <2>2, <3>3 DEF Modify, TypeOK
    <3>6. kept \in Seq(Certificates)
      BY <3>3, RetainKeeps DEF TypeOK
    <3>7. Append(kept, cert) \in Seq(Certificates)
      BY <3>3, <3>6, AppendProperties
    <3>8. reverseMap' \in [Ips -> Seq(Certificates)]
      BY <1>5, <2>2, <3>7 DEF Modify, TypeOK
    <3>9. [kind |-> "Modified", cert |-> cert,
           old |-> certificateMap[s.domain], who |-> origin] \in Events
      BY <3>2, <3>3, <3>4 DEF Events
    <3>10. events' \in Seq(Events)
      BY <1>3, <1>5, <2>2, <3>9 DEF Modify, Modified
    <3> QED
      BY <1>5, <2>2, <3>5, <3>8, <3>10 DEF Modify, TypeOK
  <2> QED
    BY <2>1, <2>2
<1>6. ASSUME NEW origin \in Origins, NEW d \in Domains, Remove(origin, d)
      PROVE  TypeOK'
  <2>1. CASE Fail(RemoveResult(origin, d))
    <3>1. RemoveResult(origin, d) \in Errors \cup {Ok}
      BY DEF RemoveResult, Errors, Ok
    <3> QED
      BY <1>2, <2>1, <3>1
  <2>2. CASE ~Fail(RemoveResult(origin, d))
    <3> DEFINE old == certificateMap[d]
    <3>1. RemoveResult(origin, d) = Ok
      BY <1>6, <2>2 DEF Remove
    <3>2. origin \in Accounts /\ Registered(d)
      BY <3>1 DEF RemoveResult, Ok
    <3>3. old \in Certificates /\ old.ip \in Ips
      BY <3>2, ValidFields DEF Registered, TypeOK, Certificates
    <3>4. Retain(reverseMap[old.ip], d) \in Seq(Certificates)
      BY <3>3, RetainKeeps DEF TypeOK
    <3>5. reverseMap' \in [Ips -> Seq(Certificates)]
      BY <1>6, <2>2, <3>4 DEF Remove, TypeOK
    <3>6. [kind |-> "Removed", cert |-> old, who |-> origin] \in Events
      BY <3>2, <3>3 DEF Events
    <3>7. events' \in Seq(Events)
      BY <1>3, <1>6, <2>2, <3>6 DEF Remove
    <3>8. certificateMap' \in [Domains -> Certificates \cup {Absent}]
      BY <1>6, <2>2 DEF Remove, TypeOK
    <3> QED
      BY <1>6, <2>2, <3>5, <3>7, <3>8 DEF Remove, TypeOK
  <2> QED
    BY <2>1, <2>2
<1>7. CASE UNCHANGED vars
  BY <1>7 DEF vars, TypeOK
<1> QED
  BY <1>4, <1>5, <1>6, <1>7 DEF Next

\* Every reachable state is well typed.
THEOREM TypeCorrect == Spec => []TypeOK
<1>1. Init => TypeOK
  BY EmptySeq DEF Init, TypeOK, Ok
<1> QED
  BY <1>1, TypeStep, PTL DEF Spec

-----------------------------------------------------------------------------
(* What a step does to the storage, whichever call and arguments made it *)

Announces(kind, cert) ==
    events' = Append(events, [kind |-> kind, cert |-> cert,
                              who |-> cert.owner])

Registers(cert) ==
    /\ certificateMap[cert.domain] = Absent
    /\ certificateMap' = [certificateMap EXCEPT ![cert.domain] = cert]
    /\ reverseMap' = [reverseMap EXCEPT
          ![cert.ip] = Append(reverseMap[cert.ip], cert)]
    /\ Announces("Registered", cert)

Modifies(cert) ==
    LET old == certificateMap[cert.domain] IN
    /\ old \in Certificates
    /\ old.owner = cert.owner
    /\ old # cert
    /\ certificateMap' = [certificateMap EXCEPT ![cert.domain] = cert]
    /\ reverseMap' = [reverseMap EXCEPT
          ![cert.ip] = Append(Retain(reverseMap[cert.ip], cert.domain), cert)]
    /\ events' = Append(events, [kind |-> "Modified", cert |-> cert,
                                 old |-> old, who |-> cert.owner])

Removes(d) ==
    LET old == certificateMap[d] IN
    /\ old \in Certificates
    /\ certificateMap' = [certificateMap EXCEPT ![d] = Absent]
    /\ reverseMap' = [reverseMap EXCEPT
          ![old.ip] = Retain(reverseMap[old.ip], d)]
    /\ Announces("Removed", old)

\* What a step of the registry can do, whatever call and arguments made it.
LEMMA Effects ==
    ASSUME TypeOK, [Next]_vars
    PROVE  \/ UNCHANGED <<certificateMap, reverseMap, events>>
           \/ \E cert \in Certificates : Registers(cert)
           \/ \E cert \in Certificates : Modifies(cert)
           \/ \E d \in Domains : Removes(d)
<1>1. ASSUME NEW origin \in Origins, NEW s \in Submissions,
             FieldError(s) = Ok, origin \in Accounts
      PROVE  /\ NewCertificate(origin, s) \in Certificates
             /\ NewCertificate(origin, s).domain = s.domain
             /\ NewCertificate(origin, s).ip = s.ip
             /\ NewCertificate(origin, s).owner = origin
             /\ s.domain \in Domains
  BY <1>1, ValidFields
     DEF FieldError, Ok, NewCertificate, Certificates, Submissions
<1>2. ASSUME NEW origin \in Origins, NEW s \in Submissions,
             RegisterResult(origin, s) = Ok, Register(origin, s)
      PROVE  Registers(NewCertificate(origin, s))
             /\ NewCertificate(origin, s) \in Certificates
  <2>1. origin \in Accounts /\ FieldError(s) = Ok /\ ~Registered(s.domain)
    BY <1>2 DEF RegisterResult, Ok
  <2> QED
    BY <1>1, <1>2, <2>1
       DEF Register, Registers, Announces, Registered, Fail, Deposit
<1>3. ASSUME NEW origin \in Origins, NEW s \in Submissions,
             ModifyResult(origin, s) = Ok, Modify(origin, s)
      PROVE  Modifies(NewCertificate(origin, s))
             /\ NewCertificate(origin, s) \in Certificates
  <2>1. /\ origin \in Accounts /\ FieldError(s) = Ok /\ Registered(s.domain)
        /\ certificateMap[s.domain].owner = origin
        /\ certificateMap[s.domain] # NewCertificate(origin, s)
    BY <1>3 DEF ModifyResult, Ok
  <2>2. certificateMap[s.domain] \in Certificates
    BY <1>1, <2>1 DEF Registered, TypeOK
  <2> DEFINE cert == NewCertificate(origin, s)
  <2>3. /\ cert \in Certificates /\ cert.domain = s.domain
        /\ cert.ip = s.ip /\ cert.owner = origin
    BY <1>1, <2>1
  <2>4. /\ certificateMap' = [certificateMap EXCEPT ![s.domain] = cert]
        /\ reverseMap' = [reverseMap EXCEPT ![s.ip] =
              Append(Retain(reverseMap[s.ip], s.domain), cert)]
        /\ events' =
              Append(events, Modified(cert, certificateMap[s.domain], origin))
    BY <1>3 DEF Modify, Fail, Deposit
  <2> HIDE DEF cert
  <2>5. Modifies(cert)
    BY <2>1, <2>2, <2>3, <2>4 DEF Modifies, Modified, cert
  <2> QED
    BY <2>3, <2>5 DEF cert
<1>4. ASSUME NEW origin \in Origins, NEW d \in Domains,
             RemoveResult(origin, d) = Ok, Remove(origin, d)
      PROVE  Removes(d)
  <2>1. Registered(d) /\ certificateMap[d].owner = origin
    BY <1>4 DEF RemoveResult, Ok
  <2>2. certificateMap[d] \in Certificates
    BY <2>1 DEF Registered, TypeOK
  <2> QED
    BY <1>4, <2>1, <2>2 DEF Remove, Removes, Announces, Fail, Deposit
<1>5. CASE UNCHANGED vars
  BY <1>5 DEF vars
<1>6. ASSUME NEW error, Fail(error)
      PROVE  UNCHANGED <<certificateMap, reverseMap, events>>
  BY <1>6 DEF Fail
<1> QED
  BY <1>2, <1>3, <1>4, <1>5, <1>6 DEF Next, Register, Modify, Remove

-----------------------------------------------------------------------------
(* The reverse lookup finds every live certificate *)

\* A pushed certificate is the latest of its own domain ...
LEMMA LatestOwn ==
    ASSUME NEW certs \in Seq(Certificates), NEW cert \in Certificates
    PROVE  Latest(Append(certs, cert), cert.domain, cert)
<1> DEFINE n == Len(certs) + 1
           longer == Append(certs, cert)
<1>1. Len(longer) = n /\ longer[n] = cert /\ Len(certs) \in Nat
  BY AppendProperties, LenProperties
<1>2. n \in EntriesOf(longer, cert.domain)
  BY <1>1 DEF EntriesOf
<1>3. \A j \in EntriesOf(longer, cert.domain) : j <= n
  BY <1>1 DEF EntriesOf
<1> QED
  BY <1>1, <1>2, <1>3 DEF Latest

\* ... pushing one of another domain does not change which is latest ...
LEMMA LatestAppend ==
    ASSUME NEW certs \in Seq(Certificates), NEW cert \in Certificates,
           NEW d, NEW c, Latest(certs, d, c), cert.domain # d
    PROVE  Latest(Append(certs, cert), d, c)
<1> DEFINE longer == Append(certs, cert)
<1>1. /\ Len(certs) \in Nat
      /\ Len(longer) = Len(certs) + 1
      /\ longer[Len(certs) + 1] = cert
      /\ \A i \in 1..Len(certs) : longer[i] = certs[i]
  BY AppendProperties, LenProperties
<1>2. EntriesOf(longer, d) = EntriesOf(certs, d)
  BY <1>1 DEF EntriesOf
<1> QED
  BY <1>1, <1>2 DEF Latest, EntriesOf

\* ... and neither does filtering out another domain.
LEMMA LatestRetain ==
    ASSUME NEW certs \in Seq(Certificates), NEW e,
           NEW d, NEW c, Latest(certs, d, c), e # d
    PROVE  Latest(Retain(certs, e), d, c)
<1> DEFINE kept == Retain(certs, e)
           S == Kept(certs, e)
<1>1. PICK i \in EntriesOf(certs, d) :
         certs[i] = c /\ \A j \in EntriesOf(certs, d) : j <= i
  BY DEF Latest
<1>2. i \in S
  BY DEF EntriesOf, Kept
<1>3. RankIn(S, i) \in 1..Len(kept) /\ kept[RankIn(S, i)] = certs[i]
  BY <1>2, RetainKeeps
<1>4. RankIn(S, i) \in EntriesOf(kept, d)
  BY <1>3 DEF EntriesOf
<1>5. ASSUME NEW k \in EntriesOf(kept, d)
      PROVE  k <= RankIn(S, i)
  <2>1. k \in 1..Len(kept) /\ kept[k].domain = d
    BY DEF EntriesOf
  <2>2. PICK j \in S : RankIn(S, j) = k /\ kept[k] = certs[j]
    BY <2>1, RetainKeeps
  <2>3. j \in EntriesOf(certs, d)
    BY <2>1, <2>2 DEF EntriesOf, Kept
  <2>4. j <= i
    BY <1>1, <2>3
  <2>5. j = i \/ j < i
    <3>1. j \in Nat /\ i \in Nat
      BY <2>3, LenProperties DEF EntriesOf
    <3> QED
      BY <2>4, <3>1
  <2>6. CASE j = i
    BY <1>3, <2>2, <2>6
  <2>7. CASE j < i
    <3>1. RankIn(S, j) < RankIn(S, i)
      BY <1>2, <2>7, RetainKeeps
    <3>2. k \in Nat /\ RankIn(S, i) \in Nat
      BY <1>3, <2>1
    <3> QED
      BY <2>2, <3>1, <3>2
  <2> QED
    BY <2>5, <2>6, <2>7
<1> QED
  BY <1>1, <1>3, <1>4, <1>5 DEF Latest

\* A step keeps every live certificate the latest of its list.
LEMMA LatestStep ==
    ASSUME TypeOK, LatestListing, [Next]_vars
    PROVE  LatestListing'
<1> SUFFICES ASSUME NEW d \in Domains, Registered(d)'
             PROVE  Latest(reverseMap'[certificateMap'[d].ip], d,
                           certificateMap'[d])
  BY DEF LatestListing
<1> DEFINE cert == certificateMap[d]
<1>1. TypeOK'
  BY TypeStep
<1>2. ASSUME NEW e \in Domains, certificateMap[e] \in Certificates
      PROVE  /\ certificateMap[e].domain = e
             /\ certificateMap[e].ip \in Ips
             /\ reverseMap[certificateMap[e].ip] \in Seq(Certificates)
             /\ Latest(reverseMap[certificateMap[e].ip], e, certificateMap[e])
  <2>1. Latest(reverseMap[certificateMap[e].ip], e, certificateMap[e])
    BY <1>2, AbsentIsNoCertificate DEF LatestListing, Registered
  <2>2. certificateMap[e].domain = e
    BY <2>1 DEF Latest, EntriesOf
  <2> QED
    BY <1>2, <2>1, <2>2, ValidFields DEF TypeOK, Certificates
<1>3. ASSUME NEW c \in Certificates
      PROVE  c.domain \in Domains /\ c.ip \in Ips
             /\ reverseMap[c.ip] \in Seq(Certificates)
  BY ValidFields DEF TypeOK, Certificates
<1>4. CASE UNCHANGED <<certificateMap, reverseMap, events>>
  BY <1>4 DEF LatestListing, Registered
<1>5. ASSUME NEW new \in Certificates, Registers(new)
      PROVE  Latest(reverseMap'[certificateMap'[d].ip], d, certificateMap'[d])
  <2>1. CASE new.domain = d
    <3>1. certificateMap'[d] = new
      BY <1>5, <2>1 DEF Registers, TypeOK
    <3>2. reverseMap'[new.ip] = Append(reverseMap[new.ip], new)
      BY <1>3, <1>5 DEF Registers, TypeOK
    <3> QED
      BY <1>3, <2>1, <3>1, <3>2, LatestOwn
  <2>2. CASE new.domain # d
    <3>1. certificateMap'[d] = cert
      BY <1>5, <2>2 DEF Registers, TypeOK
    <3>2. cert \in Certificates
      BY <3>1 DEF Registered, TypeOK
    <3>3. CASE new.ip = cert.ip
      BY <1>2, <1>5, <2>2, <3>1, <3>2, <3>3, LatestAppend
         DEF Registers, TypeOK
    <3>4. CASE new.ip # cert.ip
      BY <1>2, <1>5, <3>1, <3>2, <3>4 DEF Registers, TypeOK
    <3> QED
      BY <3>3, <3>4
  <2> QED
    BY <2>1, <2>2
<1>6. ASSUME NEW new \in Certificates, Modifies(new)
      PROVE  Latest(reverseMap'[certificateMap'[d].ip], d, certificateMap'[d])
  <2> DEFINE kept == Retain(reverseMap[new.ip], new.domain)
  <2>1. kept \in Seq(Certificates)
    BY <1>3, RetainKeeps
  <2>2. reverseMap'[new.ip] = Append(kept, new)
    BY <1>3, <1>6 DEF Modifies, TypeOK
  <2>3. CASE new.domain = d
    <3>1. certificateMap'[d] = new
      BY <1>6, <2>3 DEF Modifies, TypeOK
    <3> QED
      BY <2>1, <2>2, <2>3, <3>1, LatestOwn
  <2>4. CASE new.domain # d
    <3>1. certificateMap'[d] = cert
      BY <1>6, <2>4 DEF Modifies, TypeOK
    <3>2. cert \in Certificates
      BY <3>1 DEF Registered, TypeOK
    <3>3. CASE new.ip = cert.ip
      <4>1. Latest(kept, d, cert)
        BY <1>2, <2>4, <3>2, <3>3, LatestRetain
      <4> QED
        BY <2>1, <2>2, <2>4, <3>1, <3>3, <4>1, LatestAppend
    <3>4. CASE new.ip # cert.ip
      BY <1>2, <1>6, <3>1, <3>2, <3>4 DEF Modifies, TypeOK
    <3> QED
      BY <3>3, <3>4
  <2> QED
    BY <2>3, <2>4
<1>7. ASSUME NEW e \in Domains, Removes(e)
      PROVE  Latest(reverseMap'[certificateMap'[d].ip], d, certificateMap'[d])
  <2> DEFINE old == certificateMap[e]
  <2>1. e # d
    BY <1>7 DEF Removes, TypeOK, Registered
  <2>2. certificateMap'[d] = cert
    BY <1>7, <2>1 DEF Removes, TypeOK
  <2>3. cert \in Certificates /\ old \in Certificates
    BY <1>7, <2>2 DEF Registered, TypeOK, Removes
  <2>4. CASE old.ip = cert.ip
    <3>1. reverseMap'[cert.ip] = Retain(reverseMap[cert.ip], e)
      BY <1>2, <1>7, <2>3, <2>4 DEF Removes, TypeOK
    <3> QED
      BY <1>2, <2>1, <2>2, <2>3, <3>1, LatestRetain
  <2>5. CASE old.ip # cert.ip
    BY <1>2, <1>7, <2>2, <2>3, <2>5 DEF Removes, TypeOK
  <2> QED
    BY <2>4, <2>5
<1> QED
  BY <1>4, <1>5, <1>6, <1>7, Effects

\* However calls interleave, a registered domain's current certificate is the
\* last of its entries under the address it names.
THEOREM LatestListingHolds == Spec => []LatestListing
<1>1. Init => LatestListing
  BY DEF Init, LatestListing, Registered
<1> QED
  BY <1>1, LatestStep, TypeCorrect, PTL DEF Spec

-----------------------------------------------------------------------------
(* What the events say *)

\* Depositing an event keeps the earlier ones where they are.
LEMMA EventAppend ==
    ASSUME TypeOK, NEW event \in Events, events' = Append(events, event)
    PROVE  /\ Len(events) \in Nat
           /\ Len(events') = Len(events) + 1
           /\ events'[Len(events) + 1] = event
           /\ \A i \in 1..Len(events) : events'[i] = events[i]
  BY AppendProperties, LenProperties DEF TypeOK

\* A step adds to the reverse lists only what its event announces.
LEMMA AnnouncedStep ==
    ASSUME TypeOK, ListingsWereAnnounced, [Next]_vars
    PROVE  ListingsWereAnnounced'
<1> SUFFICES ASSUME NEW ip \in Ips, NEW i \in 1..Len(reverseMap'[ip])
             PROVE  /\ reverseMap'[ip][i].ip = ip
                    /\ \E e \in 1..Len(events') :
                          InForceAfter(events'[e]) = reverseMap'[ip][i]
  BY DEF ListingsWereAnnounced, InForceAfter
<1>1. reverseMap[ip] \in Seq(Certificates) /\ Len(reverseMap[ip]) \in Nat
  BY LenProperties DEF TypeOK
<1>2. ASSUME NEW event \in Events, events' = Append(events, event),
             NEW j \in 1..Len(reverseMap[ip]),
             reverseMap'[ip][i] = reverseMap[ip][j]
      PROVE  /\ reverseMap'[ip][i].ip = ip
             /\ \E e \in 1..Len(events') :
                   InForceAfter(events'[e]) = reverseMap'[ip][i]
  <2>1. PICK e \in 1..Len(events) : InForceAfter(events[e]) = reverseMap[ip][j]
    BY <1>2 DEF ListingsWereAnnounced
  <2>2. e \in 1..Len(events') /\ events'[e] = events[e]
    BY <1>2, EventAppend
  <2> QED
    BY <1>2, <2>1, <2>2 DEF ListingsWereAnnounced
<1>3. ASSUME NEW event \in Events, events' = Append(events, event),
             InForceAfter(event) = reverseMap'[ip][i]
      PROVE  \E e \in 1..Len(events') :
                InForceAfter(events'[e]) = reverseMap'[ip][i]
  BY <1>3, EventAppend
<1>4. CASE UNCHANGED <<certificateMap, reverseMap, events>>
  BY <1>4 DEF ListingsWereAnnounced
<1>5. ASSUME NEW new \in Certificates, Registers(new)
      PROVE  /\ reverseMap'[ip][i].ip = ip
             /\ \E e \in 1..Len(events') :
                   InForceAfter(events'[e]) = reverseMap'[ip][i]
  <2> DEFINE event == [kind |-> "Registered", cert |-> new, who |-> new.owner]
  <2>1. event \in Events /\ events' = Append(events, event)
        /\ InForceAfter(event) = new
    BY <1>5 DEF Registers, Announces, Events, Certificates, InForceAfter
  <2> HIDE DEF event
  <2>2. CASE new.ip # ip
    <3>1. reverseMap'[ip] = reverseMap[ip]
      BY <1>5, <2>2 DEF Registers, TypeOK
    <3> QED
      BY <1>2, <2>1, <3>1
  <2>3. CASE new.ip = ip
    <3>1. reverseMap'[ip] = Append(reverseMap[ip], new)
      BY <1>5, <2>3 DEF Registers, TypeOK
    <3>2. CASE i = Len(reverseMap[ip]) + 1
      BY <1>1, <1>3, <2>1, <2>3, <3>1, <3>2, AppendProperties
    <3>3. CASE i # Len(reverseMap[ip]) + 1
      <4>1. i \in 1..Len(reverseMap[ip])
            /\ reverseMap'[ip][i] = reverseMap[ip][i]
        BY <1>1, <3>1, <3>3, AppendProperties
      <4> QED
        BY <1>2, <2>1, <4>1
    <3> QED
      BY <3>2, <3>3
  <2> QED
    BY <2>2, <2>3
<1>6. ASSUME NEW new \in Certificates, Modifies(new)
      PROVE  /\ reverseMap'[ip][i].ip = ip
             /\ \E e \in 1..Len(events') :
                   InForceAfter(events'[e]) = reverseMap'[ip][i]
  <2> DEFINE event == [kind |-> "Modified", cert |-> new,
                       old |-> certificateMap[new.domain], who |-> new.owner]
             kept == Retain(reverseMap[ip], new.domain)
  <2>1. event \in Events /\ events' = Append(events, event)
        /\ InForceAfter(event) = new
    BY <1>6 DEF Modifies, Events, Certificates, InForceAfter
  <2>2. kept \in Seq(Certificates) /\ Len(kept) \in Nat
    BY <1>1, RetainKeeps, LenProperties
  <2>3. ASSUME NEW k \in 1..Len(kept)
        PROVE  \E j \in 1..Len(reverseMap[ip]) : kept[k] = reverseMap[ip][j]
    BY <1>1, RetainFrom
  <2> HIDE DEF event, kept
  <2>4. CASE new.ip # ip
    <3>1. reverseMap'[ip] = reverseMap[ip]
      BY <1>6, <2>4 DEF Modifies, TypeOK
    <3> QED
      BY <1>2, <2>1, <3>1
  <2>5. CASE new.ip = ip
    <3>1. reverseMap'[ip] = Append(kept, new)
      BY <1>6, <2>5 DEF Modifies, TypeOK, kept
    <3>2. CASE i = Len(kept) + 1
      BY <1>3, <2>1, <2>2, <2>5, <3>1, <3>2, AppendProperties
    <3>3. CASE i # Len(kept) + 1
      <4>1. i \in 1..Len(kept) /\ reverseMap'[ip][i] = kept[i]
        BY <2>2, <3>1, <3>3, AppendProperties
      <4> QED
        BY <1>2, <2>1, <2>3, <4>1
    <3> QED
      BY <3>2, <3>3
  <2> QED
    BY <2>4, <2>5
<1>7. ASSUME NEW d \in Domains, Removes(d)
      PROVE  /\ reverseMap'[ip][i].ip = ip
             /\ \E e \in 1..Len(events') :
                   InForceAfter(events'[e]) = reverseMap'[ip][i]
  <2> DEFINE old == certificateMap[d]
             event == [kind |-> "Removed", cert |-> old, who |-> old.owner]
  <2>1. event \in Events /\ events' = Append(events, event)
    BY <1>7 DEF Removes, Announces, Events, Certificates
  <2>2. \E j \in 1..Len(reverseMap[ip]) : reverseMap'[ip][i] = reverseMap[ip][j]
    <3>1. CASE old.ip # ip
      BY <1>7, <3>1 DEF Removes, TypeOK
    <3>2. CASE old.ip = ip
      <4>1. reverseMap'[ip] = Retain(reverseMap[ip], d)
        BY <1>7, <3>2 DEF Removes, TypeOK
      <4> HIDE DEF old, event
      <4>2. i \in 1..Len(Retain(reverseMap[ip], d))
        BY <4>1
      <4>3. \E j \in 1..Len(reverseMap[ip]) :
               Retain(reverseMap[ip], d)[i] = reverseMap[ip][j]
        BY <1>1, <4>2, RetainFrom
      <4> QED
        BY <4>1, <4>3
    <3> QED
      BY <3>1, <3>2
  <2> QED
    BY <1>2, <2>1, <2>2
<1> QED
  BY <1>4, <1>5, <1>6, <1>7, Effects

\* Every entry of the reverse table is filed under its own address and was
\* announced by an event as in force.
THEOREM ListingsWereAnnouncedHolds == Spec => []ListingsWereAnnounced
<1>1. Init => ListingsWereAnnounced
  BY EmptySeq DEF Init, ListingsWereAnnounced
<1> QED
  BY <1>1, AnnouncedStep, TypeCorrect, PTL DEF Spec

-----------------------------------------------------------------------------
(* The events tell the storage *)

\* The positions of a domain's events when one more event is deposited.
LEMMA EventsOnAppend ==
    ASSUME TypeOK, NEW event \in Events, events' = Append(events, event)
    PROVE  /\ Len(events) + 1 \in EventsOn(event.cert.domain)'
           /\ \A d : \A j \in EventsOn(d)' : j <= Len(events) + 1
           /\ \A d : EventsOn(d) \subseteq EventsOn(d)'
           /\ \A d : \A j \in EventsOn(d)' : j <= Len(events) => j \in EventsOn(d)
           /\ \A d : d # event.cert.domain => EventsOn(d)' = EventsOn(d)
<1>1. /\ Len(events) \in Nat
      /\ Len(events') = Len(events) + 1
      /\ events'[Len(events) + 1] = event
      /\ \A i \in 1..Len(events) : events'[i] = events[i]
  BY EventAppend
<1>2. \A d : EventsOn(d)' = {i \in 1..Len(events') : events'[i].cert.domain = d}
  BY DEF EventsOn
<1>3. Len(events) + 1 \in EventsOn(event.cert.domain)'
  BY <1>1, <1>2
<1>4. ASSUME NEW d, NEW j \in EventsOn(d)'
      PROVE  /\ j <= Len(events) + 1
             /\ j <= Len(events) => j \in EventsOn(d)
             /\ d # event.cert.domain => j \in EventsOn(d)
  <2>1. j \in 1..(Len(events) + 1) /\ events'[j].cert.domain = d
    BY <1>1, <1>2, <1>4
  <2> QED
    BY <1>1, <2>1 DEF EventsOn
<1>5. ASSUME NEW d, NEW j \in EventsOn(d)
      PROVE  j \in EventsOn(d)'
  <2>1. j \in 1..Len(events) /\ events[j].cert.domain = d
    BY <1>5 DEF EventsOn
  <2> QED
    BY <1>1, <1>2, <2>1
<1>6. \A d : d # event.cert.domain => EventsOn(d)' = EventsOn(d)
  <2> SUFFICES ASSUME NEW d, d # event.cert.domain
               PROVE  EventsOn(d)' = EventsOn(d)
    OBVIOUS
  <2>1. EventsOn(d)' \subseteq EventsOn(d)
    BY <1>4
  <2>2. EventsOn(d) \subseteq EventsOn(d)'
    BY <1>5
  <2> QED
    BY <2>1, <2>2
<1>7. \A d : EventsOn(d) \subseteq EventsOn(d)'
  BY <1>5
<1>8. \A d : \A j \in EventsOn(d)' :
         j <= Len(events) + 1 /\ (j <= Len(events) => j \in EventsOn(d))
  BY <1>4
<1> QED
  BY <1>3, <1>6, <1>7, <1>8

\* A step and its event keep the events a full account of the storage.
LEMMA EventsStep ==
    ASSUME TypeOK, LatestListing, EventsTellStorage, [Next]_vars
    PROVE  EventsTellStorage'
<1> DEFINE Told(d) == \/ EventsOn(d) = {} /\ ~Registered(d)
                      \/ \E i \in EventsOn(d) :
                            /\ \A j \in EventsOn(d) : j <= i
                            /\ certificateMap[d] = InForceAfter(events[i])
           Chained(i) == events[i].kind = "Modified" =>
                            \E p \in EventsOn(events[i].cert.domain) :
                               /\ p < i
                               /\ InForceAfter(events[p]) = events[i].old
                               /\ \A j \in EventsOn(events[i].cert.domain) :
                                     j <= p \/ i <= j
           n == Len(events)
<1>1. n \in Nat /\ \A d : EventsOn(d) \subseteq 1..n
  BY LenProperties DEF TypeOK, EventsOn
<1>2. ASSUME UNCHANGED <<certificateMap, reverseMap, events>>
      PROVE  EventsTellStorage'
  BY <1>2 DEF EventsTellStorage, EventsOn, Registered, InForceAfter
<1>3. ASSUME NEW event \in Events, events' = Append(events, event),
             NEW d \in Domains, event.cert.domain = d,
             certificateMap' =
                [certificateMap EXCEPT ![d] = InForceAfter(event)],
             event.kind = "Modified" => event.old = certificateMap[d]
                                        /\ Registered(d)
      PROVE  EventsTellStorage'
  <2>1. events'[n + 1] = event /\ \A i \in 1..n : events'[i] = events[i]
    BY <1>3, EventAppend
  <2>2. n + 1 \in EventsOn(d)' /\ \A j \in EventsOn(d)' : j <= n + 1
    BY <1>3, EventsOnAppend
  <2>3. ASSUME NEW e \in Domains
        PROVE  Told(e)'
    <3>1. CASE e = d
      <4>1. certificateMap'[d] = InForceAfter(event)
        BY <1>3 DEF TypeOK
      <4>2. certificateMap'[d] = InForceAfter(events'[n + 1])
        BY <2>1, <4>1
      <4> QED
        BY <2>2, <3>1, <4>2 DEF InForceAfter
    <3>2. CASE e # d
      <4>1. certificateMap'[e] = certificateMap[e]
        BY <1>3, <3>2 DEF TypeOK
      <4>2. EventsOn(e)' = EventsOn(e)
        BY <1>3, <3>2, EventsOnAppend
      <4>3. Told(e)
        BY DEF EventsTellStorage
      <4> QED
        BY <1>1, <2>1, <4>1, <4>2, <4>3 DEF Registered, InForceAfter
    <3> QED
      BY <3>1, <3>2
  <2>4. ASSUME NEW i \in 1..n
        PROVE  Chained(i)'
    <3> SUFFICES ASSUME events[i].kind = "Modified"
                 PROVE  \E p \in EventsOn(events[i].cert.domain)' :
                          /\ p < i
                          /\ InForceAfter(events'[p]) = events[i].old
                          /\ \A j \in EventsOn(events[i].cert.domain)' :
                                j <= p \/ i <= j
      BY <2>1 DEF InForceAfter, EventsOn
    <3> DEFINE e == events[i].cert.domain
    <3>1. PICK p \in EventsOn(e) :
             /\ p < i
             /\ InForceAfter(events[p]) = events[i].old
             /\ \A j \in EventsOn(e) : j <= p \/ i <= j
      BY DEF EventsTellStorage
    <3>2. p \in EventsOn(e)' /\ events'[p] = events[p]
      BY <1>1, <1>3, <2>1, EventsOnAppend
    <3>3. ASSUME NEW j \in EventsOn(e)'
          PROVE  j <= p \/ i <= j
      <4>1. CASE j \in EventsOn(e)
        BY <3>1, <4>1
      <4>2. CASE j \notin EventsOn(e)
        <5>1. ~(j <= n) /\ j <= n + 1
          BY <1>3, <3>3, <4>2, EventsOnAppend
        <5>2. j \in Nat
          BY DEF EventsOn
        <5> QED
          BY <1>1, <5>1, <5>2
      <4> QED
        BY <4>1, <4>2
    <3> QED
      BY <3>1, <3>2, <3>3
  <2>5. ASSUME NEW i, i = n + 1
        PROVE  Chained(i)'
    <3> SUFFICES ASSUME event.kind = "Modified"
                 PROVE  \E p \in EventsOn(d)' :
                          /\ p < n + 1
                          /\ InForceAfter(events'[p]) = event.old
                          /\ \A j \in EventsOn(d)' : j <= p \/ n + 1 <= j
      BY <1>3, <2>1, <2>5 DEF InForceAfter, EventsOn
    <3>1. PICK p \in EventsOn(d) :
             /\ \A j \in EventsOn(d) : j <= p
             /\ certificateMap[d] = InForceAfter(events[p])
      BY <1>3 DEF EventsTellStorage
    <3>2. p \in EventsOn(d)' /\ p < n + 1 /\ events'[p] = events[p]
      BY <1>1, <1>3, <2>1, EventsOnAppend
    <3>3. ASSUME NEW j \in EventsOn(d)'
          PROVE  j <= p \/ n + 1 <= j
      <4>1. j \in Nat
        BY DEF EventsOn
      <4> QED
        BY <1>1, <1>3, <3>1, <3>3, <4>1, EventsOnAppend
    <3> QED
      BY <1>3, <3>1, <3>2, <3>3
  <2>6. Len(events') = n + 1
    BY <1>3, EventAppend
  <2>7. ASSUME NEW i \in 1..Len(events')
        PROVE  Chained(i)'
    <3>1. i \in 1..n \/ i = n + 1
      BY <1>1, <2>6
    <3> HIDE DEF Chained
    <3> QED
      BY <2>4, <2>5, <3>1
  <2> QED
    BY <2>3, <2>7 DEF EventsTellStorage
<1>4. ASSUME NEW c \in Certificates
      PROVE  c.domain \in Domains /\ c.owner \in Accounts
  BY ValidFields DEF Certificates
<1>5. ASSUME NEW new \in Certificates, Registers(new)
      PROVE  EventsTellStorage'
  <2> DEFINE event == [kind |-> "Registered", cert |-> new, who |-> new.owner]
  <2>1. /\ event \in Events /\ InForceAfter(event) = new
        /\ event.cert.domain = new.domain /\ event.kind # "Modified"
        /\ events' = Append(events, event)
    BY <1>4, <1>5 DEF Registers, Announces, Events, InForceAfter
  <2> HIDE DEF event
  <2> QED
    BY <1>3, <1>4, <1>5, <2>1 DEF Registers
<1>6. ASSUME NEW new \in Certificates, Modifies(new)
      PROVE  EventsTellStorage'
  <2> DEFINE event == [kind |-> "Modified", cert |-> new,
                       old |-> certificateMap[new.domain], who |-> new.owner]
  <2>1. /\ event \in Events /\ InForceAfter(event) = new
        /\ event.cert.domain = new.domain
        /\ event.old = certificateMap[new.domain]
        /\ events' = Append(events, event)
    BY <1>4, <1>6 DEF Modifies, Events, InForceAfter
  <2>2. Registered(new.domain)
    BY <1>6, AbsentIsNoCertificate DEF Modifies, Registered
  <2> HIDE DEF event
  <2> QED
    BY <1>3, <1>4, <1>6, <2>1, <2>2 DEF Modifies
<1>7. ASSUME NEW d \in Domains, Removes(d)
      PROVE  EventsTellStorage'
  <2> DEFINE old == certificateMap[d]
             event == [kind |-> "Removed", cert |-> old, who |-> old.owner]
  <2>1. old \in Certificates /\ old.domain = d
    BY <1>7, AbsentIsNoCertificate
       DEF Removes, LatestListing, Registered, Latest, EntriesOf
  <2>2. /\ event \in Events /\ InForceAfter(event) = Absent
        /\ event.cert.domain = d /\ event.kind # "Modified"
        /\ events' = Append(events, event)
    BY <1>4, <1>7, <2>1 DEF Removes, Announces, Events, InForceAfter
  <2> HIDE DEF event
  <2> QED
    BY <1>3, <1>7, <2>2 DEF Removes
<1> QED
  BY <1>2, <1>5, <1>6, <1>7, Effects

\* Whoever follows the events, and keeps the last one per domain, knows the
\* storage; and each Modified event names as old what was in force before it.
THEOREM EventsTellStorageHolds == Spec => []EventsTellStorage
<1>1. Init => EventsTellStorage
  BY EmptySeq DEF Init, EventsTellStorage, EventsOn, Registered
<1> QED
  BY <1>1, EventsStep, TypeCorrect, LatestListingHolds, PTL DEF Spec

-----------------------------------------------------------------------------
(* What a step may never do *)

\* Only the owner changes a registered domain's certificate, and never hands
\* it to another account.
THEOREM OwnerControlsHolds == Spec => OwnerControls
<1> DEFINE Controlled ==
        \A d \in Domains :
          Registered(d) /\ certificateMap'[d] # certificateMap[d] =>
            /\ Len(events') = Len(events) + 1
            /\ events'[Len(events')].who = certificateMap[d].owner
            /\ Registered(d)' =>
                  certificateMap'[d].owner = certificateMap[d].owner
<1>1. ASSUME TypeOK, [Next]_vars
      PROVE  [Controlled]_vars
  <2> SUFFICES ASSUME NEW d \in Domains, Registered(d),
                      certificateMap'[d] # certificateMap[d]
               PROVE  /\ Len(events') = Len(events) + 1
                      /\ events'[Len(events')].who = certificateMap[d].owner
                      /\ Registered(d)' =>
                           certificateMap'[d].owner = certificateMap[d].owner
    OBVIOUS
  <2>1. certificateMap[d] \in Certificates
    BY <1>1 DEF Registered, TypeOK
  <2>2. ASSUME NEW event, events' = Append(events, event)
        PROVE  Len(events') = Len(events) + 1 /\ events'[Len(events')] = event
    BY <1>1, <2>2 DEF TypeOK
  <2>3. ASSUME NEW new \in Certificates, Registers(new)
        PROVE  FALSE
    BY <1>1, <2>3 DEF Registers, Registered, TypeOK
  <2>4. ASSUME NEW new \in Certificates, Modifies(new)
        PROVE  /\ Len(events') = Len(events) + 1
               /\ events'[Len(events')].who = certificateMap[d].owner
               /\ certificateMap'[d].owner = certificateMap[d].owner
    <3>1. new.domain = d /\ certificateMap'[d] = new
      BY <1>1, <2>4 DEF Modifies, TypeOK
    <3> QED
      BY <2>2, <2>4, <3>1 DEF Modifies
  <2>5. ASSUME NEW e \in Domains, Removes(e)
        PROVE  /\ Len(events') = Len(events) + 1
               /\ events'[Len(events')].who = certificateMap[d].owner
               /\ ~Registered(d)'
    <3>1. e = d /\ certificateMap'[d] = Absent
      BY <1>1, <2>5 DEF Removes, TypeOK
    <3> QED
      BY <2>2, <2>5, <3>1 DEF Removes, Announces, Registered
  <2> QED
    BY <1>1, <2>3, <2>4, <2>5, Effects
<1> QED
  BY <1>1, TypeCorrect, PTL DEF Spec, OwnerControls

\* Filtering out a domain twice, or after an entry of it was pushed, gives no
\* more than filtering it out once.
LEMMA RetainTwice ==
    ASSUME NEW certs \in Seq(Certificates), NEW d
    PROVE  Retain(Retain(certs, d), d) = Retain(certs, d)
<1> DEFINE kept == Retain(certs, d)
<1>1. kept \in Seq(Certificates)
  BY RetainKeeps
<1>2. \A k \in 1..Len(kept) : kept[k].domain # d
  BY RetainFrom
<1>3. Kept(kept, d) = 1..Len(kept)
  BY <1>2 DEF Kept
<1> HIDE DEF kept
<1>4. EntriesAt(kept, Kept(kept, d)) = kept
  BY <1>1, <1>3, EntriesAll
<1> QED
  BY <1>4 DEF Retain, kept

LEMMA RetainAppended ==
    ASSUME NEW certs \in Seq(Certificates), NEW cert \in Certificates
    PROVE  Retain(Append(certs, cert), cert.domain) =
           Retain(certs, cert.domain)
<1> DEFINE d == cert.domain
           longer == Append(certs, cert)
           S == Kept(certs, d)
           kept == EntriesAt(certs, S)
           same == EntriesAt(longer, S)
<1>1. /\ longer \in Seq(Certificates) /\ Len(longer) = Len(certs) + 1
      /\ Len(certs) \in Nat /\ longer[Len(certs) + 1] = cert
      /\ \A i \in 1..Len(certs) : longer[i] = certs[i]
  BY AppendProperties, LenProperties
<1>2. Kept(longer, d) = S /\ S \in SUBSET (1..Len(certs))
  BY <1>1 DEF Kept
<1>3. S \in SUBSET (1..Len(longer))
  BY <1>1, <1>2
<1> HIDE DEF longer, S
<1>4. /\ kept \in Seq(Certificates) /\ Len(kept) = Cardinality(S)
      /\ Cardinality(S) \in Nat
      /\ \A k \in 1..Cardinality(S) : \E i \in S : RankIn(S, i) = k
      /\ \A i \in S : kept[RankIn(S, i)] = certs[i]
  BY <1>2, EntriesKept
<1>5. /\ same \in Seq(Certificates) /\ Len(same) = Cardinality(S)
      /\ \A i \in S : same[RankIn(S, i)] = longer[i]
  BY <1>1, <1>3, EntriesKept
<1>6. \A k \in 1..Cardinality(S) : same[k] = kept[k]
  BY <1>1, <1>2, <1>4, <1>5
<1> HIDE DEF kept, same
<1>7. same = kept
  BY <1>4, <1>5, <1>6, SeqEqual
<1> QED
  BY <1>2, <1>7 DEF Retain, same, kept, longer, S

\* What a step does to the listings of other domains: nothing.
LEMMA OthersStep ==
    ASSUME TypeOK, [Next]_vars
    PROVE  \/ UNCHANGED reverseMap
           \/ \E d \in Domains : \A ip \in Ips :
                 Retain(reverseMap'[ip], d) = Retain(reverseMap[ip], d)
<1>1. reverseMap \in [Ips -> Seq(Certificates)]
  BY DEF TypeOK
<1>2. ASSUME NEW cert \in Certificates, Registers(cert), NEW ip \in Ips
      PROVE  Retain(reverseMap'[ip], cert.domain) =
             Retain(reverseMap[ip], cert.domain)
  BY <1>1, <1>2, RetainAppended DEF Registers
<1>3. ASSUME NEW cert \in Certificates, Modifies(cert), NEW ip \in Ips
      PROVE  Retain(reverseMap'[ip], cert.domain) =
             Retain(reverseMap[ip], cert.domain)
  <2>1. CASE ip = cert.ip
    <3> DEFINE kept == Retain(reverseMap[ip], cert.domain)
    <3>1. kept \in Seq(Certificates)
      BY <1>1, RetainKeeps
    <3>2. reverseMap'[ip] = Append(kept, cert)
      BY <1>1, <1>3, <2>1 DEF Modifies
    <3>3. Retain(kept, cert.domain) = kept
      BY <1>1, RetainTwice
    <3> HIDE DEF kept
    <3>4. Retain(Append(kept, cert), cert.domain) = Retain(kept, cert.domain)
      BY <3>1, RetainAppended
    <3> QED
      BY <3>2, <3>3, <3>4 DEF kept
  <2>2. CASE ip # cert.ip
    BY <1>1, <1>3, <2>2 DEF Modifies
  <2> QED
    BY <2>1, <2>2
<1>4. ASSUME NEW d \in Domains, Removes(d), NEW ip \in Ips
      PROVE  Retain(reverseMap'[ip], d) = Retain(reverseMap[ip], d)
  <2>1. \/ reverseMap'[ip] = reverseMap[ip]
        \/ reverseMap'[ip] = Retain(reverseMap[ip], d)
    BY <1>1, <1>4 DEF Removes
  <2> QED
    BY <1>1, <2>1, RetainTwice
<1>5. \A cert \in Certificates : cert.domain \in Domains
  BY ValidFields DEF Certificates
<1> QED
  BY <1>2, <1>3, <1>4, <1>5, Effects

\* A call on one domain leaves the listings of all others alone.
THEOREM OthersKeepListingsHolds == Spec => OthersKeepListings
<1>1. ASSUME TypeOK, Next
      PROVE  \E d \in Domains : \A ip \in Ips :
                 LET OfOthers(certs) == EntriesAt(certs, Kept(certs, d))
                 IN  OfOthers(reverseMap'[ip]) = OfOthers(reverseMap[ip])
  <2>1. Domains # {}
    BY <1>1 DEF Next, Submissions
  <2> QED
    BY <1>1, <2>1, OthersStep DEF Retain
<1>2. TypeOK /\ [Next]_vars =>
        [\E d \in Domains : \A ip \in Ips :
            LET OfOthers(certs) == EntriesAt(certs, Kept(certs, d))
            IN  OfOthers(reverseMap'[ip]) = OfOthers(reverseMap[ip])]_vars
  BY <1>1
<1> QED
  BY TypeCorrect, <1>2, PTL DEF Spec, OthersKeepListings

\* A removal leaves no entry of the domain at the address its certificate named.
THEOREM RemovalUnlistsHolds == Spec => RemovalUnlists
<1> DEFINE Unlisted ==
        \A d \in Domains : Registered(d) /\ ~Registered(d)' =>
          EntriesOf(reverseMap'[certificateMap[d].ip], d) = {}
<1>1. ASSUME TypeOK, [Next]_vars
      PROVE  [Unlisted]_vars
  <2> SUFFICES ASSUME NEW d \in Domains, Registered(d), ~Registered(d)'
               PROVE  EntriesOf(reverseMap'[certificateMap[d].ip], d) = {}
    OBVIOUS
  <2> DEFINE ip == certificateMap[d].ip
  <2>1. ip \in Ips /\ reverseMap[ip] \in Seq(Certificates)
    BY <1>1, ValidFields DEF Registered, TypeOK, Certificates
  <2>2. ASSUME NEW new \in Certificates, Registers(new) \/ Modifies(new)
        PROVE  FALSE
    BY <1>1, <2>2, AbsentIsNoCertificate
       DEF Registers, Modifies, Registered, TypeOK
  <2>3. PICK e \in Domains : Removes(e)
    BY <1>1, <2>2, Effects DEF Registered
  <2>4. e = d
    BY <1>1, <2>3 DEF Removes, Registered, TypeOK
  <2>5. reverseMap'[ip] = Retain(reverseMap[ip], d)
    BY <1>1, <2>1, <2>3, <2>4 DEF Removes, TypeOK
  <2> QED
    BY <2>1, <2>5, RetainFrom DEF EntriesOf
<1> QED
  BY <1>1, TypeCorrect, PTL DEF Spec, RemovalUnlists

-----------------------------------------------------------------------------
(* The registry is a name service *)

\* A step of the registry is a step of the name service or leaves it alone.
LEMMA ServiceStep ==
    ASSUME TypeOK, LatestListing, [Next]_vars
    PROVE  [Service!ServiceNext]_holdings
<1> DEFINE Bound == [name : ValidNames, ip : ValidIps,
                     info : ValidInfos, key : ValidKeys]
<1>1. ASSUME NEW c \in Certificates
      PROVE  /\ HoldingOf(c) = [holder |-> c.owner, binding |-> BindingOf(c)]
             /\ HoldingOf(c) # Absent
             /\ BindingOf(c) \in Bound
             /\ c.owner \in Accounts
             /\ c.domain \in Domains
  <2>1. c # Absent /\ c.owner \in Accounts /\ BindingOf(c) \in Bound
    BY AbsentIsNoCertificate DEF Certificates, BindingOf
  <2>2. HoldingOf(c) = [holder |-> c.owner, binding |-> BindingOf(c)]
    BY <2>1 DEF HoldingOf
  <2> QED
    BY <2>1, <2>2, AbsentIsNoHolding, ValidFields DEF Certificates
<1>2. HoldingOf(Absent) = Absent
  BY DEF HoldingOf
<1>3. ASSUME NEW d \in Domains, NEW entry,
             certificateMap' = [certificateMap EXCEPT ![d] = entry]
      PROVE  holdings' = [holdings EXCEPT ![d] = HoldingOf(entry)]
  BY <1>3 DEF holdings, TypeOK
<1>4. CASE UNCHANGED <<certificateMap, reverseMap, events>>
  BY <1>4 DEF holdings
<1>5. ASSUME NEW new \in Certificates, Registers(new)
      PROVE  Service!ServiceNext
  <2>1. holdings[new.domain] = Absent
    BY <1>1, <1>2, <1>5 DEF Registers, holdings
  <2>2. holdings' = [holdings EXCEPT ![new.domain] =
                        Service!Holding(new.owner, BindingOf(new))]
    BY <1>1, <1>3, <1>5 DEF Registers, Service!Holding
  <2>3. Service!Claim(new.owner, new.domain, BindingOf(new))
    BY <2>1, <2>2 DEF Service!Claim
  <2> QED
    BY <1>1, <2>3 DEF Service!ServiceNext
<1>6. ASSUME NEW new \in Certificates, Modifies(new)
      PROVE  Service!ServiceNext
  <2> DEFINE old == certificateMap[new.domain]
  <2>1. old \in Certificates /\ old.owner = new.owner /\ old # new
    BY <1>6 DEF Modifies
  <2>2. old.domain = new.domain
    BY <1>1, <2>1, AbsentIsNoCertificate
       DEF LatestListing, Registered, Latest, EntriesOf
  <2>3. BindingOf(old) # BindingOf(new)
    BY <2>1, <2>2 DEF Certificates, BindingOf
  <2>4. holdings[new.domain] = HoldingOf(old)
    BY <1>1 DEF holdings
  <2>5. /\ holdings[new.domain] # Absent
        /\ holdings[new.domain].holder = new.owner
        /\ holdings[new.domain].binding # BindingOf(new)
    BY <1>1, <2>1, <2>3, <2>4
  <2>6. holdings' = [holdings EXCEPT ![new.domain] =
                        Service!Holding(new.owner, BindingOf(new))]
    BY <1>1, <1>3, <1>6 DEF Modifies, Service!Holding
  <2>7. Service!Rebind(new.owner, new.domain, BindingOf(new))
    BY <2>5, <2>6 DEF Service!Rebind
  <2> QED
    BY <1>1, <2>7 DEF Service!ServiceNext
<1>7. ASSUME NEW d \in Domains, Removes(d)
      PROVE  Service!ServiceNext
  <2> DEFINE old == certificateMap[d]
  <2>1. old \in Certificates
    BY <1>7 DEF Removes
  <2>2. holdings[d] = HoldingOf(old)
    BY DEF holdings
  <2>3. holdings[d] # Absent /\ holdings[d].holder = old.owner
    BY <1>1, <2>1, <2>2
  <2>4. holdings' = [holdings EXCEPT ![d] = Absent]
    BY <1>2, <1>3, <1>7 DEF Removes
  <2>5. Service!Release(old.owner, d)
    BY <2>3, <2>4 DEF Service!Release
  <2> QED
    BY <1>1, <2>1, <2>5 DEF Service!ServiceNext
<1> QED
  BY <1>4, <1>5, <1>6, <1>7, Effects

\* Every behaviour of the registry is one of the name service: first come,
\* first served, rebound and released by the holder only.
THEOREM RegistryImplementsService == Spec => ImplementsService
<1>1. Init => Service!ServiceInit
  BY DEF Init, Service!ServiceInit, holdings, HoldingOf
<1>2. TypeOK /\ LatestListing /\ [Next]_vars => [Service!ServiceNext]_holdings
  BY ServiceStep
<1> QED
  BY <1>1, <1>2, TypeCorrect, LatestListingHolds, PTL
     DEF Spec, ImplementsService, Service!ServiceSpec

=============================================================================
