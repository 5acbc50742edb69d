---------------------------- MODULE CertRegistry ----------------------------
(***************************************************************************)
(* The SIIP pallet (node/pallets/siip/src/lib.rs): the certificates, keyed *)
(* by domain, the reverse lookup table, keyed by IP address, and the three *)
(* calls that change both.  A field of a certificate is an opaque value;   *)
(* what check_name, check_domain, check_ip, check_info and check_key       *)
(* accept is a subset of the values a caller may submit.                   *)
(***************************************************************************)
EXTENDS Naturals, Filtering

CONSTANTS
    Accounts,       \* account ids that can sign an extrinsic
    Unsigned,       \* an origin that is no account: Origin::none or root
    Names, ValidNames,
    Domains, ValidDomains,
    Ips, ValidIps,
    Infos, ValidInfos,
    Keys, ValidKeys,
    Absent,         \* what certificateMap holds for a domain with no entry
    MaxEvents       \* bound: successful calls in a behaviour

ASSUME ValidFields ==
    /\ ValidNames \subseteq Names
    /\ ValidDomains \subseteq Domains
    /\ ValidIps \subseteq Ips
    /\ ValidInfos \subseteq Infos
    /\ ValidKeys \subseteq Keys

\* struct Certificate; version_number is always CERTIFICATE_VERSION in a
\* stored certificate and is left out.
Certificates == [owner : Accounts, name : ValidNames, domain : ValidDomains,
                 ip : ValidIps, info : ValidInfos, key : ValidKeys]

ASSUME AbsentIsNoCertificate == Absent \notin Certificates
ASSUME AbsentIsNoHolding ==
    Absent \notin [holder : Accounts,
                   binding : [name : ValidNames, ip : ValidIps,
                              info : ValidInfos, key : ValidKeys]]
ASSUME UnsignedIsNoAccount == Unsigned \notin Accounts
ASSUME MaxEventsIsNat == MaxEvents \in Nat

Origins == Accounts \cup {Unsigned}

\* The arguments of register_certificate and modify_certificate.
Submissions == [name : Names, domain : Domains, ip : Ips,
                info : Infos, key : Keys]

\* CertificateRegistered, CertificateModified and CertificateRemoved.
Events ==
    [kind : {"Registered"}, cert : Certificates, who : Accounts]
      \cup
    [kind : {"Modified"}, cert : Certificates, old : Certificates,
     who : Accounts]
      \cup
    [kind : {"Removed"}, cert : Certificates, who : Accounts]

Ok == "Ok"

Errors == {"BadOrigin", "InvalidOwner", "InvalidDomain", "InvalidIP",
           "InvalidInfo", "InvalidKey", "DomainAlreadyTaken",
           "NonexistentDomain", "DifferentOwner", "NoModifications"}

VARIABLES
    certificateMap,  \* storage CertificateMap: domain -> certificate
    reverseMap,      \* storage ReverseMap: ip -> Vec of certificates
    events,          \* every event deposited so far, oldest first
    result           \* DispatchResult of the last call

vars == <<certificateMap, reverseMap, events, result>>

TypeOK ==
    /\ certificateMap \in [Domains -> Certificates \cup {Absent}]
    /\ reverseMap \in [Ips -> Seq(Certificates)]
    /\ events \in Seq(Events)
    /\ result \in Errors \cup {Ok}

Init ==
    /\ certificateMap = [d \in Domains |-> Absent]
    /\ reverseMap = [ip \in Ips |-> <<>>]
    /\ events = <<>>
    /\ result = Ok

-----------------------------------------------------------------------------
(* Helpers of the calls *)

\* CertificateMap::contains_key
Registered(d) == certificateMap[d] # Absent

\* Mutant: the two certificates of CertificateModified swapped.
ModifiedSwapped(cert, old, sender) ==
    [kind |-> "Modified", cert |-> old, old |-> cert, who |-> sender]

Modified(cert, old, sender) ==
    [kind |-> "Modified", cert |-> cert, old |-> old, who |-> sender]

\* The certificate the sender's arguments make.
NewCertificate(sender, s) ==
    [owner |-> sender, name |-> s.name, domain |-> s.domain,
     ip |-> s.ip, info |-> s.info, key |-> s.key]

\* certs.retain(|x| x.domain != domain): the entries of other domains in
\* their old order.
Kept(certs, d) == {i \in 1..Len(certs) : certs[i].domain # d}

\* Mutant: the predicate of retain the wrong way round.
RetainOnlyDomain(certs, d) ==
    EntriesAt(certs, {i \in 1..Len(certs) : certs[i].domain = d})

\* Mutant: every entry goes, the list is rebuilt from the pushed one alone.
RetainNothing(certs, d) == <<>>

\* Mutant: only the first entry of the domain goes, as if it had no other.
RetainButFirst(certs, d) ==
    EntriesAt(certs, {i \in 1..Len(certs) :
        certs[i].domain = d => \E j \in 1..(i - 1) : certs[j].domain = d})

Retain(certs, d) == EntriesAt(certs, Kept(certs, d))

\* Mutant: check_ip forgotten.
FieldErrorButIp(s) ==
    IF s.name \notin ValidNames THEN "InvalidOwner"
    ELSE IF s.domain \notin ValidDomains THEN "InvalidDomain"
    ELSE IF s.info \notin ValidInfos THEN "InvalidInfo"
    ELSE IF s.key \notin ValidKeys THEN "InvalidKey"
    ELSE Ok

\* The ensure! chain on the arguments, in the order of the code.
FieldError(s) ==
    IF s.name \notin ValidNames THEN "InvalidOwner"
    ELSE IF s.domain \notin ValidDomains THEN "InvalidDomain"
    ELSE IF s.ip \notin ValidIps THEN "InvalidIP"
    ELSE IF s.info \notin ValidInfos THEN "InvalidInfo"
    ELSE IF s.key \notin ValidKeys THEN "InvalidKey"
    ELSE Ok

\* The first check of register_certificate that fails, Ok if none does.
RegisterResult(origin, s) ==
    IF origin \notin Accounts THEN "BadOrigin"
    ELSE IF FieldError(s) # Ok THEN FieldError(s)
    ELSE IF Registered(s.domain) THEN "DomainAlreadyTaken"
    ELSE Ok

\* Mutant: modify_certificate without the owner check.
ModifyResultAnyOwner(origin, s) ==
    IF origin \notin Accounts THEN "BadOrigin"
    ELSE IF FieldError(s) # Ok THEN FieldError(s)
    ELSE IF ~Registered(s.domain) THEN "NonexistentDomain"
    ELSE IF certificateMap[s.domain] = NewCertificate(origin, s)
         THEN "NoModifications"
    ELSE Ok

\* The same for modify_certificate ...
ModifyResult(origin, s) ==
    IF origin \notin Accounts THEN "BadOrigin"
    ELSE IF FieldError(s) # Ok THEN FieldError(s)
    ELSE IF ~Registered(s.domain) THEN "NonexistentDomain"
    ELSE IF certificateMap[s.domain].owner # origin THEN "DifferentOwner"
    ELSE IF certificateMap[s.domain] = NewCertificate(origin, s)
         THEN "NoModifications"
    ELSE Ok

\* Mutant: remove_certificate without the owner check.
RemoveResultAnyOwner(origin, d) ==
    IF origin \notin Accounts THEN "BadOrigin"
    ELSE IF d \notin ValidDomains THEN "InvalidDomain"
    ELSE IF ~Registered(d) THEN "NonexistentDomain"
    ELSE Ok

\* ... and for remove_certificate.
RemoveResult(origin, d) ==
    IF origin \notin Accounts THEN "BadOrigin"
    ELSE IF d \notin ValidDomains THEN "InvalidDomain"
    ELSE IF ~Registered(d) THEN "NonexistentDomain"
    ELSE IF certificateMap[d].owner # origin THEN "DifferentOwner"
    ELSE Ok

-----------------------------------------------------------------------------
(* The calls *)

\* An early return: nothing is written, the error is the dispatch result.
Fail(error) ==
    /\ error # Ok
    /\ result' = error
    /\ UNCHANGED <<certificateMap, reverseMap, events>>

\* Mutant: only register_certificate deposits its event.
DepositRegisteredOnly(event) ==
    /\ Len(events) < MaxEvents
    /\ events' = IF event.kind = "Registered" THEN Append(events, event)
                 ELSE events

Deposit(event) ==
    /\ Len(events) < MaxEvents
    /\ events' = Append(events, event)

Register(origin, s) ==
    \/ Fail(RegisterResult(origin, s))
    \/ /\ RegisterResult(origin, s) = Ok
       /\ LET cert == NewCertificate(origin, s) IN
          /\ certificateMap' = [certificateMap EXCEPT ![s.domain] = cert]
          /\ reverseMap' =
                [reverseMap EXCEPT ![s.ip] = Append(reverseMap[s.ip], cert)]
          /\ Deposit([kind |-> "Registered", cert |-> cert, who |-> origin])
       /\ result' = Ok

Modify(origin, s) ==
    \/ Fail(ModifyResult(origin, s))
    \/ /\ ModifyResult(origin, s) = Ok
       /\ LET cert == NewCertificate(origin, s) IN
          /\ certificateMap' = [certificateMap EXCEPT ![s.domain] = cert]
          /\ reverseMap' =
                [reverseMap EXCEPT ![s.ip] =
                    Append(Retain(reverseMap[s.ip], s.domain), cert)]
          /\ Deposit(Modified(cert, certificateMap[s.domain], origin))
       /\ result' = Ok

Remove(origin, d) ==
    \/ Fail(RemoveResult(origin, d))
    \/ /\ RemoveResult(origin, d) = Ok
       /\ LET old == certificateMap[d] IN
          /\ certificateMap' = [certificateMap EXCEPT ![d] = Absent]
          /\ reverseMap' =
                [reverseMap EXCEPT ![old.ip] = Retain(reverseMap[old.ip], d)]
          /\ Deposit([kind |-> "Removed", cert |-> old, who |-> origin])
       /\ result' = Ok

Next ==
    \E origin \in Origins :
        \/ \E s \in Submissions : Register(origin, s)
        \/ \E s \in Submissions : Modify(origin, s)
        \/ \E d \in Domains : Remove(origin, d)

Spec == Init /\ [][Next]_vars

-----------------------------------------------------------------------------
(* Properties *)

\* Entries of a reverse list that belong to domain d.
EntriesOf(certs, d) == {i \in 1..Len(certs) : certs[i].domain = d}

\* The last entry of domain d in the list is cert.
Latest(certs, d, cert) ==
    \E i \in EntriesOf(certs, d) :
        /\ certs[i] = cert
        /\ \A j \in EntriesOf(certs, d) : j <= i

\* Reverse lookup finds every live certificate: a registered domain is listed
\* under the address its certificate names, and the last of its entries there
\* is that certificate, whatever older entries register_certificate (which
\* pushes without a retain) and modify_certificate (which cleans only the new
\* address) have left behind.
LatestListing ==
    \A d \in Domains : Registered(d) =>
        Latest(reverseMap[certificateMap[d].ip], d, certificateMap[d])

\* The certificate an event leaves in force for its domain.
InForceAfter(event) == IF event.kind = "Removed" THEN Absent ELSE event.cert

EventsOn(d) == {i \in 1..Len(events) : events[i].cert.domain = d}

\* The events tell the whole story: whoever follows them (the UI's event
\* list, an indexer) and keeps the last one per domain knows the storage,
\* and a Modified event names as old what its predecessor left in force.
EventsTellStorage ==
    /\ \A d \in Domains :
        \/ EventsOn(d) = {} /\ ~Registered(d)
        \/ \E i \in EventsOn(d) :
              /\ \A j \in EventsOn(d) : j <= i
              /\ certificateMap[d] = InForceAfter(events[i])
    /\ \A i \in 1..Len(events) : events[i].kind = "Modified" =>
          \E p \in EventsOn(events[i].cert.domain) :
              /\ p < i
              /\ InForceAfter(events[p]) = events[i].old
              /\ \A j \in EventsOn(events[i].cert.domain) : j <= p \/ i <= j

\* No listing is made up or misfiled: an entry of the reverse table is filed
\* under its own address and was once announced as in force by an event.
ListingsWereAnnounced ==
    \A ip \in Ips : \A i \in 1..Len(reverseMap[ip]) :
        /\ reverseMap[ip][i].ip = ip
        /\ \E e \in 1..Len(events) :
              InForceAfter(events[e]) = reverseMap[ip][i]

\* After remove_certificate no address lists the domain any more
\* (lib.rs:445, "Deletes the certificate from the reverse lookup map").
\* modify_certificate retains and pushes only at the new address, so an entry
\* at an earlier address outlives the removal.
RevokedNotListed ==
    \A d \in Domains : ~Registered(d) =>
        \A ip \in Ips : EntriesOf(reverseMap[ip], d) = {}

\* Only the owner of a registered domain changes its certificate, through a
\* call the new event attributes to that owner, and a call that leaves the
\* domain registered leaves it with the same owner.
OwnerControls ==
    [][\A d \in Domains :
          Registered(d) /\ certificateMap'[d] # certificateMap[d] =>
            /\ Len(events') = Len(events) + 1
            /\ events'[Len(events')].who = certificateMap[d].owner
            /\ Registered(d)' =>
                  certificateMap'[d].owner = certificateMap[d].owner]_vars

\* A call on one domain leaves the listings of every other domain, at every
\* address, as they are and in the same order.
OthersKeepListings ==
    [][\E d \in Domains : \A ip \in Ips :
          LET OfOthers(certs) == EntriesAt(certs, Kept(certs, d))
          IN  OfOthers(reverseMap'[ip]) = OfOthers(reverseMap[ip])]_vars

\* remove_certificate ends every listing of the domain at the address its
\* certificate names.
RemovalUnlists ==
    [][\A d \in Domains : Registered(d) /\ ~Registered(d)' =>
          EntriesOf(reverseMap'[certificateMap[d].ip], d) = {}]_vars

-----------------------------------------------------------------------------
(* The service the registry implements *)

BindingOf(cert) ==
    [name |-> cert.name, ip |-> cert.ip, info |-> cert.info, key |-> cert.key]

\* Who holds each domain and what it is bound to, read off the storage.
HoldingOf(entry) ==
    IF entry = Absent THEN Absent
    ELSE [holder |-> entry.owner, binding |-> BindingOf(entry)]

holdings == [d \in Domains |-> HoldingOf(certificateMap[d])]

Service == INSTANCE NameService WITH
    Holders <- Accounts,
    NameSet <- Domains,
    Bindings <- [name : ValidNames, ip : ValidIps,
                 info : ValidInfos, key : ValidKeys],
    Free <- Absent,
    holding <- holdings

\* Whatever the calls, their order and their senders, the registry is a name
\* service: first come first served, rebound and released by the holder only.
ImplementsService == Service!ServiceSpec

=============================================================================
