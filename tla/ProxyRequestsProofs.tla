------------------------ MODULE ProxyRequestsProofs -------------------------
(***************************************************************************)
(* The safety of the proxy's requests, which the runs check of two threads *)
(* on one domain, proved for any number of threads, domains and keys, with *)
(* or without each of the flags.                                           *)
(***************************************************************************)
EXTENDS ProxyRequests, TLAPS

\* Who else is there when a thread takes a step: all but the local state of t.
Others(t) ==
    \A u \in Threads \ {t} :
        /\ pc'[u] = pc[u] /\ domain'[u] = domain[u]
        /\ cert'[u] = cert[u] /\ via'[u] = via[u] /\ answer'[u] = answer[u]

\* The steps of everything but the threads.
World ==
    \/ Include
    \/ \E d \in Domains : \/ \E key \in Keys : Publish(d, key)
                          \/ \E key \in ServerKeys : Rekey(d, key)
    \/ RedisLoses

\* The steps of a thread.
Step(t) ==
    \/ \E k \in {"tunnel", "http"}, d \in Domains : Accept(t, k, d)
    \/ Steps(t) \/ Finish(t)

\* A step is one of the world or of one thread.
LEMMA NextIsSteps == Next <=> World \/ \E t \in Threads : Step(t)
  BY DEF Next, World, Step

-----------------------------------------------------------------------------
(* Types *)

\* A key that is to be registered has been presented by a server.
ScrapeInv == \A t \in Threads : pc[t] = "scrape" => cert[t] \in ServerKeys

\* The histories keep their types whatever is done.
LEMMA WatchTypes ==
    ASSUME TypeOK, Watch, holding' \in [Domains -> {Absent} \cup Chain!Holdings]
    PROVE  /\ published' \in [Domains -> SUBSET Keys]
           /\ clash' \in [Threads -> BOOLEAN]
           /\ unlisted' \in [Threads -> BOOLEAN]
<1>1. ASSUME NEW d \in Domains, holding'[d] # Absent
      PROVE  holding'[d].binding \in Keys
  BY <1>1 DEF Chain!Holdings
<1>2. \A d \in Domains : published[d] \subseteq Keys
  BY DEF TypeOK
<1>3. \A d \in Domains :
         (IF holding'[d] = Absent THEN published[d]
          ELSE published[d] \cup {holding'[d].binding}) \subseteq Keys
  BY <1>1, <1>2
<1>4. published' \in [Domains -> SUBSET Keys]
  BY <1>3 DEF Watch
<1>5. \A t \in Threads : clash[t] \in BOOLEAN /\ unlisted[t] \in BOOLEAN
  BY DEF TypeOK
<1>6. clash' \in [Threads -> BOOLEAN] /\ unlisted' \in [Threads -> BOOLEAN]
  BY <1>5 DEF Watch
<1>7. QED
  BY <1>4, <1>6

\* What owners and blocks do to the chain.
LEMMA ChainTypes ==
    ASSUME TypeOK, World
    PROVE  holding' \in [Domains -> {Absent} \cup Chain!Holdings]
<1>1. \A h \in {"owner", "Alice"}, key \in Keys : Chain!Holding(h, key) \in Chain!Holdings
  BY DEF Chain!Holding, Chain!Holdings
<1>2. \A d \in Domains, v \in {Absent} \cup Chain!Holdings :
         [holding EXCEPT ![d] = v] \in [Domains -> {Absent} \cup Chain!Holdings]
  BY DEF TypeOK
<1>3. CASE Include
  <2>1. pending.domain \in Domains /\ pending.key \in Keys
    BY <1>3 DEF TypeOK, Include, ServerKeys
  <2>2. CASE UNCHANGED holding
    BY <2>2 DEF TypeOK
  <2>3. CASE Chain!Claim("Alice", pending.domain, pending.key)
    BY <1>1, <1>2, <2>1, <2>3 DEF Chain!Claim
  <2>4. QED
    BY <1>3, <2>2, <2>3 DEF Include
<1>4. ASSUME NEW d \in Domains, NEW key \in Keys, Publish(d, key)
      PROVE  holding' \in [Domains -> {Absent} \cup Chain!Holdings]
  BY <1>1, <1>2, <1>4 DEF Publish, Chain!Claim, Chain!Rebind, Chain!Release
<1>5. CASE UNCHANGED holding
  BY <1>5 DEF TypeOK
<1>6. QED
  BY <1>3, <1>4, <1>5 DEF World, Rekey, RedisLoses

\* The steps of the world keep the types.
LEMMA WorldTypes ==
    ASSUME TypeOK, ScrapeInv, World
    PROVE  TypeOK' /\ ScrapeInv'
<1>1. holding' \in [Domains -> {Absent} \cup Chain!Holdings]
  BY ChainTypes
<1>2. UNCHANGED local /\ Watch
  BY DEF World, Include, Publish, Rekey, RedisLoses
<1>3. site' \in [Domains -> ServerKeys]
  BY DEF World, Include, Publish, Rekey, RedisLoses, TypeOK
<1>4. cache' \in [Domains -> ServerKeys \cup {Absent}]
  <2>1. UNCHANGED cache \/ cache' = [d \in Domains |-> Absent]
    BY DEF World, Include, Publish, Rekey, RedisLoses
  <2>2. QED
    BY <2>1 DEF TypeOK
<1>5. pending' \in [domain : Domains, key : ServerKeys] \cup {NoTx}
  BY DEF World, Include, Publish, Rekey, RedisLoses, TypeOK
<1>7. QED
  BY <1>1, <1>2, <1>3, <1>4, <1>5, WatchTypes DEF TypeOK, ScrapeInv, local

\* A step of a thread leaves the chain and the servers as they are, and the other threads where they are.
LEMMA StepFrame ==
    ASSUME TypeOK, NEW t \in Threads, Step(t)
    PROVE  /\ UNCHANGED <<holding, site>>
           /\ Watch /\ Others(t)
<1>1. CASE \E k \in {"tunnel", "http"}, d \in Domains : Accept(t, k, d)
  BY <1>1 DEF Accept, Goto, Others, shared, TypeOK
<1>2. CASE Get(t)
  BY <1>2 DEF Get, Goto, Use, Others, shared, TypeOK
<1>3. CASE Plow(t)
  BY <1>3 DEF Plow, Goto, Use, Answer, Others, shared, TypeOK
<1>4. CASE Store(t)
  BY <1>4 DEF Store, Goto, Others, TypeOK
<1>5. CASE \/ ConnectionLost(t) \/ ConnectSiip(t) \/ Forward(t)
           \/ ForwardUnlisted(t) \/ NotFound(t) \/ NodeRefuses(t)
  BY <1>5 DEF ConnectionLost, ConnectSiip, Forward, ForwardUnlisted, NotFound, NodeRefuses,
              Goto, Answer, Others, shared, TypeOK
<1>6. CASE Legacy(t)
  BY <1>6 DEF Legacy, Goto, Use, Answer, Others, shared, TypeOK
<1>7. CASE Scrape(t)
  BY <1>7 DEF Scrape, Goto, Answer, Others, TypeOK
<1>8. CASE Finish(t)
  BY <1>8 DEF Finish, Goto, Use, Answer, Others, shared, TypeOK
<1>9. QED
  BY <1>1, <1>2, <1>3, <1>4, <1>5, <1>6, <1>7, <1>8 DEF Step, Steps

\* What a thread's step writes.
LocalTypeOK ==
    /\ pc \in [Threads -> {"idle", "get", "plow", "store", "found",
                           "unlisted", "scrape", "tunnel", "done"}]
    /\ kind \in [Threads -> {"tunnel", "http"}]
    /\ domain \in [Threads -> Domains]
    /\ cert \in [Threads -> ServerKeys \cup {Absent}]
    /\ via \in [Threads -> {"cache", "chain", "dns", "none"}]
    /\ answer \in [Threads -> {"none", "lost", "200", "forwarded", "404", "500 SIIP", "500 TLS"}]
    /\ cache \in [Domains -> ServerKeys \cup {Absent}]
    /\ pending \in [domain : Domains, key : ServerKeys] \cup {NoTx}

\* What a thread keeps for itself is typed after its steps.
LEMMA LocalTypes ==
    ASSUME TypeOK, ScrapeInv, NEW t \in Threads, Step(t)
    PROVE  LocalTypeOK' /\ (pc'[t] = "scrape" => cert'[t] \in ServerKeys)
<1>1. LocalTypeOK /\ site[domain[t]] \in ServerKeys /\ cache[domain[t]] \in ServerKeys \cup {Absent}
  BY DEF TypeOK, LocalTypeOK
<1>2. ASSUME NEW k \in {"tunnel", "http"}, NEW d \in Domains, Accept(t, k, d)
      PROVE  LocalTypeOK' /\ pc'[t] # "scrape"
  BY <1>1, <1>2 DEF Accept, Goto, shared, LocalTypeOK
<1>3. CASE Get(t)
  BY <1>1, <1>3 DEF Get, CacheHit, Goto, Use, shared, LocalTypeOK
<1>4. CASE Plow(t)
  <2>1. UNCHANGED <<kind, domain, cache, pending>>
    BY <1>4 DEF Plow, shared
  <2>2. CASE Goto(t, "unlisted") /\ UNCHANGED <<cert, via, answer>>
    BY <1>1, <2>1, <2>2 DEF Goto, LocalTypeOK
  <2>3. CASE Answer(t, "done", "none") /\ UNCHANGED <<cert, via>>
    BY <1>1, <2>1, <2>3 DEF Goto, Answer, LocalTypeOK
  <2>4. ASSUME NEW key \in ServerKeys, Use(t, key, "chain"), Goto(t, "store"), UNCHANGED answer
        PROVE  LocalTypeOK' /\ pc'[t] # "scrape"
    BY <1>1, <2>1, <2>4 DEF Goto, Use, LocalTypeOK
  <2>5. QED
    BY <1>4, <2>2, <2>3, <2>4 DEF Plow
<1>5. CASE Store(t)
  BY <1>1, <1>5 DEF Store, Goto, LocalTypeOK
<1>6. CASE \/ ConnectionLost(t) \/ ConnectSiip(t) \/ Forward(t)
           \/ ForwardUnlisted(t) \/ NotFound(t) \/ NodeRefuses(t)
  BY <1>1, <1>6 DEF ConnectionLost, ConnectSiip, Forward, ForwardUnlisted, NotFound, NodeRefuses,
              Goto, Answer, shared, LocalTypeOK
<1>7. CASE Legacy(t)
  BY <1>1, <1>7 DEF Legacy, Presented, Goto, Use, Answer, shared, LocalTypeOK
<1>8. CASE Scrape(t)
  BY <1>1, <1>8 DEF Scrape, Goto, Answer, ScrapeInv, LocalTypeOK
<1>9. CASE Finish(t)
  BY <1>1, <1>9 DEF Finish, Goto, Use, Answer, shared, LocalTypeOK
<1>10. QED
  BY <1>2, <1>3, <1>4, <1>5, <1>6, <1>7, <1>8, <1>9 DEF Step, Steps

\* A step of a thread keeps the types.
LEMMA StepTypes ==
    ASSUME TypeOK, ScrapeInv, NEW t \in Threads, Step(t)
    PROVE  TypeOK' /\ ScrapeInv'
<1>1. UNCHANGED <<holding, site>> /\ Watch /\ Others(t)
  BY StepFrame
<1>2. LocalTypeOK' /\ (pc'[t] = "scrape" => cert'[t] \in ServerKeys)
  BY LocalTypes
<1>3. holding' \in [Domains -> {Absent} \cup Chain!Holdings]
  BY <1>1 DEF TypeOK
<1>4. TypeOK'
  BY <1>1, <1>2, <1>3, WatchTypes DEF TypeOK, LocalTypeOK
<1>5. ScrapeInv'
  BY <1>1, <1>2 DEF Others, ScrapeInv
<1>6. QED
  BY <1>4, <1>5

\* The proxy, its cache and the chain keep their types, and every key that is
\* used to verify can be decoded.
THEOREM TypeCorrect == Spec => []TypeOK
<1>1. Init => TypeOK /\ ScrapeInv
  BY DEF Init, TypeOK, ScrapeInv, Chain!ServiceInit
<1>2. TypeOK /\ ScrapeInv /\ [Next]_vars => TypeOK' /\ ScrapeInv'
  <2>1. CASE Next
    BY <2>1, NextIsSteps, WorldTypes, StepTypes
  <2>2. CASE UNCHANGED vars
    BY <2>2 DEF vars, shared, local, TypeOK, ScrapeInv
  <2>3. QED
    BY <2>1, <2>2
<1>3. QED
  BY <1>1, <1>2, PTL DEF Spec

-----------------------------------------------------------------------------
(* What a thread knows *)

\* The argument behind all three properties: a thread that is idle has no key
\* and no answer; one that has not answered has none; a key from the chain
\* was the chain's and the server's, or they have disagreed since; a key from
\* cache or chain was published; and the domain found unlisted was.
ThreadInv(t) ==
    /\ pc[t] = "idle" => via[t] = "none"
    /\ pc[t] \notin {"tunnel", "done"} => answer[t] = "none"
    /\ pc[t] = "store" => via[t] = "chain"
    /\ via[t] \in {"cache", "chain"} => cert[t] \in published[domain[t]]
    /\ via[t] = "chain" /\ pc[t] \in {"store", "found"} =>
          clash[t] \/ (cert[t] = ChainKey(domain[t]) /\ cert[t] = site[domain[t]])
    /\ via[t] = "chain" /\ answer[t] = "500 SIIP" => clash[t]
    /\ pc[t] = "unlisted" \/ via[t] = "dns" \/ answer[t] \in {"404", "500 TLS"} => unlisted[t]

\* What the chain holds and what the cache holds has been published.
PublishedInv ==
    \A d \in Domains :
        /\ holding[d] # Absent => holding[d].binding \in published[d]
        /\ cache[d] = Absent \/ cache[d] \in published[d]

\* What the histories have seen they do not forget.
LEMMA WatchRemembers ==
    ASSUME TypeOK, Watch
    PROVE  /\ \A d \in Domains :
                 /\ published[d] \subseteq published'[d]
                 /\ holding'[d] # Absent => holding'[d].binding \in published'[d]
           /\ \A t \in Threads : pc'[t] # "idle" =>
                 /\ clash[t] => clash'[t]
                 /\ unlisted[t] => unlisted'[t]
                 /\ ChainKey(domain[t])' # site'[domain'[t]] => clash'[t]
                 /\ holding'[domain'[t]] = Absent => unlisted'[t]
  BY DEF Watch, TypeOK

\* A thread that does nothing while the chain or the servers change, but not
\* both at once, knows what it knew.
LEMMA BystanderKnows ==
    ASSUME TypeOK, Watch, NEW u \in Threads, ThreadInv(u),
           UNCHANGED holding \/ UNCHANGED site,
           pc'[u] = pc[u], domain'[u] = domain[u],
           cert'[u] = cert[u], via'[u] = via[u], answer'[u] = answer[u]
    PROVE  ThreadInv(u)'
<1>1. domain[u] \in Domains
  BY DEF TypeOK
<1>2. CASE pc[u] = "idle"
  BY <1>2 DEF ThreadInv
<1>3. CASE pc[u] # "idle"
  BY <1>1, <1>3, WatchRemembers DEF ThreadInv, ChainKey
<1>4. QED
  BY <1>2, <1>3

\* A thread that takes a step knows what the place it gets to asks for.
LEMMA ThreadKnows ==
    ASSUME TypeOK, PublishedInv, NEW t \in Threads, ThreadInv(t), Step(t)
    PROVE  ThreadInv(t)'
<1>1. UNCHANGED <<holding, site>> /\ Watch
  BY StepFrame
<1>2. domain[t] \in Domains
  BY DEF TypeOK
<1>3. ASSUME NEW k \in {"tunnel", "http"}, NEW d \in Domains, Accept(t, k, d)
      PROVE  ThreadInv(t)'
  <2>1. pc'[t] = "get" /\ via'[t] = "none" /\ answer'[t] = "none"
    BY <1>3 DEF Accept, Goto, ThreadInv, TypeOK
  <2>2. QED
    BY <2>1 DEF ThreadInv
<1>4. CASE Get(t)
  <2>1. domain' = domain /\ answer' = answer /\ pc[t] = "get"
    BY <1>4 DEF Get
  <2>2. CASE cache[domain[t]] # Absent /\ Use(t, cache[domain[t]], "cache") /\ Goto(t, "found")
    <3>1. cert'[t] = cache[domain[t]] /\ via'[t] = "cache" /\ pc'[t] = "found"
      BY <2>2 DEF Use, Goto, TypeOK
    <3>2. QED
      BY <1>1, <1>2, <2>1, <2>2, <3>1, WatchRemembers DEF ThreadInv, PublishedInv
  <2>3. CASE Goto(t, "plow") /\ UNCHANGED <<cert, via>>
    <3>1. pc'[t] = "plow"
      BY <2>3 DEF Goto, TypeOK
    <3>2. QED
      BY <1>1, <1>2, <2>1, <2>3, <3>1, WatchRemembers DEF ThreadInv
  <2>4. QED
    BY <1>4, <2>2, <2>3 DEF Get, CacheHit
<1>5. CASE Plow(t)
  <2>1. domain' = domain /\ pc[t] = "plow" /\ answer[t] = "none"
    BY <1>5 DEF Plow, ThreadInv
  <2>2. CASE /\ ChainKey(domain[t]) = Absent
             /\ Goto(t, "unlisted") /\ UNCHANGED <<cert, via, answer>>
    <3>1. pc'[t] = "unlisted"
      BY <2>2 DEF Goto, TypeOK
    <3>2. holding[domain[t]] = Absent
      <4>1. holding[domain[t]] \in {Absent} \cup Chain!Holdings
        BY <1>2 DEF TypeOK
      <4>2. holding[domain[t]] # Absent => ChainKey(domain[t]) \in Keys
        BY <4>1 DEF ChainKey, Chain!Holdings
      <4>3. QED
        BY <2>2, <4>2, KeysAssumption
    <3>3. QED
      BY <1>1, <1>2, <2>1, <2>2, <3>1, <3>2, WatchRemembers DEF ThreadInv
  <2>3. CASE Answer(t, "done", "none") /\ UNCHANGED <<cert, via>>
    <3>1. pc'[t] = "done" /\ answer'[t] = "none"
      BY <2>3 DEF Goto, Answer, TypeOK
    <3>2. QED
      BY <1>1, <1>2, <2>1, <2>3, <3>1, WatchRemembers DEF ThreadInv
  <2>4. CASE /\ ChainKey(domain[t]) \in ServerKeys
             /\ Use(t, ChainKey(domain[t]), "chain") /\ Goto(t, "store") /\ UNCHANGED answer
    <3>1. pc'[t] = "store" /\ cert'[t] = ChainKey(domain[t]) /\ via'[t] = "chain"
      BY <2>4 DEF Goto, Use, TypeOK
    <3>2. holding[domain[t]] # Absent /\ ChainKey(domain[t]) = holding[domain[t]].binding
      BY <2>4, KeysAssumption DEF ChainKey, ServerKeys
    <3>3. ChainKey(domain[t])' = ChainKey(domain[t])
      BY <1>1, <2>1 DEF ChainKey
    <3>4. QED
      BY <1>1, <1>2, <2>1, <2>4, <3>1, <3>2, <3>3, WatchRemembers DEF ThreadInv
  <2>5. QED
    BY <1>5, <2>2, <2>3, <2>4 DEF Plow
<1>6. CASE Store(t)
  <2>1. UNCHANGED <<domain, cert, via, answer>> /\ pc[t] = "store" /\ pc'[t] = "found"
    BY <1>6 DEF Store, Goto, TypeOK
  <2>2. ChainKey(domain[t])' = ChainKey(domain[t])
    BY <1>1, <2>1 DEF ChainKey
  <2>3. QED
    BY <1>1, <1>2, <2>1, <2>2, WatchRemembers DEF ThreadInv
<1>7. CASE ConnectSiip(t)
  <2>1. UNCHANGED <<domain, cert, via>> /\ pc[t] = "found" /\ pc'[t] \in {"tunnel", "done"}
    BY <1>7 DEF ConnectSiip, Goto, Answer, TypeOK
  <2>2. answer'[t] \in {"200", "500 SIIP"} /\ (answer'[t] = "500 SIIP" => cert[t] # site[domain[t]])
    BY <1>7 DEF ConnectSiip, Answer, Verified, Presented, TypeOK
  <2>3. QED
    BY <1>1, <1>2, <2>1, <2>2, WatchRemembers DEF ThreadInv
<1>8. CASE ConnectionLost(t) \/ Forward(t) \/ ForwardUnlisted(t) \/ NodeRefuses(t)
  <2>1. /\ UNCHANGED <<domain, cert, via>> /\ pc[t] # "idle" /\ pc'[t] = "done"
        /\ answer'[t] \in {"none", "lost", "forwarded"}
    BY <1>8 DEF ConnectionLost, Forward, ForwardUnlisted, NodeRefuses, Goto, Answer, TypeOK
  <2>2. QED
    BY <1>1, <1>2, <2>1, WatchRemembers DEF ThreadInv
<1>9. CASE NotFound(t)
  <2>1. /\ UNCHANGED <<domain, cert, via>> /\ pc[t] = "unlisted" /\ pc'[t] = "done"
        /\ answer'[t] = "404"
    BY <1>9 DEF NotFound, Goto, Answer, TypeOK
  <2>2. QED
    BY <1>1, <1>2, <2>1, WatchRemembers DEF ThreadInv
<1>10. CASE Legacy(t)
  <2>1. /\ domain' = domain /\ pc[t] = "unlisted" /\ pc'[t] \in {"done", "scrape", "tunnel"}
        /\ \/ UNCHANGED <<cert, via>> /\ pc'[t] = "done" /\ answer'[t] = "500 TLS"
           \/ via'[t] = "dns" /\ pc'[t] = "scrape" /\ answer' = answer
           \/ via'[t] = "dns" /\ pc'[t] = "tunnel" /\ answer'[t] = "200"
    BY <1>10 DEF Legacy, Goto, Answer, Use, TypeOK
  <2>2. QED
    BY <1>1, <1>2, <2>1, WatchRemembers DEF ThreadInv
<1>11. CASE Scrape(t)
  <2>1. /\ UNCHANGED <<domain, cert, via>> /\ pc[t] = "scrape" /\ pc'[t] = "tunnel"
        /\ answer'[t] = "200"
    BY <1>11 DEF Scrape, Goto, Answer, TypeOK
  <2>2. QED
    BY <1>1, <1>2, <2>1, WatchRemembers DEF ThreadInv
<1>12. CASE Finish(t)
  <2>1. pc'[t] = "idle" /\ via'[t] = "none" /\ answer'[t] = "none"
    BY <1>12 DEF Finish, Goto, Answer, Use, TypeOK
  <2>2. QED
    BY <2>1 DEF ThreadInv
<1>13. QED
  BY <1>3, <1>4, <1>5, <1>6, <1>7, <1>8, <1>9, <1>10, <1>11, <1>12 DEF Step, Steps

\* Only a thread that has its key from the chain writes into the cache.
LEMMA OnlyPublishedIsCached ==
    ASSUME TypeOK, PublishedInv, \A t \in Threads : ThreadInv(t), Next
    PROVE  PublishedInv'
<1>1. Watch
  BY StepFrame, NextIsSteps DEF World, Include, Publish, Rekey, RedisLoses
<1>2. CASE \/ UNCHANGED cache \/ cache' = [d \in Domains |-> Absent]
  BY <1>1, <1>2, WatchRemembers DEF PublishedInv
<1>3. ASSUME NEW t \in Threads, Store(t), cache' = [cache EXCEPT ![domain[t]] = cert[t]]
      PROVE  PublishedInv'
  <2>1. cert[t] \in published[domain[t]] /\ domain[t] \in Domains
    BY <1>3 DEF ThreadInv, Store, TypeOK
  <2>2. \A d \in Domains : cache'[d] = IF d = domain[t] THEN cert[t] ELSE cache[d]
    BY <1>3 DEF TypeOK
  <2>3. QED
    BY <1>1, <2>1, <2>2, WatchRemembers DEF PublishedInv
<1>4. CASE World
  BY <1>2, <1>4 DEF World, Include, Publish, Rekey, RedisLoses
<1>5. ASSUME NEW t \in Threads, Step(t)
      PROVE  UNCHANGED cache \/ (Store(t) /\ cache' = [cache EXCEPT ![domain[t]] = cert[t]])
  BY <1>5 DEF Step, Steps, Accept, Get, Plow, Store, ConnectionLost, ConnectSiip, Forward,
              ForwardUnlisted, NotFound, Legacy, Scrape, NodeRefuses, Finish, shared
<1>6. QED
  BY <1>2, <1>3, <1>4, <1>5, NextIsSteps

\* Both invariants hold always.
LEMMA Knowledge == Spec => [](PublishedInv /\ \A t \in Threads : ThreadInv(t))
<1> DEFINE Inv == PublishedInv /\ \A t \in Threads : ThreadInv(t)
<1>1. Init => Inv
  BY DEF Init, PublishedInv, ThreadInv, Chain!ServiceInit
<1>2. TypeOK /\ Inv /\ [Next]_vars => Inv'
  <2> SUFFICES ASSUME TypeOK, Inv, [Next]_vars PROVE Inv'
    OBVIOUS
  <2>1. CASE World
    <3>1. Watch /\ UNCHANGED local /\ (UNCHANGED holding \/ UNCHANGED site)
      BY <2>1 DEF World, Include, Publish, Rekey, RedisLoses
    <3>2. \A u \in Threads : ThreadInv(u)'
      BY <3>1, BystanderKnows DEF local
    <3>3. QED
      BY <2>1, <3>2, OnlyPublishedIsCached, NextIsSteps
  <2>2. ASSUME NEW t \in Threads, Step(t) PROVE Inv'
    <3>1. UNCHANGED holding /\ Watch /\ Others(t)
      BY <2>2, StepFrame
    <3>2. \A u \in Threads \ {t} : ThreadInv(u)'
      BY <3>1, BystanderKnows DEF Others
    <3>3. ThreadInv(t)'
      BY <2>2, ThreadKnows
    <3>4. QED
      BY <2>2, <3>2, <3>3, OnlyPublishedIsCached, NextIsSteps
  <2>3. CASE UNCHANGED vars
    BY <2>3 DEF vars, shared, local, PublishedInv, ThreadInv, ChainKey
  <2>4. QED
    BY <2>1, <2>2, <2>3, NextIsSteps
<1>3. QED
  BY <1>1, <1>2, TypeCorrect, PTL DEF Spec

-----------------------------------------------------------------------------
(* The properties *)

\* What the cache and the threads resolve to was once published on the chain:
\* no key of a server or of a pending extrinsic gets there.
THEOREM NothingIsInvented == Spec => []NothingInvented
<1>1. PublishedInv /\ (\A t \in Threads : ThreadInv(t)) => NothingInvented
  BY DEF PublishedInv, ThreadInv, NothingInvented
<1>2. QED
  BY <1>1, Knowledge, PTL

\* The standard path is only taken for a domain that was unlisted at some
\* time during the request.
THEOREM LegacyIsOnlyUnlisted == Spec => []LegacyOnlyUnlisted
<1>1. PublishedInv /\ (\A t \in Threads : ThreadInv(t)) => LegacyOnlyUnlisted
  BY DEF ThreadInv, LegacyOnlyUnlisted
<1>2. QED
  BY <1>1, Knowledge, PTL

\* A lookup that went to the chain refuses a website only if its server and
\* its certificate disagreed at some time during the request.
THEOREM FreshRefusalsAreRight == Spec => []FreshRefusal
<1>1. PublishedInv /\ (\A t \in Threads : ThreadInv(t)) => FreshRefusal
  BY DEF ThreadInv, FreshRefusal
<1>2. QED
  BY <1>1, Knowledge, PTL

-----------------------------------------------------------------------------
(* The chain *)

\* What owners and blocks do to the chain is a step of the name service.
LEMMA WorldIsService ==
    ASSUME TypeOK, World
    PROVE  Chain!ServiceNext \/ UNCHANGED holding
<1>1. CASE Include
  <2>1. CASE UNCHANGED holding
    BY <2>1
  <2>2. CASE Chain!Claim("Alice", pending.domain, pending.key)
    <3>1. pending.domain \in Domains /\ pending.key \in Keys
      BY <1>1 DEF TypeOK, Include, ServerKeys
    <3>2. QED
      BY <2>2, <3>1 DEF Chain!ServiceNext
  <2>3. QED
    BY <1>1, <2>1, <2>2 DEF Include
<1>2. ASSUME NEW d \in Domains, NEW key \in Keys, Publish(d, key)
      PROVE  Chain!ServiceNext
  BY <1>2 DEF Publish, Chain!ServiceNext
<1>3. ASSUME \/ \E d \in Domains, key \in ServerKeys : Rekey(d, key)
             \/ RedisLoses
      PROVE  UNCHANGED holding
  BY <1>3 DEF Rekey, RedisLoses
<1>4. QED
  BY <1>1, <1>2, <1>3 DEF World

\* The proxies write the chain only through blocks, and what auto_scrape has
\* pending when a block takes it is a claim of a free name or nothing: the
\* chain stays a name service whatever the threads do.
THEOREM ChainStaysService == Spec => Chain!ServiceSpec
<1>1. Init => Chain!ServiceInit
  BY DEF Init
<1>2. TypeOK /\ [Next]_vars => [Chain!ServiceNext]_holding
  <2>1. ASSUME TypeOK, NEW t \in Threads, Step(t)
        PROVE  UNCHANGED holding
    BY <2>1, StepFrame
  <2>2. CASE UNCHANGED vars
    BY <2>2 DEF vars, shared
  <2>3. QED
    BY <2>1, <2>2, WorldIsService, NextIsSteps
<1>3. QED
  BY <1>1, <1>2, TypeCorrect, PTL DEF Spec, Chain!ServiceSpec

=============================================================================
