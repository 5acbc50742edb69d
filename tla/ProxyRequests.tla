--------------------------- MODULE ProxyRequests ----------------------------
(***************************************************************************)
(* The proxy (proxy/proxy.py, siip_resolve.py, siip_requests.py): a thread *)
(* per connection resolves a domain through the Redis cache and the chain, *)
(* connects, verifies what the server presents and answers.  Meanwhile the *)
(* website changes its key and its certificate, Redis may lose what it     *)
(* held, and auto_scrape registers domains found by DNS.                   *)
(* A call on Redis, on the node or on the website's server is answered, or *)
(* fails, or waits for as long as the peer is silent: no call has a        *)
(* timeout, and Spec makes no peer answer.                                 *)
(* A certificate is abstracted to its key; its address to whether the      *)
(* connection succeeds.                                                    *)
(***************************************************************************)
EXTENDS FiniteSets

CONSTANTS
    Threads,         \* the handler threads of ProxyServer
    Domains,
    Keys,            \* the keys check_key accepts
    Undecodable,     \* those of them bytes.fromhex rejects: odd digits
    Absent,          \* no certificate, no cached value, no key
    NoTx,            \* no registration of the proxy is pending
    LegacyFallback, AutoScrape, Log   \* --legacy-fallback, ...

ASSUME KeysAssumption ==
    /\ Undecodable \subseteq Keys
    /\ Absent \notin Keys /\ Absent \notin [holder : {"owner", "Alice"},
                                            binding : Keys]
    /\ NoTx \notin [domain : Domains, key : Keys]
ASSUME FlagsAssumption == {LegacyFallback, AutoScrape, Log} \subseteq BOOLEAN

ServerKeys == Keys \ Undecodable

VARIABLES
    holding,    \* the chain: domain -> Absent or holder and key
    cache,      \* Redis: SIIP:<domain> -> key
    site,       \* the key the domain's server presents
    pending,    \* //Alice's registration in the transaction pool
    pc, kind, domain,   \* per thread: where handle is, the request
    cert,       \* certificate.public_key, or the key the server presented
    via,        \* where cert comes from: "cache", "chain", "dns"
    answer,     \* status sent to the client; "lost" when the thread died of
                \* a peer that refused or broke off, "none" when of itself
    published,  \* history: the keys the chain has held
    clash,      \* history: chain and server disagreed during the request
    unlisted    \* history: the chain had no entry during the request

shared == <<holding, cache, site, pending>>
local == <<pc, kind, domain, cert, via, answer>>
vars == <<shared, local, published, clash, unlisted>>

Chain == INSTANCE NameService WITH
    Holders <- {"owner", "Alice"}, NameSet <- Domains, Bindings <- Keys,
    Free <- Absent

\* The key the chain has for a domain.
ChainKey(d) == IF holding[d] = Absent THEN Absent ELSE holding[d].binding

TypeOK ==
    /\ holding \in [Domains -> {Absent} \cup Chain!Holdings]
    /\ cache \in [Domains -> ServerKeys \cup {Absent}]
    /\ site \in [Domains -> ServerKeys]
    /\ pending \in [domain : Domains, key : ServerKeys] \cup {NoTx}
    /\ pc \in [Threads -> {"idle", "get", "plow", "store", "found",
                           "unlisted", "scrape", "tunnel", "done"}]
    /\ kind \in [Threads -> {"tunnel", "http"}]
    /\ domain \in [Threads -> Domains]
    /\ cert \in [Threads -> ServerKeys \cup {Absent}]
    /\ via \in [Threads -> {"cache", "chain", "dns", "none"}]
    /\ answer \in [Threads -> {"none", "lost", "200", "forwarded", "404",
                               "500 SIIP", "500 TLS"}]
    /\ published \in [Domains -> SUBSET Keys]
    /\ clash \in [Threads -> BOOLEAN]
    /\ unlisted \in [Threads -> BOOLEAN]

Init ==
    /\ Chain!ServiceInit
    /\ cache = [d \in Domains |-> Absent]
    /\ site \in [Domains -> ServerKeys]
    /\ pending = NoTx
    /\ pc = [t \in Threads |-> "idle"]
    /\ kind = [t \in Threads |-> "tunnel"]
    /\ domain \in [Threads -> Domains]
    /\ cert = [t \in Threads |-> Absent]
    /\ via = [t \in Threads |-> "none"]
    /\ answer = [t \in Threads |-> "none"]
    /\ published = [d \in Domains |-> {}]
    /\ clash = [t \in Threads |-> FALSE]
    /\ unlisted = [t \in Threads |-> FALSE]

Goto(t, label) == pc' = [pc EXCEPT ![t] = label]

Use(t, key, source) ==
    /\ cert' = [cert EXCEPT ![t] = key]
    /\ via' = [via EXCEPT ![t] = source]

Answer(t, label, status) ==
    /\ Goto(t, label)
    /\ answer' = [answer EXCEPT ![t] = status]

\* What the properties remember of the past.
Watch ==
    /\ published' = [d \in Domains |->
            IF holding'[d] = Absent THEN published[d]
            ELSE published[d] \cup {holding'[d].binding}]
    /\ clash' = [t \in Threads |-> pc'[t] # "idle" /\
            (clash[t] \/ ChainKey(domain[t])' # site'[domain'[t]])]
    /\ unlisted' = [t \in Threads |-> pc'[t] # "idle" /\
            (unlisted[t] \/ holding'[domain'[t]] = Absent)]

-----------------------------------------------------------------------------
(* resolve *)

\* handle: the header is parsed and tells which of the two paths to take.
Accept(t, k, d) ==
    /\ pc[t] = "idle"
    /\ Goto(t, "get")
    /\ kind' = [kind EXCEPT ![t] = k]
    /\ domain' = [domain EXCEPT ![t] = d]
    /\ UNCHANGED <<shared, cert, via, answer>>
    /\ Watch

CacheHit(t) == cache[domain[t]] # Absent

\* Mutant: a miss is taken for an unregistered domain.
GetMissIsUnlisted(t) ==
    /\ pc[t] = "get"
    /\ \/ /\ CacheHit(t)
          /\ Use(t, cache[domain[t]], "cache")
          /\ Goto(t, "found")
       \/ /\ ~CacheHit(t)
          /\ Goto(t, "unlisted")
          /\ UNCHANGED <<cert, via>>
    /\ UNCHANGED <<shared, kind, domain, answer>>
    /\ Watch

\* redis_cli.get; a ConnectionError counts as a miss.
Get(t) ==
    /\ pc[t] = "get"
    /\ \/ /\ CacheHit(t)
          /\ Use(t, cache[domain[t]], "cache")
          /\ Goto(t, "found")
       \/ Goto(t, "plow") /\ UNCHANGED <<cert, via>>
    /\ UNCHANGED <<shared, kind, domain, answer>>
    /\ Watch

\* Mutant: the key is kept as the chain spells it, not parsed.
PlowUndecoded(t) ==
    /\ pc[t] = "plow"
    /\ LET key == ChainKey(domain[t]) IN
       \/ /\ key = Absent
          /\ Goto(t, "unlisted")
          /\ UNCHANGED <<cert, via, answer>>
       \/ /\ key # Absent
          /\ Use(t, key, "chain")
          /\ Goto(t, "store")
          /\ UNCHANGED answer
    /\ UNCHANGED <<shared, kind, domain>>
    /\ Watch

\* plow, when the node answers.  SiipCertificate raises ValueError on a key
\* that is no sequence of bytes, and the thread dies.
Plow(t) ==
    /\ pc[t] = "plow"
    /\ LET key == ChainKey(domain[t]) IN
       \/ /\ key = Absent
          /\ Goto(t, "unlisted")
          /\ UNCHANGED <<cert, via, answer>>
       \/ /\ key \in Undecodable
          /\ Answer(t, "done", "none")
          /\ UNCHANGED <<cert, via>>
       \/ /\ key \in ServerKeys
          /\ Use(t, key, "chain")
          /\ Goto(t, "store")
          /\ UNCHANGED answer
    /\ UNCHANGED <<shared, kind, domain>>
    /\ Watch


\* redis_cli.set; a ConnectionError is passed over.
Store(t) ==
    /\ pc[t] = "store"
    /\ \/ cache' = [cache EXCEPT ![domain[t]] = cert[t]]
       \/ UNCHANGED cache
    /\ Goto(t, "found")
    /\ UNCHANGED <<holding, site, pending, kind, domain, cert, via, answer>>
    /\ Watch

-----------------------------------------------------------------------------
(* handle_tunnel and handle_http *)

Presented(t) == site[domain[t]]

\* Mutant: verify compares with == where it should with !=.
VerifiedInverted(t) == cert[t] # Presented(t)

\* SiipCertificate.verify
Verified(t) == cert[t] = Presented(t)

\* The connection to certificate.ip, or to the address DNS has, fails, or its
\* handshake or response does: an OSError or the assertion in the handler of
\* SSLError ends the thread.
ConnectionLost(t) ==
    /\ \/ pc[t] = "found"
       \/ pc[t] = "unlisted" /\ kind[t] = "tunnel" /\ LegacyFallback
    /\ Answer(t, "done", "lost")
    /\ UNCHANGED <<shared, kind, domain, cert, via>>
    /\ Watch

ConnectSiip(t) ==
    /\ pc[t] = "found" /\ kind[t] = "tunnel"
    /\ IF Verified(t) THEN Answer(t, "tunnel", "200")
                      ELSE Answer(t, "done", "500 SIIP")
    /\ UNCHANGED <<shared, kind, domain, cert, via>>
    /\ Watch

\* siip_requests: the request goes out over TCP whatever the protocol says
\* (url.protocol is bytes, it never equals 'https'), so nothing is verified.
\* With --log the response is lost: the summary asks for http_requestquest.
Forward(t) ==
    /\ pc[t] = "found" /\ kind[t] = "http"
    /\ Answer(t, "done", IF Log THEN "none" ELSE "forwarded")
    /\ UNCHANGED <<shared, kind, domain, cert, via>>
    /\ Watch

\* SiipSocketWrapper.__enter__ asks None for its ip: AttributeError.
ForwardUnlisted(t) ==
    /\ pc[t] = "unlisted" /\ kind[t] = "http"
    /\ Answer(t, "done", "none")
    /\ UNCHANGED <<shared, kind, domain, cert, via>>
    /\ Watch

\* DNS does not know the domain, or is not asked.
NotFound(t) ==
    /\ pc[t] = "unlisted" /\ kind[t] = "tunnel"
    /\ Answer(t, "done", "404")
    /\ UNCHANGED <<shared, kind, domain, cert, via>>
    /\ Watch

\* The standard path: DNS, TCP, and a handshake that checks the certificate.
Legacy(t) ==
    /\ pc[t] = "unlisted" /\ kind[t] = "tunnel" /\ LegacyFallback
    /\ \/ Answer(t, "done", "500 TLS") /\ UNCHANGED <<cert, via>>
       \/ /\ Use(t, Presented(t), "dns")
          /\ \/ AutoScrape /\ Goto(t, "scrape") /\ UNCHANGED answer
             \/ ~AutoScrape /\ Answer(t, "tunnel", "200")
    /\ UNCHANGED <<shared, kind, domain>>
    /\ Watch

\* Mutant: the scraped certificate is cached before any block has it.
ScrapeCaches(t) ==
    /\ pc[t] = "scrape"
    /\ pending' = IF pending = NoTx
                  THEN [domain |-> domain[t], key |-> cert[t]] ELSE pending
    /\ cache' = [cache EXCEPT ![domain[t]] = cert[t]]
    /\ Answer(t, "tunnel", "200")
    /\ UNCHANGED <<holding, site, kind, domain, cert, via>>
    /\ Watch

\* register_certificate: the extrinsic is signed by //Alice with the nonce of
\* the best block, so while one is pending the pool refuses the next, and
\* that SubstrateRequestException is only logged.
Scrape(t) ==
    /\ pc[t] = "scrape"
    /\ pending' = IF pending = NoTx
                  THEN [domain |-> domain[t], key |-> cert[t]] ELSE pending
    /\ Answer(t, "tunnel", "200")
    /\ UNCHANGED <<holding, cache, site, kind, domain, cert, via>>
    /\ Watch

\* Nothing listens at the node's port: requests raises ConnectionError, which
\* neither resolve nor handle_tunnel catches.
NodeRefuses(t) ==
    /\ pc[t] \in {"plow", "scrape"}
    /\ Answer(t, "done", "lost")
    /\ UNCHANGED <<shared, kind, domain, cert, via>>
    /\ Watch

\* The tunnel is torn down, or the handler has returned: the socket closes.
Finish(t) ==
    /\ pc[t] \in {"tunnel", "done"}
    /\ Answer(t, "idle", "none")
    /\ Use(t, Absent, "none")
    /\ kind' = [kind EXCEPT ![t] = "tunnel"]
    /\ UNCHANGED <<shared, domain>>
    /\ Watch

Steps(t) ==
    \/ Get(t) \/ Plow(t) \/ Store(t) \/ NodeRefuses(t)
    \/ ConnectSiip(t) \/ Forward(t) \/ ConnectionLost(t)
    \/ ForwardUnlisted(t) \/ NotFound(t) \/ Legacy(t) \/ Scrape(t)

\* The domain is unlisted, and the thread has nobody to ask: it goes on alone.
\* Otherwise its step is a call on Redis, the node, DNS or the server.
NobodyToAsk(t) == pc[t] = "unlisted" /\ (kind[t] = "http" \/ ~LegacyFallback)
Alone(t) == NobodyToAsk(t) /\ Steps(t)
Calls(t) == ~NobodyToAsk(t) /\ Steps(t)

-----------------------------------------------------------------------------
(* Everything else *)

\* A block includes the pending registration; the pallet refuses it when the
\* domain has been taken.
Include ==
    /\ pending # NoTx
    /\ pending' = NoTx
    /\ \/ Chain!Claim("Alice", pending.domain, pending.key)
       \/ holding[pending.domain] # Absent /\ UNCHANGED holding
    /\ UNCHANGED <<cache, site, local>>
    /\ Watch

\* The owner of the website registers, modifies or removes its certificate.
Publish(d, key) ==
    /\ \/ Chain!Claim("owner", d, key)
       \/ Chain!Rebind("owner", d, key)
       \/ Chain!Release("owner", d)
    /\ UNCHANGED <<cache, site, pending, local>>
    /\ Watch

\* The server is given another key.
Rekey(d, key) ==
    /\ site[d] # key
    /\ site' = [site EXCEPT ![d] = key]
    /\ UNCHANGED <<holding, cache, pending, local>>
    /\ Watch

\* Redis is restarted and has not kept what it held.
RedisLoses ==
    /\ cache' = [d \in Domains |-> Absent]
    /\ UNCHANGED <<holding, site, pending, local>>
    /\ Watch

Next ==
    \/ \E t \in Threads :
        \/ \E k \in {"tunnel", "http"}, d \in Domains : Accept(t, k, d)
        \/ Steps(t)
        \/ Finish(t)
    \/ Include
    \/ \E d \in Domains : \/ \E key \in Keys : Publish(d, key)
                          \/ \E key \in ServerKeys : Rekey(d, key)
    \/ RedisLoses

\* A thread that waits for nobody takes its next step: Python schedules every
\* thread.  Nothing is assumed of clients, owners, blocks, Redis, the node,
\* DNS or the servers: a thread may wait in a call for ever.
Spec == Init /\ [][Next]_vars /\ \A t \in Threads : WF_vars(Alone(t))

-----------------------------------------------------------------------------
(* Properties *)

\* What the cache holds and what resolve returns was once published on the
\* chain: never a key only the server or a pending extrinsic has.
NothingInvented ==
    /\ \A d \in Domains : cache[d] = Absent \/ cache[d] \in published[d]
    /\ \A t \in Threads : via[t] \in {"cache", "chain"} =>
          cert[t] \in published[domain[t]]

\* The standard DNS/HTTPS path is only taken for a domain that had no
\* certificate on the chain at some time during the request.
LegacyOnlyUnlisted ==
    \A t \in Threads : via[t] = "dns" \/ answer[t] \in {"404", "500 TLS"} =>
        unlisted[t]

\* A lookup that went to the chain refuses a website only if its server and
\* its certificate disagreed at some time during the request.
FreshRefusal ==
    \A t \in Threads :
        answer[t] = "500 SIIP" /\ via[t] = "chain" => clash[t]

\* proxy.py:355 tells the user of a refused website that "Either the
\* website's certificate is out of date, or someone is attempting a
\* man-in-the-middle attack".  A cached certificate is never invalidated and
\* does not expire, so it also happens to a website that is up to date.
RefusalMeansOutOfDate ==
    \A t \in Threads : answer[t] = "500 SIIP" => clash[t]


=============================================================================
