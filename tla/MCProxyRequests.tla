-------------------------- MODULE MCProxyRequests ---------------------------
(***************************************************************************)
(* ProxyRequests with two handler threads and one domain they both want.   *)
(***************************************************************************)
EXTENDS ProxyRequests, TLC

\* Threads are alike, and so are the keys that can be decoded.
Symmetry == Permutations(Threads) \cup Permutations(ServerKeys)

=============================================================================
