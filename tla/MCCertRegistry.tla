--------------------------- MODULE MCCertRegistry ---------------------------
(***************************************************************************)
(* CertRegistry on small instances.  MCCertRegistry.cfg gives every field  *)
(* only valid values and goes deep; MCCertInputs.cfg adds an invalid value *)
(* of every field and stays shallow.                                       *)
(***************************************************************************)
EXTENDS CertRegistry, TLC

\* Accounts and the valid values of a field are interchangeable.
Symmetry == Permutations(Accounts) \cup Permutations(ValidDomains)
                \cup Permutations(ValidIps) \cup Permutations(ValidKeys)

\* The body of Retain is the library's filter, on every list of up to four entries.
ASSUME RetainIsSelectSeq ==
    LET entry == [domain : {1, 2}, tag : {1, 2}]
        lists == UNION {[1..n -> entry] : n \in 0..4}
    IN  \A certs \in lists, d \in {1, 2} :
            EntriesAt(certs, Kept(certs, d)) =
                SelectSeq(certs, LAMBDA c : c.domain # d)

=============================================================================
