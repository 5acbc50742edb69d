--------------------------- MODULE MCSiipRuntime ----------------------------
(***************************************************************************)
(* SiipRuntime on a small instance: three accounts, one of them without a  *)
(* coin, and a token supply that the reward can bring close to its cap.    *)
(***************************************************************************)
EXTENDS SiipRuntime

CONSTANTS alice, bob, broke

GenesisBalances == [a \in {alice, bob, broke} |->
                        CASE a = alice -> 7 [] a = bob -> 4 [] a = broke -> 0]

=============================================================================
