---------------------------- MODULE MCValidation ----------------------------
(***************************************************************************)
(* Validation over every text up to a length, with limits small enough for *)
(* texts on both sides of each.                                            *)
(***************************************************************************)
EXTENDS Validation

=============================================================================
