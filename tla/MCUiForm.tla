------------------------------ MODULE MCUiForm ------------------------------
(***************************************************************************)
(* UiForm with the domain and one more field, a valid and an invalid text  *)
(* for the domain, and a name that is only a space; one user stands for    *)
(* all, as the form does not look at the owner.                            *)
(***************************************************************************)
EXTENDS UiForm

=============================================================================
