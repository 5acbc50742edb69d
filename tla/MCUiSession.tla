---------------------------- MODULE MCUiSession -----------------------------
(***************************************************************************)
(* UiSession with the two calls of the democracy page.                     *)
(***************************************************************************)
EXTENDS UiSession

DemocracyCalls == {"proposals", "referendums"}

=============================================================================
