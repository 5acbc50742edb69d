----------------------------- MODULE MCUiPages ------------------------------
(***************************************************************************)
(* UiPages with a small api: a pallet without callables, callables with    *)
(* parameters of different types and numbers, and an optional one.         *)
(***************************************************************************)
EXTENDS UiPages

Param(t, optional) == [type |-> t, optional |-> optional]

SmallApi ==
    [t \in InterxTypes |->
        CASE t = "EXTRINSIC" ->
                [siip |-> [register |-> <<Param("name", FALSE)>>,
                           remove |-> <<Param("domain", FALSE)>>],
                 empty |-> << >>]
          [] t = "QUERY" -> [siip |-> [certificateMap |-> <<Param("domain", FALSE)>>]]
          [] t = "RPC" -> [state |-> [getStorage |-> <<Param("key", FALSE), Param("hash", TRUE)>>]]
          [] t = "CONSTANT" -> [balances |-> [existentialDeposit |-> << >>]]]

=============================================================================
