-------------------------- MODULE MCTransferProgram --------------------------
(* Values for the model checking of TransferProgram: one valid key.        *)
EXTENDS TransferProgram

MCKeys == {<<"a", "b">>}

=============================================================================
