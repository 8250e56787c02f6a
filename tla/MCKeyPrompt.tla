----------------------------- MODULE MCKeyPrompt -----------------------------
(* Values for the model checking of KeyPrompt: one valid key.              *)
EXTENDS KeyPrompt

MCKeys == {<<"a", "b">>}

=============================================================================
