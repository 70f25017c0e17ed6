--------------------------- MODULE MCServiceTasks ---------------------------
(***************************************************************************)
(* DccServiceTasks with CVs and addresses of two bits.  CV 5 and CV 8 lie  *)
(* on the second page, CV 5 at the register of CV 1.                       *)
(***************************************************************************)
EXTENDS DccServiceTasks, TLC

SomeCVs == {1, 5, 8}

SomeDefaults == (1 :> 3) @@ (5 :> 0) @@ (8 :> 1)

SomeMemories == {(1 :> 2) @@ (5 :> 1) @@ (8 :> 3)}

\* No decoder, and three kinds of them.
SomeDecoders == {{}, {"registers"}, {"direct", "registers"}, {"address"}}
=============================================================================
