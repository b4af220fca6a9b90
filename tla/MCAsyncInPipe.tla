--------------------------- MODULE MCAsyncInPipe ---------------------------
(* Instances of AsyncInPipe for TLC. *)
EXTENDS AsyncInPipe, TLC

PipeSymmetry == Permutations(Pipes)
=============================================================================
