-------------------------- MODULE MCStreamRoutine --------------------------
(* Buffers of a few bytes, of different sizes.                              *)
EXTENDS StreamRoutine
=============================================================================
