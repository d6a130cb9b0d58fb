----------------------------- MODULE MCFraming -----------------------------
(* Streams of up to three messages: too short for their header, empty, of   *)
(* several sizes, as large as the buffer, larger.                           *)
EXTENDS Framing, Functions

MCSizes == {1, 2, 5, 12, 13}
MCStarts(sizes) == [k \in 1..(Len(sizes) + 1) |-> FoldFunctionOnSet(+, 0, sizes, 1..(k - 1))]
MCStreams == {MCStarts(sizes) : sizes \in [1..3 -> MCSizes]}
=============================================================================
