--------------------------- MODULE CircularBuffer ---------------------------
(***************************************************************************)
(* circular_buffer (circular_buffer.h): a growing string and the position  *)
(* of its first byte that is not consumed.                                 *)
(***************************************************************************)
EXTENDS Naturals, Sequences

CONSTANT Capacity  \* m_capacity: most bytes that wait, 64 KiB in routine.cc

ASSUME CapacityAssumption == Capacity \in Nat \ {0}

EmptyBuffer == [data |-> <<>>, pos |-> 0]

DataLen(b) == Len(b.data) - b.pos

UnusedLen(b) == Capacity - DataLen(b)

\* The test of append.
FitsIn(b, len) == DataLen(b) + len <= Capacity

\* append, when it fits.
Appended(b, bytes) == [data |-> b.data \o bytes, pos |-> b.pos]

\* Mutation of Consumed: the consumed prefix is dropped, but the position stays.
ConsumedStale(b, len) ==
  IF b.pos + len = Len(b.data) THEN EmptyBuffer
  ELSE IF b.pos + len >= Capacity \div 4
       THEN [data |-> SubSeq(b.data, b.pos + len + 1, Len(b.data)), pos |-> b.pos + len]
       ELSE [data |-> b.data, pos |-> b.pos + len]

\* Mutation of Consumed: the consumed prefix is never dropped while bytes remain.
ConsumedLazily(b, len) ==
  IF b.pos + len = Len(b.data) THEN EmptyBuffer ELSE [data |-> b.data, pos |-> b.pos + len]

\* consume, of at most DataLen(b) bytes.
Consumed(b, len) ==
  IF b.pos + len = Len(b.data) THEN EmptyBuffer
  ELSE IF b.pos + len >= Capacity \div 4
       THEN [data |-> SubSeq(b.data, b.pos + len + 1, Len(b.data)), pos |-> 0]
       ELSE [data |-> b.data, pos |-> b.pos + len]
=============================================================================
