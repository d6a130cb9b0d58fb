---------------------------- MODULE RoutineRing ----------------------------
(***************************************************************************)
(* What hybrid_list promises routine_proxy: its routines, found by id, and *)
(* the turns they take.  The first of the ring is the one whose turn it is *)
(* (access_elem); forward_elem sends it to the end.                        *)
(***************************************************************************)
EXTENDS Naturals, SequencesExt

CONSTANTS Id, Routine

VARIABLES
  ring,   \* the ids in the order of their turns
  of      \* [id in the ring -> its routine]

Insert(r, id) == Append(r, id)
Erase(r, id) == RemoveFirst(r, id)
Rotate(r) == IF r = <<>> THEN r ELSE Append(Tail(r), Head(r))

Init == ring = <<>> /\ of = <<>>

\* An id that is in the ring keeps its routine and its turn.
InsertElem(id, data) ==
  /\ id \notin DOMAIN of
  /\ ring' = Insert(ring, id)
  /\ of' = [i \in DOMAIN of \cup {id} |-> IF i = id THEN data ELSE of[i]]

EraseElem(id) ==
  /\ id \in DOMAIN of
  /\ ring' = Erase(ring, id)
  /\ of' = [i \in DOMAIN of \ {id} |-> of[i]]

ForwardElem ==
  /\ ring' = Rotate(ring)
  /\ UNCHANGED of

Next == \/ \E id \in Id : EraseElem(id) \/ \E data \in Routine : InsertElem(id, data)
        \/ ForwardElem

Spec == Init /\ [][Next]_<<ring, of>>
=============================================================================
