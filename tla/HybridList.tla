----------------------------- MODULE HybridList -----------------------------
(***************************************************************************)
(* hybrid_list (hybrid_list.cc): a hash map from ids to list nodes, and    *)
(* the nodes in a doubly linked ring through the sentinel m_list, whose    *)
(* pointers the three operations assign one after the other.               *)
(* A node is named by the id it was created for; the map holds one at most.*)
(***************************************************************************)
EXTENDS Naturals, FiniteSets

CONSTANTS
  Id,        \* elem_id
  Routine,   \* what the application stores (m_data of a node)
  Root       \* the sentinel m_list

ASSUME RootAssumption == Root \notin Id

VARIABLES
  stored,    \* [id in m_data -> m_data of its node]
  nxt,       \* m_next of the sentinel and of every node
  prv        \* m_prev

vars == <<stored, nxt, prv>>

With(f, k, v) == [i \in DOMAIN f \cup {k} |-> IF i = k THEN v ELSE f[i]]

Live == DOMAIN stored
Nodes == Live \cup {Root}

Init ==
  /\ stored = <<>>
  /\ nxt = [n \in {Root} |-> Root]
  /\ prv = [n \in {Root} |-> Root]

\* Mutation of InsertElem: after the sentinel, that is at the front.
InsertElemFirst(id, data) ==
  /\ id \notin Live
  /\ stored' = With(stored, id, data)
  /\ nxt' = With([nxt EXCEPT ![Root] = id], id, nxt[Root])
  /\ prv' = With([prv EXCEPT ![nxt[Root]] = id], id, Root)

\* insert_elem: before the sentinel, that is at the end; refused when the id is
\* there.
InsertElem(id, data) ==
  /\ id \notin Live
  /\ stored' = With(stored, id, data)
  /\ prv' = With([prv EXCEPT ![Root] = id], id, prv[Root])
  /\ nxt' = With([nxt EXCEPT ![prv[Root]] = id], id, Root)

\* erase_elem; it returns NULL for an id that is not there.
EraseElem(id) ==
  /\ id \in Live
  /\ stored' = [i \in Live \ {id} |-> stored[i]]
  /\ nxt' = [n \in Nodes \ {id} |-> IF n = prv[id] THEN nxt[id] ELSE nxt[n]]
  /\ prv' = [n \in Nodes \ {id} |-> IF n = nxt[id] THEN prv[id] ELSE prv[n]]

\* Mutation of Turned: the node that follows keeps its m_prev.
TurnedHalf(first, last) ==
  LET n1 == [nxt EXCEPT ![last] = first]
      p1 == [prv EXCEPT ![first] = last, ![Root] = first]
      n2 == [n1 EXCEPT ![Root] = n1[first]]
  IN  [nxt |-> [n2 EXCEPT ![first] = Root], prv |-> p1]

\* The ring after the six assignments of forward_elem: the sentinel is taken
\* out between `last` and `first` and put back after `first`.
Turned(first, last) ==
  LET n1 == [nxt EXCEPT ![last] = first]
      p1 == [prv EXCEPT ![first] = last, ![Root] = first]
      n2 == [n1 EXCEPT ![Root] = n1[first]]
  IN  [nxt |-> [n2 EXCEPT ![first] = Root],
       prv |-> [p1 EXCEPT ![n2[Root]] = Root]]

\* forward_elem; it returns false when the ring is empty.
ForwardElem ==
  /\ nxt[Root] # Root
  /\ LET turned == Turned(nxt[Root], prv[Root])
     IN  nxt' = turned.nxt /\ prv' = turned.prv
  /\ UNCHANGED stored

Next == \/ \E id \in Id : EraseElem(id) \/ \E data \in Routine : InsertElem(id, data)
        \/ ForwardElem

Spec == Init /\ [][Next]_vars

-----------------------------------------------------------------------------
(* Properties.                                                              *)

\* The map and the links agree: the linked nodes are the stored ones and the
\* sentinel, and the two directions are each other's inverse.  (A node freed but
\* still linked is used by the next turn; one stored but not linked never
\* has its turn again.)
WellLinked ==
  /\ DOMAIN nxt = Nodes /\ DOMAIN prv = Nodes
  /\ \A n \in Nodes : /\ nxt[n] \in Nodes /\ prv[nxt[n]] = n
                      /\ prv[n] \in Nodes /\ nxt[prv[n]] = n

\* The nodes from the sentinel on, in the order of the ring.
Turns ==
  LET node[k \in Nat] == IF k = 0 THEN Root ELSE nxt[node[k - 1]]
  IN  [k \in 1..Cardinality(Live) |-> node[k]]

\* The pointers implement the ring of turns, none lost and none repeated.
Abstract == INSTANCE RoutineRing WITH ring <- Turns, of <- stored
RingOfTurns == Abstract!Spec
=============================================================================
