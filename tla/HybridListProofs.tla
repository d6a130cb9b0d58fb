-------------------------- MODULE HybridListProofs --------------------------
(***************************************************************************)
(* The pointers of hybrid_list stay well linked, whatever the ids and the  *)
(* routines, and the list implements the turns of RoutineRing.             *)
(***************************************************************************)
EXTENDS HybridList, DistinctSequences, FiniteSetTheorems

Inv == stored \in [Live -> Routine] /\ Live \subseteq Id /\ WellLinked

LEMMA InsertLinked ==
  ASSUME Inv, NEW id \in Id, NEW data \in Routine, InsertElem(id, data)
  PROVE  WellLinked'
<1> DEFINE last == prv[Root]
<1>1. id \notin Nodes /\ Root \in Nodes /\ last \in Nodes
  BY RootAssumption DEF Inv, InsertElem, Nodes, WellLinked
<1>2. Nodes' = Nodes \cup {id}
  BY DEF InsertElem, Nodes, Live, With
<1>3. /\ DOMAIN nxt' = Nodes \cup {id}
      /\ nxt'[id] = Root /\ nxt'[last] = id
      /\ \A n \in Nodes \ {last} : nxt'[n] = nxt[n]
  BY <1>1 DEF InsertElem, WellLinked, Inv, With
<1>4. /\ DOMAIN prv' = Nodes \cup {id}
      /\ prv'[id] = last /\ prv'[Root] = id
      /\ \A n \in Nodes \ {Root} : prv'[n] = prv[n]
  BY <1>1 DEF InsertElem, WellLinked, Inv, With
<1> QED BY <1>1, <1>2, <1>3, <1>4 DEF WellLinked, Inv

LEMMA EraseLinked ==
  ASSUME Inv, NEW id \in Id, EraseElem(id)
  PROVE  WellLinked'
<1>1. id \in Nodes \ {Root} /\ Root \in Nodes
  BY RootAssumption DEF EraseElem, Nodes, Inv
<1>2. Nodes' = Nodes \ {id}
  BY RootAssumption DEF EraseElem, Nodes, Live
<1>3. \A n \in Nodes \ {id} : /\ nxt'[n] = (IF n = prv[id] THEN nxt[id] ELSE nxt[n])
                              /\ prv'[n] = (IF n = nxt[id] THEN prv[id] ELSE prv[n])
  BY DEF EraseElem
<1>4. DOMAIN nxt' = Nodes \ {id} /\ DOMAIN prv' = Nodes \ {id}
  BY DEF EraseElem
<1> QED BY <1>1, <1>2, <1>3, <1>4 DEF WellLinked, Inv

LEMMA ForwardLinked ==
  ASSUME Inv, ForwardElem
  PROVE  WellLinked'
<1> DEFINE first == nxt[Root]
           last == prv[Root]
<1>1. Nodes' = Nodes /\ {Root, first, last} \subseteq Nodes /\ first # Root /\ last # Root
  BY DEF ForwardElem, Nodes, Live, WellLinked, Inv
<1>2. nxt[last] = Root /\ prv[first] = Root
  BY <1>1 DEF WellLinked, Inv
<1>3. /\ nxt' = Turned(first, last).nxt
      /\ prv' = Turned(first, last).prv
  BY DEF ForwardElem
<1> QED BY <1>1, <1>2, <1>3 DEF WellLinked, Inv, Turned

LEMMA InvInit == Init => Inv
BY RootAssumption DEF Init, Inv, WellLinked, Nodes, Live

LEMMA InvNext == Inv /\ [Next]_vars => Inv'
<1> SUFFICES ASSUME Inv, [Next]_vars PROVE Inv'
  OBVIOUS
<1>1. ASSUME NEW id \in Id, NEW data \in Routine, InsertElem(id, data)
      PROVE  Inv'
  <2>1. stored' \in [Live' -> Routine] /\ Live' \subseteq Id
    BY <1>1 DEF InsertElem, Inv, Live, With
  <2> QED BY <1>1, <2>1, InsertLinked DEF Inv
<1>2. ASSUME NEW id \in Id, EraseElem(id)
      PROVE  Inv'
  <2>1. stored' \in [Live' -> Routine] /\ Live' \subseteq Id
    BY <1>2 DEF EraseElem, Inv, Live
  <2> QED BY <1>2, <2>1, EraseLinked DEF Inv
<1>3. CASE ForwardElem
  <2>1. stored' \in [Live' -> Routine] /\ Live' \subseteq Id
    BY <1>3 DEF ForwardElem, Inv, Live
  <2> QED BY <1>3, <2>1, ForwardLinked DEF Inv
<1>4. CASE UNCHANGED vars
  BY <1>4 DEF vars, Inv, WellLinked, Nodes, Live
<1> QED BY <1>1, <1>2, <1>3, <1>4 DEF Next

\* The map and the links of the ring agree in every reachable state.
THEOREM RingWellLinked == Spec => []WellLinked
<1>1. Inv => WellLinked
  BY DEF Inv
<1> QED BY <1>1, InvInit, InvNext, PTL DEF Spec

-----------------------------------------------------------------------------
(* The nodes from the sentinel on.                                          *)

\* Where n leads from r in k steps.
Walk(n, r) == LET node[k \in Nat] == IF k = 0 THEN r ELSE n[node[k - 1]] IN node

\* A walk of m steps.
IsWalk(f, m, n, r) == f = [k \in 0..m |-> IF k = 0 THEN r ELSE n[f[k - 1]]]

LEMMA WalkStep ==
  ASSUME NEW n, NEW r
  PROVE  /\ Walk(n, r)[0] = r
         /\ \A k \in Nat : Walk(n, r)[k + 1] = n[Walk(n, r)[k]]
<1>2. \A m \in Nat : \E f : IsWalk(f, m, n, r)
  <2> DEFINE T == {m \in Nat : ~ \E f : IsWalk(f, m, n, r)}
  <2> SUFFICES ASSUME T # {} PROVE FALSE
    OBVIOUS
  <2>1. PICK m \in T : \A j \in T : ~(j < m)
    <3>1. T \in SUBSET Nat
      OBVIOUS
    <3> HIDE DEF T
    <3> QED BY LeastOf, <3>1
  <2>2. CASE m = 0
    <3>1. IsWalk([k \in 0..0 |-> r], 0, n, r)
      BY DEF IsWalk
    <3> QED BY <2>2, <3>1
  <2>3. CASE m # 0
    <3>1. m - 1 \in Nat /\ m - 1 \notin T
      BY <2>1, <2>3
    <3>2. PICK f : IsWalk(f, m - 1, n, r)
      BY <3>1
    <3> DEFINE g == [k \in 0..m |-> IF k = 0 THEN r ELSE n[f[k - 1]]]
    <3>3. \A k \in 0..m - 1 : f[k] = g[k]
      BY <3>1, <3>2 DEF IsWalk
    <3>4. g = [k \in 0..m |-> IF k = 0 THEN r ELSE n[g[k - 1]]]
      <4>1. \A k \in 0..m : k # 0 => k - 1 \in 0..m - 1
        BY <3>1
      <4> QED BY <3>3, <4>1
    <3> HIDE DEF g
    <3>5. IsWalk(g, m, n, r)
      BY <3>4 DEF IsWalk
    <3> QED BY <3>5
  <2> QED BY <2>2, <2>3
<1>3. ASSUME NEW f, NEW m \in Nat, IsWalk(f, m, n, r),
             NEW g, NEW p \in Nat, IsWalk(g, p, n, r), m <= p
      PROVE  \A k \in 0..m : f[k] = g[k]
  <2> DEFINE T == {k \in 0..m : f[k] # g[k]}
  <2> SUFFICES ASSUME T # {} PROVE FALSE
    OBVIOUS
  <2>1. PICK k \in T : \A j \in T : ~(j < k)
    <3>1. T \in SUBSET Nat
      OBVIOUS
    <3> HIDE DEF T
    <3> QED BY LeastOf, <3>1
  <2>2. k \in 0..m /\ k \in 0..p /\ f[k] # g[k]
    BY <1>3, <2>1
  <2>3. CASE k = 0
    BY <1>3, <2>2, <2>3 DEF IsWalk
  <2>4. CASE k # 0
    <3>1. k - 1 \in 0..m /\ k - 1 \notin T
      BY <2>1, <2>4
    <3>2. f[k - 1] = g[k - 1]
      BY <3>1
    <3>3. f[k] = n[f[k - 1]] /\ g[k] = n[g[k - 1]]
      BY <1>3, <2>2, <2>4 DEF IsWalk
    <3> QED BY <2>2, <3>2, <3>3
  <2> QED BY <2>3, <2>4
<1> DEFINE part(m) == CHOOSE f : IsWalk(f, m, n, r)
           h == [k \in Nat |-> part(k)[k]]
<1>4. \A m \in Nat : IsWalk(part(m), m, n, r)
  BY <1>2
<1>5. h = [k \in Nat |-> IF k = 0 THEN r ELSE n[h[k - 1]]]
  <2> HIDE DEF part
  <2>1. h[0] = r
    BY <1>4 DEF IsWalk
  <2>2. ASSUME NEW k \in Nat, k # 0
        PROVE  h[k] = n[h[k - 1]]
    <3>1. k - 1 \in Nat /\ k - 1 <= k /\ k - 1 \in 0..k - 1 /\ k \in 0..k
      BY <2>2
    <3>2. part(k)[k - 1] = part(k - 1)[k - 1]
      BY <1>3, <1>4, <3>1
    <3>3. part(k)[k] = n[part(k)[k - 1]]
      BY <1>4, <2>2, <3>1 DEF IsWalk
    <3> QED BY <3>1, <3>2, <3>3
  <2> QED BY <2>1, <2>2
<1> HIDE DEF h
<1>6. Walk(n, r) = [k \in Nat |-> IF k = 0 THEN r ELSE n[Walk(n, r)[k - 1]]]
  BY <1>5 DEF Walk
<1> HIDE DEF part
<1> QED BY <1>6

-----------------------------------------------------------------------------
(* The pointers as a list.                                                  *)

\* Node number k of list r, with the sentinel at both of its ends.
At(r, k) == IF k \in 1..Len(r) THEN r[k] ELSE Root

\* The list r is what the pointers lead through.
Leads(r) ==
  /\ Distinct(r, Id) /\ ToSet(r) = Live
  /\ \A k \in 0..Len(r) : nxt[At(r, k)] = At(r, k + 1)

RingInv == Inv /\ \E r : Leads(r)

\* A list that holds no element twice is as long as the set of its elements.
LEMMA DistinctLength ==
  ASSUME NEW S, NEW r, Distinct(r, S)
  PROVE  Cardinality(ToSet(r)) = Len(r)
<1>1. r \in Seq(S) /\ Len(r) \in Nat /\ DOMAIN r = 1..Len(r)
  BY DEF Distinct
<1>2. ToSet(r) = {r[i] : i \in 1..Len(r)}
  BY <1>1 DEF ToSet
<1>3. r \in [1..Len(r) -> ToSet(r)]
  BY <1>1, <1>2
<1>4. r \in Bijection(1..Len(r), ToSet(r))
  BY <1>2, <1>3 DEF Distinct, Bijection, Injection, Surjection, IsInjective
<1>5. ExistsBijection(1..Len(r), ToSet(r))
  BY <1>4 DEF ExistsBijection
<1> QED BY <1>1, <1>5, FS_CountingElements

\* Turns reads that list off the pointers.
LEMMA LeadsIsTurns == \A q : Leads(q) => Turns = q
<1> SUFFICES ASSUME NEW r, Leads(r) PROVE Turns = r
  OBVIOUS
<1> DEFINE node == Walk(nxt, Root)
<1>1. r \in Seq(Id) /\ Len(r) \in Nat
  BY DEF Leads, Distinct
<1>2. node[0] = Root /\ \A k \in Nat : node[k + 1] = nxt[node[k]]
  BY WalkStep
<1>3. Turns = [k \in 1..Cardinality(Live) |-> node[k]]
  BY DEF Turns, Walk
<1> HIDE DEF node
<1>4. Cardinality(Live) = Len(r)
  BY DistinctLength DEF Leads
<1>5. \A k \in 0..Len(r) : node[k] = At(r, k)
  <2> DEFINE T == {k \in 0..Len(r) : node[k] # At(r, k)}
  <2> SUFFICES ASSUME T # {} PROVE FALSE
    OBVIOUS
  <2>1. PICK k \in T : \A j \in T : k =< j
    <3>1. T \in SUBSET Nat
      OBVIOUS
    <3> HIDE DEF T
    <3> QED BY <3>1, MinIsLeast, Zenon
  <2>2. k # 0
    <3>1. At(r, 0) = Root
      BY <1>1 DEF At
    <3> QED BY <1>2, <2>1, <3>1
  <2>3. k - 1 \in Nat /\ k - 1 \in 0..Len(r) /\ k - 1 \notin T /\ (k - 1) + 1 = k
    BY <1>1, <2>1, <2>2
  <2>4. node[k - 1] = At(r, k - 1)
    BY <2>3
  <2>5. node[k] = nxt[At(r, k - 1)]
    BY <1>2, <2>3, <2>4
  <2>6. nxt[At(r, k - 1)] = At(r, k)
    BY <2>3 DEF Leads
  <2> QED BY <2>1, <2>5, <2>6
<1>6. \A k \in 1..Len(r) : node[k] = r[k]
  BY <1>1, <1>5 DEF At
<1>7. r = [k \in 1..Len(r) |-> r[k]]
  BY <1>1
<1> QED BY <1>3, <1>4, <1>6, <1>7

\* The places of a list are different nodes, the last of which precedes the
\* sentinel in the ring, and the neighbours of a node are its neighbours there.
LEMMA Places ==
  ASSUME Inv, NEW r, Leads(r)
  PROVE  /\ r \in Seq(Id) /\ Len(r) \in Nat
         /\ \A k \in 0..Len(r) : At(r, k) \in Nodes
         /\ \A k, l \in 0..Len(r) : At(r, k) = At(r, l) => k = l
         /\ \A k \in 0..Len(r) : prv[At(r, k + 1)] = At(r, k)
         /\ At(r, 0) = Root /\ At(r, Len(r) + 1) = Root
<1>1. /\ r \in Seq(Id) /\ Len(r) \in Nat /\ DOMAIN r = 1..Len(r)
      /\ \A i, j \in 1..Len(r) : r[i] = r[j] => i = j
      /\ \A i \in 1..Len(r) : r[i] \in Live
  BY DEF Leads, Distinct, ToSet
<1>2. \A k \in 0..Len(r) : At(r, k) \in Nodes
  BY <1>1 DEF At, Nodes
<1>3. Root \notin Live
  BY RootAssumption DEF Inv
<1>4. ASSUME NEW k \in 0..Len(r), NEW l \in 0..Len(r), At(r, k) = At(r, l)
      PROVE  k = l
  BY <1>1, <1>3, <1>4 DEF At
<1>5. \A k \in 0..Len(r) : prv[At(r, k + 1)] = At(r, k)
  BY <1>2 DEF Leads, Inv, WellLinked
<1>6. At(r, 0) = Root /\ At(r, Len(r) + 1) = Root
  BY <1>1 DEF At
<1> QED BY <1>1, <1>2, <1>4, <1>5, <1>6

LEMMA InsertLeads ==
  ASSUME Inv, NEW id \in Id, NEW data \in Routine, InsertElem(id, data),
         NEW r, Leads(r)
  PROVE  Leads(Append(r, id))'
<1> DEFINE q == Append(r, id)
           last == prv[Root]
<1>1. /\ r \in Seq(Id) /\ Len(r) \in Nat
      /\ \A k \in 0..Len(r) : At(r, k) \in Nodes
      /\ \A k, l \in 0..Len(r) : At(r, k) = At(r, l) => k = l
      /\ last = At(r, Len(r))
  BY Places
<1>2. id \notin Live /\ id \notin Nodes
  BY RootAssumption DEF InsertElem, Nodes
<1>3. Distinct(q, Id) /\ ToSet(q) = Live \cup {id}
  BY <1>2, AppendDistinct DEF Leads
<1>4. Live' = Live \cup {id}
  BY DEF InsertElem, Live, With
<1>5. /\ nxt'[id] = Root /\ nxt'[last] = id
      /\ \A n \in Nodes \ {last} : nxt'[n] = nxt[n]
  <2>1. DOMAIN nxt = Nodes /\ last \in Nodes
    BY <1>1 DEF Inv, WellLinked
  <2> QED BY <1>2, <2>1 DEF InsertElem, With
<1>6. /\ Len(q) = Len(r) + 1 /\ q[Len(r) + 1] = id
      /\ \A k \in 1..Len(r) : q[k] = r[k]
  BY <1>1
<1> HIDE DEF q, last
<1>7. \A k \in 0..Len(r) : At(q, k) = At(r, k)
  BY <1>1, <1>6 DEF At
<1>8. At(q, Len(r) + 1) = id /\ At(q, Len(r) + 2) = Root
  BY <1>1, <1>6 DEF At
<1>9. ASSUME NEW k \in 0..Len(q) PROVE nxt'[At(q, k)] = At(q, k + 1)
  <2>1. CASE k < Len(r)
    <3>1. At(r, k) # last /\ At(r, k) \in Nodes
      BY <1>1, <2>1
    <3>2. k \in 0..Len(r) /\ k + 1 \in 0..Len(r)
      BY <1>1, <2>1
    <3> QED BY <1>5, <1>7, <3>1, <3>2 DEF Leads
  <2>2. CASE k = Len(r)
    BY <1>1, <1>5, <1>7, <1>8, <2>2
  <2>3. CASE k = Len(r) + 1
    BY <1>1, <1>5, <1>8, <2>3
  <2> QED BY <1>1, <1>6, <2>1, <2>2, <2>3
<1> QED BY <1>3, <1>4, <1>9 DEF Leads, At, q

LEMMA EraseLeads ==
  ASSUME Inv, NEW id \in Id, EraseElem(id), NEW r, Leads(r)
  PROVE  Leads(RemoveFirst(r, id))'
<1> DEFINE q == RemoveFirst(r, id)
<1>1. /\ r \in Seq(Id) /\ Len(r) \in Nat
      /\ \A k \in 0..Len(r) : At(r, k) \in Nodes
      /\ \A k, l \in 0..Len(r) : At(r, k) = At(r, l) => k = l
      /\ \A k \in 0..Len(r) : prv[At(r, k + 1)] = At(r, k)
  BY Places
<1>2. Distinct(q, Id) /\ ToSet(q) = Live \ {id}
  BY RemoveDistinct DEF Leads
<1>3. Live' = Live \ {id}
  BY DEF EraseElem, Live
<1>4. PICK p \in 1..Len(r) : q = RemoveAt(r, p) /\ r[p] = id
  <2>1. \E i \in 1..Len(r) : r[i] = id
    BY <1>1 DEF EraseElem, Leads, ToSet
  <2> QED BY <1>1, <2>1, RemovesOne
<1>5. /\ Len(q) = Len(r) - 1
      /\ \A k \in 1..p - 1 : q[k] = r[k]
      /\ \A k \in p..Len(r) - 1 : q[k] = r[k + 1]
  <2>1. /\ Len(RemoveAt(r, p)) = Len(r) - 1
        /\ \A k \in 1..p - 1 : RemoveAt(r, p)[k] = r[k]
        /\ \A k \in p..Len(r) - 1 : RemoveAt(r, p)[k] = r[k + 1]
    BY <1>1, RemoveAtPlaces
  <2> HIDE DEF q
  <2> QED BY <1>4, <2>1, Zenon
<1> HIDE DEF q
<1>6. /\ At(r, p) = id
      /\ \A k \in 0..p - 1 : At(q, k) = At(r, k)
      /\ \A k \in p..Len(r) : At(q, k) = At(r, k + 1)
  BY <1>1, <1>4, <1>5 DEF At
<1>7. nxt[id] = At(r, p + 1) /\ prv[id] = At(r, p - 1)
  <2>1. p - 1 \in 0..Len(r) /\ p \in 0..Len(r) /\ (p - 1) + 1 = p
    BY <1>1
  <2> QED BY <1>1, <1>6, <2>1 DEF Leads
<1>8. \A n \in Nodes \ {id} : nxt'[n] = IF n = prv[id] THEN nxt[id] ELSE nxt[n]
  BY DEF EraseElem
<1>9. ASSUME NEW k \in 0..Len(q) PROVE nxt'[At(q, k)] = At(q, k + 1)
  <2> DEFINE m == IF k < p THEN k ELSE k + 1
  <2>1. /\ m \in 0..Len(r) /\ m # p /\ p \in 0..Len(r) /\ p - 1 \in 0..Len(r)
        /\ At(q, k) = At(r, m)
        /\ At(q, k + 1) = IF m = p - 1 THEN At(r, p + 1) ELSE At(r, m + 1)
    <3>1. /\ k \in Int /\ 0 <= k /\ k <= Len(r) - 1
          /\ p \in Int /\ 1 <= p /\ p <= Len(r)
      BY <1>1, <1>5
    <3>2. CASE k + 1 < p
      <4>1. m = k /\ k \in 0..p - 1 /\ k + 1 \in 0..p - 1
        BY <3>1, <3>2
      <4> QED BY <1>1, <1>6, <3>1, <4>1
    <3>3. CASE k + 1 = p
      <4>1. m = k /\ k \in 0..p - 1 /\ k + 1 \in p..Len(r) /\ (k + 1) + 1 = p + 1
        BY <3>1, <3>3
      <4> QED BY <1>1, <1>6, <3>1, <4>1
    <3>4. CASE k >= p
      <4>1. m = k + 1 /\ k \in p..Len(r) /\ k + 1 \in p..Len(r)
        BY <3>1, <3>4
      <4> QED BY <1>1, <1>6, <3>1, <4>1
    <3> QED BY <3>1, <3>2, <3>3, <3>4
  <2> HIDE DEF m
  <2>2. At(r, m) \in Nodes \ {id} /\ (At(r, m) = prv[id] <=> m = p - 1)
    BY <1>1, <1>6, <1>7, <2>1
  <2> QED BY <1>7, <1>8, <2>1, <2>2 DEF Leads
<1> QED BY <1>2, <1>3, <1>9 DEF Leads, At, q

LEMMA ForwardLeads ==
  ASSUME Inv, ForwardElem, NEW r, Leads(r)
  PROVE  r # <<>> /\ Leads(Append(Tail(r), Head(r)))'
<1> DEFINE q == Append(Tail(r), Head(r))
           first == nxt[Root]
           last == prv[Root]
<1>1. /\ r \in Seq(Id) /\ Len(r) \in Nat
      /\ \A k \in 0..Len(r) : At(r, k) \in Nodes
      /\ \A k, l \in 0..Len(r) : At(r, k) = At(r, l) => k = l
      /\ last = At(r, Len(r))
  BY Places
<1>2. first = At(r, 1)
  <2>1. At(r, 0) = Root /\ 0 \in 0..Len(r)
    BY <1>1 DEF At
  <2> QED BY <2>1 DEF Leads
<1>3. Len(r) > 0 /\ r # <<>>
  BY <1>1, <1>2 DEF ForwardElem, At
<1>4. /\ Tail(r) \in Seq(Id) /\ Len(Tail(r)) = Len(r) - 1 /\ Head(r) = r[1] /\ r[1] \in Id
      /\ \A k \in 1..Len(r) - 1 : Tail(r)[k] = r[k + 1]
  BY <1>1, <1>3
<1>5. /\ Len(q) = Len(r) /\ q[Len(r)] = r[1]
      /\ \A k \in 1..Len(r) - 1 : q[k] = r[k + 1]
  BY <1>1, <1>3, <1>4
<1>6. Distinct(q, Id) /\ ToSet(q) = Live
  <2>1. /\ Distinct(Tail(r), Id) /\ ToSet(Tail(r)) = Live \ {Head(r)}
        /\ Head(r) \in Live
    BY <1>3, TailDistinct DEF Leads
  <2>2. Head(r) \notin ToSet(Tail(r)) /\ Head(r) \in Id
    BY <1>4, <2>1
  <2>3. Distinct(q, Id) /\ ToSet(q) = ToSet(Tail(r)) \cup {Head(r)}
    BY <2>1, <2>2, AppendDistinct
  <2> HIDE DEF q
  <2> QED BY <2>1, <2>3
<1>7. Live' = Live
  BY DEF ForwardElem, Live
<1>8. \A n \in Nodes : nxt'[n] = IF n = first THEN Root
                                 ELSE IF n = Root THEN (IF first = last THEN first ELSE nxt[first])
                                 ELSE IF n = last THEN first ELSE nxt[n]
  <2>1. /\ nxt' = Turned(first, last).nxt /\ DOMAIN nxt = Nodes
        /\ first \in Nodes /\ last \in Nodes /\ Root \in Nodes /\ first # Root /\ last # Root
    <3>1. nxt' = Turned(first, last).nxt /\ first # Root
      BY DEF ForwardElem
    <3> QED BY <3>1 DEF Inv, WellLinked, Nodes
  <2> QED BY <2>1 DEF Turned
<1> HIDE DEF q, first, last
<1>9. /\ At(q, 0) = Root /\ At(q, Len(r)) = first /\ At(q, Len(r) + 1) = Root
      /\ \A k \in 1..Len(r) - 1 : At(q, k) = At(r, k + 1)
      /\ At(r, 0) = Root /\ 1 \in 0..Len(r) /\ Len(r) \in 0..Len(r)
  BY <1>1, <1>2, <1>3, <1>5 DEF At
<1>10. ASSUME NEW k \in 0..Len(q) PROVE nxt'[At(q, k)] = At(q, k + 1)
  <2>1. CASE k = Len(r)
    BY <1>1, <1>2, <1>8, <1>9, <2>1
  <2>2. CASE k = 0
    <3>1. Root # first /\ Root \in Nodes
      BY <1>1, <1>2, <1>9
    <3>2. CASE Len(r) = 1
      BY <1>1, <1>2, <1>8, <1>9, <2>2, <3>1, <3>2
    <3>3. CASE Len(r) # 1
      <4>1. first # last
        BY <1>1, <1>2, <1>9, <3>3
      <4>2. nxt[first] = At(r, 2) /\ At(q, 1) = At(r, 2)
        <5>1. Len(r) \in Nat /\ Len(r) > 0
          BY <1>1, <1>3
        <5>2. Len(r) - 1 \in Nat /\ 1 <= Len(r) - 1
          BY <3>3, <5>1
        <5>3. 1 \in 1..Len(r) - 1
          BY <5>2
        <5>4. nxt[At(r, 1)] = At(r, 1 + 1) /\ At(q, 1) = At(r, 1 + 1)
          BY <1>9, <5>3 DEF Leads
        <5> QED BY <1>2, <5>4
      <4> QED BY <1>8, <1>9, <2>2, <3>1, <4>1, <4>2
    <3> QED BY <3>2, <3>3
  <2>3. CASE k # 0 /\ k < Len(r)
    <3>1. k + 1 \in 0..Len(r) /\ k \in 1..Len(r) - 1 /\ 0 \in 0..Len(r)
      BY <1>1, <2>3
    <3>2. At(q, k) = At(r, k + 1) /\ At(r, k + 1) # first /\ At(r, k + 1) # Root
          /\ At(r, k + 1) \in Nodes
      BY <1>1, <1>2, <1>9, <3>1
    <3>3. CASE k + 1 = Len(r)
      BY <1>1, <1>8, <1>9, <3>2, <3>3
    <3>4. CASE k + 1 # Len(r)
      <4>1. At(r, k + 1) # last /\ k + 1 \in 1..Len(r) - 1
        BY <1>1, <1>9, <3>1, <3>4
      <4>2. nxt[At(r, k + 1)] = At(r, (k + 1) + 1)
        BY <3>1 DEF Leads
      <4> QED BY <1>8, <1>9, <3>2, <4>1, <4>2
    <3> QED BY <3>3, <3>4
  <2> QED BY <1>1, <1>5, <2>1, <2>2, <2>3
<1> QED BY <1>3, <1>6, <1>7, <1>10 DEF Leads, At, q

LEMMA RingInvInit == Init => RingInv /\ Turns = <<>>
<1> SUFFICES ASSUME Init PROVE RingInv /\ Turns = <<>>
  OBVIOUS
<1>1. Leads(<<>>)
  <2>1. <<>> \in Seq(Id) /\ Len(<<>>) = 0 /\ DOMAIN <<>> = {}
    BY EmptySeq
  <2>2. Distinct(<<>>, Id) /\ ToSet(<<>>) = {} /\ Live = {}
    BY <2>1 DEF Distinct, ToSet, Init, Live
  <2>3. \A k \in 0..Len(<<>>) : nxt[At(<<>>, k)] = At(<<>>, k + 1)
    BY <2>1 DEF At, Init
  <2> QED BY <2>2, <2>3 DEF Leads
<1> QED BY <1>1, InvInit, LeadsIsTurns DEF RingInv

\* What becomes of the list in a step.
LEMMA RingInvNext ==
  ASSUME RingInv, [Next]_vars
  PROVE  RingInv' /\ [Abstract!Next]_<<Turns, stored>>
<1>1. Inv /\ Inv'
  BY InvNext DEF RingInv
<1>2. PICK r : Leads(r)
  BY DEF RingInv
<1>3. Turns = r
  BY <1>2, LeadsIsTurns
<1>4. (\A q : Leads(q) => Turns = q)'
  BY LeadsIsTurns, PTL
<1>5. ASSUME NEW q, Leads(q)'
      PROVE  RingInv' /\ Turns' = q
  BY <1>1, <1>4, <1>5 DEF RingInv
<1>6. ASSUME NEW id \in Id, NEW data \in Routine, InsertElem(id, data)
      PROVE  RingInv' /\ Abstract!InsertElem(id, data)
  <2>1. RingInv' /\ Turns' = Append(r, id)
    BY <1>1, <1>2, <1>5, <1>6, InsertLeads
  <2>2. /\ id \notin DOMAIN stored
        /\ stored' = [i \in DOMAIN stored \cup {id} |-> IF i = id THEN data ELSE stored[i]]
    BY <1>6 DEF InsertElem, With, Live
  <2> QED BY <1>3, <2>1, <2>2 DEF Abstract!InsertElem, Abstract!Insert
<1>7. ASSUME NEW id \in Id, EraseElem(id)
      PROVE  RingInv' /\ Abstract!EraseElem(id)
  <2>1. RingInv' /\ Turns' = RemoveFirst(r, id)
    BY <1>1, <1>2, <1>5, <1>7, EraseLeads
  <2>2. id \in DOMAIN stored /\ stored' = [i \in DOMAIN stored \ {id} |-> stored[i]]
    BY <1>7 DEF EraseElem, Live
  <2>3. Abstract!Erase(Turns, id) = RemoveFirst(Turns, id)
    BY DEF Abstract!Erase, Abstract!RemoveFirst, Abstract!RemoveAt, Abstract!SelectInSeq,
           Abstract!Min, RemoveFirst, RemoveAt, SelectInSeq, Min
  <2> QED BY <1>3, <2>1, <2>2, <2>3 DEF Abstract!EraseElem
<1>8. ASSUME ForwardElem
      PROVE  RingInv' /\ Abstract!ForwardElem
  <2>1. r # <<>> /\ RingInv' /\ Turns' = Append(Tail(r), Head(r))
    BY <1>1, <1>2, <1>5, <1>8, ForwardLeads
  <2>2. stored' = stored
    BY <1>8 DEF ForwardElem
  <2> QED BY <1>3, <2>1, <2>2 DEF Abstract!ForwardElem, Abstract!Rotate
<1>9. ASSUME UNCHANGED vars
      PROVE  RingInv' /\ UNCHANGED <<Turns, stored>>
  <2>1. Leads(r)'
    BY <1>2, <1>9 DEF vars, Leads, Live, At
  <2> QED BY <1>3, <1>5, <1>9, <2>1 DEF vars
<1> QED BY <1>6, <1>7, <1>8, <1>9 DEF Next, Abstract!Next

\* The pointers of hybrid_list implement the ring of turns, for any ids: each of
\* insert_elem, erase_elem and forward_elem is the abstract operation of its name.
THEOREM Refinement == Spec => RingOfTurns
<1>1. Init => RingInv /\ Abstract!Init
  <2> SUFFICES ASSUME Init PROVE RingInv /\ Abstract!Init
    OBVIOUS
  <2>1. RingInv /\ Turns = <<>>
    BY RingInvInit
  <2> QED BY <2>1 DEF Init, Abstract!Init
<1>2. RingInv /\ [Next]_vars => RingInv' /\ [Abstract!Next]_<<Turns, stored>>
  BY RingInvNext
<1> QED BY <1>1, <1>2, PTL DEF Spec, RingOfTurns, Abstract!Spec
=============================================================================
