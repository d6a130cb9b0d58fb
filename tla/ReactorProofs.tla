--------------------------- MODULE ReactorProofs ---------------------------
(***************************************************************************)
(* Theorems about Reactor: the ring and the map speak of the same routines *)
(* and epoll keeps none but UDP sessions besides; no handler goes on with  *)
(* a deleted object unless a callback closes the routine it was called     *)
(* for; an event that gets to the routine it is for was fetched for that   *)
(* very one; inspect() may stop at the first young routine.                *)
(***************************************************************************)
EXTENDS Reactor, DistinctSequences, FiniteSetTheorems

\* A deleted object is in no registry, and the one a handler works on is not deleted.
ObjectsInv ==
  /\ Live \cap freed = {}
  /\ NeverDangling

\* Lookup by id and a callback that spares its own routine are what keep it so.
LEMMA ObjectsStep ==
  ASSUME "self" \notin Closes, ObjectsInv, [Next]_vars
  PROVE  ObjectsInv'
<1> USE DEF ObjectsInv, NeverDangling, Live
<1>1. CASE UNCHANGED vars
  BY <1>1 DEF vars, Current
<1>2. CASE Poll
  BY <1>2 DEF Poll
<1>3. CASE Dispatch
  <2>1. CASE Current \in Live
    BY <1>3, <2>1 DEF Dispatch, registry, Current
  <2>2. CASE Current \notin Live
    BY <1>3, <2>2 DEF Dispatch, registry
  <2> QED BY <2>1, <2>2
<1>4. CASE Readable \/ Failed \/ Writable
  <2>1. phase' = "events"
    BY <1>4 DEF Readable, Failed, Writable, Fails, CloseCurrent
  <2>2. \/ age' = age /\ freed' = freed
        \/ age' = Without(age, Current) /\ freed' = freed \cup {Current}
    BY <1>4 DEF Readable, Failed, Writable, Fails, CloseCurrent, Close, registry
  <2> QED BY <2>1, <2>2 DEF Without
<1>5. CASE Sleep
  BY <1>5 DEF Sleep
<1>6. CASE InspectHead \/ InspectEnd \/ ProcessTimers
  BY <1>6 DEF InspectHead, InspectEnd, ProcessTimers, registry
<1>7. CASE \E id \in Id : AddRoutine(id)
  BY <1>7 DEF AddRoutine, Current
<1>8. ASSUME NEW id \in Id, CloseRoutine(id)
      PROVE  ObjectsInv'
  <2>1. /\ age' = Without(age, id) /\ freed' = freed \cup {id}
        /\ phase' = phase /\ batch' = batch
    BY <1>8 DEF CloseRoutine, Close
  <2>2. phase \in {"readable", "writable"} => id # Current
    BY <1>8 DEF CloseRoutine, MayRemove, Handling
  <2> QED BY <2>1, <2>2 DEF Without, Current
<1>9. CASE \E id \in Id : SettleRoutine(id)
  BY <1>9 DEF SettleRoutine, Without, Current
<1>10. CASE \E id \in Queue : SendBlocked(id)
  BY <1>10 DEF SendBlocked, Current
<1> QED BY <1>1, <1>2, <1>3, <1>4, <1>5, <1>6, <1>7, <1>8, <1>9, <1>10
        DEF Next, Loop, Application

\* Unless a callback closes its own routine, no handler goes on with a deleted one.
THEOREM ObjectsSafe ==
  ASSUME "self" \notin Closes
  PROVE  Spec => []NeverDangling
<1>1. Init => ObjectsInv
  BY DEF Init, ObjectsInv, NeverDangling, Live
<1>2. ObjectsInv /\ [Next]_vars => ObjectsInv'
  BY ObjectsStep
<1>3. ObjectsInv => NeverDangling
  BY DEF ObjectsInv
<1> QED BY <1>1, <1>2, <1>3, PTL DEF Spec

-----------------------------------------------------------------------------
\* A routine is closed, and epoll may keep the descriptor of a UDP session.
Closed(id) == \E left \in Unregistered(id) : Close(id, left)

LEMMA CloseRoutineCloses ==
  ASSUME NEW id, CloseRoutine(id)
  PROVE  Closed(id)
<1>1. Destroyed(id) \in Unregistered(id)
  BY DEF Destroyed, Unregistered
<1> QED BY <1>1 DEF Closed, CloseRoutine

LEMMA ClosedLeaves ==
  ASSUME NEW id, Closed(id)
  PROVE  /\ ring' = R!Erase(ring, id) /\ age' = Without(age, id)
         /\ watch' \in Unregistered(id)
         /\ freed' = freed \cup {id} /\ UNCHANGED <<used, born>>
BY DEF Closed, Close

\* Who leaves, leaves epoll, or is a UDP session that epoll keeps.
LEMMA UnregisteredIs ==
  ASSUME NEW id, watch' \in Unregistered(id)
  PROVE  \/ watch' = Without(watch, id)
         \/ watch' = watch /\ id \in Udp
BY DEF Unregistered

Handler == {"readable", "failed", "writable"}
Event == [of : Id, tag : Id, left : Seq(Handler) \ {<<>>}]

\* The events of a batch come from routines created before it was fetched.
KnownEvents(b, ids) == b \in Seq(Event) /\ \A k \in 1..Len(b) : b[k].of \in ids

\* What epoll has registered is of routines already created.
EventsInv ==
  /\ used \subseteq Id
  /\ DOMAIN watch \subseteq used
  /\ \A i \in DOMAIN watch : watch[i].tag \in Id
  /\ KnownEvents(batch, used \ born)
  /\ Handling => batch # <<>>

LEMMA ShortSequences ==
  ASSUME NEW S, NEW x \in S, NEW y \in S
  PROVE  /\ <<x>> \in Seq(S) \ {<<>>}
         /\ <<x, y>> \in Seq(S) \ {<<>>}
OBVIOUS

LEMMA NonEmptyTail ==
  ASSUME NEW S, NEW s \in Seq(S) \ {<<>>}, Len(s) # 1
  PROVE  Tail(s) \in Seq(S) \ {<<>>}
<1>1. Len(s) \in Nat /\ Len(s) > 1
  BY EmptySeq
<1>2. Tail(s) \in Seq(S) /\ Len(Tail(s)) = Len(s) - 1
  BY <1>1
<1>3. Len(Tail(s)) # Len(<<>>)
  BY <1>1, <1>2, EmptySeq
<1> QED BY <1>2, <1>3

LEMMA TailKnown ==
  ASSUME NEW b, NEW ids, KnownEvents(b, ids), b # <<>>
  PROVE  KnownEvents(Tail(b), ids)
BY DEF KnownEvents

LEMMA NextHandlerKnown ==
  ASSUME NEW ids, KnownEvents(batch, ids), batch # <<>>
  PROVE  KnownEvents(NextHandler, ids)
<1> DEFINE e == [Head(batch) EXCEPT !.left = Tail(@)]
<1>1. KnownEvents(Tail(batch), ids)
  BY TailKnown
<1>2. batch \in Seq(Event) /\ Head(batch) \in Event /\ Head(batch).of \in ids
  BY DEF KnownEvents
<1>3. CASE Len(Head(batch).left) = 1
  BY <1>1, <1>3 DEF NextHandler
<1>4. CASE Len(Head(batch).left) # 1
  <2>1. NextHandler = <<e>> \o Tail(batch)
    BY <1>4 DEF NextHandler
  <2>2. e.of = Head(batch).of
    BY <1>2 DEF Event
  <2>3. e \in Event
    <3>1. Tail(Head(batch).left) \in Seq(Handler) \ {<<>>}
      BY <1>2, <1>4, NonEmptyTail DEF Event
    <3> QED BY <1>2, <3>1 DEF Event
  <2>4. /\ <<e>> \o Tail(batch) \in Seq(Event)
        /\ Len(<<e>> \o Tail(batch)) = 1 + Len(Tail(batch))
        /\ (<<e>> \o Tail(batch))[1] = e
        /\ \A k \in 1..Len(Tail(batch)) : (<<e>> \o Tail(batch))[k + 1] = Tail(batch)[k]
    BY <1>1, <2>3 DEF KnownEvents
  <2>5. ASSUME NEW k \in 1..Len(<<e>> \o Tail(batch))
        PROVE  (<<e>> \o Tail(batch))[k].of \in ids
    <3>1. CASE k = 1
      BY <1>2, <2>2, <2>4, <3>1
    <3>2. CASE k # 1
      <4>1. k - 1 \in 1..Len(Tail(batch)) /\ (k - 1) + 1 = k
        BY <2>4, <2>5, <3>2, <1>1 DEF KnownEvents
      <4> QED BY <1>1, <2>4, <4>1 DEF KnownEvents
    <3> QED BY <3>1, <3>2
  <2> QED BY <2>1, <2>4, <2>5 DEF KnownEvents
<1> QED BY <1>3, <1>4

LEMMA PollKnown ==
  ASSUME EventsInv, Poll
  PROVE  KnownEvents(batch', used)
<1> DEFINE Some == UNION {Handlers(id) : id \in DOMAIN watch}
           Batch(ids, handlers) ==
             [k \in DOMAIN ids |->
               [of |-> ids[k], tag |-> watch[ids[k]].tag, left |-> handlers[k]]]
<1>0. PICK ids \in Fetched : \E handlers \in [DOMAIN ids -> Some] : batch' = Batch(ids, handlers)
  BY DEF Poll
<1>1. PICK handlers \in [DOMAIN ids -> Some] : batch' = Batch(ids, handlers)
  BY <1>0
<1>2. PICK n \in Nat : ids \in [1..n -> DOMAIN watch]
  BY DEF Fetched, BoundedSeq, SeqOf
<1>3. Some \subseteq Seq(Handler) \ {<<>>}
  <2>1. "readable" \in Handler /\ "failed" \in Handler /\ "writable" \in Handler
    BY DEF Handler
  <2>2. ASSUME NEW id, NEW s \in Handlers(id)
        PROVE  s \in Seq(Handler) \ {<<>>}
    <3>1. s \in {<<"readable">>, <<"failed">>, <<"writable">>,
                 <<"readable", "failed">>, <<"readable", "writable">>}
      BY DEF Handlers
    <3>2. /\ <<"readable">> \in Seq(Handler) \ {<<>>}
          /\ <<"readable", "writable">> \in Seq(Handler) \ {<<>>}
      BY <2>1, ShortSequences
    <3>3. /\ <<"failed">> \in Seq(Handler) \ {<<>>}
          /\ <<"readable", "failed">> \in Seq(Handler) \ {<<>>}
      BY <2>1, ShortSequences
    <3>4. <<"writable">> \in Seq(Handler) \ {<<>>}
      BY <2>1, ShortSequences
    <3> QED BY <3>1, <3>2, <3>3, <3>4
  <2> QED BY <2>2
<1>4. ASSUME NEW k \in 1..n
      PROVE  batch'[k] \in Event /\ batch'[k].of \in used
  <2>1. batch'[k] = [of |-> ids[k], tag |-> watch[ids[k]].tag, left |-> handlers[k]]
    BY <1>1, <1>2
  <2>2. ids[k] \in used /\ watch[ids[k]].tag \in Id /\ used \subseteq Id
    BY <1>2 DEF EventsInv
  <2> QED BY <1>1, <1>2, <1>3, <2>1, <2>2 DEF Event
<1>5. batch' \in [1..n -> Event]
  BY <1>1, <1>2, <1>4
<1> QED BY <1>4, <1>5 DEF KnownEvents

\* An id is given once, so none in the batch is that of a younger routine.
LEMMA EventsStep ==
  ASSUME EventsInv, [Next]_vars
  PROVE  EventsInv'
<1> USE DEF Live
<1>1. CASE UNCHANGED vars
  BY <1>1 DEF vars, EventsInv, Handling, KnownEvents
<1>2. CASE Poll
  <2>1. KnownEvents(batch', used)
    BY <1>2, PollKnown
  <2> QED BY <1>2, <2>1 DEF Poll, EventsInv, Handling, KnownEvents
<1>3. CASE Dispatch
  <2>1. batch # <<>> /\ UNCHANGED <<used, watch, born>>
    BY <1>3 DEF Dispatch, registry
  <2>2. \/ batch' = batch
        \/ batch' = Tail(batch) /\ phase' = "events"
    BY <1>3 DEF Dispatch
  <2>3. KnownEvents(batch', used \ born)
    BY <2>1, <2>2, TailKnown DEF EventsInv
  <2> QED BY <2>1, <2>2, <2>3 DEF EventsInv, Handling
<1>4. CASE Readable \/ Failed \/ Writable
  <2>1. Handling
    BY <1>4 DEF Readable, Failed, Writable, Returns, Handling
  <2>2. /\ phase' = "events" /\ UNCHANGED <<used, born>>
        /\ batch' \in {NextHandler, Tail(batch)}
    BY <1>4 DEF Readable, Failed, Writable, Fails, CloseCurrent, Close, registry
  <2>3. KnownEvents(batch', used \ born)
    BY <2>1, <2>2, TailKnown, NextHandlerKnown DEF EventsInv
  <2>4. \/ watch' = watch
        \/ watch' = Without(watch, Current)
        \/ watch' = [i \in DOMAIN watch |->
                       IF i = Current THEN [tag |-> i, out |-> FALSE] ELSE watch[i]]
        \/ watch' \in Modified(Current)
    BY <1>4 DEF Readable, Failed, Writable, Fails, CloseCurrent, Close, Unregistered, registry
  <2>5. /\ DOMAIN watch' \subseteq DOMAIN watch
        /\ \A i \in DOMAIN watch' : watch'[i].tag \in Id
    BY <2>4 DEF Without, Modified, EventsInv
  <2> QED BY <2>2, <2>3, <2>5 DEF EventsInv, Handling
<1>5. CASE Sleep \/ InspectHead \/ InspectEnd \/ ProcessTimers
  <2>1. UNCHANGED <<used, born, watch, batch>> /\ phase' \notin {"readable", "failed", "writable"}
    BY <1>5 DEF Sleep, InspectHead, InspectEnd, ProcessTimers, registry
  <2> QED BY <2>1 DEF EventsInv, Handling, KnownEvents
<1>6. ASSUME NEW id \in Id, AddRoutine(id)
      PROVE  EventsInv'
  <2>1. /\ used' = used \cup {id} /\ born' = born \cup {id} /\ id \notin used
        /\ batch' = batch /\ phase' = phase
    BY <1>6 DEF AddRoutine, Fresh
  <2>2. \/ watch' = watch
        \/ /\ DOMAIN watch' = DOMAIN watch \cup {id} /\ watch'[id].tag = id
           /\ \A i \in DOMAIN watch \ {id} : watch'[i] = watch[i]
    <3>1. CASE UNCHANGED watch
      BY <3>1
    <3>2. CASE ~UNCHANGED watch
      <4>1. PICK out \in BOOLEAN :
              watch' = [i \in DOMAIN watch \cup {id} |->
                          IF i = id THEN [tag |-> id, out |-> out] ELSE watch[i]]
        BY <1>6, <3>2 DEF AddRoutine
      <4> QED BY <4>1
    <3> QED BY <3>1, <3>2
  <2> QED BY <2>1, <2>2 DEF EventsInv, Handling, KnownEvents
<1>7. ASSUME NEW id \in Id, CloseRoutine(id) \/ SettleRoutine(id)
      PROVE  EventsInv'
  <2>1. /\ watch' \in Unregistered(id)
        /\ UNCHANGED <<used, born, batch, phase>>
    BY <1>7, CloseRoutineCloses, ClosedLeaves DEF CloseRoutine, SettleRoutine
  <2> QED BY <2>1, UnregisteredIs DEF EventsInv, Handling, KnownEvents, Without
<1>8. ASSUME NEW id \in Queue, SendBlocked(id)
      PROVE  EventsInv'
  <2>1. watch' \in Modified(id) /\ UNCHANGED <<used, born, batch, phase>>
    BY <1>8 DEF SendBlocked
  <2>2. DOMAIN watch' = DOMAIN watch /\ \A i \in DOMAIN watch' : watch'[i].tag \in Id
    BY <2>1 DEF Modified, EventsInv
  <2> QED BY <2>1, <2>2 DEF EventsInv, Handling, KnownEvents
<1> QED BY <1>1, <1>2, <1>3, <1>4, <1>5, <1>6, <1>7, <1>8 DEF Next, Loop, Application

LEMMA EventsInit == Init => EventsInv
BY QueueAssumption DEF Init, EventsInv, KnownEvents, Handling

\* An event that gets to the routine it is for was fetched for that routine, also
\* when modify_events sends others astray.
THEOREM EventsSafe == Spec => []OnlyPolled
<1>1. Init => EventsInv
  BY EventsInit
<1>2. EventsInv /\ [Next]_vars => EventsInv'
  BY EventsStep
<1>3. EventsInv => OnlyPolled
  BY DEF EventsInv, OnlyPolled, Current, KnownEvents
<1> QED BY <1>1, <1>2, <1>3, PTL DEF Spec

-----------------------------------------------------------------------------
\* The ring is a list without repetition of what the map holds.
RegistryInv ==
  /\ Distinct(ring, Id) /\ ToSet(ring) = Live
  /\ DOMAIN watch \ Live \subseteq Udp
  /\ Live \subseteq used

\* Any order of a finite set is a list of it.
LEMMA OrdersDistinct ==
  ASSUME NEW S, NEW s \in SetToSeqs(S), IsFiniteSet(S)
  PROVE  Distinct(s, S) /\ ToSet(s) = S
<1> DEFINE n == Cardinality(S)
<1>1. n \in Nat
  BY FS_CardinalityType
<1>2. s \in [1..n -> S] /\ \A i, j \in 1..n : i # j => s[i] # s[j]
  BY DEF SetToSeqs
<1>3. s \in Seq(S) /\ Len(s) = n /\ DOMAIN s = 1..n
  BY <1>1, <1>2
<1>4. s \in Injection(1..n, S)
  BY <1>2 DEF Injection, IsInjective
<1>5. Cardinality(1..n) = n
  BY <1>1, FS_Interval
<1>6. s \in Surjection(1..n, S)
  BY <1>4, <1>5, FS_Injection
<1>7. ToSet(s) = S
  BY <1>2, <1>3, <1>6 DEF Surjection, ToSet
<1> QED BY <1>2, <1>3, <1>7 DEF Distinct

\* Sending the first of the ring to its end.
LEMMA RotateDistinct ==
  ASSUME NEW S, NEW s, Distinct(s, S)
  PROVE  Distinct(R!Rotate(s), S) /\ ToSet(R!Rotate(s)) = ToSet(s)
<1>1. CASE s = <<>>
  BY <1>1 DEF R!Rotate
<1>2. CASE s # <<>>
  <2>1. /\ Head(s) \in ToSet(s) /\ Distinct(Tail(s), S)
        /\ ToSet(Tail(s)) = ToSet(s) \ {Head(s)}
    BY <1>2, TailDistinct
  <2>2. Head(s) \in S
    BY <1>2 DEF Distinct
  <2>3. /\ Distinct(Append(Tail(s), Head(s)), S)
        /\ ToSet(Append(Tail(s), Head(s))) = ToSet(Tail(s)) \cup {Head(s)}
    BY <2>1, <2>2, AppendDistinct
  <2> QED BY <1>2, <2>1, <2>3 DEF R!Rotate
<1> QED BY <1>1, <1>2

LEMMA EraseIsRemoveFirst ==
  ASSUME NEW r, NEW id
  PROVE  R!Erase(r, id) = RemoveFirst(r, id)
BY DEF R!Erase, R!RemoveFirst, R!RemoveAt, R!SelectInSeq, R!Min,
       RemoveFirst, RemoveAt, SelectInSeq, Min

\* A routine that leaves, leaves the ring and the map at once, and epoll with them
\* unless it is a UDP session.
LEMMA LeaveKeeps ==
  ASSUME RegistryInv, NEW id, used' = used,
         ring' = R!Erase(ring, id), age' = Without(age, id), watch' \in Unregistered(id)
  PROVE  RegistryInv'
<1>1. Distinct(ring', Id) /\ ToSet(ring') = ToSet(ring) \ {id}
  BY EraseIsRemoveFirst, RemoveDistinct DEF RegistryInv
<1>2. Live' = Live \ {id}
  BY DEF Live, Without
<1>3. \/ DOMAIN watch' = DOMAIN watch \ {id}
      \/ DOMAIN watch' = DOMAIN watch /\ id \in Udp
  BY UnregisteredIs DEF Without
<1> QED BY <1>1, <1>2, <1>3 DEF RegistryInv

\* Nothing else changes who is in the ring, or has epoll know more.
LEMMA StayKeeps ==
  ASSUME RegistryInv, used' = used, Live' = Live, ring' \in {ring, R!Rotate(ring)},
         DOMAIN watch' \subseteq DOMAIN watch
  PROVE  RegistryInv'
BY RotateDistinct DEF RegistryInv

\* The three are changed together by every handler and every callback.
LEMMA RegistryStep ==
  ASSUME RegistryInv, used \subseteq Id, [Next]_vars
  PROVE  RegistryInv'
<1>1. CASE UNCHANGED vars
  BY <1>1, StayKeeps DEF vars, Live
<1>2. CASE Poll \/ Dispatch
  BY <1>2, StayKeeps DEF Poll, Dispatch, registry, Live
<1>3. CASE Readable \/ Failed \/ Writable
  <2>1. \/ UNCHANGED registry
        \/ Closed(Current)
        \/ UNCHANGED <<ring, age, used>> /\ DOMAIN watch' = DOMAIN watch
    BY <1>3 DEF Readable, Failed, Writable, Fails, CloseCurrent, Closed, Modified
  <2>2. CASE Closed(Current)
    BY <2>2, LeaveKeeps, ClosedLeaves
  <2> QED BY <2>1, <2>2, StayKeeps DEF registry, Live
<1>4. CASE Sleep \/ InspectHead
  <2>1. /\ UNCHANGED <<used, watch>> /\ Live' = Live
        /\ ring' \in {ring, R!Rotate(ring)}
    BY <1>4 DEF Sleep, InspectHead, Rotated, Live
  <2> QED BY <2>1, StayKeeps
<1>5. CASE InspectEnd \/ ProcessTimers
  BY <1>5, StayKeeps DEF InspectEnd, ProcessTimers, registry, Live
<1>6. ASSUME NEW id \in Id, AddRoutine(id)
      PROVE  RegistryInv'
  <2>1. id \notin ToSet(ring) /\ ring' = Append(ring, id)
    BY <1>6 DEF AddRoutine, Fresh, RegistryInv, R!Insert
  <2>2. Distinct(ring', Id) /\ ToSet(ring') = ToSet(ring) \cup {id}
    BY <2>1, AppendDistinct DEF RegistryInv
  <2>3. /\ Live' = Live \cup {id} /\ used' = used \cup {id}
        /\ DOMAIN watch' \subseteq DOMAIN watch \cup {id}
    BY <1>6 DEF AddRoutine, Live
  <2> QED BY <2>2, <2>3 DEF RegistryInv
<1>7. ASSUME NEW id \in Id, CloseRoutine(id) \/ SettleRoutine(id)
      PROVE  RegistryInv'
  BY <1>7, LeaveKeeps, CloseRoutineCloses, ClosedLeaves DEF SettleRoutine
<1>8. ASSUME NEW id \in Queue, SendBlocked(id)
      PROVE  RegistryInv'
  BY <1>8, StayKeeps DEF SendBlocked, Modified, Live
<1> QED BY <1>1, <1>2, <1>3, <1>4, <1>5, <1>6, <1>7, <1>8 DEF Next, Loop, Application

LEMMA RegistryInit == Init => RegistryInv
<1> SUFFICES ASSUME Init PROVE RegistryInv
  OBVIOUS
<1>1. Distinct(ring, Queue) /\ ToSet(ring) = Queue
  BY QueueAssumption, OrdersDistinct DEF Init
<1>2. Distinct(ring, Id)
  BY <1>1, QueueAssumption DEF Distinct
<1> QED BY <1>1, <1>2 DEF Init, RegistryInv, Live

\* The ring and the map speak of the same routines, whatever callbacks do in the
\* middle of a batch, and all that epoll knows besides are UDP sessions that are gone.
THEOREM RegistrySafe == Spec => []RegistryAgrees
<1> DEFINE Both == EventsInv /\ RegistryInv
<1>1. Init => Both
  BY EventsInit, RegistryInit
<1>2. Both /\ [Next]_vars => Both'
  BY EventsStep, RegistryStep DEF EventsInv
<1>3. Both => RegistryAgrees
  BY DEF RegistryInv, RegistryAgrees, Distinct, IsInjective
<1> QED BY <1>1, <1>2, <1>3, PTL DEF Spec

-----------------------------------------------------------------------------
(* What the loop takes of hybrid_list.                                      *)

\* The registry as RoutineRing has it, routines not told apart.
Registered == [id \in Live |-> "routine"]

List == INSTANCE RoutineRing WITH Routine <- {"routine"}, of <- Registered

LEMMA SameErase ==
  ASSUME NEW r, NEW id
  PROVE  R!Erase(r, id) = List!Erase(r, id)
BY DEF R!Erase, R!RemoveFirst, R!RemoveAt, R!SelectInSeq, R!Min,
       List!Erase, List!RemoveFirst, List!RemoveAt, List!SelectInSeq, List!Min

LEMMA LeaveIsErase ==
  ASSUME RegistryInv, NEW id \in Live, ring' = R!Erase(ring, id), age' = Without(age, id)
  PROVE  id \in Id /\ List!EraseElem(id)
<1>1. id \in Id
  BY DEF RegistryInv, Distinct, ToSet
<1>2. Live' = Live \ {id}
  BY DEF Live, Without
<1>3. DOMAIN Registered = Live /\ Registered' = [i \in Live \ {id} |-> Registered[i]]
  BY <1>2 DEF Registered
<1> QED BY <1>1, <1>3, SameErase DEF List!EraseElem

\* Whatever the loop and its callbacks do, the registry changes as hybrid_list
\* changes: by an insertion, a removal or a turn, which HybridList implements.
THEOREM RegistryIsAList == Spec => [][List!Next]_<<ring, Registered>>
<1> DEFINE Both == EventsInv /\ RegistryInv
<1>1. Init => Both
  BY EventsInit, RegistryInit
<1>2. Both /\ [Next]_vars => Both'
  BY EventsStep, RegistryStep DEF EventsInv
<1>3. Both /\ [Next]_vars => [List!Next]_<<ring, Registered>>
  <2> SUFFICES ASSUME RegistryInv, [Next]_vars PROVE [List!Next]_<<ring, Registered>>
    OBVIOUS
  <2>1. ASSUME UNCHANGED <<ring, age>> PROVE UNCHANGED <<ring, Registered>>
    BY <2>1 DEF Registered, Live
  <2>2. ASSUME NEW id \in Live, ring' = R!Erase(ring, id), age' = Without(age, id)
        PROVE  List!Next
    BY <2>2, LeaveIsErase DEF List!Next
  <2>3. CASE UNCHANGED vars
    BY <2>1, <2>3 DEF vars
  <2>4. CASE Poll \/ Dispatch \/ InspectEnd \/ ProcessTimers
    BY <2>1, <2>4 DEF Poll, Dispatch, InspectEnd, ProcessTimers, registry
  <2>5. CASE Readable \/ Failed \/ Writable
    <3>1. \/ UNCHANGED <<ring, age>>
          \/ Current \in Live /\ ring' = R!Erase(ring, Current) /\ age' = Without(age, Current)
      BY <2>5 DEF Readable, Failed, Writable, Fails, CloseCurrent, Close, registry
    <3> QED BY <2>1, <2>2, <3>1
  <2>6. CASE Sleep
    <3>1. ring' = ring /\ Live' = Live
      BY <2>6 DEF Sleep, Live
    <3> QED BY <3>1 DEF Registered
  <2>7. CASE InspectHead
    <3>1. ring' = R!Rotate(ring) /\ Live' = Live
      BY <2>7 DEF InspectHead, Rotated, Live
    <3>2. Registered' = Registered
      BY <3>1 DEF Registered
    <3> QED BY <3>1, <3>2 DEF List!Next, List!ForwardElem, List!Rotate, R!Rotate
  <2>8. ASSUME NEW id \in Id, AddRoutine(id)
        PROVE  List!Next
    <3>1. id \notin Live /\ ring' = List!Insert(ring, id) /\ Live' = Live \cup {id}
      BY <2>8 DEF AddRoutine, Fresh, RegistryInv, R!Insert, List!Insert, Live
    <3>2. /\ DOMAIN Registered = Live
          /\ Registered' = [i \in Live \cup {id} |-> IF i = id THEN "routine" ELSE Registered[i]]
      BY <3>1 DEF Registered
    <3>3. List!InsertElem(id, "routine")
      BY <3>1, <3>2 DEF List!InsertElem
    <3> QED BY <3>3 DEF List!Next
  <2>9. ASSUME NEW id \in Id, CloseRoutine(id) \/ SettleRoutine(id)
        PROVE  List!Next
    <3>1. id \in Live /\ ring' = R!Erase(ring, id) /\ age' = Without(age, id)
      BY <2>9 DEF CloseRoutine, SettleRoutine, MayRemove, Close
    <3> QED BY <2>2, <3>1
  <2>10. ASSUME NEW id \in Queue, SendBlocked(id)
         PROVE  UNCHANGED <<ring, Registered>>
    BY <2>1, <2>10 DEF SendBlocked
  <2> QED BY <2>3, <2>4, <2>5, <2>6, <2>7, <2>8, <2>9, <2>10 DEF Next, Loop, Application
<1> QED BY <1>1, <1>2, <1>3, PTL DEF Spec

-----------------------------------------------------------------------------
\* What TypeOK says that the other invariants do not.
Phase == {"poll", "events", "readable", "failed", "writable", "inspect", "timers"}

TypeInv ==
  /\ \A id \in Live : age[id] \in 0..New
  /\ \A id \in DOMAIN watch : watch[id] \in [tag : Id, out : BOOLEAN]
  /\ phase \in Phase
  /\ visits \in Nat
  /\ freed \subseteq used /\ born \subseteq used

LEMMA OlderType ==
  ASSUME NEW a \in 0..New, NEW ms \in Nat
  PROVE  Older(a, ms) \in 0..New
<1>1. {a + ms, Overdue} \in SUBSET Nat /\ {a + ms, Overdue} # {}
  BY GapAssumption DEF Overdue, New
<1>2. /\ Min({a + ms, Overdue}) \in {a + ms, Overdue}
      /\ Min({a + ms, Overdue}) =< Overdue
  BY <1>1, MinIsLeast
<1> QED BY <1>2, GapAssumption DEF Older, Overdue, New

LEMMA WithoutKeeps ==
  ASSUME TypeInv, NEW id, age' = Without(age, id), watch' \in Unregistered(id)
  PROVE  /\ \A i \in Live' : age'[i] \in 0..New
         /\ \A i \in DOMAIN watch' : watch'[i] \in [tag : Id, out : BOOLEAN]
<1>1. \A i \in Live' : age'[i] \in 0..New
  BY DEF TypeInv, Live, Without
<1>2. CASE watch' = Without(watch, id)
  BY <1>1, <1>2 DEF TypeInv, Without
<1>3. CASE watch' = watch
  BY <1>1, <1>3 DEF TypeInv
<1> QED BY <1>2, <1>3, UnregisteredIs

LEMMA ModifiedType ==
  ASSUME TypeInv, NEW id, watch' \in Modified(id)
  PROVE  \A i \in DOMAIN watch' : watch'[i] \in [tag : Id, out : BOOLEAN]
<1>1. PICK t \in Id : watch' = [watch EXCEPT ![id] = [tag |-> t, out |-> TRUE]]
  BY DEF Modified
<1>2. /\ DOMAIN watch' = DOMAIN watch
      /\ \A i \in DOMAIN watch : watch'[i] \in {watch[i], [tag |-> t, out |-> TRUE]}
  BY <1>1
<1>3. [tag |-> t, out |-> TRUE] \in [tag : Id, out : BOOLEAN]
  OBVIOUS
<1> QED BY <1>2, <1>3 DEF TypeInv

LEMMA TypeStep ==
  ASSUME TypeInv, EventsInv, RegistryInv, [Next]_vars
  PROVE  TypeInv'
<1> USE DEF Live
<1>1. CASE UNCHANGED vars
  BY <1>1 DEF vars, TypeInv
<1>2. CASE Poll
  BY <1>2 DEF Poll, TypeInv, Phase
<1>3. CASE Dispatch
  <2>1. CASE Current \in Live
    <3>1. batch # <<>> /\ Current = Head(batch).tag /\ Head(batch) \in Event
      BY <1>3 DEF Dispatch, Current, EventsInv, KnownEvents
    <3>2. Head(Head(batch).left) \in Handler
      <4>1. Head(batch).left \in Seq(Handler) /\ Head(batch).left # <<>>
        BY <3>1 DEF Event
      <4> QED BY <4>1
    <3> QED BY <1>3, <2>1, <3>2 DEF Dispatch, registry, TypeInv, Phase, Handler
  <2>2. CASE Current \notin Live
    BY <1>3, <2>2 DEF Dispatch, registry, TypeInv, Phase
  <2> QED BY <2>1, <2>2
<1>4. ASSUME NEW id, Closed(id), phase' \in Phase, visits' = visits, id \in Live
      PROVE  TypeInv'
  <2>1. freed' \subseteq used' /\ born' \subseteq used'
    BY <1>4, ClosedLeaves DEF TypeInv, RegistryInv
  <2> QED BY <1>4, <2>1, WithoutKeeps, ClosedLeaves DEF TypeInv
<1>5. CASE Readable \/ Failed \/ Writable
  <2>1. /\ phase' = "events" /\ visits' = visits
        /\ \/ UNCHANGED registry
           \/ Closed(Current) /\ Current \in Live
           \/ UNCHANGED <<ring, age, used, freed, born>>
    BY <1>5 DEF Readable, Failed, Writable, Fails, CloseCurrent, Closed
  <2>2. CASE Closed(Current) /\ Current \in Live
    BY <1>4, <2>1, <2>2 DEF Phase
  <2>3. CASE UNCHANGED registry
    BY <2>1, <2>3 DEF registry, TypeInv, Phase
  <2>4. CASE ~(Closed(Current) /\ Current \in Live) /\ ~UNCHANGED registry
    <3>1. \/ watch' = [i \in DOMAIN watch |->
                        IF i = Current THEN [tag |-> i, out |-> FALSE] ELSE watch[i]]
          \/ UNCHANGED watch
          \/ watch' \in Modified(Current)
      BY <1>5, <2>4 DEF Readable, Failed, Writable, Fails, CloseCurrent, Closed
    <3>2. DOMAIN watch \subseteq Id
      BY DEF EventsInv
    <3>3. \A i \in DOMAIN watch' : watch'[i] \in [tag : Id, out : BOOLEAN]
      <4>1. CASE watch' = [i \in DOMAIN watch |->
                            IF i = Current THEN [tag |-> i, out |-> FALSE] ELSE watch[i]]
        BY <3>2, <4>1 DEF TypeInv
      <4>2. CASE UNCHANGED watch
        BY <4>2 DEF TypeInv
      <4> QED BY <3>1, <4>1, <4>2, ModifiedType
    <3> QED BY <2>1, <2>4, <3>3 DEF TypeInv, Phase
  <2> QED BY <2>2, <2>3, <2>4
<1>6. CASE Sleep
  <2>1. PICK ms \in 1..Overdue : age' = [id \in Live |-> Older(age[id], ms)]
    BY <1>6 DEF Sleep
  <2>2. ms \in Nat
    BY GapAssumption DEF Overdue
  <2>3. \A id \in Live' : age'[id] \in 0..New
    BY <2>1, <2>2, OlderType DEF TypeInv
  <2> QED BY <1>6, <2>3 DEF Sleep, TypeInv, Phase
<1>7. CASE InspectHead
  BY <1>7, GapAssumption DEF InspectHead, TypeInv, New
<1>8. CASE InspectEnd \/ ProcessTimers
  BY <1>8 DEF InspectEnd, ProcessTimers, registry, TypeInv, Phase
<1>9. ASSUME NEW id \in Id, AddRoutine(id)
      PROVE  TypeInv'
  <2>1. \A i \in Live' : age'[i] \in 0..New
    BY <1>9, GapAssumption DEF AddRoutine, TypeInv, New
  <2>2. \A i \in DOMAIN watch' : watch'[i] \in [tag : Id, out : BOOLEAN]
    <3>1. CASE UNCHANGED watch
      BY <3>1 DEF TypeInv
    <3>2. CASE ~UNCHANGED watch
      <4>1. PICK out \in BOOLEAN :
              watch' = [i \in DOMAIN watch \cup {id} |->
                          IF i = id THEN [tag |-> id, out |-> out] ELSE watch[i]]
        BY <1>9, <3>2 DEF AddRoutine
      <4> QED BY <4>1 DEF TypeInv
    <3> QED BY <3>1, <3>2
  <2> QED BY <1>9, <2>1, <2>2 DEF AddRoutine, TypeInv
<1>10. ASSUME NEW id \in Id, CloseRoutine(id)
       PROVE  TypeInv'
  BY <1>4, <1>10, CloseRoutineCloses DEF CloseRoutine, MayRemove, TypeInv
<1>11. ASSUME NEW id \in Id, SettleRoutine(id)
       PROVE  TypeInv'
  BY <1>11, WithoutKeeps DEF SettleRoutine, TypeInv
<1>12. ASSUME NEW id \in Queue, SendBlocked(id)
       PROVE  TypeInv'
  BY <1>12, ModifiedType DEF SendBlocked, TypeInv
<1> QED BY <1>1, <1>2, <1>3, <1>5, <1>6, <1>7, <1>8, <1>9, <1>10, <1>11, <1>12
        DEF Next, Loop, Application

LEMMA TypeInit == Init => TypeInv
BY GapAssumption, QueueAssumption DEF Init, TypeInv, Live, New, Phase

\* Each variable of the loop keeps its type.
THEOREM TypeCorrect == Spec => []TypeOK
<1> DEFINE All == TypeInv /\ EventsInv /\ RegistryInv
<1>1. Init => All
  BY TypeInit, EventsInit, RegistryInit
<1>2. All /\ [Next]_vars => All'
  BY EventsStep, RegistryStep, TypeStep DEF EventsInv
<1>3. All => TypeOK
  <2> SUFFICES ASSUME All PROVE TypeOK
    OBVIOUS
  <2>1. ASSUME NEW k \in DOMAIN batch
        PROVE  {batch[k].tag, batch[k].of} \subseteq Id /\ batch[k].left # <<>>
    <3>1. batch \in Seq(Event) /\ k \in 1..Len(batch)
      BY DEF EventsInv, KnownEvents
    <3>2. batch[k] \in Event
      BY <3>1
    <3> QED BY <3>2 DEF Event
  <2> QED BY <2>1 DEF TypeOK, TypeInv, EventsInv, RegistryInv, Distinct, Phase
<1> QED BY <1>1, <1>2, <1>3, PTL DEF Spec

-----------------------------------------------------------------------------
\* The ring is in the order of the inspections but for routines that wait for
\* their first; what inspect() has visited is behind the rest.
Ordered(r, a) ==
  \A i, j \in 1..Len(r) : i < j => a[r[j]] = New \/ a[r[j]] <= a[r[i]]

TurnsInv ==
  /\ Ordered(ring, age)
  /\ phase = "inspect" =>
       /\ visits <= Len(ring)
       /\ \A i \in 1..Len(ring) : i > Len(ring) - visits => age[ring[i]] = 0

LEMMA OlderMonotone ==
  ASSUME NEW a \in 0..New, NEW b \in 0..New, NEW ms \in Nat, a = New \/ a <= b
  PROVE  Older(a, ms) = New \/ Older(a, ms) <= Older(b, ms)
<1>1. ASSUME NEW x \in Nat
      PROVE  Min({x + ms, Overdue}) = IF x + ms <= Overdue THEN x + ms ELSE Overdue
  <2>1. {x + ms, Overdue} \in SUBSET Nat /\ {x + ms, Overdue} # {} /\ x + ms \in Nat
        /\ Overdue \in Nat
    BY GapAssumption DEF Overdue
  <2>2. /\ Min({x + ms, Overdue}) \in {x + ms, Overdue}
        /\ \A y \in {x + ms, Overdue} : Min({x + ms, Overdue}) =< y
    BY <2>1, MinIsLeast
  <2> QED BY <2>1, <2>2
<1>2. a \in Nat /\ b \in Nat /\ Overdue \in Nat /\ New = Overdue + 1 /\ a <= New /\ b <= New
  BY GapAssumption DEF New, Overdue
<1> QED BY <1>1, <1>2 DEF Older

\* A routine that leaves does not change the order of the others.
LEMMA LeaveOrdered ==
  ASSUME RegistryInv, Ordered(ring, age), NEW id,
         ring' = R!Erase(ring, id), age' = Without(age, id)
  PROVE  Ordered(ring', age')
<1>1. ring' = RemoveFirst(ring, id)
  BY EraseIsRemoveFirst
<1>2. /\ Distinct(ring, Id) /\ Len(ring) \in Nat /\ ToSet(ring) = Live
      /\ Distinct(ring', Id) /\ ToSet(ring') = Live \ {id}
  BY <1>1, RemoveDistinct DEF RegistryInv, Distinct
<1>3. ASSUME NEW i \in 1..Len(ring') PROVE age'[ring'[i]] = age[ring'[i]]
  <2>1. ring'[i] \in ToSet(ring')
    BY <1>2 DEF Distinct, ToSet
  <2> QED BY <1>2, <2>1 DEF Without, Live
<1>4. ASSUME NEW i \in 1..Len(ring'), NEW j \in 1..Len(ring'), i < j
      PROVE  age'[ring'[j]] = New \/ age'[ring'[j]] <= age'[ring'[i]]
  <2>1. PICK k, l \in 1..Len(ring) : k < l /\ ring[k] = ring'[i] /\ ring[l] = ring'[j]
    BY <1>1, <1>2, <1>4, RemoveKeepsOrder
  <2> QED BY <1>3, <2>1 DEF Ordered
<1> QED BY <1>4 DEF Ordered

LEMMA TurnsStep ==
  ASSUME TurnsInv, RegistryInv, TypeInv, EventsInv, [Next]_vars
  PROVE  TurnsInv'
<1>0. /\ ring \in Seq(Id) /\ Len(ring) \in Nat /\ visits \in Nat
      /\ \A i \in 1..Len(ring) : ring[i] \in Live /\ age[ring[i]] \in 0..New
  BY DEF RegistryInv, TypeInv, Distinct, ToSet
<1>1. ASSUME UNCHANGED <<ring, age>>, phase' # "inspect" \/ UNCHANGED <<phase, visits>>
      PROVE  TurnsInv'
  BY <1>1 DEF TurnsInv, Ordered
<1>2. ASSUME NEW id, ring' = R!Erase(ring, id), age' = Without(age, id), phase' # "inspect"
      PROVE  TurnsInv'
  BY <1>2, LeaveOrdered DEF TurnsInv
<1>3. CASE UNCHANGED vars
  BY <1>1, <1>3 DEF vars
<1>4. CASE Poll \/ Dispatch
  <2>1. UNCHANGED <<ring, age>> /\ phase' # "inspect"
    <3>1. CASE Poll
      BY <3>1 DEF Poll
    <3>2. CASE Dispatch /\ Current \notin Live
      BY <3>2 DEF Dispatch, registry
    <3>3. CASE Dispatch /\ Current \in Live
      <4>1. Head(batch) \in Event
        BY <3>3 DEF Dispatch, EventsInv, KnownEvents
      <4>2. Head(batch).left \in Seq(Handler) /\ Head(batch).left # <<>>
        BY <4>1 DEF Event
      <4>3. Head(Head(batch).left) \in Handler
        BY <4>2
      <4> QED BY <3>3, <4>3 DEF Dispatch, registry, Handler
    <3> QED BY <1>4, <3>1, <3>2, <3>3
  <2> QED BY <1>1, <2>1
<1>5. CASE Readable \/ Failed \/ Writable
  <2>1. /\ phase' = "events"
        /\ UNCHANGED <<ring, age>> \/ Closed(Current)
    BY <1>5 DEF Readable, Failed, Writable, Fails, CloseCurrent, Closed, registry
  <2> QED BY <1>1, <1>2, <2>1, ClosedLeaves
<1>6. CASE Sleep
  <2>1. PICK ms \in 1..Overdue : age' = [id \in Live |-> Older(age[id], ms)]
    BY <1>6 DEF Sleep
  <2>2. ms \in Nat /\ ring' = ring /\ visits' = 0
    BY <1>6, GapAssumption DEF Overdue, Sleep
  <2>3. ASSUME NEW i \in 1..Len(ring), NEW j \in 1..Len(ring), i < j
        PROVE  age'[ring[j]] = New \/ age'[ring[j]] <= age'[ring[i]]
    <3>1. age[ring[j]] = New \/ age[ring[j]] <= age[ring[i]]
      BY <2>3 DEF TurnsInv, Ordered
    <3>2. /\ age'[ring[j]] = Older(age[ring[j]], ms)
          /\ age'[ring[i]] = Older(age[ring[i]], ms)
      BY <1>0, <2>1
    <3>3. age[ring[j]] \in 0..New /\ age[ring[i]] \in 0..New
      BY <1>0
    <3> QED BY <2>2, <3>1, <3>2, <3>3, OlderMonotone
  <2>4. Ordered(ring', age')
    BY <2>2, <2>3 DEF Ordered
  <2>5. \A i \in 1..Len(ring) : ~(i > Len(ring) - visits')
    BY <1>0, <2>2
  <2>6. visits' <= Len(ring')
    BY <1>0, <2>2
  <2> QED BY <2>2, <2>4, <2>5, <2>6 DEF TurnsInv
<1>7. CASE InspectHead
  <2>1. /\ visits < Len(ring) /\ age' = [age EXCEPT ![Head(ring)] = 0]
        /\ ring' = R!Rotate(ring) /\ visits' = visits + 1 /\ phase = "inspect"
    BY <1>7 DEF InspectHead, Rotated
  <2>2. ring # <<>> /\ ring' = Append(Tail(ring), Head(ring))
    BY <1>0, <2>1, EmptySeq DEF R!Rotate
  <2>3. /\ Len(ring') = Len(ring) /\ ring'[Len(ring)] = ring[1] /\ Head(ring) = ring[1]
        /\ \A i \in 1..Len(ring) - 1 : ring'[i] = ring[i + 1]
    BY <1>0, <2>2, EmptySeq
  <2>4. age'[ring'[Len(ring)]] = 0
    BY <1>0, <2>1, <2>3 DEF Live
  <2>5. ASSUME NEW i \in 1..Len(ring) - 1
        PROVE  age'[ring'[i]] = age[ring[i + 1]]
    <3>1. i + 1 \in 1..Len(ring) /\ 1 \in 1..Len(ring) /\ i + 1 # 1
      BY <1>0
    <3>2. ring[i + 1] # ring[1]
      BY <3>1 DEF RegistryInv, Distinct
    <3> QED BY <1>0, <2>1, <2>3, <3>1, <3>2 DEF Live
  <2>6. ASSUME NEW i \in 1..Len(ring), NEW j \in 1..Len(ring), i < j
        PROVE  age'[ring'[j]] = New \/ age'[ring'[j]] <= age'[ring'[i]]
    <3>1. i \in 1..Len(ring) - 1 /\ i + 1 \in 1..Len(ring)
      BY <1>0, <2>6
    <3>2. age'[ring'[i]] = age[ring[i + 1]] /\ age[ring[i + 1]] \in Nat
      BY <1>0, <2>5, <3>1, GapAssumption DEF New
    <3>3. CASE j = Len(ring)
      BY <2>4, <3>2, <3>3
    <3>4. CASE j # Len(ring)
      <4>1. j \in 1..Len(ring) - 1 /\ j + 1 \in 1..Len(ring) /\ i + 1 < j + 1
        BY <1>0, <2>6, <3>4
      <4>2. age[ring[j + 1]] = New \/ age[ring[j + 1]] <= age[ring[i + 1]]
        BY <3>1, <4>1 DEF TurnsInv, Ordered
      <4> QED BY <2>5, <3>2, <4>1, <4>2
    <3> QED BY <3>3, <3>4
  <2>7. ASSUME NEW i \in 1..Len(ring), i > Len(ring) - (visits + 1)
        PROVE  age'[ring'[i]] = 0
    <3>1. CASE i = Len(ring)
      BY <2>4, <3>1
    <3>2. CASE i # Len(ring)
      <4>1. i \in 1..Len(ring) - 1 /\ i + 1 \in 1..Len(ring) /\ i + 1 > Len(ring) - visits
        BY <1>0, <2>7, <3>2
      <4> QED BY <2>1, <2>5, <4>1 DEF TurnsInv
    <3> QED BY <3>1, <3>2
  <2>8. visits' <= Len(ring')
    BY <1>0, <2>1, <2>3
  <2> QED BY <2>1, <2>3, <2>6, <2>7, <2>8 DEF TurnsInv, Ordered
<1>8. CASE InspectEnd \/ ProcessTimers
  BY <1>1, <1>8 DEF InspectEnd, ProcessTimers, registry
<1>9. ASSUME NEW id \in Id, AddRoutine(id)
      PROVE  TurnsInv'
  <2>1. /\ ring' = Append(ring, id) /\ id \notin Live /\ phase' = phase /\ phase # "inspect"
        /\ age' = [i \in Live \cup {id} |-> IF i = id THEN New ELSE age[i]]
    BY <1>9 DEF AddRoutine, Fresh, R!Insert, RegistryInv, InCallback, Handling
  <2>2. /\ Len(ring') = Len(ring) + 1 /\ ring'[Len(ring) + 1] = id
        /\ \A i \in 1..Len(ring) : ring'[i] = ring[i]
    BY <1>0, <2>1
  <2>3. /\ age'[ring'[Len(ring) + 1]] = New
        /\ \A i \in 1..Len(ring) : age'[ring'[i]] = age[ring[i]]
    BY <1>0, <2>1, <2>2
  <2>4. ASSUME NEW i \in 1..Len(ring'), NEW j \in 1..Len(ring'), i < j
        PROVE  age'[ring'[j]] = New \/ age'[ring'[j]] <= age'[ring'[i]]
    <3>1. CASE j = Len(ring) + 1
      BY <2>3, <3>1
    <3>2. CASE j # Len(ring) + 1
      <4>1. i \in 1..Len(ring) /\ j \in 1..Len(ring)
        BY <1>0, <2>2, <2>4, <3>2
      <4> QED BY <2>3, <2>4, <4>1 DEF TurnsInv, Ordered
    <3> QED BY <3>1, <3>2
  <2> QED BY <2>1, <2>4 DEF TurnsInv, Ordered
<1>10. ASSUME NEW id \in Id, CloseRoutine(id) \/ SettleRoutine(id)
       PROVE  TurnsInv'
  BY <1>2, <1>10 DEF CloseRoutine, SettleRoutine, Close, MayRemove, InCallback, Handling
<1>11. ASSUME NEW id \in Queue, SendBlocked(id)
       PROVE  TurnsInv'
  BY <1>1, <1>11 DEF SendBlocked
<1> QED BY <1>3, <1>4, <1>5, <1>6, <1>7, <1>8, <1>9, <1>10, <1>11
        DEF Next, Loop, Application

\* inspect() stops at the first young routine and leaves out none that is due but
\* those that wait for their first turn.
THEOREM InspectionSafe == Spec => InspectMissesNone
<1> DEFINE All == TypeInv /\ EventsInv /\ RegistryInv /\ TurnsInv
<1>1. Init => All
  <2> SUFFICES ASSUME Init PROVE All
    OBVIOUS
  <2>1. TypeInv /\ EventsInv /\ RegistryInv
    BY TypeInit, EventsInit, RegistryInit
  <2>2. \A i \in 1..Len(ring) : age[ring[i]] = New
    BY <2>1 DEF Init, RegistryInv, Distinct, ToSet
  <2> QED BY <2>1, <2>2 DEF TurnsInv, Ordered, Init
<1>2. All /\ [Next]_vars => All'
  BY EventsStep, RegistryStep, TypeStep, TurnsStep DEF EventsInv
<1>3. All /\ [Next]_vars
        => [phase = "inspect" /\ phase' = "timers"
              => \A id \in Live : Due(id) => age[id] = New]_vars
  <2> SUFFICES ASSUME All, Next, phase = "inspect", phase' = "timers",
                      NEW id \in Live, Due(id)
               PROVE  age[id] = New
    OBVIOUS
  <2>1. InspectEnd
    BY DEF Next, Loop, Application, Poll, Dispatch, Readable, Returns, Failed, Writable, Sleep,
           InspectHead, ProcessTimers, AddRoutine, CloseRoutine, MayRemove, SettleRoutine,
           SendBlocked, InCallback, Handling
  <2>2. PICK i \in 1..Len(ring) : ring[i] = id
    BY DEF RegistryInv, Distinct, ToSet
  <2>3. ring \in Seq(Id) /\ Len(ring) \in Nat /\ Head(ring) = ring[1] /\ 1 \in 1..Len(ring)
    BY <2>2, EmptySeq DEF RegistryInv, Distinct
  <2>4. age[id] \in Nat /\ age[id] > Gap
    BY GapAssumption DEF TypeInv, Due, New
  <2>5. visits # Len(ring)
    <3>1. visits = Len(ring) => age[id] = 0
      BY <2>2, <2>3 DEF TurnsInv
    <3> QED BY <2>4, <3>1, GapAssumption
  <2>6. ~(age[ring[1]] > Gap)
    BY <2>1, <2>3, <2>5 DEF InspectEnd, Due
  <2>7. i # 1 /\ 1 < i
    BY <2>2, <2>3, <2>4, <2>6
  <2>8. age[ring[1]] \in Nat
    BY <2>3, GapAssumption DEF RegistryInv, Distinct, ToSet, TypeInv, New
  <2>9. age[id] = New \/ age[id] <= age[ring[1]]
    BY <2>2, <2>3, <2>7 DEF TurnsInv, Ordered
  <2> QED BY <2>4, <2>6, <2>8, <2>9, GapAssumption
<1> QED BY <1>1, <1>2, <1>3, PTL DEF Spec, InspectMissesNone
=============================================================================
