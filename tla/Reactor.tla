------------------------------ MODULE Reactor ------------------------------
(***************************************************************************)
(* The loop of one routine_proxy (routine_proxy.cc): a batch of epoll      *)
(* events, the inspection of the routines, the timers; and what the        *)
(* application does to the registry from the callbacks of that loop.       *)
(* Callbacks run on the loop's own thread, in the middle of a handler: the *)
(* actions of the application are enabled while `phase` says that one is   *)
(* on the stack, any number of them before the handler goes on.            *)
(***************************************************************************)
EXTENDS Naturals, SequencesExt

CONSTANTS
  Id,        \* routine ids, each given to one routine only
  Queue,     \* the routines of the proxy itself (ipc_routine, log_routine), which call modify_events
  Udp,       \* active UDP sessions, which lose their descriptor before they are closed
  Gap,       \* ms after which a routine is inspected again (10 in the code)
  FetchMax,  \* events fetched at once (512 in the code)
  Closes,    \* which routines callbacks close: "self" (the one called), "other"
  MayFill    \* whether the socket of a Queue may be full

ASSUME QueueAssumption == Queue \subseteq Id /\ Queue # {} /\ IsFiniteSet(Queue)
ASSUME UdpAssumption == Udp \subseteq Id \ Queue
ASSUME GapAssumption == Gap \in Nat
ASSUME ClosesAssumption == Closes \subseteq {"self", "other"}

VARIABLES
  ring,      \* m_routine_mgr: the ids in the order of their turns
  age,       \* [id in m_routine_mgr -> ms since m_last_inspect_time]
  watch,     \* epoll: [id -> the registration of its descriptor]
  phase,     \* what the loop is doing
  batch,     \* events of arr_events not yet processed, and the routine each comes from
  visits,    \* n of inspect()
  used,      \* ids given so far
  freed,     \* ids whose object was deleted
  born       \* routines added since the last epoll_wait

vars == <<ring, age, watch, phase, batch, visits, used, freed, born>>
registry == <<ring, age, watch, used, freed, born>>

R == INSTANCE RoutineRing WITH Routine <- {}, of <- age

Live == DOMAIN age
Overdue == Gap + 1     \* ages are not told apart beyond it
New == Gap + 2         \* m_last_inspect_time is 0 until the first inspection
Due(id) == age[id] > Gap

Without(f, id) == [i \in DOMAIN f \ {id} |-> f[i]]

Init ==
  /\ ring \in SetToSeqs(Queue)
  /\ age = [id \in Queue |-> New]
  /\ watch = [id \in Queue |-> [tag |-> id, out |-> FALSE]]
  /\ phase = "poll" /\ batch = <<>> /\ visits = 0
  /\ used = Queue /\ freed = {} /\ born = {}

-----------------------------------------------------------------------------
(* epoll_wait and the dispatch of its events.                               *)

\* The handlers process_events calls for one event, in its order.
Handlers(id) ==
  {<<"readable">>}
  \cup (IF id \in Queue THEN {} ELSE {<<"failed">>, <<"readable", "failed">>})
  \cup (IF watch[id].out THEN {<<"writable">>, <<"readable", "writable">>} ELSE {})

Fetched == {ids \in BoundedSeq(DOMAIN watch, Min({FetchMax, Len(ring)})) : IsInjective(ids)}

Poll ==
  /\ phase = "poll"
  /\ \E ids \in Fetched :
       \E handlers \in [DOMAIN ids -> UNION {Handlers(id) : id \in DOMAIN watch}] :
         /\ \A k \in DOMAIN ids : handlers[k] \in Handlers(ids[k])
         /\ batch' = [k \in DOMAIN ids |->
                      [of |-> ids[k], tag |-> watch[ids[k]].tag, left |-> handlers[k]]]
  /\ phase' = "events" /\ born' = {}
  /\ UNCHANGED <<ring, age, watch, visits, used, freed>>

\* The routine of the event in process.
Current == Head(batch).tag

\* Mutation of NextHandler: an event with no handler left stays in the batch.
NextHandlerKept == <<[Head(batch) EXCEPT !.left = Tail(@)]>> \o Tail(batch)

NextHandler ==
  LET e == Head(batch)
  IN  IF Len(e.left) = 1 THEN Tail(batch) ELSE <<[e EXCEPT !.left = Tail(@)]>> \o Tail(batch)

\* Mutation of Dispatch: the event carries the object and not its id.
DispatchByObject ==
  /\ phase = "events" /\ batch # <<>>
  /\ phase' = Head(Head(batch).left)
  /\ UNCHANGED <<registry, batch, visits>>

\* process_events looks the routine up before each handler, and drops the event
\* when there is none.
Dispatch ==
  /\ phase = "events" /\ batch # <<>>
  /\ IF Current \in Live
     THEN phase' = Head(Head(batch).left) /\ UNCHANGED batch
     ELSE phase' = "events" /\ batch' = Tail(batch)
  /\ UNCHANGED <<registry, visits>>

\* What ~routine leaves in epoll: a descriptor leaves it with its close, but
\* ~active_udp_session_routine has set m_fd to -1 by then, so that the descriptor is
\* never closed and stays registered for an id that is gone.
Destroyed(id) == IF id \in Udp THEN watch ELSE Without(watch, id)

\* What unregister_events leaves in epoll: it finds nothing to delete either once a
\* failed sendto() of the session has set m_fd to -1.
Unregistered(id) == {Without(watch, id)} \cup (IF id \in Udp THEN {watch} ELSE {})

\* Mutation of Close: the routine keeps its turn.
CloseKeepsTurn(id, left) ==
  /\ age' = Without(age, id)
  /\ watch' = left
  /\ freed' = freed \cup {id}
  /\ UNCHANGED <<ring, used, born>>

\* close_routine; epoll is left with `left`.
Close(id, left) ==
  /\ ring' = R!Erase(ring, id)
  /\ age' = Without(age, id)
  /\ watch' = left
  /\ freed' = freed \cup {id}
  /\ UNCHANGED <<used, born>>

\* The end of an event whose routine is unregistered and closed, unless a callback
\* closed it before.
CloseCurrent ==
  /\ IF Current \in Live THEN \E left \in Unregistered(Current) : Close(Current, left)
                          ELSE UNCHANGED registry
  /\ batch' = Tail(batch) /\ phase' = "events" /\ UNCHANGED visits

\* on_readable or on_writable is < 0: never those of a Queue.
Fails == Current \notin Queue /\ CloseCurrent

\* on_readable and on_writable use their object until they return: what they do
\* when it was deleted is undefined, and the model stops there (NeverDangling).
Returns(handler) == phase = handler /\ Current \notin freed

Readable ==
  /\ Returns("readable")
  /\ \/ /\ batch' = NextHandler /\ phase' = "events"
        /\ UNCHANGED <<registry, visits>>
     \/ Fails

\* EPOLLERR, EPOLLRDHUP, EPOLLHUP: the routine, the application, the close.
Failed == phase = "failed" /\ CloseCurrent

\* modify_events passes an epoll_event whose data is not set.
Modified(id) == {[watch EXCEPT ![id] = [tag |-> t, out |-> TRUE]] : t \in Id}

Writable ==
  /\ Returns("writable")
  /\ \/ Fails
     \/ /\ \/ watch' = [i \in DOMAIN watch |->
                          IF i = Current THEN [tag |-> i, out |-> FALSE] ELSE watch[i]]
           \/ UNCHANGED watch
           \/ Current \in Queue /\ MayFill /\ watch' \in Modified(Current)
        /\ batch' = NextHandler /\ phase' = "events"
        /\ UNCHANGED <<ring, age, used, freed, born, visits>>

-----------------------------------------------------------------------------
(* The rest of the loop.                                                    *)

Older(a, ms) == IF a = New THEN New ELSE Min({a + ms, Overdue})

Sleep ==
  /\ phase = "events" /\ batch = <<>>
  /\ \E ms \in 1..Overdue : age' = [id \in Live |-> Older(age[id], ms)]
  /\ phase' = "inspect" /\ visits' = 0
  /\ UNCHANGED <<ring, watch, batch, used, freed, born>>

\* Mutation of Rotated: a routine keeps its turn after its inspection.
NotRotated(r) == r

Rotated(r) == R!Rotate(r)

InspectHead ==
  /\ phase = "inspect" /\ visits < Len(ring) /\ Due(Head(ring))
  /\ age' = [age EXCEPT ![Head(ring)] = 0]
  /\ ring' = Rotated(ring)
  /\ visits' = visits + 1
  /\ UNCHANGED <<watch, phase, batch, used, freed, born>>

\* Mutation of InspectEnd: the last of the ring is not visited.
InspectEndEarly ==
  /\ phase = "inspect"
  /\ visits + 1 >= Len(ring) \/ ~Due(Head(ring))
  /\ phase' = "timers"
  /\ UNCHANGED <<registry, batch, visits>>

\* All have been visited, or the first is too young.
InspectEnd ==
  /\ phase = "inspect"
  /\ visits = Len(ring) \/ ~Due(Head(ring))
  /\ phase' = "timers"
  /\ UNCHANGED <<registry, batch, visits>>

ProcessTimers ==
  /\ phase = "timers"
  /\ phase' = "poll"
  /\ UNCHANGED <<registry, batch, visits>>

Loop == \/ Poll \/ Dispatch \/ Readable \/ Failed \/ Writable
        \/ Sleep \/ InspectHead \/ InspectEnd \/ ProcessTimers

-----------------------------------------------------------------------------
(* The application, and the handlers of listeners and sessions.             *)

Handling == phase \in {"readable", "failed", "writable"}

InCallback == phase = "timers" \/ (Handling /\ Current \notin Queue)

\* Mutation of Fresh: the id of a routine that is gone is given again.
FreshAgain(id) == id \notin Live

\* gen_routine_id.
Fresh(id) == id \notin used

\* add_routine: with a descriptor, or without one (get_events() = 0, or m_fd = -1 in
\* a UDP session whose first sendto() failed).  A UDP session asks for no EPOLLOUT.
AddRoutine(id) ==
  /\ InCallback
  /\ Fresh(id)
  /\ ring' = R!Insert(ring, id)
  /\ age' = [i \in Live \cup {id} |-> IF i = id THEN New ELSE age[i]]
  /\ \/ UNCHANGED watch
     \/ \E out \in IF id \in Udp THEN {FALSE} ELSE BOOLEAN :
          watch' = [i \in DOMAIN watch \cup {id} |->
                      IF i = id THEN [tag |-> id, out |-> out] ELSE watch[i]]
  /\ used' = used \cup {id}
  /\ freed' = freed \ {id}
  /\ born' = born \cup {id}
  /\ UNCHANGED <<phase, batch, visits>>

\* Closing the routine that has failed is always foreseen.
MayRemove(id) ==
  /\ InCallback
  /\ id \in Live \ Queue
  /\ IF Handling /\ id = Current THEN phase = "failed" \/ "self" \in Closes
                                 ELSE "other" \in Closes

CloseRoutine(id) ==
  /\ MayRemove(id)
  /\ Close(id, Destroyed(id))
  /\ UNCHANGED <<phase, batch, visits>>

\* settle_routine to another proxy: the routine leaves, its object stays.
SettleRoutine(id) ==
  /\ InCallback /\ id \in Live \ Queue
  /\ (Handling /\ id = Current) \/ "other" \in Closes
  /\ ring' = R!Erase(ring, id)
  /\ age' = Without(age, id)
  /\ watch' \in Unregistered(id)
  /\ UNCHANGED <<used, freed, born, phase, batch, visits>>

\* A message or a log line for a full socket is queued and EPOLLOUT asked for.
SendBlocked(id) ==
  /\ MayFill /\ id \in Queue \cap Live
  /\ watch' \in Modified(id)
  /\ UNCHANGED <<ring, age, phase, batch, visits, used, freed, born>>

Application ==
  \/ \E id \in Id : AddRoutine(id) \/ CloseRoutine(id) \/ SettleRoutine(id)
  \/ \E id \in Queue : SendBlocked(id)

Next == Loop \/ Application

Spec == Init /\ [][Next]_vars

\* The loop runs for ever, and a callback returns.
Fairness ==
  /\ WF_vars(Poll) /\ WF_vars(Dispatch) /\ WF_vars(Readable) /\ WF_vars(Failed)
  /\ WF_vars(Writable) /\ WF_vars(Sleep) /\ WF_vars(InspectHead) /\ WF_vars(InspectEnd)
  /\ WF_vars(ProcessTimers)

FairSpec == Spec /\ Fairness

-----------------------------------------------------------------------------
(* Properties.                                                              *)

TypeOK ==
  /\ ring \in Seq(Id)
  /\ Live \subseteq used /\ \A id \in Live : age[id] \in 0..New
  /\ \A id \in DOMAIN watch : watch[id] \in [tag : Id, out : BOOLEAN]
  /\ phase \in {"poll", "events", "readable", "failed", "writable", "inspect", "timers"}
  /\ \A k \in DOMAIN batch : {batch[k].tag, batch[k].of} \subseteq Id /\ batch[k].left # <<>>
  /\ visits \in Nat /\ used \subseteq Id /\ freed \subseteq used /\ born \subseteq used

\* The ring and the map speak of the same routines, each once, whatever callbacks
\* add, close or settle in the middle of a batch: nothing freed has a turn.  Epoll
\* knows no other routine, but for the UDP sessions that are gone and whose
\* descriptors it keeps: of the leak nothing worse comes than events for an id that
\* nobody has.
RegistryAgrees ==
  /\ ToSet(ring) = Live /\ IsInjective(ring)
  /\ DOMAIN watch \ Live \subseteq Udp

\* No handler goes on with an object that was deleted under it.
NeverDangling ==
  phase \in {"readable", "writable"} => Current \notin freed

\* An event handled by the routine it is for was fetched for that very routine:
\* never for an elder one of the same id, closed in the same batch.
OnlyPolled ==
  Handling /\ Current = Head(batch).of => Current \notin born

\* inspect() stops at the first young routine: it leaves out none that is due but
\* those that have not had their first turn.
InspectMissesNone ==
  [][phase = "inspect" /\ phase' = "timers" => \A id \in Live : Due(id) => age[id] = New]_vars

\* A routine that stays registered is inspected again and again, whatever else
\* is added, closed or settled around it.
EventuallyInspected ==
  \A id \in Id : []<>(id \in Live => age[id] = 0)
=============================================================================
