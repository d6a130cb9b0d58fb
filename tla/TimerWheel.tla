----------------------------- MODULE TimerWheel -----------------------------
(***************************************************************************)
(* timer_manager (timer.h) as routine_proxy::process_timers drives it: a   *)
(* wheel of buckets, each a list of timers, and a cursor that stays on a   *)
(* bucket until it is empty.                                               *)
(*                                                                         *)
(* The monotonic clock is kept modulo the turn of the wheel, and a timer's *)
(* next_exec_time as the time left until it, which is negative when the    *)
(* timer is late: both say the same as the absolute times of the code.     *)
(***************************************************************************)
EXTENDS Integers, FiniteSets, SequencesExt

CONSTANTS
  Timer,        \* unique_timer_id
  Interval,     \* the intervals the application registers timers with
  Times,        \* its m_times: a negative number is "for ever"
  Base,         \* m_timer_base: milliseconds per bucket
  BucketNum,    \* m_bucket_num
  MayDelete,    \* does the application delete timers?
  LoopDelay,    \* bound: how late, in ms, the loop may reach process_timers
  MaxLate       \* bound: time stops when a timer is so late

ASSUME TimerAssumption ==
  /\ Interval \subseteq Nat \ {0}
  /\ Times \subseteq Int
  /\ Base \in Nat \ {0} /\ BucketNum \in Nat \ {0}
  /\ MayDelete \in BOOLEAN /\ LoopDelay \in Nat /\ MaxLate \in Nat

VARIABLES
  clock,        \* the monotonic clock, modulo Turn
  wheel,        \* [timer |-> the registered ones, bucket |-> m_buckets]
  cursor,       \* m_bucket_idx
  running,      \* process_timers is inside on_timer for the head of the cursor's bucket
  up            \* FALSE once the process uses a NULL or dangling timer_info

vars == <<clock, wheel, cursor, running, up>>

Turn == Base * BucketNum
Bucket == 0..BucketNum - 1
Registered == DOMAIN wheel.timer

\* next_exec_time() / m_timer_base % m_bucket_num, `left` ms from now.
Slot(left) == ((clock + left) % Turn) \div Base

-----------------------------------------------------------------------------
(* The wheel's operations, on a wheel w.                                     *)

\* m_timers with timer t, register_time now.
Registering(timers, t, interval, times) ==
  [u \in DOMAIN timers \cup {t} |->
     IF u = t THEN [left |-> interval, interval |-> interval, runs |-> times] ELSE timers[u]]

\* Mutation of Insert: the bucket is computed before register_time is set.
InsertUnstamped(w, t, interval, times) ==
  [timer  |-> Registering(w.timer, t, interval, times),
   bucket |-> [w.bucket EXCEPT ![(interval % Turn) \div Base] = Append(@, t)]]

\* register_timer: appended to the bucket of its first execution.
Insert(w, t, interval, times) ==
  [timer  |-> Registering(w.timer, t, interval, times),
   bucket |-> [w.bucket EXCEPT ![Slot(interval)] = Append(@, t)]]

\* delete_timer, and the end of a timer that has run m_times.
Erase(w, t) ==
  [timer  |-> [u \in DOMAIN w.timer \ {t} |-> w.timer[u]],
   bucket |-> [b \in Bucket |-> RemoveFirst(w.bucket[b], t)]]

\* A timer that has run moves from the cursor's bucket to the end of the bucket
\* of its next execution.
Reinsert(w, t) ==
  LET left  == w.timer[t].left + w.timer[t].interval
      taken == [w.bucket EXCEPT ![cursor] = Tail(@)]
  IN  [timer  |-> [w.timer EXCEPT ![t].left = left, ![t].runs = IF @ < 0 THEN @ ELSE @ - 1],
       bucket |-> [taken EXCEPT ![Slot(left)] = Append(@, t)]]

\* Mutation of NextBusy: the cursor leaves an empty bucket once (an if for the
\* while).
NextBusyOneStep(w) ==
  IF w.bucket[cursor] = <<>> THEN (cursor + 1) % BucketNum ELSE cursor

\* Mutation of NextBusy: the index is not wrapped.
NextBusyUnwrapped(w) ==
  LET busy == {k \in 0..BucketNum - 1 : w.bucket[(cursor + k) % BucketNum] # <<>>}
  IN  cursor + Min(busy)

\* The first bucket from the cursor on that holds a timer.
NextBusy(w) ==
  LET busy == {k \in 0..BucketNum - 1 : w.bucket[(cursor + k) % BucketNum] # <<>>}
  IN  (cursor + Min(busy)) % BucketNum

-----------------------------------------------------------------------------
Init ==
  /\ clock \in 0..Turn - 1
  /\ wheel = [timer |-> <<>>, bucket |-> [b \in Bucket |-> <<>>]]
  /\ cursor = clock \div Base
  /\ running = FALSE
  /\ up = TRUE

\* get_latest_timer: the head of the cursor's bucket.
Head0 == Head(wheel.bucket[cursor])
HeadDue == /\ wheel.bucket[cursor] # <<>>
           /\ wheel.timer[Head0].left <= 0

\* Time passes, but not while a timer that process_timers would run is
\* LoopDelay late.
Tick ==
  /\ up
  /\ HeadDue => wheel.timer[Head0].left > -LoopDelay
  /\ \A t \in Registered : wheel.timer[t].left > -MaxLate
  /\ clock' = (clock + 1) % Turn
  /\ wheel' = [timer  |-> [t \in Registered |-> [wheel.timer[t] EXCEPT !.left = @ - 1]],
                bucket |-> wheel.bucket]
  /\ UNCHANGED <<cursor, running, up>>

\* routine_proxy::register_timer of a timer not registered (one that is, is
\* refused), from on_timer or from another callback of the proxy.
Register(t, interval, times) ==
  /\ up
  /\ t \notin Registered
  /\ wheel' = Insert(wheel, t, interval, times)
  /\ cursor' = NextBusy(wheel')
  /\ UNCHANGED <<clock, running, up>>

\* routine_proxy::delete_timer: the cursor stays, on an empty bucket perhaps.  When
\* on_timer deletes its own timer, process_timers goes on to use what was deleted.
Delete(t) ==
  /\ up /\ MayDelete
  /\ t \in Registered
  /\ wheel' = Erase(wheel, t)
  /\ up' = ~(running /\ t = Head0)
  /\ UNCHANGED <<clock, cursor, running>>

\* process_timers finds the head due and calls on_timer, in which the application
\* may register and delete timers.
Fire ==
  /\ up /\ ~running
  /\ HeadDue
  /\ running' = TRUE
  /\ UNCHANGED <<clock, wheel, cursor, up>>

\* on_timer returns: one more execution, then forward_timer.  A timer that has run
\* m_times is deleted, and if its bucket is empty then, the NULL left of it is used.
Forward ==
  /\ up /\ running
  /\ running' = FALSE
  /\ LET ti   == wheel.timer[Head0]
         ends == ti.runs >= 0 /\ ti.runs <= 1
         gone == Erase(wheel, Head0)
     IN  IF ends THEN /\ wheel' = gone
                      /\ up' = (gone.bucket[cursor] # <<>>)
                      /\ UNCHANGED <<clock, cursor>>
                 ELSE /\ wheel' = Reinsert(wheel, Head0)
                      /\ cursor' = NextBusy(wheel')
                      /\ UNCHANGED <<clock, up>>

Next ==
  \/ Tick
  \/ \E t \in Timer : \/ \E i \in Interval, n \in Times : Register(t, i, n)
                      \/ Delete(t)
  \/ Fire
  \/ Forward

Spec == Init /\ [][Next]_vars

-----------------------------------------------------------------------------
TypeOK ==
  /\ clock \in 0..Turn - 1
  /\ Registered \subseteq Timer
  /\ \A t \in Registered :
       wheel.timer[t] \in [left : Int, interval : Interval, runs : Int]
  /\ wheel.bucket \in [Bucket -> Seq(Timer)]
  /\ cursor \in Bucket
  /\ {running, up} \subseteq BOOLEAN

\* The buckets and the map agree: each registered timer is in one place of one
\* bucket, that of its next execution, and no bucket holds another timer.  (A
\* timer in the wrong bucket runs a turn late, one in two is freed twice.)
EachInItsBucket ==
  \A t \in Timer, b \in Bucket :
    Cardinality({n \in DOMAIN wheel.bucket[b] : wheel.bucket[b][n] = t})
      = IF t \in Registered /\ b = Slot(wheel.timer[t].left) THEN 1 ELSE 0

\* Timers that the step puts on the wheel, for the first time or again.
PutOn == {t \in Registered' : t \notin Registered \/ wheel'.timer[t].left > wheel.timer[t].left}

\* Each time a timer is put on the wheel, the cursor is left on a bucket that
\* holds one, whatever callbacks and earlier deletions emptied: process_timers,
\* which looks nowhere else, is not idle for ever.
CursorOnTimer == [][PutOn # {} /\ up' => wheel'.bucket[cursor'] # <<>>]_vars
=============================================================================
