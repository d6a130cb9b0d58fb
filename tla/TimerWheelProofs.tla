-------------------------- MODULE TimerWheelProofs --------------------------
(***************************************************************************)
(* Theorems about TimerWheel: the map and the buckets agree, each timer in *)
(* the bucket of its next execution, and the cursor is left on a timer.    *)
(***************************************************************************)
EXTENDS TimerWheel, DistinctSequences, FiniteSetTheorems

-----------------------------------------------------------------------------
(* Remainders.                                                              *)

LEMMA ModType ==
  ASSUME NEW a \in Int, NEW m \in Nat \ {0}
  PROVE  a % m \in 0..m - 1
BY SMT

\* a and b are whole turns of m apart.
TurnsApart(a, b, m) == \E k \in Int : a = b + m * k

\* They have the same remainder then.
LEMMA ModShift ==
  ASSUME NEW a \in Int, NEW b \in Int, NEW m \in Nat \ {0}, TurnsApart(a, b, m)
  PROVE  a % m = b % m
<1>0. PICK k \in Int : a = b + m * k
  BY DEF TurnsApart
<1>1. /\ a = (m * (a \div m)) + (a % m) /\ a \div m \in Int
      /\ b = (m * (b \div m)) + (b % m) /\ b \div m \in Int
  BY SMT
<1>2. a % m \in 0..m - 1 /\ b % m \in 0..m - 1
  BY ModType
<1> DEFINE d == (b \div m) + k - (a \div m)
<1>3. d \in Int /\ a % m = (b % m) + m * d
  BY <1>0, <1>1
<1> HIDE DEF d
<1>4. d = 0
  BY <1>2, <1>3
<1> QED BY <1>2, <1>3, <1>4

LEMMA TurnType == Turn \in Nat \ {0}
BY TimerAssumption DEF Turn

LEMMA IntervalType == Interval \subseteq Int
BY TimerAssumption

LEMMA SlotType ==
  ASSUME clock \in Int, NEW left \in Int
  PROVE  Slot(left) \in Bucket
<1>1. (clock + left) % Turn \in 0..Turn - 1
  BY TurnType, ModType
<1> DEFINE x == (clock + left) % Turn
<1>2. Base \in Nat \ {0} /\ BucketNum \in Nat \ {0} /\ x \in 0..Base * BucketNum - 1
  BY <1>1, TimerAssumption DEF Turn
<1> HIDE DEF x
<1>3. x \div Base \in 0..BucketNum - 1
  BY <1>2
<1> QED BY <1>3 DEF Slot, Bucket, x

LEMMA ModStep ==
  ASSUME NEW c \in Int, NEW l \in Int, NEW m \in Nat \ {0}
  PROVE  (((c + 1) % m) + (l - 1)) % m = (c + l) % m
<1> DEFINE k == (c + 1) \div m
           r == (c + 1) % m
<1>1. c + 1 = (m * k) + r /\ k \in Int /\ r \in Int
  BY SMT
<1> HIDE DEF k, r
<1>2. PICK j \in Int : j = -k
  BY <1>1
<1>3. PICK a \in Int, b \in Int : a = r + (l - 1) /\ b = c + l
  BY <1>1
<1>4. TurnsApart(a, b, m)
  BY <1>1, <1>2, <1>3 DEF TurnsApart
<1>5. a % m = b % m
  BY <1>4, ModShift
<1> QED BY <1>3, <1>5 DEF r

\* The place of a timer does not change while time passes.
SlotAt(now, left) == ((now + left) % Turn) \div Base

LEMMA SlotStays ==
  ASSUME NEW now \in Int, NEW left \in Int
  PROVE  SlotAt((now + 1) % Turn, left - 1) = SlotAt(now, left)
<1>1. (((now + 1) % Turn) + (left - 1)) % Turn = (now + left) % Turn
  BY TurnType, ModStep
<1> QED BY <1>1 DEF SlotAt

-----------------------------------------------------------------------------
(* The operations on the wheel.                                             *)

TimerInfo == [left : Int, interval : Interval, runs : Int]

\* The map and the buckets agree.
Good(w) ==
  /\ DOMAIN w.timer \subseteq Timer
  /\ \A t \in DOMAIN w.timer : w.timer[t] \in TimerInfo
  /\ w.bucket = [b \in Bucket |-> w.bucket[b]]
  /\ \A b \in Bucket :
       /\ Distinct(w.bucket[b], Timer)
       /\ ToSet(w.bucket[b]) = {t \in DOMAIN w.timer : Slot(w.timer[t].left) = b}

LEMMA InsertGood ==
  ASSUME NEW w, Good(w), clock \in Int,
         NEW t \in Timer, t \notin DOMAIN w.timer, NEW i \in Interval, NEW n \in Times
  PROVE  /\ Good(Insert(w, t, i, n))
         /\ DOMAIN Insert(w, t, i, n).timer = DOMAIN w.timer \cup {t}
         /\ \A u \in DOMAIN w.timer : Insert(w, t, i, n).timer[u] = w.timer[u]
         /\ t \in ToSet(Insert(w, t, i, n).bucket[Slot(i)])
<1> DEFINE v == Insert(w, t, i, n)
           s == Slot(i)
           info == [left |-> i, interval |-> i, runs |-> n]
<1>1. i \in Int /\ n \in Int /\ s \in Bucket
  BY TimerAssumption, SlotType
<1>2. info \in TimerInfo /\ info.left = i
  BY <1>1 DEF TimerInfo
<1>3. /\ v.timer = [u \in DOMAIN w.timer \cup {t} |-> IF u = t THEN info ELSE w.timer[u]]
      /\ v.bucket = [w.bucket EXCEPT ![s] = Append(@, t)]
  BY DEF Insert, Registering
<1> HIDE DEF v, s, info
<1>4. /\ DOMAIN v.timer = DOMAIN w.timer \cup {t}
      /\ v.timer[t] = info
      /\ \A u \in DOMAIN w.timer : v.timer[u] = w.timer[u]
  BY <1>3
<1>5. /\ v.bucket = [b \in Bucket |-> v.bucket[b]]
      /\ v.bucket[s] = Append(w.bucket[s], t)
      /\ \A b \in Bucket \ {s} : v.bucket[b] = w.bucket[b]
  BY <1>1, <1>3 DEF Good
<1>6. Slot(v.timer[t].left) = s
  BY <1>2, <1>4 DEF s
<1>7. t \notin ToSet(w.bucket[s]) /\ Distinct(w.bucket[s], Timer)
  BY <1>1 DEF Good
<1>8. Distinct(v.bucket[s], Timer) /\ ToSet(v.bucket[s]) = ToSet(w.bucket[s]) \cup {t}
  <2>1. v.bucket[s] = Append(w.bucket[s], t)
    BY <1>5
  <2> QED BY <1>7, <2>1, AppendDistinct
<1>9. ASSUME NEW b \in Bucket
      PROVE  /\ Distinct(v.bucket[b], Timer)
             /\ ToSet(v.bucket[b]) = {u \in DOMAIN v.timer : Slot(v.timer[u].left) = b}
  <2>1. ToSet(w.bucket[b]) = {u \in DOMAIN w.timer : Slot(v.timer[u].left) = b}
    BY <1>4 DEF Good
  <2>2. CASE b = s
    BY <1>4, <1>6, <1>8, <2>1, <2>2
  <2>3. CASE b # s
    <3>1. v.bucket[b] = w.bucket[b] /\ Distinct(w.bucket[b], Timer)
      BY <1>5, <2>3 DEF Good
    <3> QED BY <1>4, <1>6, <2>1, <2>3, <3>1
  <2> QED BY <2>2, <2>3
<1>10. Good(v)
  BY <1>2, <1>4, <1>5, <1>9 DEF Good
<1> QED BY <1>4, <1>8, <1>10 DEF v, s

LEMMA EraseGood ==
  ASSUME NEW w, Good(w), NEW t
  PROVE  /\ Good(Erase(w, t))
         /\ DOMAIN Erase(w, t).timer = DOMAIN w.timer \ {t}
         /\ \A u \in DOMAIN w.timer \ {t} : Erase(w, t).timer[u] = w.timer[u]
         /\ \A b \in Bucket : Erase(w, t).bucket[b] = RemoveFirst(w.bucket[b], t)
<1> DEFINE v == Erase(w, t)
<1>1. /\ DOMAIN v.timer = DOMAIN w.timer \ {t}
      /\ \A u \in DOMAIN v.timer : v.timer[u] = w.timer[u]
      /\ v.bucket = [b \in Bucket |-> v.bucket[b]]
      /\ \A b \in Bucket : v.bucket[b] = RemoveFirst(w.bucket[b], t)
  BY DEF Erase
<1> HIDE DEF v
<1>2. ASSUME NEW b \in Bucket
      PROVE  /\ Distinct(v.bucket[b], Timer)
             /\ ToSet(v.bucket[b]) = {u \in DOMAIN v.timer : Slot(v.timer[u].left) = b}
  <2>1. /\ Distinct(RemoveFirst(w.bucket[b], t), Timer)
        /\ ToSet(RemoveFirst(w.bucket[b], t)) = ToSet(w.bucket[b]) \ {t}
    BY RemoveDistinct DEF Good
  <2> QED BY <1>1, <2>1 DEF Good
<1>3. Good(v)
  BY <1>1, <1>2 DEF Good
<1> QED BY <1>1, <1>3 DEF v

\* The head of a bucket is registered.
LEMMA HeadRegistered ==
  ASSUME NEW w, Good(w), NEW b \in Bucket, w.bucket[b] # <<>>
  PROVE  /\ Head(w.bucket[b]) \in DOMAIN w.timer
         /\ Slot(w.timer[Head(w.bucket[b])].left) = b
<1>1. Head(w.bucket[b]) \in ToSet(w.bucket[b])
  BY TailDistinct DEF Good
<1> QED BY <1>1 DEF Good

\* A bucket that holds a timer is not empty.
LEMMA HoldsOne ==
  ASSUME NEW s, NEW t \in ToSet(s)
  PROVE  s # <<>>
<1>1. DOMAIN <<>> = {}
  OBVIOUS
<1> QED BY <1>1 DEF ToSet

LEMMA ReinsertGood ==
  ASSUME NEW w, Good(w), clock \in Int, cursor \in Bucket,
         w.bucket[cursor] # <<>>, NEW t, t = Head(w.bucket[cursor])
  PROVE  /\ Good(Reinsert(w, t))
         /\ \E b \in Bucket : Reinsert(w, t).bucket[b] # <<>>
<1> DEFINE left == w.timer[t].left + w.timer[t].interval
           runs == IF w.timer[t].runs < 0 THEN w.timer[t].runs ELSE w.timer[t].runs - 1
           taken == [w.bucket EXCEPT ![cursor] = Tail(@)]
           v == Reinsert(w, t)
           s == Slot(left)
<1>1. t \in DOMAIN w.timer /\ Slot(w.timer[t].left) = cursor /\ t \in Timer
  BY HeadRegistered DEF Good
<1>2. w.timer[t] \in TimerInfo
  BY <1>1 DEF Good
<1>3. left \in Int /\ runs \in Int /\ s \in Bucket
  <2>1. /\ w.timer[t].left \in Int /\ w.timer[t].interval \in Interval
        /\ w.timer[t].runs \in Int
    BY <1>2 DEF TimerInfo
  <2>2. w.timer[t].interval \in Int
    BY <2>1, IntervalType
  <2>3. left \in Int
    BY <2>1, <2>2
  <2>4. runs \in Int
    BY <2>1
  <2> QED BY <2>3, <2>4, SlotType
<1>4. /\ v.timer = [w.timer EXCEPT ![t].left = left, ![t].runs = IF @ < 0 THEN @ ELSE @ - 1]
      /\ v.bucket = [taken EXCEPT ![s] = Append(@, t)]
  BY DEF Reinsert
<1> HIDE DEF left, runs, v, s
<1>5. /\ DOMAIN v.timer = DOMAIN w.timer
      /\ \A u \in DOMAIN w.timer \ {t} : v.timer[u] = w.timer[u]
      /\ v.timer[t] = [w.timer[t] EXCEPT !.left = left, !.runs = runs]
  BY <1>1, <1>2, <1>4 DEF TimerInfo, runs
<1>6. v.timer[t] \in TimerInfo /\ v.timer[t].left = left
  BY <1>2, <1>3, <1>5 DEF TimerInfo
<1>7. /\ taken = [b \in Bucket |-> taken[b]]
      /\ taken[cursor] = Tail(w.bucket[cursor])
      /\ \A b \in Bucket \ {cursor} : taken[b] = w.bucket[b]
  BY DEF Good
<1>8. /\ v.bucket = [b \in Bucket |-> v.bucket[b]]
      /\ v.bucket[s] = Append(taken[s], t)
      /\ \A b \in Bucket \ {s} : v.bucket[b] = taken[b]
  BY <1>3, <1>4, <1>7
<1> HIDE DEF taken
<1>9. ASSUME NEW b \in Bucket
      PROVE  /\ Distinct(taken[b], Timer)
             /\ ToSet(taken[b]) = {u \in DOMAIN w.timer \ {t} : Slot(w.timer[u].left) = b}
  <2>1. CASE b = cursor
    <3>1. /\ Distinct(Tail(w.bucket[cursor]), Timer)
          /\ ToSet(Tail(w.bucket[cursor])) = ToSet(w.bucket[cursor]) \ {t}
      BY TailDistinct DEF Good
    <3> QED BY <1>7, <2>1, <3>1 DEF Good
  <2>2. CASE b # cursor
    BY <1>1, <1>7, <2>2 DEF Good
  <2> QED BY <2>1, <2>2
<1>10. t \notin ToSet(taken[s]) /\ Distinct(taken[s], Timer)
  BY <1>3, <1>9
<1>11. Distinct(v.bucket[s], Timer) /\ ToSet(v.bucket[s]) = ToSet(taken[s]) \cup {t}
  <2>1. v.bucket[s] = Append(taken[s], t)
    BY <1>8
  <2> QED BY <1>1, <1>10, <2>1, AppendDistinct
<1>12. Slot(v.timer[t].left) = s
  BY <1>6 DEF s
<1>13. ASSUME NEW b \in Bucket
       PROVE  /\ Distinct(v.bucket[b], Timer)
              /\ ToSet(v.bucket[b]) = {u \in DOMAIN v.timer : Slot(v.timer[u].left) = b}
  <2>1. ToSet(taken[b]) = {u \in DOMAIN v.timer \ {t} : Slot(v.timer[u].left) = b}
    BY <1>5, <1>9
  <2>2. CASE b = s
    BY <1>1, <1>5, <1>11, <1>12, <2>1, <2>2
  <2>3. CASE b # s
    BY <1>8, <1>9, <1>12, <2>1, <2>3
  <2> QED BY <2>2, <2>3
<1>14. Good(v)
  BY <1>1, <1>5, <1>6, <1>8, <1>13 DEF Good
<1>15. v.bucket[s] # <<>>
  BY <1>11, HoldsOne
<1> QED BY <1>3, <1>14, <1>15 DEF v

\* forward_timer and register_timer look round the wheel for a timer.
LEMMA NextBusyFinds ==
  ASSUME NEW w, cursor \in Bucket, \E b \in Bucket : w.bucket[b] # <<>>
  PROVE  NextBusy(w) \in Bucket /\ w.bucket[NextBusy(w)] # <<>>
<1> DEFINE busy == {k \in 0..BucketNum - 1 : w.bucket[(cursor + k) % BucketNum] # <<>>}
<1>0. BucketNum \in Nat \ {0} /\ Bucket = 0..BucketNum - 1
  BY TimerAssumption DEF Bucket
<1>1. PICK b \in Bucket : w.bucket[b] # <<>>
  OBVIOUS
<1>2. PICK k \in 0..BucketNum - 1 : (cursor + k) % BucketNum = b
  <2>1. CASE b >= cursor
    <3>1. b - cursor \in 0..BucketNum - 1 /\ cursor + (b - cursor) = b
      BY <1>0, <2>1
    <3>2. b % BucketNum = b
      BY <1>0
    <3> QED BY <3>1, <3>2
  <2>2. CASE b < cursor
    <3>1. /\ b - cursor + BucketNum \in 0..BucketNum - 1
          /\ cursor + (b - cursor + BucketNum) = b + BucketNum
      BY <1>0, <2>2
    <3>2. TurnsApart(b + BucketNum, b, BucketNum)
      BY <1>0 DEF TurnsApart
    <3>3. b + BucketNum \in Int /\ b \in Int
      BY <1>0
    <3>4. (b + BucketNum) % BucketNum = b % BucketNum
      BY <1>0, <3>2, <3>3, ModShift
    <3>5. b % BucketNum = b
      BY <1>0
    <3> QED BY <3>1, <3>4, <3>5
  <2> QED BY <1>0, <2>1, <2>2
<1>3. k \in busy /\ busy \in SUBSET Nat
  BY <1>0, <1>1, <1>2
<1>4. Min(busy) \in busy
  BY <1>3, MinIsLeast
<1>5. NextBusy(w) = (cursor + Min(busy)) % BucketNum
  BY DEF NextBusy
<1>6. (cursor + Min(busy)) % BucketNum \in 0..BucketNum - 1
  <2>1. cursor + Min(busy) \in Int
    BY <1>0, <1>4
  <2> QED BY <1>0, <2>1, ModType
<1> QED BY <1>0, <1>4, <1>5, <1>6

-----------------------------------------------------------------------------
(* The steps of the loop and of the application.                            *)

WheelInv ==
  /\ clock \in 0..Turn - 1
  /\ cursor \in Bucket
  /\ {running, up} \subseteq BOOLEAN
  /\ Good(wheel)
  /\ running /\ up => wheel.bucket[cursor] # <<>>

LEMMA WheelInit == Init => WheelInv
<1> SUFFICES ASSUME Init PROVE WheelInv
  OBVIOUS
<1>1. clock \in 0..Turn - 1 /\ clock \in Int
  BY TurnType DEF Init
<1>2. cursor \in Bucket
  BY <1>1, TimerAssumption DEF Init, Turn, Bucket
<1>3. DOMAIN wheel.timer = {} /\ wheel.bucket = [b \in Bucket |-> <<>>]
  BY DEF Init
<1>4. Distinct(<<>>, Timer) /\ ToSet(<<>>) = {}
  BY DEF Distinct, ToSet
<1> QED BY <1>1, <1>2, <1>3, <1>4 DEF Init, WheelInv, Good

\* A timer that was run leaves the wheel for good, or gets its next turn on it.
LEMMA ForwardKeeps ==
  ASSUME WheelInv, Forward
  PROVE  /\ WheelInv'
         /\ up' => wheel'.bucket[cursor'] # <<>>
<1>0. /\ clock \in Int /\ cursor \in Bucket /\ Good(wheel)
      /\ wheel.bucket[cursor] # <<>> /\ Head0 = Head(wheel.bucket[cursor])
      /\ running' = FALSE
  BY TurnType DEF WheelInv, Forward, Head0
<1>1. \/ /\ wheel' = Erase(wheel, Head0)
         /\ up' = (wheel'.bucket[cursor] # <<>>)
         /\ UNCHANGED <<clock, cursor>>
      \/ /\ wheel' = Reinsert(wheel, Head0)
         /\ cursor' = NextBusy(wheel')
         /\ UNCHANGED <<clock, up>>
  BY DEF Forward
<1>2. CASE /\ wheel' = Erase(wheel, Head0)
           /\ up' = (wheel'.bucket[cursor] # <<>>)
           /\ UNCHANGED <<clock, cursor>>
  <2>1. Good(Erase(wheel, Head0))
    BY <1>0, EraseGood
  <2>2. up' \in BOOLEAN
    BY <1>2
  <2> QED BY <1>0, <1>2, <2>1, <2>2 DEF WheelInv, Good, Slot, Turn
<1>3. CASE /\ wheel' = Reinsert(wheel, Head0)
           /\ cursor' = NextBusy(wheel')
           /\ UNCHANGED <<clock, up>>
  <2>1. /\ Good(Reinsert(wheel, Head0))
        /\ \E b \in Bucket : Reinsert(wheel, Head0).bucket[b] # <<>>
    BY <1>0, ReinsertGood
  <2>2. cursor' \in Bucket /\ wheel'.bucket[cursor'] # <<>>
    BY <1>0, <1>3, <2>1, NextBusyFinds
  <2> QED BY <1>0, <1>3, <2>1, <2>2 DEF WheelInv, Good, Slot, Turn
<1> QED BY <1>1, <1>2, <1>3

LEMMA RegisterKeeps ==
  ASSUME WheelInv, NEW t \in Timer, NEW i \in Interval, NEW n \in Times, Register(t, i, n)
  PROVE  WheelInv' /\ wheel'.bucket[cursor'] # <<>>
<1>1. /\ clock \in Int /\ cursor \in Bucket /\ Good(wheel)
      /\ t \notin DOMAIN wheel.timer /\ wheel' = Insert(wheel, t, i, n)
      /\ cursor' = NextBusy(wheel') /\ UNCHANGED <<clock, running, up>>
  BY TurnType DEF WheelInv, Register, Registered
<1>2. Good(wheel') /\ t \in ToSet(wheel'.bucket[Slot(i)])
  BY <1>1, InsertGood
<1>3. Slot(i) \in Bucket
  BY <1>1, IntervalType, SlotType
<1>4. wheel'.bucket[Slot(i)] # <<>>
  BY <1>2, HoldsOne
<1>5. cursor' \in Bucket /\ wheel'.bucket[cursor'] # <<>>
  BY <1>1, <1>3, <1>4, NextBusyFinds
<1> QED BY <1>1, <1>2, <1>5 DEF WheelInv, Good, Slot, Turn

LEMMA TickKeeps ==
  ASSUME WheelInv, Tick
  PROVE  /\ WheelInv'
         /\ Registered' = Registered
         /\ \A t \in Registered : wheel'.timer[t].left = wheel.timer[t].left - 1
<1>1. /\ clock \in Int /\ clock' = (clock + 1) % Turn /\ UNCHANGED <<cursor, running, up>>
      /\ wheel'.timer = [t \in Registered |-> [wheel.timer[t] EXCEPT !.left = @ - 1]]
      /\ wheel'.bucket = wheel.bucket
  BY TurnType DEF WheelInv, Tick
<1>2. clock' \in 0..Turn - 1
  BY <1>1, TurnType, ModType
<1>3. ASSUME NEW t \in Registered
      PROVE  /\ wheel'.timer[t] \in TimerInfo
             /\ wheel'.timer[t].left = wheel.timer[t].left - 1
             /\ SlotAt(clock', wheel'.timer[t].left) = SlotAt(clock, wheel.timer[t].left)
  <2>1. wheel.timer[t] \in TimerInfo
    BY DEF WheelInv, Good, Registered
  <2>2. wheel'.timer[t] = [wheel.timer[t] EXCEPT !.left = @ - 1]
    BY <1>1
  <2>3. /\ wheel'.timer[t] \in TimerInfo
        /\ wheel'.timer[t].left = wheel.timer[t].left - 1
    BY <2>1, <2>2 DEF TimerInfo
  <2>4. wheel.timer[t].left \in Int
    BY <2>1 DEF TimerInfo
  <2> QED BY <1>1, <2>3, <2>4, SlotStays
<1>4. DOMAIN wheel'.timer = DOMAIN wheel.timer /\ Registered' = Registered
  BY <1>1 DEF Registered
<1>5. ASSUME NEW b \in Bucket
      PROVE  /\ Distinct(wheel'.bucket[b], Timer)
             /\ ToSet(wheel'.bucket[b])
                  = {t \in DOMAIN wheel'.timer : SlotAt(clock', wheel'.timer[t].left) = b}
  <2>1. ToSet(wheel.bucket[b])
          = {t \in DOMAIN wheel.timer : SlotAt(clock, wheel.timer[t].left) = b}
    BY DEF WheelInv, Good, SlotAt, Slot
  <2> QED BY <1>1, <1>3, <1>4, <2>1 DEF WheelInv, Good, Registered
<1>6. Good(wheel)'
  <2>1. DOMAIN wheel'.timer \subseteq Timer /\ wheel'.bucket = [b \in Bucket |-> wheel'.bucket[b]]
    BY <1>1, <1>4 DEF WheelInv, Good
  <2>2. \A t \in DOMAIN wheel'.timer : wheel'.timer[t] \in TimerInfo
    BY <1>3, <1>4 DEF Registered
  <2> QED BY <1>5, <2>1, <2>2 DEF Good, Slot, SlotAt, Turn
<1> QED BY <1>1, <1>2, <1>3, <1>4, <1>6 DEF WheelInv, Turn

\* A callback that deletes a timer leaves the one that is running at the head of
\* its bucket, unless it is that one.
LEMMA DeleteKeeps ==
  ASSUME WheelInv, NEW t, Delete(t)
  PROVE  /\ WheelInv'
         /\ Registered' \subseteq Registered
         /\ \A u \in Registered' : wheel'.timer[u] = wheel.timer[u]
<1>1. /\ wheel' = Erase(wheel, t) /\ UNCHANGED <<clock, cursor, running>>
      /\ up' = ~(running /\ t = Head0) /\ up
  BY DEF Delete
<1>2. /\ Good(Erase(wheel, t))
      /\ DOMAIN Erase(wheel, t).timer = DOMAIN wheel.timer \ {t}
      /\ \A u \in DOMAIN wheel.timer \ {t} : Erase(wheel, t).timer[u] = wheel.timer[u]
      /\ \A b \in Bucket : Erase(wheel, t).bucket[b] = RemoveFirst(wheel.bucket[b], t)
  BY EraseGood DEF WheelInv
<1>3. ASSUME running, up'
      PROVE  wheel'.bucket[cursor] # <<>>
  <2>1. /\ cursor \in Bucket /\ wheel.bucket[cursor] # <<>>
        /\ Distinct(wheel.bucket[cursor], Timer)
    BY <1>1, <1>3 DEF WheelInv, Good
  <2>2. t # Head(wheel.bucket[cursor])
    BY <1>1, <1>3 DEF Head0
  <2>3. RemoveFirst(wheel.bucket[cursor], t) # <<>>
    BY <2>1, <2>2, RemoveKeepsHead
  <2> QED BY <1>1, <1>2, <2>1, <2>3
<1>4. up' \in BOOLEAN
  BY <1>1
<1>5. Good(wheel)'
  BY <1>1, <1>2 DEF Good, Slot, Turn
<1> QED BY <1>1, <1>2, <1>3, <1>4, <1>5 DEF WheelInv, Turn, Registered

LEMMA WheelStep ==
  ASSUME WheelInv, [Next]_vars
  PROVE  /\ WheelInv'
         /\ PutOn # {} /\ up' => wheel'.bucket[cursor'] # <<>> \/ UNCHANGED vars
<1>1. CASE UNCHANGED vars
  BY <1>1 DEF vars, WheelInv, Good, Slot, Turn
<1>2. CASE Tick
  <2>1. \A t \in Registered : wheel.timer[t].left \in Int
    BY DEF WheelInv, Good, Registered, TimerInfo
  <2>2. PutOn = {}
    BY <1>2, <2>1, TickKeeps DEF PutOn
  <2> QED BY <1>2, <2>2, TickKeeps
<1>3. CASE \E t \in Timer : \E i \in Interval, n \in Times : Register(t, i, n)
  BY <1>3, RegisterKeeps
<1>4. ASSUME NEW t, Delete(t)
      PROVE  WheelInv' /\ PutOn = {}
  <2>1. \A u \in Registered : wheel.timer[u].left \in Int
    BY DEF WheelInv, Good, Registered, TimerInfo
  <2>2. /\ WheelInv' /\ Registered' \subseteq Registered
        /\ \A u \in Registered' : wheel'.timer[u] = wheel.timer[u]
    BY <1>4, DeleteKeeps
  <2> QED BY <2>1, <2>2 DEF PutOn
<1>5. CASE Fire
  <2>1. /\ running' = TRUE /\ wheel.bucket[cursor] # <<>>
        /\ UNCHANGED <<clock, wheel, cursor, up>>
    BY <1>5 DEF Fire, HeadDue
  <2>2. \A t \in Registered : wheel.timer[t].left \in Int
    BY DEF WheelInv, Good, Registered, TimerInfo
  <2>3. PutOn = {}
    BY <2>1, <2>2 DEF PutOn, Registered
  <2> QED BY <2>1, <2>3 DEF WheelInv, Good, Slot, Turn
<1>6. CASE Forward
  BY <1>6, ForwardKeeps
<1> QED BY <1>1, <1>2, <1>3, <1>4, <1>5, <1>6 DEF Next

LEMMA WheelSafe == Spec => []WheelInv
BY WheelInit, WheelStep, PTL DEF Spec

-----------------------------------------------------------------------------
\* Each variable of the wheel keeps its type.
THEOREM TypeCorrect == Spec => []TypeOK
<1>1. WheelInv => TypeOK
  <2> SUFFICES ASSUME WheelInv PROVE TypeOK
    OBVIOUS
  <2>1. \A t \in Registered : wheel.timer[t] \in [left : Int, interval : Interval, runs : Int]
    BY DEF WheelInv, Good, Registered, TimerInfo
  <2>2. wheel.bucket \in [Bucket -> Seq(Timer)]
    <3>1. /\ wheel.bucket = [b \in Bucket |-> wheel.bucket[b]]
          /\ \A b \in Bucket : wheel.bucket[b] \in Seq(Timer)
      BY DEF WheelInv, Good, Distinct
    <3> QED BY <3>1
  <2> QED BY <2>1, <2>2 DEF WheelInv, Good, Registered, TypeOK
<1> QED BY <1>1, WheelSafe, PTL

\* The map and the buckets agree, each timer once, in the bucket of its next
\* execution: whatever is registered and deleted, from callbacks or between them.
THEOREM BucketsAgree == Spec => []EachInItsBucket
<1>1. WheelInv => EachInItsBucket
  <2> SUFFICES ASSUME WheelInv, NEW t \in Timer, NEW b \in Bucket
               PROVE  Cardinality({n \in DOMAIN wheel.bucket[b] : wheel.bucket[b][n] = t})
                        = IF t \in Registered /\ b = Slot(wheel.timer[t].left) THEN 1 ELSE 0
    BY DEF EachInItsBucket
  <2> DEFINE places == {n \in DOMAIN wheel.bucket[b] : wheel.bucket[b][n] = t}
  <2>1. /\ Distinct(wheel.bucket[b], Timer)
        /\ t \in ToSet(wheel.bucket[b]) <=> t \in Registered /\ b = Slot(wheel.timer[t].left)
    BY DEF WheelInv, Good, Registered
  <2>2. DOMAIN wheel.bucket[b] = 1..Len(wheel.bucket[b])
    BY <2>1 DEF Distinct
  <2>3. CASE t \in ToSet(wheel.bucket[b])
    <3>1. PICK n \in DOMAIN wheel.bucket[b] : wheel.bucket[b][n] = t
      BY <2>3 DEF ToSet
    <3>2. places = {n}
      BY <2>1, <2>2, <3>1 DEF Distinct
    <3>3. Cardinality(places) = 1
      BY <3>2, FS_Singleton
    <3> QED BY <2>1, <2>3, <3>3
  <2>4. CASE t \notin ToSet(wheel.bucket[b])
    <3>1. places = {}
      BY <2>4 DEF ToSet
    <3>2. Cardinality(places) = 0
      BY <3>1, FS_EmptySet
    <3> QED BY <2>1, <2>4, <3>2
  <2> QED BY <2>3, <2>4
<1> QED BY <1>1, WheelSafe, PTL

\* Each time a timer is put on the wheel the cursor is left on one: process_timers
\* does not stop for good.
THEOREM CursorSafe == Spec => CursorOnTimer
<1>1. WheelInv /\ [Next]_vars => [PutOn # {} /\ up' => wheel'.bucket[cursor'] # <<>>]_vars
  BY WheelStep
<1> QED BY <1>1, WheelSafe, PTL DEF Spec, CursorOnTimer
=============================================================================
