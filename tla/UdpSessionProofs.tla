-------------------------- MODULE UdpSessionProofs --------------------------
(***************************************************************************)
(* Theorems about UdpSession.                                              *)
(*                                                                         *)
(* The first part holds whatever happens to the conversation: the receive  *)
(* buffer stays inside the window; a window of 0 is advertised only inside *)
(* of service::process, and blocks the server that is told of it for good; *)
(* what is confirmed was taken, and what is in flight fits the window.     *)
(* The second part, the streams, is for a single handshake.                *)
(***************************************************************************)
EXTENDS UdpSession, FiniteSetTheorems, WellFoundedInduction, TLAPS

USE WindowAssumption DEF Side, Peer

-----------------------------------------------------------------------------
(* What forward() does, whatever it decides to send.                         *)

\* A datagram forward() of side s makes.
MadeBy(s, due, d) ==
  /\ d = [type |-> "data", to |-> Peer(s), from |-> inc[s], push |-> d.push,
          ack |-> d.ack, wind |-> Advertised(buf'[s])]
  /\ d.push \subseteq InWindow(s, unacked'[s], peerWin'[s])
  /\ d.ack \subseteq due

\* forward() changes only the urgent fragments and the pending acks of its side:
\* what the window does not let through stays urgent.  It adds to the
\* network only datagrams of its side.
LEMMA ForwardEffect ==
  ASSUME NEW s \in Side, NEW fresh, NEW due, NEW held,
         broken \in [Side -> BOOLEAN], urgent \in [Side -> SUBSET Nat],
         acks \in [Side -> SUBSET Nat],
         Forward(s, fresh, due, held)
  PROVE  /\ broken' \in [Side -> BOOLEAN]
         /\ \E u \in SUBSET fresh :
              /\ urgent' = [urgent EXCEPT ![s] = u]
              /\ fresh \ InWindow(s, unacked'[s], peerWin'[s]) \subseteq u
         /\ \E a \in SUBSET due : acks' = [acks EXCEPT ![s] = a]
         /\ \A d \in net' : d \in held \/ MadeBy(s, due, d)
<1> DEFINE win == InWindow(s, unacked'[s], peerWin'[s])
<1>1. PICK expired \in SUBSET (win \ fresh), fails \in {FALSE, SocketErrors} :
        LET P     == expired \cup (win \cap fresh)
            count == Cardinality(Slots(s, P, due))
            wind  == Advertised(buf'[s])
        IN  \E ok \in 0..count :
              /\ broken[s] => ok = 0
              /\ fails => ok < count
              /\ broken' = [broken EXCEPT ![s] = @ \/ fails]
              /\ urgent' = [urgent EXCEPT ![s] =
                              fresh \ {f \in P : PushSlot(s, P, f) <= ok}]
              /\ acks' = [acks EXCEPT ![s] =
                            {a \in due : AckSlot(s, P, due, a) > ok}]
              /\ Transmit(held, {Packed(s, P, due, wind, i) : i \in 0..ok - 1})
  BY Zenon DEF Forward
<1> DEFINE P == expired \cup (win \cap fresh)
           count == Cardinality(Slots(s, P, due))
           wind == Advertised(buf'[s])
<1>2. PICK ok \in 0..count :
              /\ broken[s] => ok = 0
              /\ fails => ok < count
              /\ broken' = [broken EXCEPT ![s] = @ \/ fails]
              /\ urgent' = [urgent EXCEPT ![s] =
                              fresh \ {f \in P : PushSlot(s, P, f) <= ok}]
              /\ acks' = [acks EXCEPT ![s] =
                            {a \in due : AckSlot(s, P, due, a) > ok}]
              /\ Transmit(held, {Packed(s, P, due, wind, i) : i \in 0..ok - 1})
  BY <1>1, Zenon
<1> HIDE DEF win, count, wind
<1>3. broken' \in [Side -> BOOLEAN]
  <2>1. fails \in BOOLEAN
    BY BoundAssumption
  <2>2. (broken[s] \/ fails) \in BOOLEAN
    OBVIOUS
  <2> QED BY <1>2, <2>2, Zenon
<1>4. P \subseteq win
  OBVIOUS
<1>5. \E u \in SUBSET fresh :
        urgent' = [urgent EXCEPT ![s] = u] /\ fresh \ win \subseteq u
  <2>1. fresh \ win \subseteq fresh \ {f \in P : PushSlot(s, P, f) <= ok}
    <3> HIDE DEF P
    <3> QED BY <1>4
  <2> QED BY <1>2, <2>1, Zenon
<1>6. \E a \in SUBSET due : acks' = [acks EXCEPT ![s] = a]
  BY <1>2, Zenon
<1>7. ASSUME NEW d \in net', d \notin held
      PROVE  MadeBy(s, due, d)
  <2> HIDE DEF P
  <2>1. PICK i \in 0..ok - 1 : d = Packed(s, P, due, wind, i)
    BY <1>2, <1>7 DEF Transmit
  <2>2. d = [type |-> "data", to |-> Peer(s), from |-> inc[s],
             push |-> {f \in P : PushSlot(s, P, f) = i},
             ack  |-> {a \in due : AckSlot(s, P, due, a) = i},
             wind |-> Advertised(buf'[s])]
    BY <2>1 DEF Packed, wind
  <2>3. /\ d.type = "data" /\ d.to = Peer(s) /\ d.from = inc[s]
        /\ d.push = {f \in P : PushSlot(s, P, f) = i}
        /\ d.ack = {a \in due : AckSlot(s, P, due, a) = i}
        /\ d.wind = Advertised(buf'[s])
    BY <2>2
  <2>4. d.push \subseteq win /\ d.ack \subseteq due
    BY <2>3, <1>4
  <2> QED BY <2>2, <2>3, <2>4, Zenon DEF MadeBy, win
<1> QED BY <1>3, <1>5, <1>6, <1>7, Zenon DEF win

\* A side keeps at most Window fragments, and fewer outside of service::process.
LEMMA AdvertisedRange ==
  ASSUME NEW w \in Int, NEW b \in SUBSET (w..w + Window - 1)
  PROVE  Advertised(b) \in 0..Window
<1>1. IsFiniteSet(w..w + Window - 1)
  <2>1. w + Window - 1 \in Int
    OBVIOUS
  <2> QED BY <2>1, FS_Interval
<1>2. Cardinality(b) \in Nat
  BY <1>1, FS_Subset, FS_CardinalityType
<1> QED BY <1>2 DEF Advertised

LEMMA AdvertisedPositive ==
  ASSUME NEW w \in Nat, NEW b \in SUBSET (w + 1..w + Window - 1)
  PROVE  Advertised(b) \in 1..Window
<1>1. /\ IsFiniteSet(w + 1..w + Window - 1)
      /\ Cardinality(w + 1..w + Window - 1) = Window - 1
  <2>1. w + 1 \in Int /\ w + Window - 1 \in Int
    OBVIOUS
  <2> QED BY <2>1, FS_Interval
<1>2. IsFiniteSet(b) /\ Cardinality(b) <= Window - 1
  BY <1>1, FS_Subset
<1>3. Cardinality(b) \in Nat
  BY <1>2, FS_CardinalityType
<1> QED BY <1>2, <1>3 DEF Advertised

\* The fragments the window lets through are among the pending ones.
LEMMA InWindowPending ==
  ASSUME NEW s, NEW pending, NEW win
  PROVE  InWindow(s, pending, win) \subseteq pending
BY DEF InWindow, InSpan, InPositions

-----------------------------------------------------------------------------
(* The receive window, whatever happens to the conversation.                 *)

RestIsOwn == \A s \in Side : \A d \in rest[s] : d.to = s

WindowInv == TypeOK /\ BufferInWindow /\ RestIsOwn

\* What one side's thread may have in hand, or read next.
InHand == net \cup rest["client"] \cup rest["server"]

\* What forward() keeps of the types; and the window it advertises is 0 only inside
\* of service::process.
LEMMA ForwardKeepsTypes ==
  ASSUME NEW s \in Side, NEW fresh \in SUBSET Nat, NEW due \in SUBSET Nat,
         NEW held \in SUBSET Datagram,
         TypeOK, BufferInWindow', wait' \in [Side -> Nat],
         unacked'[s] \in SUBSET Nat,
         Forward(s, fresh, due, held)
  PROVE  /\ broken' \in [Side -> BOOLEAN]
         /\ urgent' \in [Side -> SUBSET Nat]
         /\ acks' \in [Side -> SUBSET Nat]
         /\ net' \subseteq Datagram
         /\ rest'[s] = {} =>
              \A d \in net' \ held : d.type = "data" /\ d.to = Peer(s) /\ d.wind > 0
<1>1. /\ broken' \in [Side -> BOOLEAN]
      /\ \E u \in SUBSET fresh : urgent' = [urgent EXCEPT ![s] = u]
      /\ \E a \in SUBSET due : acks' = [acks EXCEPT ![s] = a]
      /\ \A d \in net' : d \in held \/ MadeBy(s, due, d)
  BY ForwardEffect DEF TypeOK
<1>2. urgent' \in [Side -> SUBSET Nat] /\ acks' \in [Side -> SUBSET Nat]
  BY <1>1 DEF TypeOK
<1>3. rest'[s] = {} => Advertised(buf'[s]) \in 1..Window
  BY AdvertisedPositive DEF BufferInWindow, Idle
<1>4. Advertised(buf'[s]) \in 0..Window
  <2>1. CASE rest'[s] = {}
    BY <1>3, <2>1
  <2>2. CASE rest'[s] # {}
    <3> DEFINE w == wait'[s] - 1
    <3>1. w \in Int /\ buf'[s] \in SUBSET (w..w + Window - 1)
      BY <2>2 DEF BufferInWindow, Idle
    <3> HIDE DEF w
    <3> QED BY <3>1, AdvertisedRange
  <2> QED BY <2>1, <2>2
<1>5. ASSUME NEW d \in net', MadeBy(s, due, d)
      PROVE  d \in Datagram /\ d.type = "data" /\ d.to = Peer(s) /\ d.wind = Advertised(buf'[s])
  <2>1. d.push \subseteq Nat /\ d.ack \subseteq Nat
    BY <1>5, InWindowPending DEF MadeBy
  <2>2. inc[s] \in Nat
    BY DEF TypeOK
  <2>3. d = [type |-> "data", to |-> Peer(s), from |-> inc[s], push |-> d.push,
             ack |-> d.ack, wind |-> Advertised(buf'[s])]
    BY <1>5 DEF MadeBy
  <2>4. d.type = "data" /\ d.to = Peer(s) /\ d.wind = Advertised(buf'[s])
    BY <2>3
  <2>5. d \in Data
    BY <1>4, <2>1, <2>2, <2>3 DEF Data
  <2> QED BY <2>4, <2>5 DEF Datagram
<1>6. net' \subseteq Datagram
  BY <1>1, <1>5
<1>7. ASSUME rest'[s] = {}, NEW d \in net' \ held
      PROVE  d.type = "data" /\ d.to = Peer(s) /\ d.wind > 0
  BY <1>1, <1>3, <1>5, <1>7
<1> QED BY <1>1, <1>2, <1>6, <1>7

\* A datagram disposed of was on the network, or is what is left of one.
LEMMA Disposals ==
  ASSUME WindowInv, NEW s \in Side, (\E d \in net : ReceiveData(s, d)) \/ Return(s)
  PROVE  \E d \in Data, held \in SUBSET net :
           d \in InHand /\ d.to = s /\ Dispose(s, d, held)
<1>1. CASE \E d \in net : ReceiveData(s, d)
  <2>1. PICK d \in net : ReceiveData(s, d)
    BY <1>1
  <2>2. PICK held \in {net, net \ {d}} : Take(s, d, held)
    BY <2>1 DEF ReceiveData
  <2>3. d.type = "data" /\ d.to = s /\ Dispose(s, d, held)
    BY <2>2 DEF Take
  <2>4. d \in Data
    BY <2>3 DEF WindowInv, TypeOK, Datagram, Hello, HelloAck
  <2> QED BY <2>2, <2>3, <2>4 DEF InHand
<1>2. CASE Return(s)
  <2>1. PICK d \in rest[s] : Dispose(s, d, net)
    BY <1>2 DEF Return
  <2>2. d \in Data /\ d.to = s /\ d \in InHand
    BY <2>1 DEF WindowInv, TypeOK, RestIsOwn, InHand
  <2> QED BY <2>1, <2>2
<1> QED BY <1>1, <1>2

\* Whatever dispose_push adds to a buffer, and a buffer there was, is inside the
\* window that starts at the next fragment missing.
LEMMA BufferStaysInWindow ==
  ASSUME NEW s \in Side, TypeOK, BufferInWindow,
         NEW push \in SUBSET Nat, NEW w \in Nat, w >= wait[s],
         w \notin buf[s] \cup ToBuffer(s, push)
  PROVE  {f \in buf[s] \cup ToBuffer(s, push) : f >= w}
           \subseteq w + 1..w + Window - 1
<1> SUFFICES ASSUME NEW f \in buf[s] \cup ToBuffer(s, push), f >= w
             PROVE  f \in w + 1..w + Window - 1
  OBVIOUS
<1>1. /\ wait[s] \in Nat /\ buf[s] \subseteq Nat
      /\ \A g \in buf[s] : g <= wait[s] + Window - 1
  BY DEF TypeOK, BufferInWindow
<1>2. f \in Nat /\ f >= w + 1
  <2>1. f \in Nat
    BY <1>1 DEF ToBuffer, Accepted
  <2> QED BY <2>1
<1>3. CASE f \in buf[s]
  BY <1>1, <1>2, <1>3
<1>4. CASE f \in ToBuffer(s, push)
  <2>1. wait[s]..f - Window \subseteq buf[s] \cup push
    BY <1>4 DEF ToBuffer, Accepted
  <2>2. SUFFICES ASSUME w <= f - Window PROVE FALSE
    BY <1>2
  <2>3. w \in push /\ w \notin Accepted(s, push)
    <3>1. w \in wait[s]..f - Window
      BY <1>1, <1>2, <2>2
    <3>2. w \in push
      BY <2>1, <3>1
    <3> QED BY <3>2 DEF ToBuffer
  <2>4. wait[s]..w - Window \subseteq wait[s]..f - Window
    BY <1>1, <1>2, <2>2
  <2> QED BY <2>1, <2>3, <2>4 DEF Accepted
<1> QED BY <1>3, <1>4

\* What has entered the buffer when fragment c is delivered.
LEMMA EnteredBelow ==
  ASSUME NEW s \in Side, TypeOK, NEW push \in SUBSET Nat, NEW c \in Int
  PROVE  /\ Entered(s, push, c) \subseteq push
         /\ ToBuffer(s, Entered(s, push, c)) \subseteq Entered(s, push, c)
         /\ \A f \in Entered(s, push, c) : f <= c
<1>1. wait[s] \in Nat
  BY DEF TypeOK
<1>2. ASSUME NEW f \in Entered(s, push, c) PROVE f <= c
  <2>1. PICK g \in wait[s]..c : f <= g
    BY <1>2 DEF Entered
  <2>2. f \in Nat
    BY <1>2 DEF Entered
  <2> QED BY <1>1, <2>1, <2>2
<1> QED BY <1>2 DEF Entered, ToBuffer, Accepted

LEMMA WindowInvInit == Init => WindowInv
<1> SUFFICES ASSUME Init PROVE WindowInv
  OBVIOUS
<1>0. PICK fails \in {FALSE, SocketErrors} :
        /\ broken = [s \in Side |-> s = "client" /\ fails]
        /\ net \in SUBSET (IF fails THEN {} ELSE {[type |-> "set_session", ts |-> 1]})
  BY Zenon DEF Init
<1>1. TypeOK
  <2>1. net \subseteq Datagram
    BY <1>0, BoundAssumption DEF Datagram, Hello
  <2>2. stamp \in 1..MaxStamp /\ conv \in 0..MaxStamp
    BY BoundAssumption DEF Init
  <2>3. broken \in [Side -> BOOLEAN] /\ writable \in BOOLEAN
    BY <1>0 DEF Init
  <2>4. inc \in [Side -> Nat] /\ peerWin \in [Side -> 0..Window]
    BY DEF Init
  <2>5. /\ next \in [Side -> Nat] /\ wait \in [Side -> Nat]
        /\ unacked \in [Side -> SUBSET Nat] /\ urgent \in [Side -> SUBSET Nat]
        /\ buf \in [Side -> SUBSET Nat] /\ acks \in [Side -> SUBSET Nat]
        /\ rest \in [Side -> SUBSET Data]
        /\ seen \in [Side -> SUBSET (Nat \X Nat)]
    BY DEF Init
  <2> QED BY <2>1, <2>2, <2>3, <2>4, <2>5 DEF TypeOK
<1>2. BufferInWindow /\ RestIsOwn
  BY DEF Init, BufferInWindow, RestIsOwn, Idle
<1> QED BY <1>1, <1>2 DEF WindowInv

\* dispose_push up to a call of the application.
LEMMA CallProcessKeepsWindow ==
  ASSUME WindowInv, NEW s \in Side, NEW d \in Data, d.to = s,
         NEW held \in SUBSET net, CallProcess(s, d), net' = held
  PROVE  WindowInv'
<1> USE DEF WindowInv
<1>1. PICK c \in wait[s]..MaxSeq[Peer(s)] - 1 :
        LET push    == Entered(s, d.push, c)
            present == buf[s] \cup ToBuffer(s, push)
        IN  /\ wait[s]..c \subseteq present
            /\ wait' = [wait EXCEPT ![s] = c + 1]
            /\ buf' = [buf EXCEPT ![s] = {f \in present : f >= c}]
            /\ acks' = [acks EXCEPT ![s] = @ \cup ToAck(s, push)]
            /\ seen' = [seen EXCEPT ![s] = @ \cup {d.from} \X ToBuffer(s, push)]
            /\ rest' = [rest EXCEPT ![s] = {[d EXCEPT !.push = @ \ push]}]
  BY Zenon DEF CallProcess
<1> DEFINE push == Entered(s, d.push, c)
           present == buf[s] \cup ToBuffer(s, push)
<1>2. UNCHANGED <<next, unacked, urgent, peerWin, broken, inc, writable, stamp, conv>>
  BY DEF CallProcess
<1>3. /\ d.push \in SUBSET Nat /\ d.from \in Nat /\ wait[s] \in Nat /\ c \in Nat
      /\ c >= wait[s] /\ TypeOK
  BY BoundAssumption DEF Data, TypeOK
<1>4. /\ push \in SUBSET Nat /\ ToBuffer(s, push) \in SUBSET Nat /\ ToAck(s, push) \in SUBSET Nat
      /\ \A f \in ToBuffer(s, push) : f <= c
  <2>1. push \subseteq d.push /\ ToBuffer(s, push) \subseteq push /\ \A f \in push : f <= c
    BY <1>3, EnteredBelow
  <2> HIDE DEF push
  <2> QED BY <1>3, <2>1 DEF ToAck, Accepted
<1> HIDE DEF push
<1>5. /\ wait'[s] = c + 1 /\ buf'[s] = {f \in present : f >= c}
      /\ rest'[s] = {[d EXCEPT !.push = @ \ push]}
      /\ \A t \in Side \ {s} : wait'[t] = wait[t] /\ buf'[t] = buf[t] /\ rest'[t] = rest[t]
  <2> HIDE DEF present
  <2> QED BY <1>1 DEF TypeOK, push, present
<1>6. wait' \in [Side -> Nat] /\ buf' \in [Side -> SUBSET Nat]
  <2>1. {f \in present : f >= c} \in SUBSET Nat /\ c + 1 \in Nat
    BY <1>3, <1>4 DEF TypeOK
  <2> HIDE DEF present
  <2> QED BY <1>1, <2>1 DEF TypeOK, push, present
<1>7. rest' \in [Side -> SUBSET Data] /\ [d EXCEPT !.push = @ \ push].to = s
  <2>1. [d EXCEPT !.push = @ \ push] \in Data /\ [d EXCEPT !.push = @ \ push].to = s
    BY <1>3 DEF Data
  <2> QED BY <1>1, <2>1 DEF TypeOK, push
<1>8. acks' \in [Side -> SUBSET Nat] /\ seen' \in [Side -> SUBSET (Nat \X Nat)]
  <2>1. {d.from} \X ToBuffer(s, push) \in SUBSET (Nat \X Nat)
    BY <1>3, <1>4
  <2>2. /\ acks' = [acks EXCEPT ![s] = @ \cup ToAck(s, push)]
        /\ seen' = [seen EXCEPT ![s] = @ \cup {d.from} \X ToBuffer(s, push)]
    BY <1>1 DEF push
  <2> QED BY <1>4, <2>1, <2>2 DEF TypeOK
<1>9. TypeOK'
  BY <1>2, <1>6, <1>7, <1>8 DEF TypeOK
<1>10. BufferInWindow'
  <2>1. c \in present
    BY <1>1, <1>3 DEF push
  <2>2. \A f \in present : f \in Nat /\ f <= c + Window - 1
    BY <1>3, <1>4 DEF BufferInWindow, TypeOK
  <2>3. c + 1 - 1 \in buf'[s] /\ buf'[s] \subseteq c + 1 - 1..c + 1 + Window - 2
    <3> HIDE DEF present
    <3> QED BY <1>3, <1>5, <2>1, <2>2
  <2>4. /\ ~Idle(s)' /\ wait'[s] - 1 \in buf'[s]
        /\ buf'[s] \subseteq wait'[s] - 1..wait'[s] + Window - 2
    <3>1. wait'[s] - 1 = c + 1 - 1 /\ wait'[s] + Window - 2 = c + 1 + Window - 2
      BY <1>5
    <3>2. ~Idle(s)'
      BY <1>5 DEF Idle
    <3> QED BY <2>3, <3>1, <3>2
  <2>5. \A t \in Side \ {s} : Idle(t)' <=> Idle(t)
    BY <1>5 DEF Idle
  <2> HIDE DEF present
  <2> QED BY <1>5, <2>4, <2>5 DEF BufferInWindow
<1>11. RestIsOwn'
  BY <1>5, <1>7 DEF RestIsOwn
<1> QED BY <1>9, <1>10, <1>11

\* The rest of dispose(), and forward().
LEMMA FinishKeepsWindow ==
  ASSUME WindowInv, NEW s \in Side, NEW d \in Data, d.to = s,
         NEW held \in SUBSET net, Finish(s, d, held)
  PROVE  /\ WindowInv'
         /\ rest'[s] = {}
         /\ \A e \in net' \ held : e.type = "data" /\ e.to = Peer(s) /\ e.wind > 0
<1> USE DEF WindowInv
<1> DEFINE present == buf[s] \cup ToBuffer(s, d.push)
<1>1. PICK w \in wait[s]..MaxSeq[Peer(s)] :
        /\ w \notin present
        /\ wait' = [wait EXCEPT ![s] = w]
        /\ buf' = [buf EXCEPT ![s] = {f \in present : f >= w}]
  BY Zenon DEF Finish
<1>2. /\ seen' = [seen EXCEPT ![s] = @ \cup {d.from} \X ToBuffer(s, d.push)]
      /\ unacked' = [unacked EXCEPT ![s] = @ \ Confirmed(s, d.ack)]
      /\ peerWin' = IF d.ack = {} THEN peerWin
                    ELSE [peerWin EXCEPT ![s] = d.wind]
      /\ rest' = [rest EXCEPT ![s] = {}]
      /\ UNCHANGED <<next, inc, writable, stamp, conv>>
      /\ Forward(s, urgent[s] \cap unacked'[s], acks[s] \cup ToAck(s, d.push), held)
  BY DEF Finish
<1>3. /\ d.push \in SUBSET Nat /\ d.from \in Nat /\ d.wind \in 0..Window
      /\ w \in Nat /\ w >= wait[s]
  BY BoundAssumption DEF Data, TypeOK
<1>4. ToBuffer(s, d.push) \in SUBSET Nat /\ ToAck(s, d.push) \in SUBSET Nat
  BY <1>3 DEF ToBuffer, ToAck, Accepted
<1>5. wait' \in [Side -> Nat] /\ buf' \in [Side -> SUBSET Nat]
  <2>1. {f \in present : f >= w} \in SUBSET Nat
    BY <1>4 DEF TypeOK
  <2> QED BY <1>1, <1>3, <2>1 DEF TypeOK
<1>6. /\ rest'[s] = {} /\ \A t \in Side \ {s} : rest'[t] = rest[t]
      /\ rest' \in [Side -> SUBSET Data]
  BY <1>2 DEF TypeOK
<1>7. BufferInWindow'
  <2>1. {f \in present : f >= w} \subseteq w + 1..w + Window - 1
    BY <1>1, <1>3, BufferStaysInWindow
  <2> HIDE DEF present
  <2>2. Idle(s)' /\ buf'[s] \subseteq wait'[s] + 1..wait'[s] + Window - 1
    BY <1>1, <1>6, <2>1 DEF TypeOK, Idle
  <2>3. \A t \in Side \ {s} : wait'[t] = wait[t] /\ buf'[t] = buf[t] /\ (Idle(t)' <=> Idle(t))
    BY <1>1, <1>6 DEF TypeOK, Idle
  <2> QED BY <2>2, <2>3 DEF BufferInWindow
<1>8. /\ seen' \in [Side -> SUBSET (Nat \X Nat)]
      /\ unacked' \in [Side -> SUBSET Nat]
      /\ peerWin' \in [Side -> 0..Window]
  <2>1. {d.from} \X ToBuffer(s, d.push) \in SUBSET (Nat \X Nat)
    BY <1>3, <1>4
  <2>2. seen' \in [Side -> SUBSET (Nat \X Nat)]
    BY <1>2, <2>1 DEF TypeOK
  <2>3. unacked' \in [Side -> SUBSET Nat]
    BY <1>2 DEF TypeOK
  <2>4. peerWin' \in [Side -> 0..Window]
    BY <1>2, <1>3 DEF TypeOK
  <2> QED BY <2>2, <2>3, <2>4
<1>9. /\ broken' \in [Side -> BOOLEAN]
      /\ urgent' \in [Side -> SUBSET Nat]
      /\ acks' \in [Side -> SUBSET Nat]
      /\ net' \subseteq Datagram
      /\ \A e \in net' \ held : e.type = "data" /\ e.to = Peer(s) /\ e.wind > 0
  <2>1. /\ urgent[s] \cap unacked'[s] \in SUBSET Nat
        /\ acks[s] \cup ToAck(s, d.push) \in SUBSET Nat
        /\ unacked'[s] \in SUBSET Nat /\ held \in SUBSET Datagram
    BY <1>4, <1>8 DEF TypeOK
  <2>2. TypeOK /\ Forward(s, urgent[s] \cap unacked'[s], acks[s] \cup ToAck(s, d.push), held)
    BY <1>2
  <2> QED BY <1>5, <1>6, <1>7, <2>1, <2>2, ForwardKeepsTypes
<1>10. TypeOK'
  BY <1>2, <1>5, <1>6, <1>8, <1>9 DEF TypeOK
<1>11. RestIsOwn'
  BY <1>6 DEF RestIsOwn
<1> QED BY <1>6, <1>7, <1>9, <1>10, <1>11

\* A step puts on the network only windows above 0, but for the forward of an append
\* made inside of service::process.
ClosesInsideOnly ==
  \A d \in net' \ net : d.type = "data" /\ d.wind = 0 => ~Idle(Peer(d.to))

\* forward() of a handler that leaves the receiving side as it is.
LEMMA ForwardKeepsWindow ==
  ASSUME WindowInv, NEW s \in Side, NEW fresh \in SUBSET Nat, NEW held \in SUBSET net,
         UNCHANGED <<peerWin, wait, buf, seen, rest, inc, stamp, conv>>,
         writable' \in BOOLEAN, next' \in [Side -> Nat], unacked' \in [Side -> SUBSET Nat],
         Forward(s, fresh, acks[s], held)
  PROVE  WindowInv' /\ ClosesInsideOnly
<1> USE DEF WindowInv
<1>1. BufferInWindow' /\ RestIsOwn'
  BY DEF BufferInWindow, RestIsOwn, Idle
<1>2. /\ acks[s] \in SUBSET Nat /\ wait' \in [Side -> Nat] /\ unacked'[s] \in SUBSET Nat
      /\ held \in SUBSET Datagram /\ TypeOK
  BY DEF TypeOK
<1>3. /\ broken' \in [Side -> BOOLEAN]
      /\ urgent' \in [Side -> SUBSET Nat]
      /\ acks' \in [Side -> SUBSET Nat]
      /\ net' \subseteq Datagram
      /\ rest'[s] = {} =>
           \A d \in net' \ held : d.type = "data" /\ d.to = Peer(s) /\ d.wind > 0
  BY <1>1, <1>2, ForwardKeepsTypes
<1>4. \A d \in net' : d \in held \/ MadeBy(s, acks[s], d)
  BY ForwardEffect DEF TypeOK
<1>5. TypeOK'
  BY <1>3 DEF TypeOK
<1>6. ClosesInsideOnly
  <2> SUFFICES ASSUME NEW d \in net' \ net, d.type = "data", d.wind = 0, Idle(Peer(d.to))
               PROVE  FALSE
    BY DEF ClosesInsideOnly
  <2>1. d.to = Peer(s)
    BY <1>4 DEF MadeBy
  <2>2. rest'[s] = {}
    BY <2>1 DEF Idle
  <2> QED BY <1>3, <2>2
<1> QED BY <1>1, <1>5, <1>6

LEMMA WindowInvNext ==
  ASSUME WindowInv, [Next]_vars
  PROVE  WindowInv' /\ ClosesInsideOnly
<1> USE DEF WindowInv
<1>1. ASSUME NEW s \in Side, Append(s) PROVE WindowInv' /\ ClosesInsideOnly
  <2>1. PICK n \in 1..MaxBurst :
          LET new == next[s]..next[s] + n - 1 IN
          /\ next' = [next EXCEPT ![s] = @ + n]
          /\ unacked' = [unacked EXCEPT ![s] = @ \cup new]
          /\ Forward(s, urgent[s] \cup new, acks[s], net)
    BY <1>1, Zenon DEF Append
  <2>2. UNCHANGED <<peerWin, wait, buf, seen, rest, inc, writable, stamp, conv>>
    BY <1>1 DEF Append
  <2> DEFINE new == next[s]..next[s] + n - 1
  <2>3. new \subseteq Nat /\ next[s] + n \in Nat
    BY BoundAssumption DEF TypeOK
  <2>4. /\ next' \in [Side -> Nat] /\ unacked' \in [Side -> SUBSET Nat]
        /\ urgent[s] \cup new \in SUBSET Nat /\ writable' \in BOOLEAN
    <3> HIDE DEF new
    <3> QED BY <2>1, <2>2, <2>3 DEF TypeOK, new
  <2>5. Forward(s, urgent[s] \cup new, acks[s], net)
    BY <2>1
  <2> HIDE DEF new
  <2> QED BY <2>2, <2>4, <2>5, ForwardKeepsWindow
<1>2. ASSUME NEW s \in Side, Inspect(s) PROVE WindowInv' /\ ClosesInsideOnly
  <2>1. /\ UNCHANGED <<next, unacked, peerWin, wait, buf, seen, rest, inc, writable, stamp, conv>>
        /\ Forward(s, urgent[s], acks[s], net)
    BY <1>2 DEF Inspect
  <2>2. /\ urgent[s] \in SUBSET Nat /\ writable' \in BOOLEAN
        /\ next' \in [Side -> Nat] /\ unacked' \in [Side -> SUBSET Nat]
    BY <2>1 DEF TypeOK
  <2> QED BY <2>1, <2>2, ForwardKeepsWindow
<1>3. ASSUME RetryHandshake PROVE WindowInv' /\ ClosesInsideOnly
  <2>1. PICK fails \in {FALSE, SocketErrors} : broken' = [broken EXCEPT !["client"] = @ \/ fails]
    BY <1>3, Zenon DEF RetryHandshake
  <2>2. /\ UNCHANGED <<next, unacked, urgent, peerWin, wait, buf, acks, seen, rest, inc, writable, conv>>
        /\ stamp' = stamp + 1 /\ stamp < MaxStamp
    BY <1>3 DEF RetryHandshake
  <2>3. stamp' \in 1..MaxStamp
    BY <2>2, BoundAssumption DEF TypeOK
  <2>4. \A d \in net' : d \in net \/ d = [type |-> "set_session", ts |-> stamp']
    BY <1>3, <2>2 DEF RetryHandshake, Transmit
  <2>5. net' \subseteq Datagram
    BY <2>3, <2>4 DEF TypeOK, Datagram, Hello
  <2>6. broken' \in [Side -> BOOLEAN]
    <3>1. (broken["client"] \/ fails) \in BOOLEAN
      OBVIOUS
    <3> QED BY <2>1, <3>1, Zenon DEF TypeOK
  <2>7. TypeOK'
    BY <2>2, <2>3, <2>5, <2>6 DEF TypeOK
  <2>8. BufferInWindow' /\ RestIsOwn'
    BY <2>2 DEF BufferInWindow, RestIsOwn, Idle
  <2>9. ClosesInsideOnly
    BY <2>4 DEF ClosesInsideOnly
  <2> QED BY <2>7, <2>8, <2>9
<1>4. ASSUME NEW d \in net, ReceiveSetSession(d) PROVE WindowInv' /\ ClosesInsideOnly
  <2>1. d \in Hello /\ rest["server"] = {}
    BY <1>4 DEF ReceiveSetSession, TypeOK, Datagram, Data, HelloAck, Idle
  <2>2. \A e \in net' : e \in net \/ e = [type |-> "ack_session", ts |-> d.ts]
    BY <1>4 DEF ReceiveSetSession, Transmit
  <2>3. net' \subseteq Datagram
    BY <2>1, <2>2 DEF TypeOK, Datagram, Hello, HelloAck
  <2>4. ClosesInsideOnly
    BY <2>2 DEF ClosesInsideOnly
  <2>5. UNCHANGED <<rest, writable, stamp>>
    BY <1>4 DEF ReceiveSetSession
  <2>6. CASE SameClient(d.ts)
    <3>1. UNCHANGED <<sides, inc, conv>>
      BY <1>4, <2>6 DEF ReceiveSetSession
    <3>2. TypeOK'
      BY <2>3, <2>5, <3>1 DEF TypeOK, sides
    <3> QED BY <2>4, <2>5, <3>1, <3>2 DEF BufferInWindow, RestIsOwn, Idle, sides
  <2>7. CASE ~SameClient(d.ts)
    <3>1. /\ inc' = [inc EXCEPT !["server"] = inc["server"] + 1]
          /\ conv' = d.ts
          /\ next' = [next EXCEPT !["server"] = 0]
          /\ unacked' = [unacked EXCEPT !["server"] = {}]
          /\ urgent' = [urgent EXCEPT !["server"] = {}]
          /\ peerWin' = [peerWin EXCEPT !["server"] = Window]
          /\ wait' = [wait EXCEPT !["server"] = 0]
          /\ buf' = [buf EXCEPT !["server"] = {}]
          /\ acks' = [acks EXCEPT !["server"] = {}]
          /\ broken' = [broken EXCEPT !["server"] = FALSE]
          /\ seen' = seen
      BY <1>4, <2>7 DEF ReceiveSetSession
    <3>2. conv' \in 0..MaxStamp
      BY <2>1, <3>1 DEF Hello
    <3>3. TypeOK'
      BY <2>3, <2>5, <3>1, <3>2 DEF TypeOK
    <3>4. BufferInWindow' /\ RestIsOwn'
      BY <2>1, <2>5, <3>1 DEF BufferInWindow, RestIsOwn, TypeOK, Idle
    <3> QED BY <2>4, <3>3, <3>4
  <2> QED BY <2>6, <2>7
<1>5. ASSUME NEW d \in net, ReceiveAckSession(d) PROVE WindowInv' /\ ClosesInsideOnly
  <2>1. /\ UNCHANGED <<next, unacked, peerWin, wait, buf, seen, rest, inc, stamp, conv>>
        /\ writable' = TRUE
    BY <1>5 DEF ReceiveAckSession
  <2>2. PICK held \in {net, net \ {d}} :
          Forward("client", urgent["client"], acks["client"], held)
    BY <1>5 DEF ReceiveAckSession
  <2>3. /\ urgent["client"] \in SUBSET Nat /\ held \in SUBSET net /\ "client" \in Side
        /\ next' \in [Side -> Nat] /\ unacked' \in [Side -> SUBSET Nat]
    BY <2>1, <2>2 DEF TypeOK
  <2> QED BY <2>1, <2>2, <2>3, ForwardKeepsWindow
<1>6. ASSUME NEW s \in Side, (\E d \in net : ReceiveData(s, d)) \/ Return(s)
      PROVE  WindowInv' /\ ClosesInsideOnly
  <2>1. PICK d \in Data, held \in SUBSET net : d.to = s /\ Dispose(s, d, held)
    BY <1>6, Disposals
  <2>2. CASE CallProcess(s, d) /\ net' = held
    BY <2>1, <2>2, CallProcessKeepsWindow DEF ClosesInsideOnly
  <2>3. CASE Finish(s, d, held)
    <3>1. WindowInv' /\ \A e \in net' \ held : e.wind > 0
      BY <2>1, <2>3, FinishKeepsWindow
    <3>2. ClosesInsideOnly
      BY <3>1 DEF ClosesInsideOnly
    <3> QED BY <3>1, <3>2
  <2> QED BY <2>1, <2>2, <2>3 DEF Dispose
<1>7. ASSUME NEW d \in net, DropData(d) PROVE WindowInv' /\ ClosesInsideOnly
  BY <1>7 DEF DropData, TypeOK, BufferInWindow, RestIsOwn, Idle, ClosesInsideOnly, sides
<1>8. CASE UNCHANGED vars
  BY <1>8 DEF vars, sides, TypeOK, BufferInWindow, RestIsOwn, Idle, ClosesInsideOnly
<1> QED
  BY <1>1, <1>2, <1>3, <1>4, <1>5, <1>6, <1>7, <1>8 DEF Next, Receive

LEMMA WindowInvAlways == Spec => []WindowInv
<1>1. WindowInv /\ [Next]_vars => WindowInv'
  BY WindowInvNext
<1> QED BY WindowInvInit, <1>1, PTL DEF Spec

\* Every variable keeps its type, in every conversation (all handlers).
THEOREM TypeCorrect == Spec => []TypeOK
<1>1. WindowInv => TypeOK
  BY DEF WindowInv
<1> QED BY WindowInvAlways, <1>1, PTL

\* The reorder buffer stays inside the receive window, and holds what was just
\* delivered only inside of service::process, resets and lost acks or not
\* (dispose_push).
THEOREM BufferSafe == Spec => []BufferInWindow
<1>1. WindowInv => BufferInWindow
  BY DEF WindowInv
<1> QED BY WindowInvAlways, <1>1, PTL

\* A window of 0 is advertised by an append made inside of service::process, and by
\* nothing else (forward, append_send_data, dispose_push).
THEOREM WindowClosesInside == Spec => [][ClosesInsideOnly]_vars
<1>1. WindowInv /\ [Next]_vars => [ClosesInsideOnly]_vars
  BY WindowInvNext
<1> QED BY WindowInvAlways, <1>1, PTL DEF Spec

-----------------------------------------------------------------------------
(* A datagram, or what is left of it, up to a call of the application or to  *)
(* its end: fragments `p` are taken in.                                      *)

Takes(s, d, p) ==
  /\ p \in SUBSET d.push
  /\ Held(s)' = Held(s) \cup ToBuffer(s, p)
  /\ wait'[s] >= wait[s]
  /\ \A t \in Side \ {s} : Held(t)' = Held(t) /\ wait'[t] = wait[t]
  /\ seen' = [seen EXCEPT ![s] = @ \cup {d.from} \X ToBuffer(s, p)]
  /\ UNCHANGED <<next, inc, conv>>

Calls(s, d, p, held) ==
  /\ UNCHANGED <<unacked, urgent, peerWin>>
  /\ acks' = [acks EXCEPT ![s] = @ \cup ToAck(s, p)]
  /\ rest' = [rest EXCEPT ![s] = {[d EXCEPT !.push = @ \ p]}]
  /\ net' = held

Ends(s, d, p, held) ==
  /\ unacked' = [unacked EXCEPT ![s] = @ \ Confirmed(s, d.ack)]
  /\ peerWin' = IF d.ack = {} THEN peerWin ELSE [peerWin EXCEPT ![s] = d.wind]
  /\ rest' = [rest EXCEPT ![s] = {}]
  /\ Forward(s, urgent[s] \cap unacked'[s], acks[s] \cup ToAck(s, p), held)

\* dispose_push neither loses a fragment nor skips one.
LEMMA HeldGrows ==
  ASSUME TypeOK, NEW s \in Side, NEW p \in SUBSET Nat,
         NEW w \in Nat, NEW k \in Nat, w >= wait[s], k <= w,
         wait[s]..w - 1 \subseteq buf[s] \cup ToBuffer(s, p),
         wait' = [wait EXCEPT ![s] = w],
         buf' = [buf EXCEPT ![s] = {f \in buf[s] \cup ToBuffer(s, p) : f >= k}]
  PROVE  /\ Held(s)' = Held(s) \cup ToBuffer(s, p)
         /\ wait'[s] >= wait[s]
         /\ \A t \in Side \ {s} : Held(t)' = Held(t) /\ wait'[t] = wait[t]
<1> DEFINE present == buf[s] \cup ToBuffer(s, p)
<1>1. /\ wait[s] \in Nat /\ present \subseteq Nat
      /\ wait'[s] = w /\ buf'[s] = {f \in present : f >= k}
      /\ \A t \in Side \ {s} : wait'[t] = wait[t] /\ buf'[t] = buf[t]
  <2>1. ToBuffer(s, p) \subseteq Nat
    BY DEF ToBuffer, Accepted
  <2>2. wait \in [Side -> Nat] /\ buf \in [Side -> SUBSET Nat]
    BY DEF TypeOK
  <2>3. wait[s] \in Nat /\ present \subseteq Nat
    BY <2>1, <2>2
  <2> HIDE DEF present
  <2>4. wait'[s] = w /\ \A t \in Side \ {s} : wait'[t] = wait[t]
    BY <2>2
  <2>5. buf' = [buf EXCEPT ![s] = {f \in present : f >= k}]
    BY DEF present
  <2>6. buf'[s] = {f \in present : f >= k} /\ \A t \in Side \ {s} : buf'[t] = buf[t]
    BY <2>2, <2>5
  <2> QED BY <2>3, <2>4, <2>6
<1>2. wait[s]..w - 1 \subseteq present
  OBVIOUS
<1>3. Held(s)' = 0..w - 1 \cup {f \in present : f >= k}
  <2> HIDE DEF present
  <2> QED BY <1>1 DEF Held
<1>4. Held(s) \cup ToBuffer(s, p) = 0..wait[s] - 1 \cup present
  BY DEF Held
<1>5. 0..w - 1 \cup {f \in present : f >= k} = 0..wait[s] - 1 \cup present
  <2> HIDE DEF present
  <2>1. ASSUME NEW f \in 0..w - 1 PROVE f \in 0..wait[s] - 1 \cup present
    BY <1>1, <1>2, <2>1
  <2>2. ASSUME NEW f \in 0..wait[s] - 1 \cup present
        PROVE  f \in 0..w - 1 \cup {g \in present : g >= k}
    BY <1>1, <2>2
  <2> QED BY <2>1, <2>2
<1>6. \A t \in Side \ {s} : Held(t)' = Held(t) /\ wait'[t] = wait[t]
  BY <1>1 DEF Held
<1> QED BY <1>1, <1>3, <1>4, <1>5, <1>6

LEMMA DisposeEffect ==
  ASSUME WindowInv, NEW s \in Side, NEW d \in Data, NEW held, Dispose(s, d, held)
  PROVE  \E p \in SUBSET Nat : Takes(s, d, p) /\ (Calls(s, d, p, held) \/ Ends(s, d, p, held))
<1>1. TypeOK /\ wait[s] \in Nat /\ d.push \in SUBSET Nat
  BY DEF WindowInv, TypeOK, Data
<1>2. CASE CallProcess(s, d) /\ net' = held
  <2>1. PICK c \in wait[s]..MaxSeq[Peer(s)] - 1 :
          LET push    == Entered(s, d.push, c)
              present == buf[s] \cup ToBuffer(s, push)
          IN  /\ wait[s]..c \subseteq present
              /\ wait' = [wait EXCEPT ![s] = c + 1]
              /\ buf' = [buf EXCEPT ![s] = {f \in present : f >= c}]
              /\ acks' = [acks EXCEPT ![s] = @ \cup ToAck(s, push)]
              /\ seen' = [seen EXCEPT ![s] = @ \cup {d.from} \X ToBuffer(s, push)]
              /\ rest' = [rest EXCEPT ![s] = {[d EXCEPT !.push = @ \ push]}]
    BY <1>2, Zenon DEF CallProcess
  <2> DEFINE push == Entered(s, d.push, c)
  <2>2. /\ c \in Nat /\ c + 1 \in Nat /\ c + 1 - 1 = c
        /\ c >= wait[s] /\ c + 1 >= wait[s] /\ c <= c + 1
    BY <1>1, BoundAssumption
  <2>3. push \in SUBSET Nat /\ push \in SUBSET d.push
    BY <1>1, <2>2, EnteredBelow
  <2>4. /\ wait[s]..c + 1 - 1 \subseteq buf[s] \cup ToBuffer(s, push)
        /\ wait' = [wait EXCEPT ![s] = c + 1]
        /\ buf' = [buf EXCEPT ![s] = {f \in buf[s] \cup ToBuffer(s, push) : f >= c}]
        /\ acks' = [acks EXCEPT ![s] = @ \cup ToAck(s, push)]
        /\ seen' = [seen EXCEPT ![s] = @ \cup {d.from} \X ToBuffer(s, push)]
        /\ rest' = [rest EXCEPT ![s] = {[d EXCEPT !.push = @ \ push]}]
    BY <2>1, <2>2
  <2> HIDE DEF push
  <2>5. /\ Held(s)' = Held(s) \cup ToBuffer(s, push)
        /\ wait'[s] >= wait[s]
        /\ \A t \in Side \ {s} : Held(t)' = Held(t) /\ wait'[t] = wait[t]
    <3> DEFINE w == c + 1
    <3>1. /\ w \in Nat /\ w >= wait[s] /\ c <= w
          /\ wait[s]..w - 1 \subseteq buf[s] \cup ToBuffer(s, push)
          /\ wait' = [wait EXCEPT ![s] = w]
      BY <2>2, <2>4
    <3> HIDE DEF w
    <3> QED BY <1>1, <2>2, <2>3, <2>4, <3>1, HeldGrows
  <2>6. UNCHANGED <<next, inc, conv, unacked, urgent, peerWin>>
    BY <1>2 DEF CallProcess
  <2>7. Takes(s, d, push) /\ Calls(s, d, push, held)
    BY <1>2, <2>3, <2>4, <2>5, <2>6 DEF Takes, Calls
  <2> QED BY <2>3, <2>7
<1>3. CASE Finish(s, d, held)
  <2> DEFINE present == buf[s] \cup ToBuffer(s, d.push)
  <2>1. PICK w \in wait[s]..MaxSeq[Peer(s)] :
          /\ wait[s]..w - 1 \subseteq present
          /\ wait' = [wait EXCEPT ![s] = w]
          /\ buf' = [buf EXCEPT ![s] = {f \in present : f >= w}]
    BY <1>3, Zenon DEF Finish
  <2>2. w \in Nat /\ w >= wait[s] /\ w <= w
    BY <1>1, BoundAssumption
  <2>3. /\ Held(s)' = Held(s) \cup ToBuffer(s, d.push)
        /\ wait'[s] >= wait[s]
        /\ \A t \in Side \ {s} : Held(t)' = Held(t) /\ wait'[t] = wait[t]
    BY <1>1, <2>1, <2>2, HeldGrows
  <2>4. Takes(s, d, d.push) /\ Ends(s, d, d.push, held)
    <3>1. /\ seen' = [seen EXCEPT ![s] = @ \cup {d.from} \X ToBuffer(s, d.push)]
          /\ UNCHANGED <<next, inc, conv>>
      BY <1>3 DEF Finish
    <3>2. Ends(s, d, d.push, held)
      BY <1>3 DEF Finish, Ends
    <3> QED BY <1>1, <2>3, <3>1, <3>2 DEF Takes
  <2> QED BY <1>1, <2>4
<1> QED BY <1>2, <1>3 DEF Dispose

-----------------------------------------------------------------------------
(* A server whose peer window is 0.                                          *)

\* A window of 0 lets nothing through, neither does it later: no datagram that a
\* handler makes on either side has a push for the client or an ack for the server.
LEMMA ForwardStaysBlocked ==
  ASSUME WindowInv, WindowInv', Blocked, NEW s \in Side, NEW fresh, NEW held \in SUBSET net,
         peerWin'["server"] = 0,
         \A t \in Side : rest'[t] \subseteq rest[t],
         Forward(s, fresh, acks[s], held)
  PROVE  Blocked'
<1>1. /\ \E a \in SUBSET acks[s] : acks' = [acks EXCEPT ![s] = a]
      /\ \A d \in net' : d \in held \/ MadeBy(s, acks[s], d)
  BY ForwardEffect DEF WindowInv, TypeOK
<1>2. acks'["client"] = {}
  <2>1. PICK a \in SUBSET acks[s] : acks' = [acks EXCEPT ![s] = a]
    BY <1>1
  <2>2. acks["client"] = {} /\ acks \in [Side -> SUBSET Nat]
    BY DEF Blocked, WindowInv, TypeOK
  <2>3. CASE s = "client"
    BY <2>1, <2>2, <2>3
  <2>4. CASE s = "server"
    BY <2>1, <2>2, <2>4
  <2> QED BY <2>3, <2>4
<1>3. ASSUME NEW d, MadeBy(s, acks[s], d)
      PROVE  /\ d.to = "server" => d.ack = {}
             /\ d.to = "client" => d.push = {}
  <2>1. /\ d.to = Peer(s) /\ d.ack \subseteq acks[s]
        /\ d.push \subseteq InWindow(s, unacked'[s], peerWin'[s])
    BY <1>3 DEF MadeBy
  <2>2. CASE s = "client"
    BY <2>1, <2>2 DEF Blocked
  <2>3. CASE s = "server"
    <3>1. InSpan(unacked'[s], 0) = {}
      <4> SUFFICES ASSUME NEW f \in InSpan(unacked'[s], 0) PROVE FALSE
        OBVIOUS
      <4>1. f \in Nat /\ f - f + 1 <= 0
        BY DEF InSpan, WindowInv, TypeOK
      <4> QED BY <4>1
    <3> QED BY <2>1, <2>3, <3>1 DEF InWindow
  <2> QED BY <2>2, <2>3
<1>4. /\ \A d \in net' \cup rest'["server"] : d.type = "data" /\ d.to = "server" => d.ack = {}
      /\ \A d \in net' \cup rest'["client"] : d.type = "data" /\ d.to = "client" => d.push = {}
  BY <1>1, <1>3 DEF Blocked
<1> QED BY <1>2, <1>4 DEF Blocked

LEMMA DisposeStaysBlocked ==
  ASSUME WindowInv, WindowInv', Blocked, NEW s \in Side, NEW d \in Data, NEW held \in SUBSET net,
         d.to = s, d \in net \cup rest[s], Dispose(s, d, held)
  PROVE  Blocked'
<1>1. PICK p \in SUBSET Nat :
        Takes(s, d, p) /\ (Calls(s, d, p, held) \/ Ends(s, d, p, held))
  BY DisposeEffect
<1>2. /\ d.type = "data" /\ p \subseteq d.push
      /\ s = "server" => d.ack = {}
      /\ s = "client" => d.push = {} /\ p = {} /\ ToAck(s, p) = {}
  BY <1>1 DEF Takes, Data, Blocked, ToAck, Accepted
<1>3. CASE Calls(s, d, p, held)
  <2> DEFINE e == [d EXCEPT !.push = @ \ p]
  <2>1. e.to = s /\ e.ack = d.ack /\ e.push \subseteq d.push
    BY DEF Data
  <2>2. /\ peerWin'["server"] = 0
        /\ acks'["client"] = {}
        /\ rest'[s] = {e} /\ \A t \in Side \ {s} : rest'[t] = rest[t]
        /\ net' \subseteq net
    BY <1>2, <1>3 DEF Calls, Blocked, WindowInv, TypeOK
  <2> HIDE DEF e
  <2> QED BY <1>2, <2>1, <2>2 DEF Blocked
<1>4. CASE Ends(s, d, p, held)
  <2>1. \A t \in Side : rest'[t] \subseteq rest[t]
    BY <1>4 DEF Ends, WindowInv, TypeOK
  <2>2. peerWin'["server"] = 0
    BY <1>2, <1>4 DEF Ends, Blocked, WindowInv, TypeOK
  <2>3. CASE s = "client"
    <3>1. acks[s] \cup ToAck(s, p) = acks[s]
      BY <1>2, <2>3
    <3>2. Forward(s, urgent[s] \cap unacked'[s], acks[s], held)
      BY <1>4, <3>1 DEF Ends
    <3> QED BY <2>1, <2>2, <3>2, ForwardStaysBlocked
  <2>4. CASE s = "server"
    <3> DEFINE due == acks[s] \cup ToAck(s, p)
    <3>1. Forward(s, urgent[s] \cap unacked'[s], due, held)
      BY <1>4 DEF Ends
    <3>2. /\ \E a \in SUBSET due : acks' = [acks EXCEPT ![s] = a]
          /\ \A e \in net' : e \in held \/ MadeBy(s, due, e)
      BY <3>1, ForwardEffect DEF WindowInv, TypeOK
    <3> HIDE DEF due
    <3>3. acks'["client"] = {}
      BY <2>4, <3>2 DEF Blocked, WindowInv, TypeOK
    <3>4. ASSUME NEW e, MadeBy(s, due, e) PROVE e.to = "client" /\ e.push = {}
      <4>1. e.to = Peer(s) /\ e.push \subseteq InSpan(unacked'[s], 0)
        BY <2>2, <2>4, <3>4 DEF MadeBy, InWindow
      <4>2. \A f \in unacked'[s] : f \in Nat
        BY DEF WindowInv, TypeOK
      <4>3. ASSUME NEW f \in InSpan(unacked'[s], 0) PROVE FALSE
        <5>1. f \in Nat /\ f - f + 1 <= 0
          BY <4>2, <4>3 DEF InSpan
        <5> QED BY <5>1
      <4> QED BY <2>4, <4>1, <4>3
    <3>5. \A e \in net' : e \in net \/ (e.to = "client" /\ e.push = {})
      BY <3>2, <3>4
    <3> QED BY <2>1, <2>2, <3>3, <3>5 DEF Blocked
  <2> QED BY <2>3, <2>4
<1> QED BY <1>1, <1>3, <1>4

LEMMA BlockedStep ==
  ASSUME WindowInv, [Next]_vars, Blocked, inc' = inc
  PROVE  Blocked'
<1>1. WindowInv'
  BY WindowInvNext
<1>2. ASSUME NEW s \in Side, Append(s) PROVE Blocked'
  <2>1. PICK n \in 1..MaxBurst :
          Forward(s, urgent[s] \cup (next[s]..next[s] + n - 1), acks[s], net)
    BY <1>2, Zenon DEF Append
  <2>2. UNCHANGED <<peerWin, rest>>
    BY <1>2 DEF Append
  <2> QED BY <1>1, <2>1, <2>2, ForwardStaysBlocked DEF Blocked
<1>3. ASSUME NEW s \in Side, Inspect(s) PROVE Blocked'
  <2>1. UNCHANGED <<peerWin, rest>> /\ Forward(s, urgent[s], acks[s], net)
    BY <1>3 DEF Inspect
  <2> QED BY <1>1, <2>1, ForwardStaysBlocked DEF Blocked
<1>4. ASSUME NEW d \in net, ReceiveAckSession(d) PROVE Blocked'
  <2>1. PICK held \in {net, net \ {d}} :
          Forward("client", urgent["client"], acks["client"], held)
    BY <1>4 DEF ReceiveAckSession
  <2>2. UNCHANGED <<peerWin, rest>>
    BY <1>4 DEF ReceiveAckSession
  <2>3. held \in SUBSET net /\ "client" \in Side
    BY <2>1
  <2> QED BY <1>1, <2>1, <2>2, <2>3, ForwardStaysBlocked DEF Blocked
<1>5. ASSUME NEW s \in Side, (\E d \in net : ReceiveData(s, d)) \/ Return(s) PROVE Blocked'
  <2>1. PICK d \in Data, held \in SUBSET net :
          d \in InHand /\ d.to = s /\ Dispose(s, d, held)
    BY <1>5, Disposals
  <2>2. d \in net \cup rest[s]
    BY <2>1 DEF InHand, WindowInv, RestIsOwn
  <2> QED BY <1>1, <2>1, <2>2, DisposeStaysBlocked
<1>6. ASSUME UNCHANGED <<peerWin, acks, rest>>, \A d \in net' : d \in net \/ d.type # "data"
      PROVE  Blocked'
  BY <1>6 DEF Blocked
<1>7. ASSUME NEW d \in net, ReceiveSetSession(d) PROVE Blocked'
  <2>1. SameClient(d.ts)
    <3>1. ~SameClient(d.ts) => inc' = [inc EXCEPT !["server"] = inc["server"] + 1]
      BY <1>7 DEF ReceiveSetSession
    <3> QED BY <3>1 DEF WindowInv, TypeOK
  <2>2. UNCHANGED <<sides, rest>> /\ \A e \in net' : e \in net \/ e.type # "data"
    BY <1>7, <2>1 DEF ReceiveSetSession, Transmit
  <2> QED BY <1>6, <2>2 DEF sides
<1>8. CASE RetryHandshake
  BY <1>6, <1>8 DEF RetryHandshake, Transmit
<1>9. ASSUME NEW d \in net, DropData(d) PROVE Blocked'
  BY <1>6, <1>9 DEF DropData, sides
<1>10. CASE UNCHANGED vars
  BY <1>6, <1>10 DEF vars, sides
<1> QED BY <1>2, <1>3, <1>4, <1>5, <1>7, <1>8, <1>9, <1>10 DEF Next, Receive

\* A server that is blocked stays so for as long as its context lives: nothing of
\* either end probes a window of 0 (forward, dispose_ack).
THEOREM BlockedStays == Spec => BlockedForGood
<1>1. WindowInv /\ [Next]_vars => [Blocked /\ inc' = inc => Blocked']_vars
  BY BlockedStep
<1> QED BY WindowInvAlways, <1>1, PTL DEF Spec, BlockedForGood

-----------------------------------------------------------------------------
(* What the client may forget and what is on its way, whatever contexts come *)
(* and go.                                                                   *)

UnackedWereAppended == \A s \in Side : unacked[s] \subseteq 0..next[s] - 1

\* Some context of the server took in fragment f of the live client.
Taken(f) == <<inc["client"], f>> \in seen["server"]

\* Whatever the server delivered, buffers or acknowledges, now or in a datagram
\* that still travels or is in hand, it took in; and all that travels to it is the
\* client's.
AcksWereTaken ==
  /\ \A f \in Held("server") \cup acks["server"] : Taken(f)
  /\ \A d \in InHand : d.type = "data" =>
       IF d.to = "client" THEN \A f \in d.ack : Taken(f) ELSE d.from = inc["client"]

\* A fragment that was sent has fewer than Window sequence numbers before it up
\* to the head of the server's list, and at most Window elements of the client's.
SentInWindow ==
  /\ \A f \in unacked["server"] \ urgent["server"], g \in unacked["server"] :
       f - g < Window
  /\ \A f \in unacked["client"] \ urgent["client"] :
       Rank(f, unacked["client"]) <= Window

SessionInv ==
  /\ WindowInv
  /\ UnackedWereAppended
  /\ AcksWereTaken /\ ClientConfirmedWasSeen
  /\ SentInWindow

\* A non-empty set of naturals below a bound has a greatest element.
LEMMA GreatestExists ==
  ASSUME NEW n \in Nat, NEW S \in SUBSET (0..n), S # {}
  PROVE  \E m \in S : \A x \in S : x <= m
<1> DEFINE R == {ss \in Nat \X Nat : ss[1] < ss[2]}
           T == {k \in Nat : \A x \in S : x <= k}
<1>1. IsWellFoundedOn(R, Nat)
  BY NatLessThanWellFounded DEF OpToRel
<1>2. n \in T
  OBVIOUS
<1>3. PICK k \in T : \A j \in T : ~(<<j, k>> \in R)
  <2> HIDE DEF R, T
  <2>1. T \subseteq Nat
    BY DEF T
  <2> QED BY <1>1, <1>2, <2>1, WFMin
<1>4. k \in Nat /\ \A j \in T : ~(j < k)
  BY <1>3
<1>5. CASE k = 0
  <2>1. PICK x \in S : TRUE
    OBVIOUS
  <2>2. x = k
    BY <1>3, <1>5, <2>1
  <2> QED BY <1>3, <2>1, <2>2
<1>6. CASE k # 0
  <2>1. k - 1 \in Nat /\ k - 1 \notin T
    BY <1>4, <1>6
  <2>2. PICK x \in S : ~(x <= k - 1)
    BY <2>1
  <2>3. x = k
    BY <1>3, <1>4, <2>2
  <2> QED BY <1>3, <2>2, <2>3
<1> QED BY <1>5, <1>6

\* A set of naturals below a bound is finite, and the rank of an element in it
\* does not grow when elements above it are added and others removed.
LEMMA RankShrinks ==
  ASSUME NEW n \in Nat, NEW S \in SUBSET (0..n - 1), NEW T \in SUBSET Nat,
         NEW f \in Nat,
         \A x \in T : x \in S \/ x >= n, f < n
  PROVE  /\ Rank(f, S) \in Nat /\ Rank(f, T) \in Nat
         /\ Rank(f, T) <= Rank(f, S)
<1> DEFINE A == {y \in S : y < f}
           B == {y \in T : y < f}
<1>1. B \subseteq A
  <2> SUFFICES ASSUME NEW y \in T, y < f PROVE y \in S
    OBVIOUS
  <2> QED OBVIOUS
<1>2. IsFiniteSet(A)
  <2>1. 0 \in Int /\ n - 1 \in Int
    OBVIOUS
  <2>2. IsFiniteSet(0..n - 1)
    BY <2>1, FS_Interval
  <2> QED BY <2>2, FS_Subset
<1>3. IsFiniteSet(B) /\ Cardinality(B) <= Cardinality(A)
  BY <1>1, <1>2, FS_Subset
<1> QED BY <1>2, <1>3, FS_CardinalityType DEF Rank

\* forward() at the end of a handler under which the history only grows: what it
\* puts on the network is covered by it.
LEMMA ForwardKeepsTaken ==
  ASSUME TypeOK, AcksWereTaken,
         NEW s \in Side, NEW fresh, NEW due, NEW held \in SUBSET net,
         inc' = inc, seen["server"] \subseteq seen'["server"],
         \A f \in Held("server")' : Taken(f)',
         s = "server" => \A f \in due : Taken(f)',
         \A t \in Side : rest'[t] \subseteq rest[t],
         Forward(s, fresh, due, held)
  PROVE  AcksWereTaken'
<1>1. /\ \E a \in SUBSET due : acks' = [acks EXCEPT ![s] = a]
      /\ \A d \in net' : d \in held \/ MadeBy(s, due, d)
  BY ForwardEffect DEF TypeOK
<1>2. \A f : Taken(f) => Taken(f)'
  BY DEF Taken
<1>3. \A f \in acks'["server"] : Taken(f)'
  BY <1>1, <1>2 DEF AcksWereTaken, TypeOK
<1>4. ASSUME NEW d \in InHand', d.type = "data"
      PROVE  IF d.to = "client" THEN \A f \in d.ack : Taken(f)' ELSE d.from = inc'["client"]
  <2>1. CASE d \in InHand
    BY <1>2, <1>4, <2>1 DEF AcksWereTaken
  <2>2. CASE MadeBy(s, due, d)
    <3>1. d.to = Peer(s) /\ d.from = inc[s] /\ d.ack \subseteq due
      BY <2>2 DEF MadeBy
    <3> QED BY <3>1
  <2> QED BY <1>1, <1>4, <2>1, <2>2 DEF InHand
<1> QED BY <1>3, <1>4 DEF AcksWereTaken

\* forward() at the end of a handler that appends to the list of its side, and
\* leaves what it appended urgent, or removes from it.
LEMMA ForwardKeepsSent ==
  ASSUME TypeOK, TypeOK', UnackedWereAppended, UnackedWereAppended', SentInWindow,
         NEW s \in Side, NEW fresh, NEW due, NEW held,
         \A t \in Side \ {s} : unacked'[t] = unacked[t],
         \A f \in unacked'[s] : f \in unacked[s] \/ (f >= next[s] /\ f \in fresh),
         urgent[s] \cap unacked'[s] \subseteq fresh,
         Forward(s, fresh, due, held)
  PROVE  SentInWindow'
<1> DEFINE win == InWindow(s, unacked'[s], peerWin'[s])
<1>1. PICK u \in SUBSET fresh : urgent' = [urgent EXCEPT ![s] = u] /\ fresh \ win \subseteq u
  BY ForwardEffect DEF TypeOK
<1>2. urgent'[s] = u /\ \A t \in Side \ {s} : urgent'[t] = urgent[t]
  BY <1>1 DEF TypeOK
<1>3. \A f \in unacked'[s] \ urgent'[s] : f \in unacked[s] \ urgent[s] \/ f \in win
  <2> HIDE DEF win
  <2> QED BY <1>1, <1>2
<1>4. \A t \in Side : /\ next[t] \in Nat /\ unacked[t] \subseteq 0..next[t] - 1
                      /\ next'[t] \in Nat /\ unacked'[t] \subseteq 0..next'[t] - 1
                      /\ peerWin'[t] \in 0..Window
  BY DEF TypeOK, UnackedWereAppended
<1>5. ASSUME NEW f \in unacked'["server"] \ urgent'["server"], NEW g \in unacked'["server"]
      PROVE  f - g < Window
  <2>1. CASE s # "server"
    BY <1>2, <1>5, <2>1 DEF SentInWindow
  <2>2. CASE s = "server" /\ f \in win
    <3>1. f - g + 1 <= peerWin'["server"]
      BY <1>5, <2>2 DEF InWindow, InSpan
    <3> QED BY <1>4, <3>1
  <2>3. CASE s = "server" /\ f \in unacked[s] \ urgent[s]
    <3>1. f \in Nat /\ g \in Nat /\ f < next[s]
      BY <1>4, <2>3
    <3>2. g \in unacked[s] \/ g >= next[s]
      BY <2>3
    <3> QED BY <1>4, <2>3, <3>1, <3>2 DEF SentInWindow
  <2> QED BY <1>3, <1>5, <2>1, <2>2, <2>3
<1>6. ASSUME NEW f \in unacked'["client"] \ urgent'["client"]
      PROVE  Rank(f, unacked'["client"]) <= Window
  <2>1. CASE s # "client"
    BY <1>2, <1>6, <2>1 DEF SentInWindow
  <2>2. CASE s = "client" /\ f \in win
    <3>1. Rank(f, unacked'["client"]) <= peerWin'["client"]
      BY <2>2 DEF InWindow, InPositions, Rank
    <3>2. Rank(f, unacked'["client"]) \in Nat
      <4>1. /\ next'["client"] \in Nat /\ f \in Nat /\ f < next'["client"]
            /\ unacked'["client"] \in SUBSET (0..next'["client"] - 1)
            /\ unacked'["client"] \in SUBSET Nat
        BY <1>4, <1>6
      <4> QED BY <4>1, RankShrinks
    <3> QED BY <1>4, <3>1, <3>2
  <2>3. CASE s = "client" /\ f \in unacked[s] \ urgent[s]
    <3>1. f \in Nat /\ f < next["client"] /\ next["client"] \in Nat
          /\ unacked["client"] \in SUBSET (0..next["client"] - 1)
          /\ unacked'["client"] \in SUBSET Nat
      BY <1>4, <2>3
    <3>2. \A x \in unacked'["client"] : x \in unacked["client"] \/ x >= next["client"]
      BY <2>3
    <3>3. /\ Rank(f, unacked["client"]) \in Nat /\ Rank(f, unacked'["client"]) \in Nat
          /\ Rank(f, unacked'["client"]) <= Rank(f, unacked["client"])
      BY <3>1, <3>2, RankShrinks
    <3> QED BY <2>3, <3>3 DEF SentInWindow
  <2> QED BY <1>3, <1>6, <2>1, <2>2, <2>3
<1> QED BY <1>5, <1>6 DEF SentInWindow

\* Nothing has been appended, received or sent but a set_session.
LEMMA InitialState ==
  ASSUME Init
  PROVE  /\ \A s \in Side : /\ Held(s) = {} /\ unacked[s] = {} /\ acks[s] = {}
                            /\ next[s] = 0 /\ rest[s] = {}
         /\ \A d \in InHand : d.type # "data"
<1>1. \A s \in Side : /\ wait[s] = 0 /\ buf[s] = {} /\ unacked[s] = {} /\ acks[s] = {}
                      /\ next[s] = 0 /\ rest[s] = {}
  BY DEF Init
<1>2. PICK fails \in {FALSE, SocketErrors} :
        net \in SUBSET (IF fails THEN {} ELSE {[type |-> "set_session", ts |-> 1]})
  BY Zenon DEF Init
<1>3. \A d \in net : d.type # "data"
  BY <1>2
<1> QED BY <1>1, <1>3 DEF Held, InHand

LEMMA SessionInvInit == Init => SessionInv
<1> SUFFICES ASSUME Init PROVE SessionInv
  OBVIOUS
<1>1. /\ \A s \in Side : /\ Held(s) = {} /\ unacked[s] = {} /\ acks[s] = {}
                         /\ next[s] = 0
      /\ \A d \in InHand : d.type # "data"
  BY InitialState
<1> QED BY <1>1, WindowInvInit DEF SessionInv, UnackedWereAppended, AcksWereTaken,
             ClientConfirmedWasSeen, SentInWindow

\* An append adds to the list what comes after it, and forgets nothing.
LEMMA AppendKeepsSession ==
  ASSUME SessionInv, WindowInv', NEW s \in Side, Append(s)
  PROVE  SessionInv'
<1> USE DEF SessionInv
<1>1. PICK n \in 1..MaxBurst :
        LET new == next[s]..next[s] + n - 1 IN
        /\ next' = [next EXCEPT ![s] = @ + n]
        /\ unacked' = [unacked EXCEPT ![s] = @ \cup new]
        /\ Forward(s, urgent[s] \cup new, acks[s], net)
  BY Zenon DEF Append
<1> DEFINE new == next[s]..next[s] + n - 1
<1>2. UNCHANGED <<wait, buf, seen, rest, inc>>
  BY DEF Append
<1>3. TypeOK /\ TypeOK' /\ n \in Nat
  BY BoundAssumption DEF WindowInv
<1>4. /\ next'[s] = next[s] + n /\ unacked'[s] = unacked[s] \cup new
      /\ \A t \in Side \ {s} : next'[t] = next[t] /\ unacked'[t] = unacked[t]
      /\ \A t \in Side : next[t] \in Nat /\ unacked[t] \subseteq 0..next[t] - 1
  <2>1. unacked' = [unacked EXCEPT ![s] = @ \cup new]
    BY <1>1
  <2> HIDE DEF new
  <2> QED BY <1>1, <1>3, <2>1 DEF TypeOK, UnackedWereAppended
<1>5. UnackedWereAppended'
  BY <1>3, <1>4 DEF UnackedWereAppended
<1>6. ClientConfirmedWasSeen'
  <2> SUFFICES ASSUME NEW f \in 0..next'["client"] - 1, f \notin unacked'["client"]
               PROVE  <<inc["client"], f>> \in seen["server"]
    BY <1>2 DEF ClientConfirmedWasSeen
  <2>1. f \in 0..next["client"] - 1 /\ f \notin unacked["client"]
    BY <1>3, <1>4
  <2> QED BY <2>1 DEF ClientConfirmedWasSeen
<1>7. AcksWereTaken'
  <2>1. \A f \in Held("server") \cup acks["server"] : Taken(f)
    BY DEF AcksWereTaken
  <2>2. /\ \A f \in Held("server")' : Taken(f)'
        /\ s = "server" => \A f \in acks[s] : Taken(f)'
    BY <1>2, <2>1 DEF Held, Taken
  <2>3. Forward(s, urgent[s] \cup new, acks[s], net)
    BY <1>1
  <2> HIDE DEF new
  <2> QED BY <1>2, <1>3, <2>2, <2>3, ForwardKeepsTaken
<1>8. SentInWindow'
  <2>1. \A f \in unacked'[s] : f \in unacked[s] \/ (f >= next[s] /\ f \in urgent[s] \cup new)
    BY <1>3, <1>4
  <2>2. urgent[s] \cap unacked'[s] \subseteq urgent[s] \cup new
    OBVIOUS
  <2>3. Forward(s, urgent[s] \cup new, acks[s], net)
    BY <1>1
  <2> HIDE DEF new
  <2> QED BY <1>3, <1>4, <1>5, <2>1, <2>2, <2>3, ForwardKeepsSent
<1> QED BY <1>5, <1>6, <1>7, <1>8

\* A datagram adds to the history what it adds to the buffer, and takes from the
\* list only what its acks name.
LEMMA DisposeKeepsSession ==
  ASSUME SessionInv, WindowInv', NEW s \in Side, NEW d \in Data, NEW held \in SUBSET net,
         d \in InHand, d.to = s, Dispose(s, d, held)
  PROVE  SessionInv'
<1> USE DEF SessionInv
<1>1. TypeOK /\ TypeOK' /\ d.type = "data" /\ d.push \subseteq Nat
  BY DEF WindowInv, Data
<1>2. PICK p \in SUBSET Nat :
        Takes(s, d, p) /\ (Calls(s, d, p, held) \/ Ends(s, d, p, held))
  BY DisposeEffect
<1>3. /\ seen' = [seen EXCEPT ![s] = @ \cup {d.from} \X ToBuffer(s, p)]
      /\ Held(s)' = Held(s) \cup ToBuffer(s, p)
      /\ \A t \in Side \ {s} : Held(t)' = Held(t)
      /\ UNCHANGED <<next, inc>>
  BY <1>2 DEF Takes
<1>4. seen["server"] \subseteq seen'["server"]
  BY <1>1, <1>3 DEF TypeOK
<1>5. \A f : Taken(f) => Taken(f)'
  BY <1>3, <1>4 DEF Taken
<1>6. s = "server" => \A f \in ToBuffer(s, p) : Taken(f)'
  <2> SUFFICES ASSUME s = "server", NEW f \in ToBuffer(s, p) PROVE Taken(f)'
    OBVIOUS
  <2>1. d.from = inc["client"]
    BY <1>1 DEF AcksWereTaken
  <2>2. <<d.from, f>> \in seen'[s]
    BY <1>1, <1>3 DEF TypeOK
  <2> QED BY <1>3, <2>1, <2>2 DEF Taken
<1>7. \A f \in Held("server")' : Taken(f)'
  BY <1>3, <1>5, <1>6 DEF AcksWereTaken
<1>8. s = "server" => \A f \in acks[s] \cup ToAck(s, p) : Taken(f)'
  <2> SUFFICES ASSUME s = "server", NEW f \in ToAck(s, p) PROVE Taken(f)'
    BY <1>5 DEF AcksWereTaken
  <2>1. CASE f \in ToBuffer(s, p)
    BY <1>6, <2>1
  <2>2. CASE f \notin ToBuffer(s, p)
    <3>1. f \in Nat /\ (f < wait[s] \/ f \in buf[s])
      BY <1>1, <2>2 DEF ToAck, ToBuffer, Accepted, TypeOK
    <3>2. wait[s] \in Nat
      BY <1>1 DEF TypeOK
    <3> QED BY <1>5, <3>1, <3>2 DEF AcksWereTaken, Held
  <2> QED BY <2>1, <2>2
<1>9. CASE Calls(s, d, p, held)
  <2> DEFINE e == [d EXCEPT !.push = @ \ p]
  <2>1. e.type = "data" /\ e.to = s /\ e.from = d.from /\ e.ack = d.ack
    BY <1>1 DEF Data
  <2>2. /\ acks'[s] = acks[s] \cup ToAck(s, p)
        /\ \A t \in Side \ {s} : acks'[t] = acks[t] /\ rest'[t] = rest[t]
        /\ rest'[s] = {e} /\ net' \subseteq net
        /\ UNCHANGED <<unacked, urgent>>
    BY <1>1, <1>9 DEF Calls, TypeOK
  <2> HIDE DEF e
  <2>3. \A f \in acks'["server"] : Taken(f)'
    BY <1>5, <1>8, <2>2 DEF AcksWereTaken
  <2>4. ASSUME NEW g \in InHand', g.type = "data"
        PROVE  IF g.to = "client" THEN \A f \in g.ack : Taken(f)' ELSE g.from = inc'["client"]
    <3>1. CASE g \in InHand
      BY <1>3, <1>5, <2>4, <3>1 DEF AcksWereTaken
    <3>2. CASE g = e
      BY <1>1, <1>3, <1>5, <2>1, <3>2 DEF AcksWereTaken
    <3> QED BY <2>2, <2>4, <3>1, <3>2 DEF InHand
  <2>5. AcksWereTaken'
    BY <1>7, <2>3, <2>4 DEF AcksWereTaken
  <2>6. UnackedWereAppended' /\ ClientConfirmedWasSeen' /\ SentInWindow'
    BY <1>3, <1>4, <2>2 DEF UnackedWereAppended, ClientConfirmedWasSeen, SentInWindow, Rank
  <2> QED BY <2>5, <2>6
<1>10. CASE Ends(s, d, p, held)
  <2>1. /\ unacked'[s] = unacked[s] \ Confirmed(s, d.ack)
        /\ \A t \in Side \ {s} : unacked'[t] = unacked[t]
        /\ \A t \in Side : rest'[t] \subseteq rest[t]
        /\ Forward(s, urgent[s] \cap unacked'[s], acks[s] \cup ToAck(s, p), held)
    BY <1>1, <1>10 DEF Ends, TypeOK
  <2>2. UnackedWereAppended'
    BY <1>3, <2>1 DEF UnackedWereAppended
  <2>3. AcksWereTaken'
    BY <1>1, <1>3, <1>4, <1>7, <1>8, <2>1, ForwardKeepsTaken
  <2>4. ClientConfirmedWasSeen'
    <3> SUFFICES ASSUME NEW f \in 0..next["client"] - 1, f \notin unacked'["client"]
                 PROVE  Taken(f)'
      BY <1>3 DEF ClientConfirmedWasSeen, Taken
    <3>1. CASE f \notin unacked["client"]
      BY <1>5, <3>1 DEF ClientConfirmedWasSeen, Taken
    <3>2. CASE f \in unacked["client"]
      <4>1. s = "client" /\ f \in d.ack
        BY <2>1, <3>2 DEF Confirmed
      <4> QED BY <1>1, <1>5, <4>1 DEF AcksWereTaken
    <3> QED BY <3>1, <3>2
  <2>5. SentInWindow'
    <3>1. \A f \in unacked'[s] : f \in unacked[s]
      BY <2>1
    <3> QED BY <1>1, <2>1, <2>2, <3>1, ForwardKeepsSent
  <2> QED BY <2>2, <2>3, <2>4, <2>5
<1> QED BY <1>2, <1>9, <1>10

\* A new context of the server starts with empty lists; the history stays.
LEMMA SetSessionKeepsSession ==
  ASSUME SessionInv, WindowInv', NEW d \in net, ReceiveSetSession(d)
  PROVE  SessionInv'
<1> USE DEF SessionInv
<1>1. TypeOK /\ TypeOK'
  BY DEF WindowInv
<1>2. \A e \in InHand' : e \in InHand \/ e.type # "data"
  BY DEF ReceiveSetSession, Transmit, InHand
<1>3. CASE SameClient(d.ts)
  <2>1. UNCHANGED <<sides, inc>>
    BY <1>3 DEF ReceiveSetSession
  <2> QED BY <1>2, <2>1 DEF UnackedWereAppended, AcksWereTaken, Taken, Held,
               ClientConfirmedWasSeen, SentInWindow, Rank, sides
<1>4. CASE ~SameClient(d.ts)
  <2>1. /\ inc' = [inc EXCEPT !["server"] = inc["server"] + 1]
        /\ next' = [next EXCEPT !["server"] = 0]
        /\ unacked' = [unacked EXCEPT !["server"] = {}]
        /\ urgent' = [urgent EXCEPT !["server"] = {}]
        /\ wait' = [wait EXCEPT !["server"] = 0]
        /\ buf' = [buf EXCEPT !["server"] = {}]
        /\ acks' = [acks EXCEPT !["server"] = {}]
        /\ seen' = seen
    BY <1>4 DEF ReceiveSetSession
  <2>2. /\ inc'["client"] = inc["client"] /\ next'["client"] = next["client"]
        /\ unacked'["client"] = unacked["client"] /\ urgent'["client"] = urgent["client"]
        /\ next'["server"] = 0 /\ unacked'["server"] = {} /\ wait'["server"] = 0
        /\ buf'["server"] = {} /\ acks'["server"] = {}
    BY <1>1, <2>1 DEF TypeOK
  <2>3. UnackedWereAppended'
    BY <2>2 DEF UnackedWereAppended
  <2>4. AcksWereTaken'
    <3>1. Held("server")' = {}
      BY <2>2 DEF Held
    <3> QED BY <1>2, <2>1, <2>2, <3>1 DEF AcksWereTaken, Taken
  <2>5. ClientConfirmedWasSeen'
    BY <2>1, <2>2 DEF ClientConfirmedWasSeen
  <2>6. SentInWindow'
    BY <2>2 DEF SentInWindow, Rank
  <2> QED BY <2>3, <2>4, <2>5, <2>6
<1> QED BY <1>3, <1>4

LEMMA SessionInvNext == SessionInv /\ [Next]_vars => SessionInv'
<1> SUFFICES ASSUME SessionInv, [Next]_vars PROVE SessionInv'
  OBVIOUS
<1>1. WindowInv'
  BY WindowInvNext DEF SessionInv
<1>2. TypeOK /\ TypeOK'
  BY <1>1 DEF SessionInv, WindowInv
<1>3. ASSUME NEW s \in Side, NEW held \in SUBSET net,
             UNCHANGED <<next, unacked, wait, buf, seen, rest, inc>>,
             Forward(s, urgent[s], acks[s], held)
      PROVE  SessionInv'
  <2>1. UnackedWereAppended' /\ ClientConfirmedWasSeen'
    BY <1>3 DEF SessionInv, UnackedWereAppended, ClientConfirmedWasSeen
  <2>2. \A f \in Held("server")' \cup acks["server"] : Taken(f)'
    BY <1>3 DEF SessionInv, AcksWereTaken, Held, Taken
  <2>3. AcksWereTaken'
    BY <1>2, <1>3, <2>2, ForwardKeepsTaken DEF SessionInv
  <2>4. SentInWindow'
    BY <1>2, <1>3, <2>1, ForwardKeepsSent DEF SessionInv
  <2> QED BY <1>1, <2>1, <2>3, <2>4 DEF SessionInv
<1>4. ASSUME UNCHANGED <<next, unacked, urgent, wait, buf, acks, seen, rest, inc>>,
             \A d \in net' : d \in net \/ d.type # "data"
      PROVE  SessionInv'
  BY <1>1, <1>4 DEF SessionInv, UnackedWereAppended, AcksWereTaken, Taken, Held, InHand,
     ClientConfirmedWasSeen, SentInWindow, Rank
<1>5. ASSUME NEW s \in Side, Append(s) PROVE SessionInv'
  BY <1>1, <1>5, AppendKeepsSession
<1>6. ASSUME NEW s \in Side, Inspect(s) PROVE SessionInv'
  BY <1>3, <1>6 DEF Inspect
<1>7. ASSUME RetryHandshake PROVE SessionInv'
  BY <1>4, <1>7 DEF RetryHandshake, Transmit
<1>8. ASSUME NEW d \in net, ReceiveSetSession(d) PROVE SessionInv'
  BY <1>1, <1>8, SetSessionKeepsSession
<1>9. ASSUME NEW d \in net, ReceiveAckSession(d) PROVE SessionInv'
  BY <1>3, <1>9 DEF ReceiveAckSession
<1>10. ASSUME NEW s \in Side, (\E d \in net : ReceiveData(s, d)) \/ Return(s)
       PROVE  SessionInv'
  <2>1. PICK d \in Data, held \in SUBSET net :
          d \in InHand /\ d.to = s /\ Dispose(s, d, held)
    BY <1>10, Disposals DEF SessionInv
  <2> QED BY <1>1, <2>1, DisposeKeepsSession
<1>11. ASSUME NEW d \in net, DropData(d) PROVE SessionInv'
  BY <1>4, <1>11 DEF DropData, sides
<1>12. CASE UNCHANGED vars
  BY <1>4, <1>12 DEF vars, sides
<1> QED BY <1>5, <1>6, <1>7, <1>8, <1>9, <1>10, <1>11, <1>12 DEF Next, Receive

LEMMA SessionInvAlways == Spec => []SessionInv
BY SessionInvInit, SessionInvNext, PTL DEF Spec

\* What the client forgot, some context of the server had taken in: however
\* many set_sessions it stamps, contexts replaced, acks of an earlier one still
\* on their way (dispose_ack, udp_service_routine::on_readable).
THEOREM ConfirmedWasTaken == Spec => []ClientConfirmedWasSeen
<1>1. SessionInv => ClientConfirmedWasSeen
  BY DEF SessionInv
<1> QED BY SessionInvAlways, <1>1, PTL

\* No more than the window is on its way from the server, and one fragment more
\* from the client, for any window, packing, gaps and resets (forward).
THEOREM FlightSafe == Spec => []FlightBounded
<1>1. SessionInv => FlightBounded
  <2> SUFFICES ASSUME SessionInv PROVE FlightBounded
    OBVIOUS
  <2> DEFINE S == unacked["client"] \ urgent["client"]
             n == next["client"]
  <2>1. n \in Nat /\ unacked["client"] \subseteq 0..n - 1 /\ S \subseteq 0..n - 1
    BY DEF SessionInv, WindowInv, TypeOK, UnackedWereAppended
  <2>2. Cardinality(S) <= Window + 1
    <3> HIDE DEF n
    <3>1. IsFiniteSet(0..n - 1)
      <4>1. 0 \in Int /\ n - 1 \in Int
        BY <2>1
      <4> QED BY <4>1, FS_Interval
    <3>2. CASE S = {}
      BY <3>2, FS_EmptySet
    <3>3. CASE S # {}
      <4>1. PICK m \in S : \A x \in S : x <= m
        <5>1. S \in SUBSET (0..n)
          BY <2>1
        <5> HIDE DEF S
        <5> QED BY <2>1, <3>3, <5>1, GreatestExists
      <4> DEFINE below == {y \in unacked["client"] : y < m}
      <4>2. Cardinality(below) <= Window
        BY <4>1 DEF SessionInv, SentInWindow, Rank
      <4>3. IsFiniteSet(below) /\ IsFiniteSet(S)
        <5>1. below \subseteq 0..n - 1
          BY <2>1
        <5> QED BY <2>1, <3>1, <5>1, FS_Subset
      <4>4. S \ {m} \subseteq below
        BY <2>1, <4>1
      <4> HIDE DEF S, below
      <4>5. Cardinality(S \ {m}) = Cardinality(S) - 1
        BY <4>1, <4>3, FS_RemoveElement
      <4>6. Cardinality(S \ {m}) <= Cardinality(below)
        BY <4>3, <4>4, FS_Subset
      <4>7. Cardinality(S) \in Nat /\ Cardinality(below) \in Nat
        BY <4>3, FS_CardinalityType
      <4> QED BY <4>2, <4>5, <4>6, <4>7
    <3> QED BY <3>2, <3>3
  <2> QED BY <2>2 DEF SessionInv, SentInWindow, FlightBounded
<1> QED BY SessionInvAlways, <1>1, PTL

-----------------------------------------------------------------------------
(* A conversation whose client stamped one set_session: its context is never *)
(* replaced, and the streams are reliable.                                   *)

\* Before there is a context, the server's lists are as a new context has them.
NoContext ==
  inc["server"] = 0 =>
    /\ next["server"] = 0 /\ unacked["server"] = {} /\ urgent["server"] = {}
    /\ wait["server"] = 0 /\ buf["server"] = {} /\ acks["server"] = {}
    /\ rest["server"] = {}

ContextCurrent == inc["server"] # 0 => conv = 1

HeldWereAppended == \A s \in Side : Held(s) \subseteq 0..next[Peer(s)] - 1

AcksAreHeld == \A s \in Side : acks[s] \subseteq Held(s)

\* What is in flight or in hand: pushes of fragments appended, acks of fragments held.
InFlight ==
  \A d \in InHand : d.type = "data" =>
    /\ d.push \subseteq 0..next[Peer(d.to)] - 1
    /\ d.ack \subseteq Held(Peer(d.to))

\* Of what travels to the client, it has all that is Window or more below.
PushesFit ==
  \A d \in InHand : d.type = "data" /\ d.to = "client" =>
    \A f \in d.push : 0..f - Window \subseteq Held("client")

StreamInv ==
  /\ WindowInv
  /\ NoContext /\ ContextCurrent
  /\ UnackedWereAppended /\ HeldWereAppended
  /\ AcksAreHeld /\ InFlight
  /\ ConfirmedIsHeld
  /\ PushesFit

Done(s) == 0..next[s] - 1 \ unacked[s]

\* How the two streams move in one step: what ReliableStream allows.
Advances ==
  \A s \in Side :
    /\ next'[s] >= next[s] /\ wait'[s] >= wait[s]
    /\ Held(s) \subseteq Held(s)'
    /\ Held(s)' \subseteq 0..next[Peer(s)] - 1
    /\ Done(s) \subseteq Done(s)'
    /\ Done(s)' \subseteq Held(Peer(s))

\* A step that leaves the lists alone lets the streams stay where they are.
LEMMA StayAdvances ==
  ASSUME StreamInv, UNCHANGED <<next, wait, buf, unacked>>
  PROVE  Advances
<1>1. \A s \in Side : Held(s)' = Held(s) /\ Done(s)' = Done(s)
  BY DEF Held, Done
<1>2. \A s \in Side : Done(s) \subseteq Held(Peer(s))
  BY DEF StreamInv, ConfirmedIsHeld, Done, Held, WindowInv, TypeOK
<1>3. \A s \in Side : next'[s] >= next[s] /\ wait'[s] >= wait[s]
  BY DEF StreamInv, WindowInv, TypeOK
<1> QED BY <1>1, <1>2, <1>3 DEF Advances, StreamInv, HeldWereAppended

LEMMA AdvancesKeeps ==
  ASSUME StreamInv, TypeOK', Advances
  PROVE  HeldWereAppended' /\ ConfirmedIsHeld'
<1>1. HeldWereAppended'
  <2>1. \A s \in Side : 0..next[s] - 1 \subseteq 0..next'[s] - 1
    BY DEF StreamInv, WindowInv, TypeOK, Advances
  <2> QED BY <2>1 DEF Advances, HeldWereAppended
<1>2. ASSUME NEW s \in Side, NEW f \in 0..next'[s] - 1, f \notin unacked'[s]
      PROVE  f < wait'[Peer(s)] \/ f \in buf'[Peer(s)]
  <2>1. f \in Done(s)'
    BY <1>2 DEF Done
  <2>2. f \in Held(Peer(s))'
    BY <2>1 DEF Advances
  <2> QED BY <2>2 DEF Held, TypeOK
<1> QED BY <1>1, <1>2 DEF ConfirmedIsHeld

\* What is in flight stays right while the streams advance.
LEMMA InFlightKept ==
  ASSUME StreamInv, TypeOK', Advances,
         NEW d \in InHand, d.type = "data"
  PROVE  /\ d.push \subseteq 0..next'[Peer(d.to)] - 1
         /\ d.ack \subseteq Held(Peer(d.to))'
         /\ d.to = "client" => \A f \in d.push : 0..f - Window \subseteq Held("client")'
<1>1. d \in Data
  BY DEF StreamInv, WindowInv, TypeOK, Datagram, Hello, HelloAck, InHand
<1>2. /\ d.to \in Side /\ d.push \subseteq Nat
      /\ d.push \subseteq 0..next[Peer(d.to)] - 1
      /\ d.ack \subseteq Held(Peer(d.to))
      /\ d.to = "client" => \A f \in d.push : 0..f - Window \subseteq Held("client")
  BY <1>1 DEF Data, StreamInv, InFlight, PushesFit
<1>3. \A s \in Side : /\ next'[s] \in Nat /\ next[s] \in Nat /\ next'[s] >= next[s]
                      /\ wait'[s] \in Nat /\ wait[s] \in Nat /\ wait'[s] >= wait[s]
                      /\ Held(s) \subseteq Held(s)'
  BY DEF StreamInv, WindowInv, TypeOK, Advances
<1> QED BY <1>2, <1>3

\* What the client does not have is in the server's list, and a span of peerWin from
\* its head ends less than Window past it.
LEMMA SpanFitsWindow ==
  ASSUME TypeOK, UnackedWereAppended, ConfirmedIsHeld,
         NEW f \in InSpan(unacked["server"], peerWin["server"])
  PROVE  0..f - Window \subseteq Held("client")
<1> SUFFICES ASSUME NEW g \in 0..f - Window PROVE g \in Held("client")
  OBVIOUS
<1>1. /\ f \in Nat /\ f \in unacked["server"] /\ f < next["server"]
      /\ next["server"] \in Nat /\ peerWin["server"] \in 0..Window
      /\ wait["client"] \in Nat
  BY DEF TypeOK, UnackedWereAppended, InSpan
<1>2. g \notin unacked["server"]
  BY <1>1 DEF InSpan
<1>3. g \in 0..next["server"] - 1
  BY <1>1
<1> QED BY <1>1, <1>2, <1>3 DEF ConfirmedIsHeld, Held

\* forward() at the end of a handler under which the streams advance.
LEMMA ForwardKeepsStream ==
  ASSUME StreamInv, WindowInv', Advances, UnackedWereAppended',
         NEW s \in Side, NEW fresh, NEW due, NEW held \in SUBSET net,
         due \subseteq Held(s)',
         \A t \in Side : rest'[t] \subseteq rest[t],
         Forward(s, fresh, due, held)
  PROVE  /\ AcksAreHeld' /\ InFlight' /\ PushesFit'
         /\ HeldWereAppended' /\ ConfirmedIsHeld'
<1>1. /\ \E a \in SUBSET due : acks' = [acks EXCEPT ![s] = a]
      /\ \A d \in net' : d \in held \/ MadeBy(s, due, d)
  BY ForwardEffect DEF StreamInv, WindowInv, TypeOK
<1>2. TypeOK'
  BY DEF WindowInv
<1>3. HeldWereAppended' /\ ConfirmedIsHeld'
  BY <1>2, AdvancesKeeps
<1>4. AcksAreHeld'
  <2>1. \A t \in Side : acks[t] \subseteq Held(t)'
    BY DEF StreamInv, AcksAreHeld, Advances
  <2> QED BY <1>1, <2>1 DEF AcksAreHeld, StreamInv, WindowInv, TypeOK
<1>5. ASSUME NEW d \in InHand', d.type = "data"
      PROVE  /\ d.push \subseteq 0..next'[Peer(d.to)] - 1
             /\ d.ack \subseteq Held(Peer(d.to))'
             /\ d.to = "client" => \A f \in d.push : 0..f - Window \subseteq Held("client")'
  <2>1. CASE d \in InHand
    BY <1>2, <1>5, <2>1, InFlightKept
  <2>2. CASE MadeBy(s, due, d)
    <3>1. d.to = Peer(s)
      BY <2>2 DEF MadeBy
    <3>2. Peer(d.to) = s
      BY <3>1
    <3>3. d.push \subseteq InWindow(s, unacked'[s], peerWin'[s]) /\ d.ack \subseteq due
      BY <2>2 DEF MadeBy
    <3>4. d.push \subseteq 0..next'[s] - 1
      BY <3>3, InWindowPending DEF UnackedWereAppended
    <3>5. ASSUME s = "server", NEW f \in d.push
          PROVE  0..f - Window \subseteq Held("client")'
      <4>1. f \in InSpan(unacked["server"], peerWin["server"])'
        BY <3>3, <3>5 DEF InWindow, InSpan
      <4>2. (f \in InSpan(unacked["server"], peerWin["server"])
               => 0..f - Window \subseteq Held("client"))'
        BY <1>2, <1>3, SpanFitsWindow, PTL
      <4> QED BY <4>1, <4>2
    <3> QED BY <3>1, <3>2, <3>3, <3>4, <3>5
  <2> QED BY <1>1, <1>5, <2>1, <2>2 DEF InHand
<1> QED BY <1>3, <1>4, <1>5 DEF InFlight, PushesFit

\* A datagram's effect on the streams, up to a call of the application or to its end.
LEMMA DisposeAdvances ==
  ASSUME StreamInv, WindowInv', NEW s \in Side, NEW d \in Data, NEW held, NEW p \in SUBSET Nat,
         d \in InHand, d.to = s,
         Takes(s, d, p), Calls(s, d, p, held) \/ Ends(s, d, p, held)
  PROVE  /\ Advances
         /\ UnackedWereAppended'
         /\ acks[s] \cup ToAck(s, p) \subseteq Held(s)'
<1>1. /\ d.push \subseteq 0..next[Peer(s)] - 1
      /\ d.ack \subseteq Held(Peer(s))
  BY DEF Data, StreamInv, InFlight
<1>2. \A t \in Side : /\ next[t] \in Nat /\ wait[t] \in Nat
                      /\ unacked[t] \subseteq 0..next[t] - 1
  BY DEF StreamInv, WindowInv, TypeOK, UnackedWereAppended
<1>3. ToBuffer(s, p) \subseteq d.push
  BY DEF ToBuffer, Accepted, Takes
<1>4. /\ next' = next
      /\ Held(s)' = Held(s) \cup ToBuffer(s, p) /\ wait'[s] >= wait[s]
      /\ \A t \in Side \ {s} : Held(t)' = Held(t) /\ wait'[t] = wait[t]
  BY DEF Takes
<1>5. \A t \in Side : /\ Held(t) \subseteq Held(t)'
                      /\ Held(t)' \subseteq 0..next[Peer(t)] - 1
  <2>1. \A t \in Side : Held(t) \subseteq 0..next[Peer(t)] - 1
    BY DEF StreamInv, HeldWereAppended
  <2> QED BY <1>1, <1>3, <1>4, <2>1
<1>6. /\ unacked[s] \ d.ack \subseteq unacked'[s] /\ unacked'[s] \subseteq unacked[s]
      /\ \A t \in Side \ {s} : unacked'[t] = unacked[t]
  <2>1. CASE Calls(s, d, p, held)
    BY <2>1 DEF Calls
  <2>2. CASE Ends(s, d, p, held)
    BY <2>2 DEF Ends, Confirmed, StreamInv, WindowInv, TypeOK
  <2> QED BY <2>1, <2>2
<1>7. UnackedWereAppended'
  BY <1>2, <1>4, <1>6 DEF UnackedWereAppended
<1>8. \A t \in Side : Done(t) \subseteq Done(t)' /\ Done(t)' \subseteq Held(Peer(t))
  <2>1. \A t \in Side : Done(t) \subseteq Held(Peer(t))
    BY <1>2 DEF StreamInv, ConfirmedIsHeld, Done, Held
  <2>2. Done(s) \subseteq Done(s)' /\ Done(s)' \subseteq Done(s) \cup d.ack
    BY <1>4, <1>6 DEF Done
  <2>3. \A t \in Side \ {s} : Done(t)' = Done(t)
    BY <1>4, <1>6 DEF Done
  <2> QED BY <1>1, <2>1, <2>2, <2>3
<1>9. \A t \in Side : next'[t] >= next[t] /\ wait'[t] >= wait[t]
  BY <1>2, <1>4
<1>10. Advances
  BY <1>4, <1>5, <1>8, <1>9 DEF Advances
<1>11. acks[s] \cup ToAck(s, p) \subseteq Held(s)'
  <2>1. acks[s] \subseteq Held(s)
    BY DEF StreamInv, AcksAreHeld
  <2>2. ToAck(s, p) \subseteq Held(s) \cup ToBuffer(s, p)
    <3> SUFFICES ASSUME NEW f \in Accepted(s, p), f \notin ToBuffer(s, p) PROVE f \in Held(s)
      BY DEF ToAck
    <3>1. f \in Nat /\ wait[s] \in Nat
      BY <1>2 DEF Accepted
    <3>2. ~(f >= wait[s]) \/ f \in buf[s]
      BY DEF ToBuffer
    <3> QED BY <3>1, <3>2 DEF Held
  <2> QED BY <1>4, <2>1, <2>2
<1> QED BY <1>7, <1>10, <1>11

\* An append's effect on the streams.
LEMMA AppendAdvances ==
  ASSUME StreamInv, NEW s \in Side, NEW n \in Nat,
         next' = [next EXCEPT ![s] = @ + n],
         unacked' = [unacked EXCEPT ![s] = @ \cup (next[s]..next[s] + n - 1)],
         UNCHANGED <<wait, buf>>
  PROVE  Advances /\ UnackedWereAppended'
<1>1. \A t \in Side : /\ next[t] \in Nat /\ wait[t] \in Nat
                      /\ unacked[t] \subseteq 0..next[t] - 1
  BY DEF StreamInv, WindowInv, TypeOK, UnackedWereAppended
<1>2. /\ next'[s] = next[s] + n
      /\ unacked'[s] = unacked[s] \cup (next[s]..next[s] + n - 1)
      /\ \A t \in Side \ {s} : next'[t] = next[t] /\ unacked'[t] = unacked[t]
  BY DEF StreamInv, WindowInv, TypeOK
<1>3. UnackedWereAppended'
  BY <1>1, <1>2 DEF UnackedWereAppended
<1>4. \A t \in Side : Done(t)' = Done(t)
  <2>1. Done(s)' = Done(s)
    BY <1>1, <1>2 DEF Done
  <2> QED BY <1>2, <2>1 DEF Done
<1>5. \A t \in Side : Held(t)' = Held(t) /\ Done(t) \subseteq Held(Peer(t))
  BY <1>1 DEF Held, Done, StreamInv, ConfirmedIsHeld
<1> QED BY <1>1, <1>2, <1>3, <1>4, <1>5 DEF Advances, StreamInv, HeldWereAppended

LEMMA StreamInvInit == Init => StreamInv
<1> SUFFICES ASSUME Init PROVE StreamInv
  OBVIOUS
<1>1. /\ \A s \in Side : /\ Held(s) = {} /\ unacked[s] = {} /\ acks[s] = {}
                         /\ next[s] = 0
      /\ \A d \in InHand : d.type # "data"
  BY InitialState
<1>2. NoContext /\ ContextCurrent
  BY DEF Init, NoContext, ContextCurrent
<1> QED BY <1>1, <1>2, WindowInvInit DEF StreamInv, UnackedWereAppended, HeldWereAppended,
              AcksAreHeld, InFlight, ConfirmedIsHeld, PushesFit

\* A handler of a live side, or of the client, does not touch a server that is not.
LEMMA NoContextKept ==
  ASSUME StreamInv, UNCHANGED <<inc, conv>>,
         inc["server"] = 0 =>
           /\ next'["server"] = next["server"] /\ unacked'["server"] = unacked["server"]
           /\ urgent'["server"] = urgent["server"] /\ acks'["server"] = acks["server"]
           /\ wait'["server"] = wait["server"] /\ buf'["server"] = buf["server"]
           /\ rest'["server"] = rest["server"]
  PROVE  NoContext' /\ ContextCurrent'
BY DEF StreamInv, NoContext, ContextCurrent

\* What the client disposes of leaves the server as it is.
LEMMA ClientLeavesServer ==
  ASSUME TypeOK, NEW d, NEW held, Dispose("client", d, held)
  PROVE  /\ next'["server"] = next["server"] /\ unacked'["server"] = unacked["server"]
         /\ urgent'["server"] = urgent["server"] /\ acks'["server"] = acks["server"]
         /\ wait'["server"] = wait["server"] /\ buf'["server"] = buf["server"]
         /\ rest'["server"] = rest["server"]
<1>1. CASE CallProcess("client", d)
  BY <1>1, Zenon DEF CallProcess, TypeOK
<1>2. CASE Finish("client", d, held)
  <2>1. /\ UNCHANGED next
        /\ Forward("client", urgent["client"] \cap unacked'["client"],
                   acks["client"] \cup ToAck("client", d.push), held)
    BY <1>2 DEF Finish
  <2>2. urgent'["server"] = urgent["server"] /\ acks'["server"] = acks["server"]
    BY <2>1, ForwardEffect DEF TypeOK
  <2>3. /\ unacked'["server"] = unacked["server"] /\ wait'["server"] = wait["server"]
        /\ buf'["server"] = buf["server"] /\ rest'["server"] = rest["server"]
    BY <1>2 DEF Finish, TypeOK
  <2> QED BY <2>1, <2>2, <2>3
<1> QED BY <1>1, <1>2 DEF Dispose

LEMMA StreamInvNext ==
  ASSUME MaxStamp = 1, StreamInv, [Next]_vars
  PROVE  StreamInv' /\ Advances
<1>1. WindowInv'
  BY WindowInvNext DEF StreamInv
<1>2. TypeOK /\ TypeOK'
  BY <1>1 DEF StreamInv, WindowInv
<1>3. ASSUME NEW s \in Side, Append(s) PROVE StreamInv' /\ Advances
  <2>1. PICK n \in 1..MaxBurst :
          LET new == next[s]..next[s] + n - 1 IN
          /\ next' = [next EXCEPT ![s] = @ + n]
          /\ unacked' = [unacked EXCEPT ![s] = @ \cup new]
          /\ Forward(s, urgent[s] \cup new, acks[s], net)
    BY <1>3, Zenon DEF Append
  <2>2. UNCHANGED <<wait, buf, rest, inc, conv>> /\ inc[s] # 0
    BY <1>3 DEF Append
  <2>3. Advances /\ UnackedWereAppended'
    <3>1. n \in Nat
      BY BoundAssumption
    <3> QED BY <2>1, <2>2, <3>1, AppendAdvances
  <2>4. acks[s] \subseteq Held(s)'
    BY <2>3 DEF StreamInv, AcksAreHeld, Advances
  <2>5. /\ AcksAreHeld' /\ InFlight' /\ PushesFit'
        /\ HeldWereAppended' /\ ConfirmedIsHeld'
    <3>1. \A t \in Side : rest'[t] \subseteq rest[t]
      BY <2>2
    <3> QED BY <1>1, <2>1, <2>3, <2>4, <3>1, ForwardKeepsStream
  <2>6. NoContext' /\ ContextCurrent'
    <3>1. ASSUME inc["server"] = 0
          PROVE  /\ next'["server"] = next["server"] /\ unacked'["server"] = unacked["server"]
                 /\ urgent'["server"] = urgent["server"] /\ acks'["server"] = acks["server"]
      <4>1. s = "client"
        BY <2>2, <3>1
      <4>2. /\ next'["server"] = next["server"] /\ unacked'["server"] = unacked["server"]
        BY <1>2, <2>1, <4>1 DEF TypeOK
      <4>3. urgent'["server"] = urgent["server"] /\ acks'["server"] = acks["server"]
        BY <1>2, <2>1, <4>1, ForwardEffect DEF TypeOK
      <4> QED BY <4>2, <4>3
    <3> QED BY <2>2, <3>1, NoContextKept
  <2> QED BY <1>1, <2>3, <2>5, <2>6 DEF StreamInv
<1>4. ASSUME NEW s \in Side, s = "client" \/ inc[s] # 0, NEW held \in SUBSET net,
             UNCHANGED <<next, unacked, wait, buf, rest, inc, conv>>,
             Forward(s, urgent[s], acks[s], held)
      PROVE  StreamInv' /\ Advances
  <2>1. Advances /\ UnackedWereAppended'
    BY <1>4, StayAdvances DEF StreamInv, UnackedWereAppended
  <2>2. acks[s] \subseteq Held(s)' /\ \A t \in Side : rest'[t] \subseteq rest[t]
    BY <1>4, <2>1 DEF StreamInv, AcksAreHeld, Advances
  <2>3. /\ AcksAreHeld' /\ InFlight' /\ PushesFit'
        /\ HeldWereAppended' /\ ConfirmedIsHeld'
    BY <1>1, <1>4, <2>1, <2>2, ForwardKeepsStream
  <2>4. NoContext' /\ ContextCurrent'
    <3>1. ASSUME inc["server"] = 0
          PROVE  urgent'["server"] = urgent["server"] /\ acks'["server"] = acks["server"]
      <4>1. s = "client"
        BY <1>4, <3>1
      <4> QED BY <1>2, <1>4, <4>1, ForwardEffect DEF TypeOK
    <3> QED BY <1>4, <3>1, NoContextKept
  <2> QED BY <1>1, <2>1, <2>3, <2>4 DEF StreamInv
<1>5. ASSUME NEW s \in Side, Inspect(s) PROVE StreamInv' /\ Advances
  BY <1>4, <1>5 DEF Inspect
<1>6. ASSUME NEW d \in net, ReceiveAckSession(d) PROVE StreamInv' /\ Advances
  BY <1>4, <1>6 DEF ReceiveAckSession
<1>7. ASSUME NEW s \in Side, (\E d \in net : ReceiveData(s, d)) \/ Return(s)
      PROVE  StreamInv' /\ Advances
  <2>1. PICK d \in Data, held \in SUBSET net :
          d \in InHand /\ d.to = s /\ Dispose(s, d, held)
    BY <1>7, Disposals DEF StreamInv
  <2>2. PICK p \in SUBSET Nat :
          Takes(s, d, p) /\ (Calls(s, d, p, held) \/ Ends(s, d, p, held))
    BY <2>1, DisposeEffect DEF StreamInv
  <2>3. /\ Advances /\ UnackedWereAppended'
        /\ acks[s] \cup ToAck(s, p) \subseteq Held(s)'
    BY <1>1, <2>1, <2>2, DisposeAdvances
  <2>4. /\ AcksAreHeld' /\ InFlight' /\ PushesFit'
        /\ HeldWereAppended' /\ ConfirmedIsHeld'
    <3>1. CASE Ends(s, d, p, held)
      <4>1. \A t \in Side : rest'[t] \subseteq rest[t]
        BY <1>2, <3>1 DEF Ends, TypeOK
      <4>2. Forward(s, urgent[s] \cap unacked'[s], acks[s] \cup ToAck(s, p), held)
        BY <3>1 DEF Ends
      <4> QED BY <1>1, <2>3, <4>1, <4>2, ForwardKeepsStream
    <3>2. CASE Calls(s, d, p, held)
      <4> DEFINE e == [d EXCEPT !.push = @ \ p]
      <4>1. e.type = "data" /\ e.to = s /\ e.push \subseteq d.push /\ e.ack = d.ack
        BY <2>1 DEF Data
      <4>2. /\ acks'[s] = acks[s] \cup ToAck(s, p)
            /\ \A t \in Side \ {s} : acks'[t] = acks[t] /\ rest'[t] = rest[t]
            /\ rest'[s] = {e} /\ net' \subseteq net
        BY <1>2, <3>2 DEF Calls, TypeOK
      <4> HIDE DEF e
      <4>3. AcksAreHeld'
        BY <2>3, <4>2 DEF AcksAreHeld, StreamInv, Advances
      <4>4. ASSUME NEW g \in InHand', g.type = "data"
            PROVE  /\ g.push \subseteq 0..next'[Peer(g.to)] - 1
                   /\ g.ack \subseteq Held(Peer(g.to))'
                   /\ g.to = "client" =>
                        \A f \in g.push : 0..f - Window \subseteq Held("client")'
        <5>1. CASE g \in InHand
          BY <1>2, <2>3, <4>4, <5>1, InFlightKept
        <5>2. CASE g = e
          <6>1. /\ d.push \subseteq 0..next'[Peer(d.to)] - 1
                /\ d.ack \subseteq Held(Peer(d.to))'
                /\ d.to = "client" =>
                     \A f \in d.push : 0..f - Window \subseteq Held("client")'
            BY <1>2, <2>1, <2>3, InFlightKept DEF Data
          <6> QED BY <2>1, <4>1, <5>2, <6>1
        <5> QED BY <4>2, <4>4, <5>1, <5>2 DEF InHand
      <4>5. HeldWereAppended' /\ ConfirmedIsHeld'
        BY <1>2, <2>3, AdvancesKeeps
      <4> QED BY <4>3, <4>4, <4>5 DEF InFlight, PushesFit
    <3> QED BY <2>2, <3>1, <3>2
  <2>5. NoContext' /\ ContextCurrent'
    <3>1. s = "client" \/ inc["server"] # 0
      <4>1. CASE \E e \in net : ReceiveData(s, e)
        BY <4>1 DEF ReceiveData, Take
      <4>2. CASE s = "server" /\ Return(s)
        <5>1. rest["server"] # {}
          BY <4>2 DEF Return
        <5> QED BY <5>1 DEF StreamInv, NoContext
      <4> QED BY <1>7, <4>1, <4>2
    <3>2. UNCHANGED <<inc, conv>>
      BY <2>2 DEF Takes
    <3> QED BY <3>1, <3>2, ClientLeavesServer, NoContextKept, <1>2, <2>1
  <2> QED BY <1>1, <2>3, <2>4, <2>5 DEF StreamInv
<1>8. ASSUME UNCHANGED <<next, unacked, urgent, wait, buf, acks, rest>>,
             (inc' = inc /\ conv' = conv) \/ (inc["server"] = 0 /\ conv' = 1),
             \A d \in net' : d \in net \/ d.type # "data"
      PROVE  StreamInv' /\ Advances
  <2>1. Advances /\ UnackedWereAppended'
    BY <1>8, StayAdvances DEF StreamInv, UnackedWereAppended
  <2>2. HeldWereAppended' /\ ConfirmedIsHeld'
    BY <1>2, <2>1, AdvancesKeeps
  <2>3. AcksAreHeld'
    BY <1>8, <2>1 DEF StreamInv, AcksAreHeld, Advances
  <2>4. InFlight' /\ PushesFit'
    <3>1. \A d \in InHand' : d \in InHand \/ d.type # "data"
      BY <1>8 DEF InHand
    <3> QED BY <1>2, <2>1, <3>1, InFlightKept DEF InFlight, PushesFit
  <2>5. NoContext' /\ ContextCurrent'
    BY <1>8 DEF StreamInv, NoContext, ContextCurrent
  <2> QED BY <1>1, <2>1, <2>2, <2>3, <2>4, <2>5 DEF StreamInv
<1>9. ~RetryHandshake
  BY <1>2 DEF RetryHandshake, TypeOK
<1>10. ASSUME NEW d \in net, ReceiveSetSession(d) PROVE StreamInv' /\ Advances
  <2>1. d.ts = 1
    BY <1>2, <1>10 DEF ReceiveSetSession, TypeOK, Datagram, Data, Hello, HelloAck
  <2>2. (\A e \in net' : e \in net \/ e.type # "data") /\ rest' = rest
    BY <1>10 DEF ReceiveSetSession, Transmit
  <2>3. CASE inc["server"] # 0
    <3>1. SameClient(d.ts)
      BY <2>1, <2>3 DEF SameClient, StreamInv, ContextCurrent
    <3> QED BY <1>8, <1>10, <2>2, <3>1 DEF ReceiveSetSession, sides
  <2>4. CASE inc["server"] = 0
    <3>1. ~SameClient(d.ts)
      BY <2>4 DEF SameClient
    <3>2. conv' = 1 /\ UNCHANGED <<next, unacked, urgent, wait, buf, acks>>
      <4>1. /\ conv' = d.ts
            /\ next' = [next EXCEPT !["server"] = 0]
            /\ unacked' = [unacked EXCEPT !["server"] = {}]
            /\ urgent' = [urgent EXCEPT !["server"] = {}]
            /\ wait' = [wait EXCEPT !["server"] = 0]
            /\ buf' = [buf EXCEPT !["server"] = {}]
            /\ acks' = [acks EXCEPT !["server"] = {}]
        BY <1>10, <3>1 DEF ReceiveSetSession
      <4>2. /\ next["server"] = 0 /\ unacked["server"] = {} /\ urgent["server"] = {}
            /\ wait["server"] = 0 /\ buf["server"] = {} /\ acks["server"] = {}
        BY <2>4 DEF StreamInv, NoContext
      <4> QED BY <1>2, <2>1, <4>1, <4>2 DEF TypeOK
    <3> QED BY <1>8, <2>2, <2>4, <3>2
  <2> QED BY <2>3, <2>4
<1>11. ASSUME NEW d \in net, DropData(d) PROVE StreamInv' /\ Advances
  BY <1>8, <1>11 DEF DropData, sides
<1>12. CASE UNCHANGED vars
  BY <1>8, <1>12 DEF vars, sides
<1> QED BY <1>3, <1>5, <1>6, <1>7, <1>9, <1>10, <1>11, <1>12 DEF Next, Receive

LEMMA StreamInvAlways ==
  ASSUME MaxStamp = 1
  PROVE  Spec => []StreamInv
<1>1. StreamInv /\ [Next]_vars => StreamInv'
  BY StreamInvNext
<1> QED BY StreamInvInit, <1>1, PTL DEF Spec

\* In a conversation whose client stamped one set_session, whatever is lost,
\* duplicated, reordered, blocked or failing: a fragment the sender stopped
\* keeping was taken in by the peer's live object (dispose_ack, dispose_push).
THEOREM Confirmation ==
  ASSUME MaxStamp = 1
  PROVE  Spec => []ConfirmedIsHeld
<1>1. StreamInv => ConfirmedIsHeld
  BY DEF StreamInv
<1> QED BY StreamInvAlways, <1>1, PTL

\* And the server's pushes arrive inside the client's window, for every window
\* and every packing: the client drops none of them as awful behaviour.
THEOREM ServerPushesFit ==
  ASSUME MaxStamp = 1
  PROVE  Spec => []ServerPushInWindow
<1>1. StreamInv => ServerPushInWindow
  <2> SUFFICES ASSUME StreamInv, Idle("client"), NEW d \in net, d.type = "data", d.to = "client",
                      NEW f \in d.push
               PROVE  f < wait["client"] + Window
    BY DEF ServerPushInWindow
  <2>1. /\ wait["client"] \in Nat /\ wait["client"] \notin buf["client"] /\ f \in Nat
    BY DEF StreamInv, WindowInv, TypeOK, BufferInWindow, Datagram, Data, Hello, HelloAck
  <2>2. 0..f - Window \subseteq Held("client")
    BY DEF StreamInv, PushesFit, InHand
  <2>3. wait["client"] \notin 0..f - Window
    BY <2>1, <2>2 DEF Held
  <2> QED BY <2>1, <2>3
<1> QED BY StreamInvAlways, <1>1, PTL

\* The oldest fragment a side keeps.
Oldest(s, f) == f \in unacked[s] /\ \A g \in unacked[s] : f <= g

\* The window told last lets it through, unless the side is the server and that is
\* 0, and the peer takes it with whatever else is in the datagram: it is the next
\* one in order, or one that it has, which is acknowledged again.
OldestGoesThrough ==
  \A s \in Side : \A f \in unacked[s] :
    Oldest(s, f) =>
      /\ ClosedTo(s) \/ f \in InWindow(s, unacked[s], peerWin[s])
      /\ \A push \in SUBSET unacked[s] : f \in push => f \in Accepted(Peer(s), push)

\* A window of 0 is all that stops a stream: no loss, reordering, gap or stale
\* window above 0 does.  The oldest fragment a side keeps may be sent again at any
\* time, the client's whatever it was told, and the peer answers it with an ack
\* (forward of either end, dispose_push).  EventuallyDelivered rests on it.
THEOREM StoppedOnlyByZero ==
  ASSUME MaxStamp = 1
  PROVE  Spec => []OldestGoesThrough
<1>1. StreamInv => OldestGoesThrough
  <2> SUFFICES ASSUME StreamInv, NEW s \in Side, NEW f \in unacked[s], Oldest(s, f)
               PROVE  /\ ClosedTo(s) \/ f \in InWindow(s, unacked[s], peerWin[s])
                      /\ \A push \in SUBSET unacked[s] : f \in push => f \in Accepted(Peer(s), push)
    BY DEF OldestGoesThrough
  <2>1. /\ TypeOK /\ UnackedWereAppended /\ ConfirmedIsHeld
        /\ f \in Nat /\ unacked[s] \subseteq Nat
    BY DEF StreamInv, WindowInv, TypeOK
  <2>2. ClosedTo(s) \/ f \in InWindow(s, unacked[s], peerWin[s])
    <3>1. CASE s = "server" /\ ~ClosedTo(s)
      <4>1. peerWin[s] \in Nat /\ peerWin[s] > 0
        BY <2>1, <3>1 DEF TypeOK, ClosedTo
      <4>2. ASSUME NEW g \in unacked[s] PROVE f - g + 1 <= peerWin[s]
        <5>1. g \in Nat /\ f <= g
          BY <2>1 DEF Oldest
        <5> QED BY <2>1, <4>1, <5>1
      <4> QED BY <3>1, <4>2 DEF InWindow, InSpan
    <3>2. CASE s # "server"
      <4>1. {g \in unacked[s] : g < f} = {}
        <5>1. ASSUME NEW g \in unacked[s], g < f PROVE FALSE
          <6>1. g \in Nat /\ f <= g
            BY <2>1 DEF Oldest
          <6> QED BY <2>1, <5>1, <6>1
        <5> QED BY <5>1
      <4>2. Cardinality({g \in unacked[s] : g < f}) <= peerWin[s]
        <5>1. peerWin[s] \in 0..Window
          BY <2>1 DEF TypeOK
        <5>2. Cardinality({g \in unacked[s] : g < f}) = 0
          BY <4>1, FS_EmptySet
        <5> QED BY <5>1, <5>2
      <4> QED BY <3>2, <4>2 DEF InWindow, InPositions
    <3> QED BY <3>1, <3>2
  <2>3. ASSUME NEW push \in SUBSET unacked[s], f \in push
        PROVE  f \in Accepted(Peer(s), push)
    <3> SUFFICES ASSUME NEW g \in wait[Peer(s)]..f - Window PROVE g \in buf[Peer(s)]
      BY <2>3 DEF Accepted
    <3>1. /\ wait[Peer(s)] \in Nat /\ next[s] \in Nat /\ f < next[s]
      BY <2>1 DEF TypeOK, UnackedWereAppended
    <3>2. g \in Nat /\ g < f /\ g >= wait[Peer(s)] /\ g \in 0..next[s] - 1
      BY <2>1, <3>1
    <3>3. g \notin unacked[s]
      BY <2>1, <3>2 DEF Oldest
    <3> QED BY <2>1, <3>1, <3>2, <3>3 DEF ConfirmedIsHeld
  <2> QED BY <2>2, <2>3
<1> QED BY StreamInvAlways, <1>1, PTL

\* And its context is never replaced (udp_service_routine::on_readable).
THEOREM ContextIsKept ==
  ASSUME MaxStamp = 1
  PROVE  Spec => ContextKept
<1>1. ASSUME StreamInv, [Next]_vars
      PROVE  [inc["server"] # 0 => inc'["server"] = inc["server"]]_vars
  <2>1. SUFFICES ASSUME Next, inc["server"] # 0 PROVE inc' = inc
    BY <1>1
  <2>2. ASSUME NEW d \in net, ReceiveSetSession(d) PROVE inc' = inc
    <3>1. d.ts = 1
      BY <1>1, <2>2 DEF ReceiveSetSession, StreamInv, WindowInv, TypeOK, Datagram,
                        Data, Hello, HelloAck
    <3>2. SameClient(d.ts)
      BY <1>1, <2>1, <3>1 DEF SameClient, StreamInv, ContextCurrent
    <3> QED BY <2>2, <3>2 DEF ReceiveSetSession
  <2>3. ASSUME NEW s, NEW d, NEW held, Dispose(s, d, held) PROVE inc' = inc
    BY <2>3 DEF Dispose, CallProcess, Finish
  <2>4. ASSUME NEW s, NEW d, ReceiveData(s, d) \/ Return(s) PROVE inc' = inc
    BY <2>3, <2>4 DEF ReceiveData, Take, Return
  <2> QED BY <2>1, <2>2, <2>4 DEF Next, Receive, Append, Inspect, RetryHandshake,
             ReceiveAckSession, DropData
<1> QED BY StreamInvAlways, <1>1, PTL DEF Spec, ContextKept

\* The session of such a conversation implements two reliable streams, one each
\* way: every initial state and every step maps to one of ReliableStream.
THEOREM Refinement ==
  ASSUME MaxStamp = 1
  PROVE  Spec => ReliableStreams
<1>1. Init => Reliable!Init
  BY DEF Init, Reliable!Init, Held
<1>2. ASSUME StreamInv, StreamInv', Advances PROVE Reliable!Next
  <2> SUFFICES ASSUME NEW e \in Side PROVE Reliable!Advance(e)
    BY DEF Reliable!Next
  <2>1. Peer(e) \in Side /\ Peer(Peer(e)) = e
    OBVIOUS
  <2>2. 0..wait'[Peer(e)] - 1 \subseteq Held(Peer(e))'
    BY DEF Held
  <2> QED BY <1>2, <2>1, <2>2 DEF Reliable!Advance, Advances, Done
<1>3. StreamInv /\ StreamInv' /\ [Next]_vars => [Reliable!Next]_Reliable!streams
  BY <1>2, StreamInvNext
<1> QED BY StreamInvAlways, <1>1, <1>3, PTL DEF Spec, ReliableStreams, Reliable!Spec
=============================================================================
