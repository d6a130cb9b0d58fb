------------------------ MODULE StreamRoutineProofs ------------------------
(***************************************************************************)
(* Theorems about StreamRoutine, for every size of the buffers: nothing is *)
(* lost, torn or overtaken on its way to the peer, m_writable is false     *)
(* while something waits, and EPOLLOUT is armed only then.                 *)
(***************************************************************************)
EXTENDS StreamRoutine, SequenceTheorems, TLAPS

LEMMA BlockedStep ==
  ASSUME WritableIsIdle, [Next]_vars
  PROVE  WritableIsIdle'
<1> USE DEF WritableIsIdle
<1>1. ASSUME NEW len \in 1..MaxLen, AppendSendData(len)
      PROVE  WritableIsIdle'
  <2>1. UNCHANGED <<handler, watchOut, life>> /\ life = "open"
    BY <1>1 DEF AppendSendData
  <2>2. CASE AppendToReset(Message(len))
    BY <2>1, <2>2 DEF AppendToReset, Direct
  <2>3. CASE AppendDirect(Message(len))
    <3>1. <<>> \o <<>> = <<>>
      BY EmptySeq, ConcatEmptySeq
    <3>2. send = <<>> /\ writable' = (Rest(Message(len)) = <<>>)
      BY <2>3 DEF AppendDirect, Direct, Unblocked
    <3>3. handler = "none" => ~watchOut
      BY <2>3 DEF AppendDirect, Direct
    <3>4. send' = <<>> \/ send' = <<>> \o Rest(Message(len))
      BY <2>3, <3>2 DEF AppendDirect
    <3> QED BY <2>1, <3>1, <3>2, <3>3, <3>4
  <2>4. CASE AppendQueued(Message(len))
    BY <2>1, <2>4 DEF AppendQueued, Direct, Unblocked, sending
  <2> QED BY <1>1, <2>2, <2>3, <2>4 DEF AppendSendData
<1>2. CASE Created
  BY <1>2 DEF Created
<1>3. CASE Writable
  <2>1. CASE peer = "reset" /\ send # <<>>
    BY <1>3, <2>1 DEF Writable, Closed, sending, OutReady
  <2>2. CASE ~(peer = "reset" /\ send # <<>>)
    BY <1>3, <2>2 DEF Writable, Unblocked, StillOut
  <2> QED BY <2>1, <2>2
<1>4. CASE Readable
  BY <1>4 DEF Readable, Closed, sending
<1>5. CASE Failed
  BY <1>5 DEF Failed, Closed, sending
<1>6. CASE Connects \/ PeerWrites \/ PeerShutsDown
  BY <1>6 DEF Connects, PeerWrites, PeerShutsDown, sending
<1>7. CASE PeerReads \/ PeerResets
  BY <1>7 DEF PeerReads, PeerResets
<1>8. CASE UNCHANGED vars
  BY <1>8 DEF vars, sending
<1> QED BY <1>1, <1>2, <1>3, <1>4, <1>5, <1>6, <1>7, <1>8 DEF Next

\* Between handlers, m_writable is true only while nothing waits in m_send and
\* EPOLLOUT is not armed.
THEOREM BlockedSafe == Spec => []WritableIsIdle
<1>1. Init => WritableIsIdle
  BY DEF Init, WritableIsIdle, AsksOut
<1>2. WritableIsIdle /\ [Next]_vars => WritableIsIdle'
  BY BlockedStep
<1> QED BY <1>1, <1>2, PTL DEF Spec

-----------------------------------------------------------------------------
Bytes == Seq(Nat)

OrderInv ==
  /\ {send, out, got, accepted} \subseteq Bytes
  /\ Len(out) <= SockCap /\ nextByte \in Nat
  /\ SentInOrder

LEMMA MinOfTwo ==
  ASSUME NEW a \in Nat, NEW b \in Nat
  PROVE  Min({a, b}) \in {a, b} /\ Min({a, b}) <= a /\ Min({a, b}) <= b
<1>1. CASE a <= b
  <2>1. a \in {a, b} /\ \A y \in {a, b} : a <= y
    BY <1>1
  <2> QED BY <2>1 DEF Min
<1>2. CASE b <= a
  <2>1. b \in {a, b} /\ \A y \in {a, b} : b <= y
    BY <1>2
  <2> QED BY <2>1 DEF Min
<1> QED BY <1>1, <1>2

\* do_nonblock_write splits what it is given, and fills the socket no further
\* than it goes.
LEMMA Split ==
  ASSUME OrderInv, NEW data \in Bytes
  PROVE  /\ Prefix(data) \in Bytes /\ Rest(data) \in Bytes
         /\ Prefix(data) \o Rest(data) = data
         /\ Len(Prefix(data)) <= SockCap - Len(out)
         /\ Len(Rest(data)) <= Len(data)
<1>1. Len(data) \in Nat /\ Len(out) \in Nat /\ SockCap \in Nat /\ SockCap - Len(out) \in Nat
  BY SizeAssumption DEF OrderInv, Bytes
<1>2. Taken(data) \in 0..Len(data) /\ Taken(data) <= SockCap - Len(out)
  BY <1>1, MinOfTwo DEF Taken
<1>3. \A i \in 1..Len(data) : data[i] \in Nat
  BY DEF Bytes
<1>4. Prefix(data) \in Bytes /\ Len(Prefix(data)) = Taken(data)
  <2>1. \A i \in 1..Taken(data) : data[i] \in Nat
    BY <1>1, <1>2, <1>3
  <2>2. Taken(data) \in Int /\ 1 \in Int
    BY <1>2
  <2> QED BY <1>2, <2>1, <2>2, SubSeqProperties DEF Prefix, Bytes
<1>5. Rest(data) \in Bytes /\ Len(Rest(data)) = Len(data) - Taken(data)
  <2>1. \A i \in (Taken(data) + 1)..Len(data) : data[i] \in Nat
    BY <1>1, <1>2, <1>3
  <2>2. Taken(data) + 1 \in Int /\ Len(data) \in Int
    BY <1>1, <1>2
  <2> QED BY <1>1, <1>2, <2>1, <2>2, SubSeqProperties DEF Rest, Bytes
<1>6. Prefix(data) \o Rest(data) = data
  <2>1. SubSeq(data, 1, Taken(data)) \o SubSeq(data, Taken(data) + 1, Len(data))
          = SubSeq(data, 1, Len(data))
    <3>1. 1 \in 1..(Len(data) + 1) /\ Taken(data) \in (1 - 1)..Len(data)
          /\ Len(data) \in Taken(data)..Len(data)
      BY <1>1, <1>2
    <3> QED BY <3>1, ConcatAdjacentSubSeq DEF Bytes
  <2> QED BY <2>1, SubSeqFull DEF Prefix, Rest, Bytes
<1> QED BY <1>1, <1>2, <1>4, <1>5, <1>6

LEMMA Concat ==
  ASSUME NEW s \in Bytes, NEW t \in Bytes
  PROVE  s \o t \in Bytes /\ Len(s \o t) = Len(s) + Len(t) /\ Len(s) \in Nat /\ Len(t) \in Nat
BY ConcatProperties, LenProperties DEF Bytes

LEMMA Assoc3 ==
  ASSUME NEW s \in Bytes, NEW t \in Bytes, NEW u \in Bytes
  PROVE  (s \o t) \o u = s \o (t \o u)
BY ConcatAssociative, SMTT(60) DEF Bytes

LEMMA Assoc4 ==
  \A s, t, u, v \in Bytes : (s \o (t \o u)) \o v = (s \o t) \o (u \o v)
<1> TAKE s, t, u, v \in Bytes
<1>1. (s \o t) \o u = s \o (t \o u)
  BY Assoc3, SMTT(60)
<1>2. s \o t \in Bytes
  BY Concat
<1>3. ASSUME NEW st \in Bytes
      PROVE  (st \o u) \o v = st \o (u \o v)
  BY Assoc3
<1>4. ((s \o t) \o u) \o v = (s \o t) \o (u \o v)
  BY <1>2, <1>3, Zenon
<1> QED BY <1>1, <1>4, Zenon

\* Moving a prefix of `all` to the socket keeps what is on its way.
LEMMA WriteKeepsOrder ==
  ASSUME OrderInv, NEW all \in Bytes, out' = out \o Prefix(all)
  PROVE  /\ out' \in Bytes /\ Len(out') <= SockCap
         /\ (got \o out') \o Rest(all) = (got \o out) \o all
<1>1. out \in Bytes /\ got \in Bytes
  BY DEF OrderInv
<1>2. /\ Prefix(all) \in Bytes /\ Rest(all) \in Bytes
      /\ Prefix(all) \o Rest(all) = all
      /\ Len(Prefix(all)) <= SockCap - Len(out)
  BY Split
<1>3. out' \in Bytes /\ Len(out') <= SockCap
  BY <1>1, <1>2, Concat, SizeAssumption, SMTT(60)
<1>4. (got \o (out \o Prefix(all))) \o Rest(all) = (got \o out) \o (Prefix(all) \o Rest(all))
  <2>1. \A p, r \in Bytes : (got \o (out \o p)) \o r = (got \o out) \o (p \o r)
    BY <1>1, Assoc4, Zenon
  <2> QED BY <1>2, <2>1, Zenon
<1> QED BY <1>2, <1>3, <1>4

LEMMA OrderStep ==
  ASSUME MaxLen <= SendCap, OrderInv, [Next]_vars
  PROVE  OrderInv'
<1> USE DEF OrderInv
<1>1. ASSUME NEW len \in 1..MaxLen, AppendSendData(len)
      PROVE  OrderInv'
  <2> DEFINE data == Message(len)
  <2>1. len \in Nat /\ data \in Bytes /\ Len(data) = len /\ nextByte + len \in Nat
    BY SizeAssumption DEF Message, Bytes
  <2>2. nextByte' = nextByte + len /\ UNCHANGED <<got, peer>>
    BY <1>1 DEF AppendSendData
  <2>3. CASE peer = "reset"
    <3>1. /\ UNCHANGED <<out, accepted>>
          /\ send' \in {send, send \o data}
      BY <1>1, <2>3 DEF AppendSendData, AppendToReset
    <3>2. send' \in Bytes
      BY <2>1, <3>1, Concat
    <3> QED BY <2>1, <2>2, <2>3, <3>1, <3>2 DEF SentInOrder
  <2>4. CASE peer # "reset" /\ AppendDirect(data)
    <3>1. send = <<>> /\ out' = out \o Prefix(data)
      BY <2>4 DEF AppendDirect, Direct
    <3>2. /\ Rest(data) \in Bytes /\ Len(Rest(data)) <= len
          /\ out' \in Bytes /\ Len(out') <= SockCap
          /\ (got \o out') \o Rest(data) = (got \o out) \o data
      BY <2>1, <3>1, Split, WriteKeepsOrder
    <3>3. Fits(Rest(data))
      BY <2>1, <3>1, <3>2, EmptySeq, LenProperties, SizeAssumption, SMTT(60) DEF Fits, Bytes
    <3>4. accepted' = accepted \o data /\ send' = Rest(data)
      BY <2>4, <3>1, <3>2, <3>3, ConcatEmptySeq DEF AppendDirect, Bytes
    <3>5. accepted = got \o out
      <4>1. got \o out \in Bytes
        BY Concat
      <4> QED BY <2>4, <3>1, <4>1, ConcatEmptySeq DEF SentInOrder, Bytes
    <3>6. accepted' \in Bytes
      BY <2>1, <3>4, Concat
    <3> QED BY <2>1, <2>2, <3>2, <3>4, <3>5, <3>6 DEF SentInOrder
  <2>5. CASE peer # "reset" /\ AppendQueued(data)
    <3>1. CASE ~Fits(data)
      BY <2>1, <2>2, <2>5, <3>1 DEF AppendQueued, sending, SentInOrder
    <3>2. CASE Fits(data)
      <4> DEFINE all == send \o data
      <4>1. all \in Bytes /\ accepted \o data \in Bytes /\ got \o out \in Bytes
        BY <2>1, Concat
      <4>2. /\ out' = out \o Prefix(all) /\ send' = Rest(all)
            /\ accepted' = accepted \o data
        BY <2>5, <3>2 DEF AppendQueued
      <4>3. /\ Rest(all) \in Bytes
            /\ out' \in Bytes /\ Len(out') <= SockCap
            /\ (got \o out') \o Rest(all) = (got \o out) \o all
        BY <4>1, <4>2, Split, WriteKeepsOrder
      <4>4. (got \o out) \o (send \o data) = ((got \o out) \o send) \o data
        <5>1. PICK s \in Bytes : s = got \o out
          BY <4>1
        <5>2. send \in Bytes /\ data \in Bytes
          BY <2>1
        <5>3. s \o (send \o data) = (s \o send) \o data
          BY <5>2, Assoc3, ZenonT(60)
        <5> QED BY <5>1, <5>3, Zenon
      <4> QED BY <2>1, <2>2, <2>5, <4>1, <4>2, <4>3, <4>4 DEF SentInOrder
    <3> QED BY <3>1, <3>2
  <2> QED BY <1>1, <2>3, <2>4, <2>5 DEF AppendSendData
<1>2. CASE Writable
  <2>1. UNCHANGED <<got, accepted, nextByte, peer>>
    BY <1>2 DEF Writable, bytes
  <2>2. CASE peer = "reset" /\ send # <<>>
    BY <1>2, <2>1, <2>2 DEF Writable, sending, SentInOrder
  <2>3. CASE ~(peer = "reset" /\ send # <<>>)
    <3>1. out' = out \o Prefix(send) /\ send' = Rest(send)
      BY <1>2, <2>3 DEF Writable
    <3>2. /\ Rest(send) \in Bytes
          /\ out' \in Bytes /\ Len(out') <= SockCap
          /\ (got \o out') \o Rest(send) = (got \o out) \o send
      BY <3>1, Split, WriteKeepsOrder
    <3> QED BY <2>1, <3>1, <3>2 DEF SentInOrder
  <2> QED BY <2>2, <2>3
<1>3. CASE PeerReads
  <2>1. /\ out # <<>> /\ got' = Append(got, Head(out)) /\ out' = Tail(out)
        /\ UNCHANGED <<send, accepted, nextByte, peer>>
    BY <1>3 DEF PeerReads
  <2>2. /\ Head(out) \in Nat /\ Tail(out) \in Bytes /\ Len(Tail(out)) <= Len(out)
        /\ <<Head(out)>> \in Bytes /\ got' = got \o <<Head(out)>> /\ got' \in Bytes
    BY <2>1, HeadTailProperties, LenProperties, AppendIsConcat, AppendProperties, SMTT(60) DEF Bytes
  <2>3. <<Head(out)>> \o Tail(out) = out
    BY <2>1 DEF Bytes
  <2>4. (got \o <<Head(out)>>) \o Tail(out) = got \o (<<Head(out)>> \o Tail(out))
    <3>1. got \in Bytes /\ <<Head(out)>> \in Bytes /\ Tail(out) \in Bytes
      BY <2>2
    <3> QED BY <3>1, Assoc3, ZenonT(60)
  <2>5. got' \o out' = got \o out
    BY <2>1, <2>2, <2>3, <2>4, Zenon
  <2>6. Len(out') <= SockCap
    BY <2>1, <2>2, SizeAssumption, LenProperties DEF Bytes
  <2> QED BY <2>1, <2>2, <2>5, <2>6 DEF SentInOrder
<1>4. CASE PeerResets
  BY <1>4, EmptySeq, SizeAssumption DEF PeerResets, SentInOrder, bytes, Bytes
<1>5. CASE Created \/ Readable \/ Failed \/ PeerWrites \/ PeerShutsDown \/ UNCHANGED vars
  BY <1>5 DEF Created, Readable, Failed, PeerWrites, PeerShutsDown, vars, SentInOrder,
              sending, bytes
<1>6. CASE Connects
  BY <1>6 DEF Connects, SentInOrder, sending, bytes
<1> QED BY <1>1, <1>2, <1>3, <1>4, <1>5, <1>6 DEF Next

\* With messages that fit m_send, what is accepted reaches the peer in order,
\* none lost, torn or overtaken.
THEOREM OrderSafe ==
  ASSUME MaxLen <= SendCap
  PROVE  Spec => []SentInOrder
<1>1. Init => OrderInv
  <2>1. <<>> \in Bytes /\ <<>> \o <<>> = <<>> /\ Len(<<>>) = 0
    BY EmptySeq, ConcatEmptySeq DEF Bytes
  <2> QED BY <2>1, SizeAssumption DEF Init, OrderInv, SentInOrder
<1>2. OrderInv /\ [Next]_vars => OrderInv'
  BY OrderStep
<1>3. OrderInv => SentInOrder
  BY DEF OrderInv
<1> QED BY <1>1, <1>2, <1>3, PTL DEF Spec

-----------------------------------------------------------------------------
(* What process_events and the receiving side may do.                       *)

ReasonInv ==
  /\ peer \in {"connecting", "up", "reset"} /\ eof \in BOOLEAN
  /\ recv \in 0..KeepMax /\ in \in Nat
  /\ ClosedForAReason

\* With room in m_recv and something to read, do_nonblock_recv is no error.
LEMMA GoodRead ==
  ASSUME ReasonInv, Kind = "active", ReadMax > 0, KeepMax < RecvCap, peer # "reset", in > 0
  PROVE  Good(RecvResult)
<1>1. PICK a \in Nat, b \in Nat, i \in Nat : a = RecvCap - recv /\ b = ReadMax /\ i = in /\ a > 0 /\ b > 0 /\ i > 0
  BY SizeAssumption DEF ReasonInv
<1>2. PICK m \in Nat : m = Min({a, b}) /\ m > 0
  BY <1>1, MinOfTwo
<1>3. PICK r \in Nat : r = Min({m, i}) /\ r > 0
  BY <1>1, <1>2, MinOfTwo
<1>4. Read = r /\ MaxRecv = m
  BY <1>1, <1>2, <1>3 DEF Read, MaxRecv
<1> QED BY <1>3, <1>4 DEF Good, RecvResult

LEMMA ReasonStep ==
  ASSUME ReasonInv, [Next]_vars, Kind = "active", ReadMax > 0, KeepMax < RecvCap
  PROVE  ReasonInv'
<1> USE DEF ReasonInv, ClosedForAReason
<1>1. ASSUME NEW len \in 1..MaxLen, AppendSendData(len)
      PROVE  ReasonInv'
  BY <1>1 DEF AppendSendData
<1>2. CASE Created
  BY <1>2 DEF Created
<1>3. CASE Writable
  BY <1>3 DEF Writable, Closed
<1>4. CASE Readable
  <2>1. UNCHANGED <<peer, eof>>
    BY <1>4 DEF Readable
  <2>2. recv' \in 0..KeepMax
    <3>1. CASE peer = "reset"
      <4>1. PICK k \in Nat, r \in Nat : k = KeepMax /\ r = recv + Received
        BY <3>1, SizeAssumption DEF Received
      <4>2. Min({k, r}) <= k /\ Min({k, r}) \in Nat
        BY MinOfTwo
      <4> QED BY <1>4, <4>1, <4>2 DEF Readable
    <3>2. CASE peer # "reset" /\ recv + Received \in Nat
      <4>1. PICK k \in Nat, r \in Nat : k = KeepMax /\ r = recv + Received
        BY <3>2, SizeAssumption
      <4>2. Min({k, r}) <= k /\ Min({k, r}) \in Nat
        BY MinOfTwo
      <4> QED BY <1>4, <4>1, <4>2 DEF Readable
    <3>3. peer # "reset" => Received \in Nat
      <4>1. PICK a \in Nat, b \in Nat, i \in Nat : a = RecvCap - recv /\ b = ReadMax /\ i = in
        BY SizeAssumption
      <4>2. PICK m \in Nat : m = Min({a, b})
        BY MinOfTwo
      <4>3. Min({m, i}) \in Nat
        BY MinOfTwo
      <4> QED BY <4>1, <4>2, <4>3 DEF Received, Read, MaxRecv
    <3> QED BY <3>1, <3>2, <3>3, SizeAssumption
  <2>3. in' \in Nat
    <3>1. CASE peer = "reset"
      BY <1>4, <3>1 DEF Readable, Received
    <3>2. CASE peer # "reset"
      <4>1. PICK a \in Nat, b \in Nat, i \in Nat : a = RecvCap - recv /\ b = ReadMax /\ i = in
        BY SizeAssumption
      <4>2. PICK m \in Nat : m = Min({a, b})
        BY MinOfTwo
      <4>3. Min({m, i}) \in Nat /\ Min({m, i}) <= i
        BY MinOfTwo
      <4>4. Received = Min({m, i})
        BY <3>2, <4>1, <4>2 DEF Received, Read, MaxRecv
      <4> QED BY <1>4, <4>1, <4>3, <4>4 DEF Readable
    <3> QED BY <3>1, <3>2
  <2>4. life' = "closed" => eof \/ peer = "reset"
    <3>1. CASE in > 0 /\ peer # "reset"
      BY <1>4, <3>1, GoodRead DEF Readable, Closed
    <3>2. CASE ~(in > 0 /\ peer # "reset")
      BY <1>4, <3>2 DEF Readable
    <3> QED BY <3>1, <3>2
  <2> QED BY <2>1, <2>2, <2>3, <2>4
<1>5. CASE Failed
  BY <1>5 DEF Failed, Closed
<1>6. CASE Connects \/ PeerReads \/ PeerShutsDown
  BY <1>6 DEF Connects, PeerReads, PeerShutsDown
<1>7. CASE PeerWrites
  BY <1>7, SizeAssumption DEF PeerWrites
<1>8. CASE PeerResets
  BY <1>8 DEF PeerResets
<1>9. CASE UNCHANGED vars
  BY <1>9 DEF vars
<1> QED BY <1>1, <1>2, <1>3, <1>4, <1>5, <1>6, <1>7, <1>8, <1>9 DEF Next

\* An active session that has room for what it may have to keep is closed only for
\* the end of the peer's stream or an error, whatever the sizes of reads and buffers.
THEOREM ReasonSafe ==
  ASSUME Kind = "active", ReadMax > 0, KeepMax < RecvCap
  PROVE  Spec => []ClosedForAReason
<1>1. ASSUME Init PROVE ReasonInv
  <2>1. peer \in {"connecting", "up"}
    BY <1>1 DEF Init
  <2>2. eof \in BOOLEAN /\ recv = 0 /\ in = 0 /\ life = "open"
    BY <1>1 DEF Init
  <2> QED BY <2>1, <2>2, SizeAssumption DEF ReasonInv, ClosedForAReason
<1>2. ReasonInv /\ [Next]_vars => ReasonInv'
  BY ReasonStep
<1>3. ReasonInv => ClosedForAReason
  BY DEF ReasonInv
<1> QED BY <1>1, <1>2, <1>3, PTL DEF Spec

-----------------------------------------------------------------------------
\* How many bytes a read leaves where.
LEMMA ReadBounds ==
  ASSUME recv \in 0..RecvCap, in \in 0..MaxIn
  PROVE  Received \in Nat /\ recv + Received <= RecvCap /\ Received <= in
<1>1. PICK a \in Nat, b \in Nat, i \in Nat : a = RecvCap - recv /\ b = ReadMax /\ i = in
  BY SizeAssumption
<1>2. PICK m \in Nat : m = Min({a, b}) /\ m <= a
  BY MinOfTwo
<1>3. PICK r \in Nat : r = Min({m, i}) /\ r <= m /\ r <= i
  BY MinOfTwo
<1>4. Received \in {0, r}
  BY <1>1, <1>2, <1>3 DEF Received, Read, MaxRecv
<1> QED BY <1>1, <1>2, <1>3, <1>4, SizeAssumption

LEMMA KeptBounds ==
  ASSUME NEW total \in Nat, NEW kept \in 0..Min({KeepMax, total})
  PROVE  kept \in 0..total
<1>1. PICK k \in Nat : k = KeepMax
  BY SizeAssumption
<1>2. Min({k, total}) <= total /\ Min({k, total}) \in Nat
  BY MinOfTwo
<1> QED BY <1>1, <1>2

LEMMA TypeStep ==
  ASSUME MaxLen <= SendCap, OrderInv, TypeOK, [Next]_vars
  PROVE  TypeOK'
<1> USE DEF TypeOK
<1>0. Len(out') <= SockCap
  <2>1. OrderInv'
    BY OrderStep
  <2> QED BY <2>1 DEF OrderInv
<1>1. ASSUME NEW len \in 1..MaxLen, AppendSendData(len)
      PROVE  TypeOK'
  <2> DEFINE data == Message(len)
  <2>1. len \in Nat /\ data \in Bytes /\ Len(data) = len
    BY SizeAssumption DEF OrderInv, Message, Bytes
  <2>2. UNCHANGED <<peer, eof, life, watchOut, established, recv, in, handler>>
    BY <1>1 DEF AppendSendData
  <2>3. writable' \in BOOLEAN
    BY <1>1 DEF AppendSendData, AppendToReset, AppendDirect, AppendQueued, Unblocked, sending
  <2>4. /\ send \in Bytes /\ Len(send) \in Nat
        /\ Len(send \o data) = Len(send) + len /\ send \o data \in Bytes
    <3>1. send \in Bytes
      BY DEF OrderInv
    <3> HIDE DEF data
    <3> QED BY <2>1, <3>1, Concat
  <2>5. Len(send') <= SendCap
    <3>1. CASE send' = send
      BY <3>1
    <3>2. CASE send' = send \o data /\ Fits(data)
      BY <2>1, <2>4, <3>2 DEF Fits
    <3>3. CASE send' = send \o Rest(data) /\ Fits(Rest(data))
      <4>1. Rest(data) \in Bytes
        BY <2>1, Split
      <4>2. Len(send \o Rest(data)) = Len(send) + Len(Rest(data))
        BY <2>4, <4>1, Concat
      <4> QED BY <3>3, <4>2 DEF Fits
    <3>4. CASE send' = Rest(send \o data) /\ Fits(data)
      <4>1. Len(Rest(send \o data)) <= Len(send \o data) /\ Rest(send \o data) \in Bytes
        BY <2>4, Split
      <4>2. Len(Rest(send \o data)) \in Nat
        BY <4>1, LenProperties DEF Bytes
      <4> QED BY <2>1, <2>4, <3>4, <4>1, <4>2, SizeAssumption, SMTT(60) DEF Fits
    <3> QED BY <1>1, <3>1, <3>2, <3>3, <3>4
         DEF AppendSendData, AppendToReset, AppendDirect, AppendQueued, sending
  <2> QED BY <1>0, <2>2, <2>3, <2>5
<1>2. CASE Created
  BY <1>2 DEF Created
<1>3. CASE Writable
  <2>1. UNCHANGED <<peer, eof, established, recv, in>>
    BY <1>3 DEF Writable
  <2>2. /\ writable' \in BOOLEAN /\ watchOut' \in BOOLEAN /\ handler' = "none"
        /\ life' \in {life, "closed"} /\ send' \in {send, Rest(send)}
    BY <1>3 DEF Writable, Closed, sending, Unblocked, StillOut
  <2>3. send \in Bytes /\ Rest(send) \in Bytes /\ Len(Rest(send)) <= Len(send)
    BY Split DEF OrderInv
  <2>4. Len(Rest(send)) \in Nat /\ Len(send) \in Nat /\ SendCap \in Nat
    BY <2>3, LenProperties, SizeAssumption DEF Bytes
  <2>5. Len(send') <= SendCap
    BY <2>2, <2>3, <2>4
  <2> QED BY <1>0, <2>1, <2>2, <2>5
<1>4. CASE Readable
  <2>1. UNCHANGED <<peer, eof, established, writable, send, out>>
    BY <1>4 DEF Readable, sending
  <2>2. /\ watchOut' \in {watchOut, FALSE} /\ handler' \in {handler, "none"}
        /\ life' \in {life, "closed", "rejected"}
    BY <1>4 DEF Readable, Closed
  <2>3. Received \in Nat /\ recv + Received <= RecvCap /\ Received <= in
    BY ReadBounds
  <2>4. recv' \in 0..RecvCap
    <3>1. PICK total \in Nat : total = recv + Received
      BY <2>3
    <3>2. recv' \in 0..total
      BY <1>4, <3>1, KeptBounds DEF Readable
    <3> QED BY <2>3, <3>1, <3>2, SizeAssumption
  <2>5. in' \in 0..MaxIn
    BY <1>4, <2>3, SizeAssumption, SMTT(60) DEF Readable
  <2> QED BY <2>1, <2>2, <2>4, <2>5
<1>5. CASE Failed
  BY <1>5 DEF Failed, Closed, sending
<1>6. CASE Connects \/ PeerShutsDown
  BY <1>6 DEF Connects, PeerShutsDown, sending
<1>7. CASE PeerWrites
  BY <1>7, SizeAssumption DEF PeerWrites, sending
<1>8. CASE PeerReads \/ PeerResets
  BY <1>0, <1>8, SizeAssumption, SMTT(60) DEF PeerReads, PeerResets
<1>9. CASE UNCHANGED vars
  BY <1>9 DEF vars, sending
<1> QED BY <1>1, <1>2, <1>3, <1>4, <1>5, <1>6, <1>7, <1>8, <1>9 DEF Next

\* The buffers of a session never hold more than they were made for, when every
\* message fits m_send.
THEOREM TypeCorrect ==
  ASSUME MaxLen <= SendCap
  PROVE  Spec => []TypeOK
<1>1. ASSUME Init PROVE OrderInv /\ TypeOK
  <2>1. <<>> \in Bytes /\ <<>> \o <<>> = <<>> /\ Len(<<>>) = 0
    BY EmptySeq, ConcatEmptySeq DEF Bytes
  <2>2. OrderInv
    BY <1>1, <2>1, SizeAssumption DEF Init, OrderInv, SentInOrder
  <2>3. peer \in {"connecting", "up"} /\ writable \in BOOLEAN /\ watchOut \in BOOLEAN
    BY <1>1 DEF Init, AsksOut
  <2>4. /\ eof = FALSE /\ established = FALSE /\ life = "open" /\ handler = "none"
        /\ recv = 0 /\ in = 0 /\ send = <<>> /\ out = <<>>
    BY <1>1 DEF Init
  <2>5. TypeOK
    <3>1. Len(send) <= SendCap /\ Len(out) <= SockCap /\ recv \in 0..RecvCap /\ in \in 0..MaxIn
      BY <2>1, <2>4, SizeAssumption
    <3>2. peer \in {"connecting", "up", "reset"} /\ life \in {"open", "closed", "rejected"}
          /\ {eof, watchOut, established, writable} \subseteq BOOLEAN
      BY <2>3, <2>4
    <3> QED BY <2>4, <3>1, <3>2 DEF TypeOK
  <2> QED BY <2>2, <2>5
<1>2. OrderInv /\ TypeOK /\ [Next]_vars => OrderInv' /\ TypeOK'
  BY OrderStep, TypeStep
<1> QED BY <1>1, <1>2, PTL DEF Spec
=============================================================================
