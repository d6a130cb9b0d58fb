--------------------------- MODULE FramingProofs ---------------------------
(***************************************************************************)
(* Theorems about Framing, for every stream and every size of buffer, of   *)
(* header, of read and of fragment.                                        *)
(***************************************************************************)
EXTENDS Framing, SequenceTheorems, TLAPS

IsBuffer(b) == b \in [data : Seq(Nat), pos : Nat] /\ b.pos <= Len(b.data)

\* append adds the bytes behind those that wait and moves nothing.
LEMMA AppendedBuffer ==
  ASSUME NEW data \in Seq(Nat), NEW pos \in 0..Len(data), NEW more \in Seq(Nat),
         NEW b, b = [data |-> data, pos |-> pos]
  PROVE  /\ Appended(b, more) = [data |-> data \o more, pos |-> pos]
         /\ IsBuffer(Appended(b, more))
         /\ DataLen(Appended(b, more)) = DataLen(b) + Len(more)
         /\ \A i \in 1..Len(data) : (data \o more)[i] = data[i]
         /\ \A i \in 1..Len(more) : (data \o more)[Len(data) + i] = more[i]
<1>1. Appended(b, more) = [data |-> data \o more, pos |-> pos]
  BY DEF Appended
<1>2. /\ data \o more \in Seq(Nat) /\ Len(data \o more) = Len(data) + Len(more)
      /\ \A i \in 1..Len(data) : (data \o more)[i] = data[i]
      /\ \A i \in 1..Len(more) : (data \o more)[Len(data) + i] = more[i]
  OBVIOUS
<1>3. DataLen(b) = Len(data) - pos
  BY DEF DataLen
<1>4. IsBuffer([data |-> data \o more, pos |-> pos])
  BY <1>2 DEF IsBuffer
<1>5. DataLen([data |-> data \o more, pos |-> pos]) = DataLen(b) + Len(more)
  BY <1>2, <1>3 DEF DataLen
<1> QED BY <1>1, <1>2, <1>4, <1>5

\* consume takes the first len of the bytes that wait and leaves the others,
\* and what it leaves consumed in the string is less than a quarter of the capacity.
LEMMA ConsumedBuffer ==
  ASSUME NEW data \in Seq(Nat), NEW pos \in 0..Len(data), NEW len \in 0..(Len(data) - pos),
         NEW b, b = [data |-> data, pos |-> pos]
  PROVE  /\ IsBuffer(Consumed(b, len))
         /\ DataLen(Consumed(b, len)) = DataLen(b) - len
         /\ Consumed(b, len).pos = 0 \/ Consumed(b, len).pos < Capacity \div 4
         /\ \A i \in 1..(DataLen(b) - len) :
              Consumed(b, len).data[Consumed(b, len).pos + i] = data[pos + len + i]
<1> DEFINE rest == SubSeq(data, pos + len + 1, Len(data))
<1>1. DataLen(b) = Len(data) - pos /\ Capacity \div 4 \in Nat
  BY CapacityAssumption DEF DataLen
<1>2. CASE pos + len = Len(data)
  <2>1. Consumed(b, len) = EmptyBuffer
    BY <1>2 DEF Consumed
  <2>2. IsBuffer(EmptyBuffer) /\ DataLen(EmptyBuffer) = 0 /\ EmptyBuffer.pos = 0
    BY DEF EmptyBuffer, IsBuffer, DataLen
  <2> QED BY <1>1, <1>2, <2>1, <2>2
<1>3. CASE pos + len < Len(data) /\ pos + len >= Capacity \div 4
  <2>1. Consumed(b, len) = [data |-> rest, pos |-> 0]
    BY <1>3 DEF Consumed
  <2>2. /\ rest \in Seq(Nat) /\ Len(rest) = Len(data) - pos - len
        /\ \A i \in 1..(Len(data) - pos - len) : rest[i] = data[pos + len + i]
    <3>1. PICK m \in Nat : m = pos + len + 1
      OBVIOUS
    <3>2. m <= Len(data) /\ \A i \in m..Len(data) : data[i] \in Nat
      BY <1>3, <3>1
    <3>3. /\ SubSeq(data, m, Len(data)) \in Seq(Nat)
          /\ Len(SubSeq(data, m, Len(data))) = Len(data) - m + 1
          /\ \A i \in 1..(Len(data) - m + 1) : SubSeq(data, m, Len(data))[i] = data[m + i - 1]
      BY <3>2, SubSeqProperties
    <3>4. \A i \in 1..(Len(data) - m + 1) : m + i - 1 = pos + len + i
      BY <3>1
    <3>5. Len(data) - m + 1 = Len(data) - pos - len
      BY <3>1
    <3>6. rest = SubSeq(data, m, Len(data))
      BY <3>1
    <3> HIDE DEF rest
    <3> QED BY <3>3, <3>4, <3>5, <3>6
  <2> HIDE DEF rest
  <2>3. IsBuffer([data |-> rest, pos |-> 0]) /\ DataLen([data |-> rest, pos |-> 0]) = Len(rest)
    BY <2>2 DEF IsBuffer, DataLen
  <2>4. \A i \in 1..(Len(data) - pos - len) : [data |-> rest, pos |-> 0].data[[data |-> rest, pos |-> 0].pos + i] = data[pos + len + i]
    BY <2>2
  <2>5. DataLen(b) - len = Len(data) - pos - len /\ [data |-> rest, pos |-> 0].pos = 0
    BY <1>1
  <2> QED BY <2>1, <2>2, <2>3, <2>4, <2>5
<1>4. CASE pos + len < Len(data) /\ pos + len < Capacity \div 4
  <2>1. Consumed(b, len) = [data |-> data, pos |-> pos + len]
    BY <1>1, <1>4 DEF Consumed
  <2>2. /\ IsBuffer([data |-> data, pos |-> pos + len])
        /\ DataLen([data |-> data, pos |-> pos + len]) = Len(data) - pos - len
    BY <1>4 DEF IsBuffer, DataLen
  <2> QED BY <1>1, <1>4, <2>1, <2>2
<1>5. pos + len = Len(data) \/ pos + len < Len(data)
  OBVIOUS
<1> QED BY <1>1, <1>2, <1>3, <1>4, <1>5, SMTT(60)

\* Max and Min of two numbers.
LEMMA ExtremeOfTwo ==
  ASSUME NEW a \in Int, NEW b \in Int
  PROVE  /\ Max({a, b}) = IF a >= b THEN a ELSE b
         /\ Min({a, b}) = IF a <= b THEN a ELSE b
BY DEF Max, Min

\* Between two handlers of a connected session whose application has taken
\* everything, and after a read that found no room, the head of m_recv is not
\* the whole of a message.
HeadIncomplete == DataLen(buf) < HeaderLen \/ (done + 1 \in Messages /\ Size(done + 1) > DataLen(buf))

Stalled ==
  kind = "active" /\ life = "open" /\ ~refused =>
    /\ phase = "idle" => HeadIncomplete
    /\ phase = "process" /\ closing => done + 1 \in Messages /\ Size(done + 1) > Capacity

\* process runs only for a session that is open.
Alive == phase = "process" => life = "open"

IInv == TypeOK /\ InStep /\ MemoryBounded /\ Stalled /\ Alive

\* Every message begins behind the one before it.
LEMMA StartsIncrease ==
  ASSUME TypeOK
  PROVE  /\ starts \in Seq(Nat) /\ Len(starts) \in Nat \ {0} /\ starts[1] = 0
         /\ \A j, k \in 1..Len(starts) : j < k => starts[j] < starts[k]
BY StreamAssumption DEF TypeOK

\* As many messages were consumed as there are.
LEMMA DoneInStarts ==
  ASSUME TypeOK, InStep
  PROVE  /\ done \in Nat /\ done + 1 \in 1..Len(starts) /\ starts[done + 1] \in Nat
         /\ done + 1 \in Messages => done + 2 \in 1..Len(starts)
         /\ done + 1 < Len(starts) => done + 1 \in Messages
<1>1. done \in Nat
  BY StartsIncrease DEF TypeOK, Messages
<1>2. done + 1 \in 1..Len(starts)
  BY <1>1, StartsIncrease DEF InStep
<1>3. starts[done + 1] \in Nat
  BY <1>2, StartsIncrease
<1>4. done + 1 \in Messages => done + 2 \in 1..Len(starts)
  BY <1>1, StartsIncrease DEF Messages
<1>5. done + 1 < Len(starts) => done + 1 \in Messages
  BY <1>1, StartsIncrease DEF Messages
<1> QED BY <1>1, <1>2, <1>3, <1>4, <1>5

\* What has arrived was sent, and is what was consumed and what waits.
LEMMA ArrivedInSent ==
  ASSUME TypeOK, InStep
  PROVE  /\ arrived \in Nat /\ arrived <= Sent /\ Sent \in Nat
         /\ DataLen(buf) \in Nat /\ DataLen(buf) = arrived - starts[done + 1]
<1>1. Sent \in Nat
  BY StartsIncrease DEF Sent
<1>2. arrived \in Nat /\ arrived <= Sent
  BY <1>1 DEF TypeOK
<1>3. DataLen(buf) = arrived - starts[done + 1]
  BY DEF InStep
<1>4. DataLen(buf) \in Nat
  BY DEF TypeOK, DataLen
<1> QED BY <1>1, <1>2, <1>3, <1>4

\* m_recv as a string and a position.
LEMMA BufferParts ==
  ASSUME TypeOK, InStep
  PROVE  \E data \in Seq(Nat) : \E pos \in 0..Len(data) :
           /\ buf = [data |-> data, pos |-> pos]
           /\ DataLen(buf) = Len(data) - pos
           /\ \A i \in 1..(Len(data) - pos) : data[pos + i] = starts[done + 1] + i - 1
<1>1. /\ buf.data \in Seq(Nat) /\ buf.pos \in 0..Len(buf.data)
      /\ buf = [data |-> buf.data, pos |-> buf.pos]
  BY DEF TypeOK
<1>2. DataLen(buf) = Len(buf.data) - buf.pos
  BY DEF DataLen
<1>3. \A i \in 1..(Len(buf.data) - buf.pos) : buf.data[buf.pos + i] = starts[done + 1] + i - 1
  BY <1>2 DEF InStep
<1> QED BY <1>1, <1>2, <1>3

\* A header that process reads is that of the next message.
LEMMA HeaderIsNext ==
  ASSUME TypeOK, InStep, HasHeader
  PROVE  /\ done + 1 \in Messages
         /\ Announced = {Size(done + 1)}
         /\ Size(done + 1) \in Nat \ {0}
         /\ starts[done + 2] = starts[done + 1] + Size(done + 1)
<1>1. DataLen(buf) \in Nat \ {0}
  BY ArrivedInSent, LengthAssumption DEF HasHeader
<1>2. starts[done + 1] < Sent
  BY <1>1, ArrivedInSent, DoneInStarts
<1>3. done + 1 \in Messages
  BY <1>2, DoneInStarts, StartsIncrease DEF Sent
<1>4. buf.data[buf.pos + 1] = starts[done + 1]
  <2>1. PICK data \in Seq(Nat) : \E pos \in 0..Len(data) :
           /\ buf = [data |-> data, pos |-> pos]
           /\ DataLen(buf) = Len(data) - pos
           /\ \A i \in 1..(Len(data) - pos) : data[pos + i] = starts[done + 1] + i - 1
    BY BufferParts
  <2>2. PICK pos \in 0..Len(data) :
           /\ buf = [data |-> data, pos |-> pos]
           /\ DataLen(buf) = Len(data) - pos
           /\ \A i \in 1..(Len(data) - pos) : data[pos + i] = starts[done + 1] + i - 1
    BY <2>1
  <2>3. data[pos + 1] = starts[done + 1] + 1 - 1
    BY <1>1, <2>2
  <2>4. data[pos + 1] = starts[done + 1]
    BY <2>3, DoneInStarts
  <2> QED BY <2>2, <2>4
<1>5. \A l \in Messages : starts[l] = starts[done + 1] => l = done + 1
  <2>1. ASSUME NEW l \in Messages, starts[l] = starts[done + 1], l # done + 1
        PROVE  FALSE
    <3>1. l \in 1..Len(starts)
      BY StartsIncrease DEF Messages
    <3>2. l < done + 1 \/ done + 1 < l
      BY <2>1, <3>1, DoneInStarts
    <3>3. starts[l] < starts[done + 1] \/ starts[done + 1] < starts[l]
      BY <3>1, <3>2, DoneInStarts, StartsIncrease
    <3> QED BY <2>1, <3>1, <3>3, DoneInStarts, StartsIncrease
  <2> QED BY <2>1
<1>6. Announced = {Size(done + 1)}
  BY <1>3, <1>4, <1>5 DEF Announced
<1>7. done + 2 \in 1..Len(starts) /\ done + 1 < done + 2 /\ done + 1 + 1 = done + 2
  BY <1>3, DoneInStarts
<1>8. starts[done + 2] \in Nat /\ starts[done + 1] < starts[done + 2]
  BY <1>7, DoneInStarts, StartsIncrease, SMTT(60)
<1>9. Size(done + 1) = starts[done + 2] - starts[done + 1]
  BY <1>7 DEF Size
<1> QED BY <1>3, <1>6, <1>8, <1>9, DoneInStarts

\* The part of the invariant that is about m_recv.
BufferInv == IsBuffer(buf) /\ InStep /\ MemoryBounded

\* Bytes that fit keep m_recv in step.
LEMMA ArriveKeeps ==
  ASSUME TypeOK, InStep, MemoryBounded,
         NEW n \in Nat, Arrive(n), DataLen(buf) + n <= Capacity, arrived + n <= Sent,
         UNCHANGED <<static, done>>
  PROVE  BufferInv' /\ arrived' \in 0..Sent
<1> DEFINE bytes == [i \in 1..n |-> arrived + i - 1]
<1>1. arrived' = arrived + n /\ arrived' \in 0..Sent
  BY ArrivedInSent DEF Arrive
<1>2. bytes \in Seq(Nat) /\ Len(bytes) = n /\ \A i \in 1..n : bytes[i] = arrived + i - 1
  BY ArrivedInSent
<1>3. buf' = Appended(buf, bytes)
  BY DEF Arrive
<1> HIDE DEF bytes
<1>4. PICK data \in Seq(Nat) : \E pos \in 0..Len(data) :
         /\ buf = [data |-> data, pos |-> pos]
         /\ DataLen(buf) = Len(data) - pos
         /\ \A i \in 1..(Len(data) - pos) : data[pos + i] = starts[done + 1] + i - 1
  BY BufferParts
<1>5. PICK pos \in 0..Len(data) :
         /\ buf = [data |-> data, pos |-> pos]
         /\ DataLen(buf) = Len(data) - pos
         /\ \A i \in 1..(Len(data) - pos) : data[pos + i] = starts[done + 1] + i - 1
  BY <1>4
<1>6. /\ buf' = [data |-> data \o bytes, pos |-> pos]
      /\ IsBuffer(buf') /\ DataLen(buf)' = DataLen(buf) + n
      /\ \A i \in 1..Len(data) : (data \o bytes)[i] = data[i]
      /\ \A i \in 1..n : (data \o bytes)[Len(data) + i] = bytes[i]
  <2>1. /\ Appended(buf, bytes) = [data |-> data \o bytes, pos |-> pos]
        /\ IsBuffer(Appended(buf, bytes))
        /\ DataLen(Appended(buf, bytes)) = DataLen(buf) + Len(bytes)
        /\ \A i \in 1..Len(data) : (data \o bytes)[i] = data[i]
        /\ \A i \in 1..Len(bytes) : (data \o bytes)[Len(data) + i] = bytes[i]
    <3>1. bytes \in Seq(Nat) /\ data \in Seq(Nat) /\ pos \in 0..Len(data) /\ buf = [data |-> data, pos |-> pos]
      BY <1>2, <1>5
    <3>2. \A b : b = [data |-> data, pos |-> pos] =>
             /\ Appended(b, bytes) = [data |-> data \o bytes, pos |-> pos]
             /\ IsBuffer(Appended(b, bytes))
             /\ DataLen(Appended(b, bytes)) = DataLen(b) + Len(bytes)
             /\ \A i \in 1..Len(data) : (data \o bytes)[i] = data[i]
             /\ \A i \in 1..Len(bytes) : (data \o bytes)[Len(data) + i] = bytes[i]
      BY <3>1, AppendedBuffer
    <3> QED BY <3>1, <3>2
  <2>2. DataLen(buf)' = DataLen(buf')
    BY DEF DataLen
  <2> QED BY <1>2, <1>3, <2>1, <2>2
<1>7. \A i \in 1..(DataLen(buf) + n) : (data \o bytes)[pos + i] = starts[done + 1] + i - 1
  <2>1. PICK d \in Nat : d = DataLen(buf)
    BY ArrivedInSent
  <2>2. PICK first \in Nat : first = starts[done + 1]
    BY DoneInStarts
  <2>3. arrived = first + d
    BY <2>1, <2>2, ArrivedInSent
  <2>4. \A i \in 1..d : (data \o bytes)[pos + i] = first + i - 1
    <3>1. \A i \in 1..d : (data \o bytes)[pos + i] = data[pos + i]
      <4>1. \A i \in 1..d : pos + i \in 1..Len(data)
        BY <1>5, <2>1
      <4> QED BY <1>6, <4>1
    <3>2. \A i \in 1..d : data[pos + i] = first + i - 1
      BY <1>5, <2>1, <2>2
    <3> QED BY <3>1, <3>2
  <2>5. \A k \in 1..n : (data \o bytes)[pos + (d + k)] = first + (d + k) - 1
    <3>1. \A k \in 1..n : (data \o bytes)[pos + (d + k)] = bytes[k]
      <4>1. \A k \in 1..n : pos + (d + k) = Len(data) + k
        BY <1>5, <2>1
      <4> QED BY <1>6, <4>1
    <3>2. \A k \in 1..n : bytes[k] = first + (d + k) - 1
      BY <1>2, <2>3
    <3> QED BY <3>1, <3>2
  <2>6. ASSUME NEW i \in 1..(d + n)
        PROVE  (data \o bytes)[pos + i] = first + i - 1
    <3>1. i \in 1..d \/ (i - d \in 1..n /\ d + (i - d) = i)
      OBVIOUS
    <3>2. CASE i \in 1..d
      BY <2>4, <3>2
    <3>3. CASE i - d \in 1..n /\ d + (i - d) = i
      <4>1. PICK k \in 1..n : i = d + k
        BY <3>3
      <4> QED BY <2>5, <4>1
    <3> QED BY <3>1, <3>2, <3>3
  <2> QED BY <2>1, <2>2, <2>6
<1>8. done' = done /\ starts' = starts
  BY DEF static
<1>9. InStep'
  <2>1. DataLen(buf)' = arrived' - starts[done + 1]
    BY <1>1, <1>6, ArrivedInSent, DoneInStarts, SMTT(60)
  <2>2. buf'.data = data \o bytes /\ buf'.pos = pos
    BY <1>6
  <2>3. done + 1 <= Len(starts)
    BY DoneInStarts, StartsIncrease
  <2> QED BY <1>6, <1>7, <1>8, <2>1, <2>2, <2>3 DEF InStep
<1>10. MemoryBounded'
  <2>1. DataLen(buf)' \in 0..Capacity
    BY <1>6, ArrivedInSent, CapacityAssumption
  <2>2. buf'.pos = buf.pos
    BY <1>5, <1>6
  <2> QED BY <2>1, <2>2 DEF MemoryBounded
<1>11. IsBuffer(buf')
  BY <1>6
<1> QED BY <1>1, <1>9, <1>10, <1>11 DEF BufferInv, IsBuffer

\* Consuming the message at the head keeps m_recv in step.
LEMMA TakeKeeps ==
  ASSUME TypeOK, InStep, MemoryBounded, HasHeader,
         Size(done + 1) <= DataLen(buf), buf' = Consumed(buf, Size(done + 1)),
         done' = done + 1, UNCHANGED <<static, arrived>>
  PROVE  BufferInv'
<1> DEFINE len == Size(done + 1)
<1>1. len \in Nat \ {0} /\ done + 1 \in Messages /\ starts[done + 2] = starts[done + 1] + len
  BY HeaderIsNext
<1>2. len <= DataLen(buf) /\ buf' = Consumed(buf, len)
  OBVIOUS
<1> HIDE DEF len
<1>3. PICK data \in Seq(Nat) : \E pos \in 0..Len(data) :
         /\ buf = [data |-> data, pos |-> pos]
         /\ DataLen(buf) = Len(data) - pos
         /\ \A i \in 1..(Len(data) - pos) : data[pos + i] = starts[done + 1] + i - 1
  BY BufferParts
<1>4. PICK pos \in 0..Len(data) :
         /\ buf = [data |-> data, pos |-> pos]
         /\ DataLen(buf) = Len(data) - pos
         /\ \A i \in 1..(Len(data) - pos) : data[pos + i] = starts[done + 1] + i - 1
  BY <1>3
<1>5. len \in 0..(Len(data) - pos)
  BY <1>1, <1>2, <1>4
<1>6. /\ IsBuffer(buf') /\ DataLen(buf)' = DataLen(buf) - len
      /\ buf'.pos = 0 \/ buf'.pos < Capacity \div 4
      /\ \A i \in 1..(DataLen(buf) - len) : buf'.data[buf'.pos + i] = data[pos + len + i]
  <2>1. /\ IsBuffer(Consumed(buf, len))
        /\ DataLen(Consumed(buf, len)) = DataLen(buf) - len
        /\ Consumed(buf, len).pos = 0 \/ Consumed(buf, len).pos < Capacity \div 4
        /\ \A i \in 1..(DataLen(buf) - len) :
             Consumed(buf, len).data[Consumed(buf, len).pos + i] = data[pos + len + i]
    <3>1. data \in Seq(Nat) /\ pos \in 0..Len(data) /\ buf = [data |-> data, pos |-> pos]
      BY <1>4
    <3> QED BY <1>5, <3>1, ConsumedBuffer, SMTT(60)
  <2>2. DataLen(buf)' = DataLen(buf')
    BY DEF DataLen
  <2> QED BY <1>2, <2>1, <2>2
<1>7. starts' = starts /\ arrived' = arrived /\ done' + 1 = done + 2
  BY DoneInStarts DEF static
<1>8. InStep'
  <2>1. done' + 1 <= Len(starts')
    BY <1>1, <1>7, DoneInStarts, StartsIncrease
  <2>2. DataLen(buf)' = arrived' - starts'[done' + 1]
    <3>1. starts'[done' + 1] = starts[done + 1] + len
      BY <1>1, <1>7
    <3>2. DataLen(buf) - len = arrived - (starts[done + 1] + len)
      BY <1>1, ArrivedInSent, DoneInStarts, SMTT(60)
    <3> QED BY <1>6, <1>7, <3>1, <3>2
  <2>3. ASSUME NEW i \in 1..(DataLen(buf) - len)
        PROVE  buf'.data[buf'.pos + i] = starts'[done' + 1] + i - 1
    <3>1. buf'.data[buf'.pos + i] = data[pos + len + i]
      BY <1>6
    <3>2. len + i \in 1..(Len(data) - pos) /\ pos + (len + i) = pos + len + i
      BY <1>4, <1>5
    <3>3. data[pos + len + i] = starts[done + 1] + (len + i) - 1
      BY <1>4, <3>2
    <3>4. starts[done + 1] + (len + i) - 1 = starts[done + 2] + i - 1
      BY <1>1, <1>5, DoneInStarts, SMTT(60)
    <3> QED BY <1>7, <3>1, <3>3, <3>4
  <2> QED BY <1>6, <2>1, <2>2, <2>3 DEF InStep
<1>9. MemoryBounded'
  <2>1. DataLen(buf)' \in 0..Capacity
    BY <1>1, <1>2, <1>6, ArrivedInSent, CapacityAssumption DEF MemoryBounded
  <2> QED BY <1>6, <2>1 DEF MemoryBounded
<1> QED BY <1>6, <1>8, <1>9 DEF BufferInv, IsBuffer

\* What one iteration of process finds, in terms of the next message.
LEMMA Iteration ==
  ASSUME TypeOK, InStep
  PROVE  /\ Wait => HeadIncomplete
         /\ Malformed => done + 1 \in Messages /\ Size(done + 1) < HeaderLen
         /\ (Take \/ Settle \/ Fail) => /\ HasHeader /\ done + 1 \in Messages
                                        /\ Size(done + 1) <= DataLen(buf)
                                        /\ given' = Max({given, done + 1})
         /\ Take => buf' = Consumed(buf, Size(done + 1))
<1>1. Wait => HeadIncomplete
  <2>1. CASE HasHeader /\ \E size \in Announced : ~Whole(size)
    BY <2>1, HeaderIsNext, ArrivedInSent DEF Whole, HeadIncomplete
  <2>2. CASE DataLen(buf) < HeaderLen
    BY <2>2 DEF HeadIncomplete
  <2> QED BY <2>1, <2>2 DEF Wait
<1>2. Malformed => done + 1 \in Messages /\ Size(done + 1) < HeaderLen
  BY HeaderIsNext, LengthAssumption DEF Malformed, WellFormed
<1>3. ASSUME Take \/ Settle \/ Fail
      PROVE  /\ HasHeader /\ done + 1 \in Messages /\ Size(done + 1) <= DataLen(buf)
             /\ given' = Max({given, done + 1})
  <2>1. HasHeader /\ \E size \in Announced : Give(size)
    BY <1>3 DEF Take, Settle, Fail
  <2> QED BY <2>1, HeaderIsNext DEF Give, Whole
<1>4. Take => buf' = Consumed(buf, Size(done + 1))
  BY <1>3, HeaderIsNext DEF Take
<1> QED BY <1>1, <1>2, <1>3, <1>4

\* The number of a message that is given.
LEMMA GivenInMessages ==
  ASSUME TypeOK, InStep, done + 1 \in Messages
  PROVE  /\ Max({given, done + 1}) \in {0} \cup Messages
         /\ Max({given, done + 1}) \in {given, done + 1}
<1>1. given \in Nat /\ done + 1 \in Nat
  BY StartsIncrease, DoneInStarts DEF TypeOK, Messages
<1>2. Max({given, done + 1}) = IF given >= done + 1 THEN given ELSE done + 1
  BY <1>1, ExtremeOfTwo
<1> QED BY <1>2 DEF TypeOK

LEMMA IInvStep ==
  ASSUME IInv, [Next]_vars
  PROVE  IInv'
<1> USE DEF IInv
<1>1. ASSUME NEW n \in Nat, UNCHANGED <<static, life, done, given, refused>>, Arrive(n),
             DataLen(buf) + n <= Capacity, arrived + n <= Sent,
             phase' \in {"idle", "process"}, closing' \in BOOLEAN
      PROVE  TypeOK' /\ InStep' /\ MemoryBounded'
  BY <1>1, ArriveKeeps DEF BufferInv, IsBuffer, TypeOK, static, Messages, Sent
<1>2. ASSUME NEW n \in 1..ReadMax, Read(n)
      PROVE  IInv'
  <2>1. n \in Nat /\ UNCHANGED <<static, life, done, given, refused>> /\ Arrive(n) /\ kind # "udp" /\ phase' = "process"
        /\ closing' = (kind = "passive" /\ n = Asked) /\ closing' \in BOOLEAN
        /\ life = "open"
    BY <1>2, LengthAssumption DEF Read, Ready
  <2>2. n <= UnusedLen(buf) /\ n <= Sent - arrived
    <3>1. UnusedLen(buf) \in Int /\ Sent - arrived \in Int /\ ReadMax \in Int
      BY ArrivedInSent, CapacityAssumption, LengthAssumption DEF UnusedLen
    <3>2. Asked \in Int /\ Asked <= UnusedLen(buf)
      <4>1. Min({UnusedLen(buf), ReadMax}) = IF UnusedLen(buf) <= ReadMax THEN UnusedLen(buf) ELSE ReadMax
        BY <3>1, ExtremeOfTwo
      <4> QED BY <3>1, <4>1 DEF Asked
    <3>3. n <= Min({Asked, Sent - arrived})
      BY <1>2 DEF Read
    <3>4. Min({Asked, Sent - arrived}) = IF Asked <= Sent - arrived THEN Asked ELSE Sent - arrived
      BY <3>1, <3>2, ExtremeOfTwo
    <3> QED BY <2>1, <3>1, <3>2, <3>3, <3>4
  <2>3. DataLen(buf) + n <= Capacity /\ arrived + n <= Sent
    BY <2>1, <2>2, ArrivedInSent, CapacityAssumption DEF UnusedLen
  <2>4. TypeOK' /\ InStep' /\ MemoryBounded'
    BY <1>1, <2>1, <2>3
  <2>5. Stalled' /\ Alive'
    BY <2>1 DEF Stalled, Alive, static
  <2> QED BY <2>4, <2>5
<1>3. ASSUME NEW n \in 1..Mss, Fragment(n)
      PROVE  IInv'
  <2>1. n \in Nat /\ UNCHANGED <<static, life, done, given, refused>> /\ Arrive(n) /\ kind = "udp"
        /\ phase' \in {"idle", "process"} /\ closing' \in BOOLEAN /\ life = "open"
    <3>1. n \in Nat
      BY LengthAssumption
    <3>2. phase' \in {"idle", "process"}
      BY <1>3 DEF Fragment
    <3> QED BY <1>3, <3>1, <3>2 DEF Fragment, Ready
  <2>2. DataLen(buf) + n <= Capacity
    BY <1>3 DEF Fragment, FitsIn
  <2>3. arrived + n <= Sent
    <3>1. PICK k \in Messages : arrived + n <= starts[k + 1]
      BY <1>3 DEF Fragment
    <3>2. k + 1 \in 1..Len(starts) /\ k + 1 <= Len(starts) /\ starts[k + 1] \in Nat
      BY StartsIncrease DEF Messages
    <3>3. starts[k + 1] <= Sent
      <4>1. CASE k + 1 = Len(starts)
        BY <3>2, <4>1 DEF Sent
      <4>2. CASE k + 1 < Len(starts)
        BY <3>2, <4>2, StartsIncrease DEF Sent
      <4> QED BY <3>2, <4>1, <4>2, StartsIncrease
    <3> QED BY <2>1, <3>1, <3>2, <3>3, ArrivedInSent
  <2>4. TypeOK' /\ InStep' /\ MemoryBounded'
    BY <1>1, <2>1, <2>2, <2>3
  <2>5. Stalled' /\ Alive'
    BY <2>1 DEF Stalled, Alive, static
  <2> QED BY <2>4, <2>5
<1>4. CASE ReadNoRoom
  <2>1. TypeOK' /\ InStep' /\ MemoryBounded'
    BY <1>4 DEF ReadNoRoom, TypeOK, InStep, MemoryBounded, DataLen, static, Messages, Sent
  <2>2. DataLen(buf) = Capacity
    <3>1. UnusedLen(buf) \in Int /\ ReadMax \in Int /\ ReadMax > 0
      BY ArrivedInSent, CapacityAssumption, LengthAssumption DEF UnusedLen
    <3>2. Asked = 0
      BY <1>4 DEF ReadNoRoom
    <3>3. Min({UnusedLen(buf), ReadMax}) = IF UnusedLen(buf) <= ReadMax THEN UnusedLen(buf) ELSE ReadMax
      BY <3>1, ExtremeOfTwo
    <3>4. UnusedLen(buf) = 0
      BY <3>1, <3>2, <3>3 DEF Asked
    <3> QED BY <3>4, ArrivedInSent, CapacityAssumption DEF UnusedLen
  <2>3. kind = "active" /\ life = "open" /\ ~refused => done + 1 \in Messages /\ Size(done + 1) > Capacity
    <3>1. ~(DataLen(buf) < HeaderLen)
      BY <2>2, CapacityAssumption, LengthAssumption
    <3>2. phase = "idle"
      BY <1>4 DEF ReadNoRoom, Ready
    <3> QED BY <2>2, <3>1, <3>2 DEF Stalled, HeadIncomplete
  <2>4. Stalled' /\ Alive'
    BY <1>4, <2>3 DEF ReadNoRoom, Ready, Stalled, Alive, static, Messages, Size
  <2> QED BY <2>1, <2>4
<1>5. CASE ReadNothing
  <2>1. TypeOK' /\ InStep' /\ MemoryBounded'
    BY <1>5 DEF ReadNothing, TypeOK, InStep, MemoryBounded, DataLen, static, Messages, Sent
  <2>2. Stalled' /\ Alive'
    BY <1>5 DEF ReadNothing, Ready, Stalled, Alive
  <2> QED BY <2>1, <2>2
<1>6. CASE Wait \/ Malformed
  <2>1. /\ UNCHANGED <<static, buf, arrived, done, given, refused>> /\ phase' = "idle" /\ closing' = FALSE
        /\ life' \in {"open", "closed"} /\ (Malformed => life' = "closed" \/ kind = "udp")
    BY <1>6 DEF Wait, Malformed, Return
  <2>2. TypeOK' /\ InStep' /\ MemoryBounded'
    BY <2>1 DEF TypeOK, InStep, MemoryBounded, DataLen, static, Messages, Sent
  <2>3. Wait => HeadIncomplete'
    BY <2>1, Iteration DEF HeadIncomplete, DataLen, static, Messages, Size
  <2>4. Stalled' /\ Alive'
    BY <1>6, <2>1, <2>3 DEF Stalled, Alive, static
  <2> QED BY <2>2, <2>4
<1>7. CASE Take
  <2>1. /\ UNCHANGED <<static, arrived, phase, closing, life, refused>> /\ done' = done + 1
        /\ HasHeader /\ done + 1 \in Messages /\ Size(done + 1) <= DataLen(buf)
        /\ given' = Max({given, done + 1}) /\ buf' = Consumed(buf, Size(done + 1))
    BY <1>7, Iteration DEF Take
  <2>2. BufferInv'
    BY <2>1, TakeKeeps
  <2>3. given' \in {0} \cup Messages
    BY <2>1, GivenInMessages
  <2>4. TypeOK'
    BY <2>1, <2>2, <2>3 DEF TypeOK, BufferInv, IsBuffer, static, Messages, Sent
  <2>5. Stalled' /\ Alive'
    <3>1. phase' = "process"
      BY <2>1 DEF HasHeader
    <3>2. ~(kind = "active" /\ life = "open" /\ ~refused /\ closing)
      BY <2>1, ArrivedInSent, HeaderIsNext, CapacityAssumption DEF Stalled, HasHeader, MemoryBounded
    <3> QED BY <2>1, <3>1, <3>2 DEF Stalled, Alive, static
  <2> QED BY <2>2, <2>4, <2>5 DEF BufferInv
<1>8. CASE Settle \/ Fail
  <2>1. /\ UNCHANGED <<static, buf, arrived, done>> /\ refused' = TRUE
        /\ phase' \in {"idle", "process"} /\ closing' \in BOOLEAN /\ life' \in {"open", "closed"}
        /\ phase' = "process" => phase = "process" /\ life' = life
        /\ given' = Max({given, done + 1}) /\ done + 1 \in Messages
    BY <1>8, Iteration DEF Settle, Fail, Return, TypeOK, HasHeader
  <2>2. given' \in {0} \cup Messages
    BY <2>1, GivenInMessages
  <2>3. TypeOK' /\ InStep' /\ MemoryBounded'
    BY <2>1, <2>2 DEF TypeOK, InStep, MemoryBounded, DataLen, static, Messages, Sent
  <2>4. Stalled' /\ Alive'
    BY <2>1 DEF Stalled, Alive
  <2> QED BY <2>3, <2>4
<1>9. CASE UNCHANGED vars
  BY <1>9 DEF vars, static, TypeOK, InStep, MemoryBounded, Stalled, Alive, HeadIncomplete, DataLen, Messages, Size, Sent
<1> QED BY <1>2, <1>3, <1>4, <1>5, <1>6, <1>7, <1>8, <1>9 DEF Next, Process

LEMMA InitIInv == Init => IInv
<1> SUFFICES ASSUME Init PROVE IInv
  OBVIOUS
<1>1. starts \in Seq(Nat) /\ Len(starts) \in Nat \ {0} /\ starts[1] = 0
  BY StreamAssumption DEF Init
<1>2. buf = [data |-> <<>>, pos |-> 0] /\ DataLen(buf) = 0
  BY DEF Init, EmptyBuffer, DataLen
<1>3. Sent \in Nat
  BY <1>1 DEF Sent
<1>4. TypeOK
  <2>1. buf \in [data : Seq(Nat), pos : Nat] /\ buf.pos <= Len(buf.data)
    BY <1>2
  <2>2. arrived \in 0..Sent /\ done \in {0} \cup Messages /\ given \in {0} \cup Messages
    BY <1>3 DEF Init
  <2> QED BY <2>1, <2>2 DEF Init, TypeOK
<1>5. InStep
  BY <1>1, <1>2 DEF Init, InStep
<1>6. MemoryBounded
  BY <1>2, CapacityAssumption DEF MemoryBounded
<1>7. Stalled /\ Alive
  BY <1>2, LengthAssumption DEF Init, Stalled, Alive, HeadIncomplete
<1> QED BY <1>4, <1>5, <1>6, <1>7 DEF IInv

LEMMA Invariance == Spec => []IInv
<1>1. IInv /\ [Next]_vars => IInv'
  BY IInvStep
<1> QED BY <1>1, InitIInv, PTL DEF Spec

\* Every variable stays in its type, of any stream.
THEOREM TypeCorrect == Spec => []TypeOK
<1>1. IInv => TypeOK
  BY DEF IInv
<1> QED BY <1>1, Invariance, PTL

\* service::process never loses step with the sender, whatever pieces the
\* stream arrives in: every header it reads is the header of the next message.
THEOREM AlwaysInStep == Spec => []InStep
<1>1. IInv => InStep
  BY DEF IInv
<1> QED BY <1>1, Invariance, PTL

\* circular_buffer holds at most its capacity and a quarter of it.
THEOREM AlwaysBounded == Spec => []MemoryBounded
<1>1. IInv => MemoryBounded
  BY DEF IInv
<1> QED BY <1>1, Invariance, PTL

\* No message reaches the application before the last of its bytes.
THEOREM AlwaysGivenWhole == Spec => GivenWhole
<1>1. ASSUME IInv, Next, given' # given
      PROVE  given' \in Messages /\ arrived >= starts[given' + 1]
  <2>1. TypeOK /\ InStep
    BY <1>1 DEF IInv
  <2>2. Take \/ Settle \/ Fail
    BY <1>1 DEF Next, Process, Read, ReadNoRoom, ReadNothing, Fragment, Wait, Malformed
  <2>3. /\ HasHeader /\ done + 1 \in Messages /\ Size(done + 1) <= DataLen(buf)
        /\ given' = Max({given, done + 1})
    BY <2>1, <2>2, Iteration
  <2>4. given' = done + 1
    BY <1>1, <2>1, <2>3, GivenInMessages
  <2>5. starts[done + 2] = starts[done + 1] + Size(done + 1) /\ Size(done + 1) \in Nat
    BY <2>1, <2>3, HeaderIsNext
  <2>6. arrived >= starts[done + 2]
    BY <2>1, <2>3, <2>5, ArrivedInSent, DoneInStarts
  <2>7. given' + 1 = done + 2
    BY <2>1, <2>4, DoneInStarts
  <2> QED BY <2>3, <2>4, <2>6, <2>7
<1>2. IInv /\ [Next]_vars => [given' # given => given' \in Messages /\ arrived >= starts[given' + 1]]_vars
  BY <1>1
<1> QED BY <1>2, Invariance, PTL DEF Spec, GivenWhole

Cause ==
  \/ done + 1 \in Messages /\ (Size(done + 1) < HeaderLen \/ Size(done + 1) > Capacity)
  \/ refused
  \/ kind = "passive" /\ closing

\* The reads and process close a connected session only for a message that is
\* malformed or too large, or after the application has refused one.
THEOREM AlwaysClosedForCause == Spec => ClosedForCause
<1>1. ASSUME IInv, Next, life' # life
      PROVE  Cause
  <2>1. TypeOK /\ InStep /\ MemoryBounded /\ Stalled /\ Alive
    BY <1>1 DEF IInv
  <2>2. Wait \/ Malformed \/ Settle
    BY <1>1 DEF Next, Process, Read, ReadNoRoom, ReadNothing, Fragment, Take, Fail
  <2>3. CASE Malformed
    BY <2>1, <2>3, Iteration DEF Cause
  <2>4. CASE Wait \/ Settle
    <3>1. life' = (IF kind # "udp" /\ closing THEN "closed" ELSE "open") /\ phase = "process"
      BY <2>4 DEF Wait, Settle, Return, HasHeader
    <3>2. kind # "udp" /\ closing
      <4>1. life = "open"
        BY <2>1, <2>4 DEF Wait, Settle, HasHeader, TypeOK, Alive
      <4> QED BY <1>1, <3>1, <4>1
    <3>3. CASE kind = "passive"
      BY <3>2, <3>3 DEF Cause
    <3>4. CASE kind = "active"
      <4>1. life = "open"
        BY <2>1, <3>1 DEF Alive
      <4>2. refused \/ (done + 1 \in Messages /\ Size(done + 1) > Capacity)
        BY <2>1, <3>1, <3>2, <3>4, <4>1 DEF Stalled, TypeOK
      <4> QED BY <4>2 DEF Cause
    <3> QED BY <2>1, <3>2, <3>3, <3>4, KindsAssumption DEF TypeOK
  <2> QED BY <2>2, <2>3, <2>4
<1>2. IInv /\ [Next]_vars => [life' # life => Cause]_vars
  BY <1>1
<1> QED BY <1>2, Invariance, PTL DEF Spec, ClosedForCause, Cause
=============================================================================
