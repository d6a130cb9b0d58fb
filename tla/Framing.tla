------------------------------ MODULE Framing ------------------------------
(***************************************************************************)
(* How the bytes of one session become messages: the receiving handlers of *)
(* the TCP sessions and the tail of udp_session_context::dispose_push put  *)
(* them into m_recv, service::process cuts that into messages and gives    *)
(* each to the application.                                                *)
(* Bytes are numbered in the order they were sent.                         *)
(***************************************************************************)
EXTENDS CircularBuffer, FiniteSetsExt

CONSTANTS
  Kinds,      \* receivers: a subset of {"passive", "active", "udp"}
  Streams,    \* what may be sent: sequences of the first bytes of the messages and of the end
  HeaderLen,  \* sizeof(service_msg_header)
  ReadMax,    \* most that one read() asks for
  Mss,        \* most bytes in a fragment
  Garbage     \* msg_size as read from bytes where no message begins

ASSUME KindsAssumption == Kinds \subseteq {"passive", "active", "udp"}
ASSUME LengthAssumption == {HeaderLen, ReadMax, Mss} \subseteq Nat \ {0} /\ HeaderLen <= Capacity
ASSUME GarbageAssumption == Garbage \subseteq Nat
ASSUME StreamAssumption ==
  \A s \in Streams : /\ s \in Seq(Nat) /\ Len(s) > 0 /\ s[1] = 0
                     /\ \A j, k \in 1..Len(s) : j < k => s[j] < s[k]

VARIABLES
  kind,      \* the receiver
  starts,    \* message k is the bytes starts[k] .. starts[k + 1] - 1, whatever its header says is its size
  buf,       \* m_recv
  arrived,   \* bytes put into m_recv so far
  phase,     \* "idle", or "process": inside service::process
  closing,   \* the handler returns -1 after process
  life,      \* "open" or "closed"
  done,      \* messages consumed
  given,     \* messages the application has been given
  refused    \* the application has answered one of them with something other than 0

vars == <<kind, starts, buf, arrived, phase, closing, life, done, given, refused>>
static == <<kind, starts>>

Messages == 1..(Len(starts) - 1)
Size(k) == starts[k + 1] - starts[k]
Sent == starts[Len(starts)]

Init ==
  /\ kind \in Kinds /\ starts \in Streams
  /\ buf = EmptyBuffer
  /\ arrived = 0 /\ done = 0 /\ given = 0
  /\ phase = "idle" /\ closing = FALSE /\ life = "open" /\ refused = FALSE

-----------------------------------------------------------------------------
(* What arrives.                                                            *)

Ready == life = "open" /\ phase = "idle"

Arrive(n) ==
  /\ buf' = Appended(buf, [i \in 1..n |-> arrived + i - 1])
  /\ arrived' = arrived + n

\* What do_nonblock_recv asks of read().
Asked == Min({UnusedLen(buf), ReadMax})

\* on_readable of a TCP session, as far as process: a read that fills what it
\* asked for returns 0, after which the accepting end closes and the
\* connecting end does not.
Read(n) ==
  /\ Ready /\ kind # "udp"
  /\ n <= Min({Asked, Sent - arrived})
  /\ Arrive(n)
  /\ phase' = "process"
  /\ closing' = (kind = "passive" /\ n = Asked)
  /\ UNCHANGED <<static, life, done, given, refused>>

\* The buffer is full: a read of no bytes looks like the end of the stream.
ReadNoRoom ==
  /\ Ready /\ kind # "udp" /\ Asked = 0
  /\ phase' = "process" /\ closing' = TRUE
  /\ UNCHANGED <<static, buf, arrived, life, done, given, refused>>

\* The read would block.
ReadNothing ==
  /\ Ready /\ kind # "udp" /\ Asked > 0
  /\ phase' = "process" /\ closing' = FALSE
  /\ UNCHANGED <<static, buf, arrived, life, done, given, refused>>

\* Whether n more bytes end a message that send_via_channel framed: frag is 0.
LastOf(n) == \E k \in Messages : starts[k + 1] = arrived + n

\* dispose_push, the fragment that is next in order. One that does not fit is
\* left in m_recv_fragment, which changes nothing here.
Fragment(n) ==
  /\ Ready /\ kind = "udp"
  /\ n <= Mss
  /\ \E k \in Messages : arrived \in starts[k]..(starts[k + 1] - 1) /\ arrived + n <= starts[k + 1]
  /\ FitsIn(buf, n)
  /\ Arrive(n)
  /\ phase' = IF LastOf(n) THEN "process" ELSE "idle"
  /\ closing' = FALSE
  /\ UNCHANGED <<static, life, done, given, refused>>

-----------------------------------------------------------------------------
(* service::process.                                                        *)

\* The msg_size that the header at the head of m_recv may hold.
Announced ==
  LET first == buf.data[buf.pos + 1]
  IN  IF \E k \in Messages : starts[k] = first
      THEN {Size(k) : k \in {l \in Messages : starts[l] = first}}
      ELSE Garbage

HasHeader == phase = "process" /\ DataLen(buf) >= HeaderLen

\* Mutation of Whole: a message that is all there is taken for an incomplete one.
WholeAndMore(size) == size < DataLen(buf)

\* Mutation of Whole: the rest of the message is not waited for.
WholeUnchecked(size) == TRUE

Whole(size) == size <= DataLen(buf)

\* Mutation of WellFormed: a message of nothing but its header is refused.
WellFormedLonger(size) == size > HeaderLen

WellFormed(size) == size >= HeaderLen

\* process returns, and the handler after it: only TCP looks at the result.
Return(bad) ==
  /\ phase' = "idle" /\ closing' = FALSE
  /\ life' = IF kind # "udp" /\ (closing \/ bad) THEN "closed" ELSE "open"

\* Not even a header, or not the whole of a message: process returns 0.
Wait ==
  /\ phase = "process"
  /\ \/ DataLen(buf) < HeaderLen
     \/ HasHeader /\ \E size \in Announced : ~Whole(size)
  /\ Return(FALSE)
  /\ UNCHANGED <<static, buf, arrived, done, given, refused>>

\* A size that leaves no room for the header: process returns -1.
Malformed ==
  /\ HasHeader
  /\ \E size \in Announced : Whole(size) /\ ~WellFormed(size)
  /\ Return(TRUE)
  /\ UNCHANGED <<static, buf, arrived, done, given, refused>>

Give(size) ==
  /\ Whole(size) /\ WellFormed(size)
  /\ given' = Max({given, done + 1})

\* The application answers 0: on to the next message.
Take ==
  /\ HasHeader /\ \E size \in Announced : Give(size) /\ buf' = Consumed(buf, size)
  /\ done' = done + 1
  /\ UNCHANGED <<static, arrived, phase, closing, life, refused>>

\* More than 0, "routine settled": the message stays where it is.
Settle ==
  /\ HasHeader /\ \E size \in Announced : Give(size)
  /\ refused' = TRUE
  /\ Return(FALSE)
  /\ UNCHANGED <<static, buf, arrived, done>>

\* Less than 0: logged, and the same message is given again.
Fail ==
  /\ HasHeader /\ \E size \in Announced : Give(size)
  /\ refused' = TRUE
  /\ UNCHANGED <<static, buf, arrived, phase, closing, life, done>>

Process == Wait \/ Malformed \/ Take \/ Settle \/ Fail

Next ==
  \/ \E n \in 1..ReadMax : Read(n)
  \/ ReadNoRoom
  \/ ReadNothing
  \/ \E n \in 1..Mss : Fragment(n)
  \/ Process

\* The thread of the proxy does not stop in the middle of process.
Spec == Init /\ [][Next]_vars /\ WF_vars(Process)

-----------------------------------------------------------------------------
(* Properties.                                                              *)

TypeOK ==
  /\ kind \in Kinds /\ starts \in Streams
  /\ buf \in [data : Seq(Nat), pos : Nat] /\ buf.pos <= Len(buf.data)
  /\ arrived \in 0..Sent /\ done \in {0} \cup Messages /\ given \in {0} \cup Messages
  /\ phase \in {"idle", "process"} /\ life \in {"open", "closed"}
  /\ closing \in BOOLEAN /\ refused \in BOOLEAN

\* service::process stays in step with the sender: as many messages as it has
\* consumed were sent, and what waits in m_recv is, byte for byte, what
\* followed them. So every header it reads is a header and every message it
\* gives is one that was sent, whatever the reads cut the stream into and
\* however often circular_buffer moved its data.
InStep ==
  /\ done + 1 <= Len(starts)
  /\ DataLen(buf) = arrived - starts[done + 1]
  /\ \A i \in 1..DataLen(buf) : buf.data[buf.pos + i] = starts[done + 1] + i - 1

\* circular_buffer does not grow with the stream: what is consumed is dropped
\* before it exceeds a quarter of the capacity.
MemoryBounded ==
  /\ DataLen(buf) \in 0..Capacity
  /\ buf.pos = 0 \/ buf.pos < Capacity \div 4

\* No message is given to the application before the last of its bytes has
\* arrived: process reads nothing behind the end of m_recv.
GivenWhole == [][given' # given => given' \in Messages /\ arrived >= starts[given' + 1]]_vars

\* When the reads and process close a session, the message at the head of
\* m_recv has an impossible size or does not fit m_recv, or the application has
\* left messages there, or the session is an accepted one that has just read as
\* much as it asked for. A connected session never closes on sound traffic.
ClosedForCause ==
  [][life' # life =>
       \/ done + 1 \in Messages /\ (Size(done + 1) < HeaderLen \/ Size(done + 1) > Capacity)
       \/ refused
       \/ kind = "passive" /\ closing]_vars

Sound(k) == \A l \in 1..k : HeaderLen <= Size(l) /\ Size(l) <= Capacity

\* Every message that has arrived is given to the application without waiting
\* for further bytes, as long as the application has taken every earlier one,
\* no message before it was malformed or too large, and the session lasts.
GivenInTurn ==
  \A k \in 1..Max({Len(s) : s \in Streams}) :
    (k \in Messages /\ Sound(k) /\ arrived >= starts[k + 1])
      ~> (given >= k \/ life = "closed" \/ refused)
=============================================================================
