--------------------------- MODULE StreamRoutine ---------------------------
(***************************************************************************)
(* One TCP session of a proxy: the buffers of `routine` (routine.cc), the  *)
(* handlers of tcp_passive_session_routine or of active_session_routine,   *)
(* what process_events does with their results, and the socket.            *)
(* The bytes sent are numbered, so that their order can be checked; of the *)
(* bytes received only the number matters here.                            *)
(***************************************************************************)
EXTENDS Naturals, SequencesExt

CONSTANTS
  Kind,        \* "passive" (accepted) or "active" (connected)
  Immediate,   \* whether connect() may succeed at once
  SendCap,     \* capacity of m_send
  RecvCap,     \* capacity of m_recv
  ReadMax,     \* most that one read() asks for
  SockCap,     \* the socket's send buffer
  MaxLen,      \* longest message of the application
  KeepMax,     \* most that service::process leaves in m_recv, an incomplete message
  MaxBytes,    \* bound: bytes appended in all
  MaxIn        \* bound: bytes that wait in the socket

ASSUME KindAssumption == Kind \in {"passive", "active"}
ASSUME SizeAssumption == {SendCap, RecvCap, ReadMax, SockCap, MaxLen, KeepMax, MaxBytes, MaxIn} \subseteq Nat

VARIABLES
  peer,         \* the connection: "connecting", "up", "reset"
  eof,          \* the peer has shut down its writing half
  life,         \* "open", "closed", or "rejected": closed because service::process refused a message
  watchOut,     \* EPOLLOUT is armed
  established,  \* m_established
  writable,     \* m_writable
  send,         \* m_send
  out,          \* written to the socket and not yet read by the peer
  got,          \* read by the peer
  accepted,     \* bytes for which append_send_data has returned true
  nextByte,     \* the number of the next byte appended
  recv,         \* bytes in m_recv
  in,           \* bytes in the socket's receive buffer
  handler       \* "none", or "created": in on_writable, in the application's callback

sending == <<writable, send, out>>
bytes == <<got, accepted, nextByte>>
vars == <<peer, eof, life, watchOut, established, sending, bytes, recv, in, handler>>

\* Mutation of AsksOut: only what waits in m_send asks for EPOLLOUT.
AsksOutQueued == send # <<>>

\* get_events, as far as EPOLLOUT.
AsksOut == ~writable \/ send # <<>>

\* create, and add_routine of the session.
Init ==
  /\ peer \in IF Kind = "passive" THEN {"up"}
              ELSE {"connecting"} \cup (IF Immediate THEN {"up"} ELSE {})
  /\ writable = (peer = "up")
  /\ send = <<>> /\ out = <<>> /\ got = <<>> /\ accepted = <<>> /\ nextByte = 1
  /\ watchOut = AsksOut
  /\ established = FALSE /\ life = "open" /\ eof = FALSE
  /\ recv = 0 /\ in = 0 /\ handler = "none"

-----------------------------------------------------------------------------
(* Sending.                                                                 *)

\* How much of `data` do_nonblock_write gets into the socket before it would block.
Taken(data) == IF peer = "up" THEN Min({Len(data), SockCap - Len(out)}) ELSE 0

Prefix(data) == SubSeq(data, 1, Taken(data))
Rest(data) == SubSeq(data, Taken(data) + 1, Len(data))

Message(len) == [k \in 1..len |-> nextByte + k - 1]

\* Mutation of Direct: what waits in m_send is overtaken.
DirectOvertaking == writable

\* Whether append_send_data writes without going through m_send.
Direct == writable /\ send = <<>>

\* Mutation of Fits: what is in the buffer already does not count.
FitsAlone(data) == Len(data) <= SendCap

\* circular_buffer::append.
Fits(data) == Len(send) + Len(data) <= SendCap

\* Mutation of Unblocked: a write that would block leaves m_writable as it was.
UnblockedAlways(left) == TRUE

\* m_writable is cleared when do_nonblock_write leaves something.
Unblocked(left) == left = <<>>

\* The first branch: to the socket, and what is left to m_send.
AppendDirect(data) ==
  /\ Direct
  /\ out' = out \o Prefix(data)
  /\ writable' = Unblocked(Rest(data))
  /\ IF Fits(Rest(data))
     THEN send' = send \o Rest(data) /\ accepted' = accepted \o data
     ELSE UNCHANGED <<send, accepted>>

\* The second: to m_send, and then as much of m_send as the socket takes.
AppendQueued(data) ==
  /\ ~Direct
  /\ IF Fits(data)
     THEN LET all == send \o data
          IN  /\ out' = out \o Prefix(all)
              /\ send' = Rest(all)
              /\ writable' = (writable /\ Unblocked(Rest(all)))
              /\ accepted' = accepted \o data
     ELSE UNCHANGED <<sending, accepted>>

\* After a reset write() fails: the direct branch drops the message, the other
\* leaves it in m_send; both return false.
AppendToReset(data) ==
  /\ IF ~Direct /\ Fits(data)
     THEN send' = send \o data
     ELSE UNCHANGED send
  /\ UNCHANGED <<writable, out, accepted>>

\* append_send_data; its modify_events is never reached.
AppendSendData(len) ==
  /\ life = "open" /\ nextByte + len <= MaxBytes + 1
  /\ LET data == Message(len)
     IN  IF peer = "reset" THEN AppendToReset(data)
         ELSE AppendDirect(data) \/ AppendQueued(data)
  /\ nextByte' = nextByte + len
  /\ UNCHANGED <<peer, eof, life, watchOut, established, got, recv, in, handler>>

Closed(how) == life' = how /\ watchOut' = FALSE /\ handler' = "none"

\* EPOLLOUT reaches an active session for the first time: its callback starts.
Created ==
  /\ Kind = "active" /\ ~established
  /\ life = "open" /\ watchOut /\ handler = "none" /\ peer = "up"
  /\ writable' = TRUE /\ established' = TRUE /\ handler' = "created"
  /\ UNCHANGED <<peer, eof, life, watchOut, send, out, bytes, recv, in>>

\* EPOLLOUT has come, or on_writable comes back from its callback.
OutReady ==
  /\ life = "open"
  /\ \/ handler = "created"
     \/ /\ handler = "none" /\ watchOut /\ (Kind = "active" => established)
        /\ peer = "reset" \/ (peer = "up" /\ Len(out) < SockCap)

\* Mutation of StillOut: EPOLLOUT is disarmed whatever is left.
NeverOut(left) == FALSE

\* EPOLLOUT stays armed when do_nonblock_write has blocked.
StillOut(left) == watchOut /\ left # <<>>

\* process_events on EPOLLOUT: m_writable, do_nonblock_write of on_writable, and
\* the events of the descriptor.
Writable ==
  /\ OutReady
  /\ IF peer = "reset" /\ send # <<>>
     THEN Closed("closed") /\ UNCHANGED sending
     ELSE /\ out' = out \o Prefix(send) /\ send' = Rest(send)
          /\ writable' = Unblocked(Rest(send))
          /\ watchOut' = StillOut(Rest(send))
          /\ handler' = "none" /\ UNCHANGED life
  /\ UNCHANGED <<peer, eof, established, bytes, recv, in>>

-----------------------------------------------------------------------------
(* Receiving.                                                               *)

MaxRecv == Min({RecvCap - recv, ReadMax})
Read == Min({MaxRecv, in})

\* do_nonblock_recv returns 0 when the read has filled what it asked for, and
\* takes 0 bytes for the end of the stream, which it also gets when it asks for none.
RecvResult ==
  CASE peer = "reset" -> -1
    [] peer # "reset" /\ Read > 0 -> IF Read = MaxRecv THEN 0 ELSE Read
    [] OTHER -> -1

Received == IF peer = "reset" THEN 0 ELSE Read

\* Mutation of Good: a read that filled the buffer ends the session, as in the
\* passive one.
GoodStrict(result) == result > 0

\* Whether on_readable returns what service::process returns, or -1.
Good(result) == result > 0 \/ (Kind = "active" /\ result = 0)

\* process_events on EPOLLIN, with EPOLLRDHUP after it if the batch had it:
\* do_nonblock_recv, service::process on m_recv, and the close.
Readable ==
  /\ life = "open" /\ handler = "none"
  /\ in > 0 \/ eof \/ peer = "reset"
  /\ in' = in - Received
  /\ \E kept \in 0..Min({KeepMax, recv + Received}) : recv' = kept
  /\ \/ Closed("rejected")
     \/ IF Good(RecvResult)
        THEN \/ UNCHANGED <<life, watchOut, handler>>
             \/ eof /\ Closed("closed")
        ELSE Closed("closed")
  /\ UNCHANGED <<peer, eof, established, sending, bytes>>

\* EPOLLERR, EPOLLRDHUP or EPOLLHUP without EPOLLIN.
Failed ==
  /\ life = "open" /\ handler = "none"
  /\ eof \/ peer = "reset"
  /\ Closed("closed")
  /\ UNCHANGED <<peer, eof, established, sending, bytes, recv, in>>

-----------------------------------------------------------------------------
(* The peer and the network.                                                *)

Connects ==
  /\ peer = "connecting" /\ life = "open"
  /\ peer' = "up"
  /\ UNCHANGED <<eof, life, watchOut, established, sending, bytes, recv, in, handler>>

PeerReads ==
  /\ peer = "up" /\ out # <<>>
  /\ got' = Append(got, Head(out)) /\ out' = Tail(out)
  /\ UNCHANGED <<peer, eof, life, watchOut, established, writable, send, accepted, nextByte, recv, in, handler>>

PeerWrites ==
  /\ peer = "up" /\ ~eof /\ life = "open"
  /\ \E n \in 1..(MaxIn - in) : in' = in + n
  /\ UNCHANGED <<peer, eof, life, watchOut, established, sending, bytes, recv, handler>>

PeerShutsDown ==
  /\ peer = "up" /\ ~eof /\ life = "open"
  /\ eof' = TRUE
  /\ UNCHANGED <<peer, life, watchOut, established, sending, bytes, recv, in, handler>>

\* What was in the socket is lost.
PeerResets ==
  /\ peer # "reset" /\ life = "open"
  /\ peer' = "reset" /\ out' = <<>> /\ in' = 0
  /\ UNCHANGED <<eof, life, watchOut, established, writable, send, bytes, recv, handler>>

Next == \/ \E len \in 1..MaxLen : AppendSendData(len)
        \/ Created \/ Writable \/ Readable \/ Failed
        \/ Connects \/ PeerReads \/ PeerWrites \/ PeerShutsDown \/ PeerResets

Spec == Init /\ [][Next]_vars

\* The loop handles what epoll reports, a callback returns, a connection is made or
\* refused, and the peer reads.
FairSpec == Spec /\ WF_vars(Connects) /\ WF_vars(Created) /\ WF_vars(Writable) /\ WF_vars(PeerReads)

-----------------------------------------------------------------------------
(* Properties.                                                              *)

TypeOK ==
  /\ peer \in {"connecting", "up", "reset"} /\ life \in {"open", "closed", "rejected"}
  /\ {eof, watchOut, established, writable} \subseteq BOOLEAN
  /\ Len(send) <= SendCap /\ Len(out) <= SockCap
  /\ recv \in 0..RecvCap /\ in \in 0..MaxIn
  /\ handler \in {"none", "created"}

\* What the peer has read, what is in the socket and what is in m_send are, in
\* this order, the bytes of the messages that were accepted: none is lost, torn
\* or overtaken while the connection lives.  (For messages that fit m_send.)
SentInOrder ==
  peer # "reset" => (got \o out) \o send = accepted

\* Between handlers m_writable is true only when nothing waits in m_send, so that
\* the next message does not go past it, and EPOLLOUT is not armed, so that the
\* loop does not spin on a socket that can be written to.
WritableIsIdle ==
  handler = "none" /\ writable => ~watchOut /\ (life = "open" => send = <<>>)

\* What waits in m_send when EPOLLOUT is armed leaves it.
ArmedIsFlushed ==
  watchOut /\ send # <<>> ~> send = <<>> \/ peer = "reset" \/ life # "open"

\* The proxy closes a session for a reason: the end of the peer's stream, an
\* error, a refused message.  routine.h says of do_nonblock_recv "= 0 not all
\* received, < 0 error occurred".
ClosedForAReason ==
  life = "closed" => eof \/ peer = "reset"

\* The application hears (on_routine_created) of a connection that connect() left
\* pending, once it is made, and never of one "that is established immediately
\* after calling connect": such circumstances "do exist", says create, but then
\* nothing ever asks for the EPOLLOUT that on_routine_created comes from.
ToldOfConnection ==
  /\ peer = "connecting" ~> established \/ peer = "reset" \/ life # "open"
  /\ peer = "up" => []~established
=============================================================================
