----------------------------- MODULE UdpSession -----------------------------
(***************************************************************************)
(* One UDP conversation of heron-routines: the client's                    *)
(* active_udp_session_routine, and the udp_session_context that            *)
(* udp_service_routine::on_readable registers for it on the server, over a *)
(* network that loses, duplicates and reorders datagrams.                  *)
(*                                                                         *)
(* Both sides are full duplex and run nearly the same code: a list of      *)
(* unacknowledged fragments, a reorder buffer, the acks that are due, and  *)
(* forward(), which packs fragments and acks into datagrams and is called  *)
(* at the end of every received datagram, every append and every inspect.  *)
(*                                                                         *)
(* dispose_push calls the application (service::process) in the middle of  *)
(* a datagram, with the fragment just delivered still in m_recv_fragment,  *)
(* and what the application appends there is forwarded at once: `rest`     *)
(* holds what dispose() has still to do when the application returns.      *)
(*                                                                         *)
(* Time is abstracted: which fragments' resend timers have expired is a    *)
(* nondeterministic choice at each forward.  Fragment contents are         *)
(* abstracted to (object that sent it, sequence number).                   *)
(***************************************************************************)
EXTENDS Integers, FiniteSets

CONSTANTS
  Window,        \* m_conv_window: fragments a receiver accepts (64 in the code)
  Mss,           \* gc_mss: room in one datagram, in the units of the next two
  PushSize,      \* [Side -> size of a push fragment with its header]
  AckSize,       \* size of an ack, a bare header
  MaxSeq,        \* bound: [Side -> fragments that side's application appends]
  MaxBurst,      \* bound: fragments one append_send_data makes of its message
  MaxStamp,      \* bound: set_session datagrams the client stamps
  MaxContexts,   \* bound: contexts the server creates for the conversation
  MaxInFlight,   \* bound: datagrams the network holds
  SocketErrors   \* may sendto() fail with an error other than would-block?

Side == {"client", "server"}
Peer(s) == IF s = "client" THEN "server" ELSE "client"

ASSUME WindowAssumption == Window \in Nat \ {0}
ASSUME SizeAssumption ==
  /\ Mss \in Nat
  /\ AckSize \in 1..Mss
  /\ PushSize \in [Side -> AckSize..Mss]
ASSUME BoundAssumption ==
  /\ MaxSeq \in [Side -> Nat]
  /\ MaxBurst \in Nat
  /\ MaxStamp \in Nat \ {0}
  /\ MaxContexts \in Nat
  /\ MaxInFlight \in Nat
  /\ SocketErrors \in BOOLEAN

VARIABLES
  inc,         \* inc[s]: number of the live object of side s, 0 for none
  next,        \* m_next_send_seq
  unacked,     \* m_send_fragment: sequence numbers sent or waiting to be
  urgent,      \* the unacked fragments never packed yet (fragment_info::urgent)
  peerWin,     \* m_peer_recv_window
  wait,        \* m_recv_wait_seq: fragments below it went to the application
  buf,         \* m_recv_fragment: accepted out of order
  acks,        \* m_sending_ack
  rest,        \* the part not yet disposed of of a datagram whose dispose_push
               \* is inside service::process; {} outside of it
  broken,      \* m_fd = -1 after a failed sendto
  writable,    \* the client's m_writable: its handshake was answered
  stamp,       \* set_session datagrams stamped so far; the last one's ts
  conv,        \* m_session_conv: ts the server's context was created for
  net,         \* datagrams in flight
  seen         \* history: seen[s] is every <<object, seq>> side s accepted

sides == <<next, unacked, urgent, peerWin, wait, buf, acks, broken, seen>>
vars == <<sides, rest, inc, writable, stamp, conv, net>>

Data == [type : {"data"}, to : Side, from : Nat,
         push : SUBSET Nat, ack : SUBSET Nat, wind : 0..Window]
Hello == [type : {"set_session"}, ts : 1..MaxStamp]
HelloAck == [type : {"ack_session"}, ts : 1..MaxStamp]
Datagram == Data \cup Hello \cup HelloAck

-----------------------------------------------------------------------------
(* forward(): which fragments are sent, how they are packed, what is sent.  *)

\* Mutation of InSpan: the window counts list positions on the server as well.
SpanByPosition(pending, win) ==
  {f \in pending : Cardinality({g \in pending : g < f}) < win}

\* Mutation of InSpan: one sequence number too many.
SpanOffByOne(pending, win) == {f \in pending : \A g \in pending : f - g <= win}

\* The fragments the window lets through.  The server's context counts the
\* span of sequence numbers from the head of its list.
InSpan(pending, win) == {f \in pending : \A g \in pending : f - g + 1 <= win}

\* Mutation of InPositions: the test of the window is left out.
PositionsUnbounded(pending, win) == pending

\* The client counts list positions, and stops only after `times` has passed
\* the window.
InPositions(pending, win) ==
  {f \in pending : Cardinality({g \in pending : g < f}) <= win}

InWindow(s, pending, win) == IF s = "server" THEN InSpan(pending, win)
                                             ELSE InPositions(pending, win)

\* Mutation of Advertised: off by one.
AdvertisedTooLarge(buffered) == Window + 1 - Cardinality(buffered)

\* The receive window a side advertises with its acks.  It is 0 when a forward
\* inside service::process finds Window fragments, the one just delivered among
\* them.
Advertised(buffered) == IF Window > Cardinality(buffered)
                        THEN Window - Cardinality(buffered) ELSE 0

Rank(x, S) == Cardinality({y \in S : y < x})
CeilDiv(a, b) == (a + b - 1) \div b

\* The datagram, counted from 0, that carries push fragment f of P: the
\* pushes go first, in order, as many to a datagram as fit.
PushSlot(s, P, f) == Rank(f, P) \div (Mss \div PushSize[s])

\* The acks fill the room left in the last datagram that holds pushes, and
\* then datagrams of their own.
AckSlot(s, P, A, a) ==
  LET per    == Mss \div PushSize[s]
      inLast == Cardinality(P) % per
      room   == IF inLast = 0 THEN 0
                ELSE (Mss - inLast * PushSize[s]) \div AckSize
  IN  IF Rank(a, A) < room
      THEN Cardinality(P) \div per
      ELSE CeilDiv(Cardinality(P), per)
             + (Rank(a, A) - room) \div (Mss \div AckSize)

\* The datagrams P and A make.
Slots(s, P, A) == {PushSlot(s, P, f) : f \in P} \cup {AckSlot(s, P, A, a) : a \in A}

Packed(s, P, A, wind, i) ==
  [type |-> "data", to |-> Peer(s), from |-> inc[s],
   push |-> {f \in P : PushSlot(s, P, f) = i},
   ack  |-> {a \in A : AckSlot(s, P, A, a) = i},
   wind |-> wind]

\* What the network makes of the datagrams handed to it: any of them may be
\* lost, and at most MaxInFlight are held.
Transmit(held, sent) ==
  \E arriving \in SUBSET sent :
    /\ Cardinality(held \cup arriving) <= MaxInFlight
    /\ net' = held \cup arriving

\* forward() of side s: unacked', peerWin' and buf' are as the handler left them,
\* `fresh` and `due` what it left urgent and to ack, and the network holds `held`.
\* do_nonblock_send succeeds `ok` times and then,
\* unless everything is sent, would block or fails: the datagram in hand is lost
\* with the acks erased into it, and the rest stays as it is.
Forward(s, fresh, due, held) ==
  \E expired \in SUBSET (InWindow(s, unacked'[s], peerWin'[s]) \ fresh),
     fails \in {FALSE, SocketErrors} :
    LET P     == expired \cup (InWindow(s, unacked'[s], peerWin'[s]) \cap fresh)
        count == Cardinality(Slots(s, P, due))
        wind  == Advertised(buf'[s])
    IN  \E ok \in 0..count :
          /\ broken[s] => ok = 0
          /\ fails => ok < count
          /\ broken' = [broken EXCEPT ![s] = @ \/ fails]
          /\ urgent' = [urgent EXCEPT ![s] =
                          fresh \ {f \in P : PushSlot(s, P, f) <= ok}]
          /\ acks' = [acks EXCEPT ![s] =
                        {a \in due : AckSlot(s, P, due, a) > ok}]
          /\ Transmit(held, {Packed(s, P, due, wind, i) : i \in 0..ok - 1})

-----------------------------------------------------------------------------
(* The handlers.                                                            *)

\* active_udp_session_routine::create: the object exists and its first
\* set_session was handed to the socket, which may have failed.
Init ==
  /\ inc = [s \in Side |-> IF s = "client" THEN 1 ELSE 0]
  /\ next = [s \in Side |-> 0]
  /\ unacked = [s \in Side |-> {}]
  /\ urgent = [s \in Side |-> {}]
  /\ peerWin = [s \in Side |-> IF s = "client" THEN 0 ELSE Window]
  /\ wait = [s \in Side |-> 0]
  /\ buf = [s \in Side |-> {}]
  /\ acks = [s \in Side |-> {}]
  /\ rest = [s \in Side |-> {}]
  /\ \E fails \in {FALSE, SocketErrors} :
       /\ broken = [s \in Side |-> s = "client" /\ fails]
       /\ net \in SUBSET (IF fails THEN {} ELSE {[type |-> "set_session", ts |-> 1]})
  /\ writable = FALSE
  /\ stamp = 1
  /\ conv = 0
  /\ seen = [s \in Side |-> {}]

\* append_send_data: a message becomes n fragments, and is forwarded at once,
\* whether or not the handshake was answered, and also from inside
\* service::process.
Append(s) ==
  /\ inc[s] # 0
  /\ \E n \in 1..MaxBurst :
       LET new == next[s]..next[s] + n - 1 IN
       /\ next[s] + n <= MaxSeq[s]
       /\ next' = [next EXCEPT ![s] = @ + n]
       /\ unacked' = [unacked EXCEPT ![s] = @ \cup new]
       /\ UNCHANGED <<peerWin, wait, buf, seen, rest, inc, writable, stamp, conv>>
       /\ Forward(s, urgent[s] \cup new, acks[s], net)

\* No handler of side s is on the stack of its thread.
Idle(s) == rest[s] = {}

\* inspect(), called by the proxy's loop: forward what is due.  A client whose
\* handshake is not answered does not get here.
Inspect(s) ==
  /\ inc[s] # 0 /\ Idle(s)
  /\ s = "client" => writable
  /\ UNCHANGED <<next, unacked, peerWin, wait, buf, seen, rest, inc, writable, stamp, conv>>
  /\ Forward(s, urgent[s], acks[s], net)

\* The client's inspect() before the handshake is answered: another
\* set_session, stamped with the clock's present value.
RetryHandshake ==
  /\ ~writable /\ Idle("client")
  /\ stamp < MaxStamp
  /\ stamp' = stamp + 1
  /\ \E fails \in {FALSE, SocketErrors} : broken' = [broken EXCEPT !["client"] = @ \/ fails]
  /\ Transmit(net, IF broken'["client"] THEN {}
                   ELSE {[type |-> "set_session", ts |-> stamp + 1]})
  /\ UNCHANGED <<next, unacked, urgent, peerWin, wait, buf, acks, seen, rest, inc, writable, conv>>

\* A set_session is taken to come from the client that the registered context
\* was created for when it carries the same ts.
SameClient(ts) == inc["server"] # 0 /\ ts = conv

\* udp_service_routine::on_readable on a set_session.  A context created for
\* another ts is closed; then a context is always created, but the registry
\* refuses it while one is registered, so that it only answers this datagram.
ReceiveSetSession(d) ==
  LET answer == [type |-> "ack_session", ts |-> d.ts]
      reset(f, v) == [f EXCEPT !["server"] = v]
  IN  /\ d.type = "set_session" /\ Idle("server")
      /\ \E held \in {net, net \ {d}} : Transmit(held, {answer})
      /\ IF SameClient(d.ts)
         THEN UNCHANGED <<sides, inc, conv>>
         ELSE /\ inc["server"] < MaxContexts
              /\ inc' = reset(inc, inc["server"] + 1)
              /\ conv' = d.ts
              /\ next' = reset(next, 0)
              /\ unacked' = reset(unacked, {})
              /\ urgent' = reset(urgent, {})
              /\ peerWin' = reset(peerWin, Window)
              /\ wait' = reset(wait, 0)
              /\ buf' = reset(buf, {})
              /\ acks' = reset(acks, {})
              /\ broken' = reset(broken, FALSE)
              /\ UNCHANGED seen
      /\ UNCHANGED <<rest, writable, stamp>>

\* The client's dispose() on an ack_session, whose ts it does not examine.
ReceiveAckSession(d) ==
  /\ d.type = "ack_session"
  /\ ~broken["client"] /\ Idle("client")
  /\ writable' = TRUE
  /\ UNCHANGED <<next, unacked, peerWin, wait, buf, seen, rest, inc, stamp, conv>>
  /\ \E held \in {net, net \ {d}} :
       Forward("client", urgent["client"], acks["client"], held)

\* Mutation of Accepted: the fragment just past the window is taken.
AcceptedOffByOne(s, push) ==
  {f \in push : wait[s]..f - Window - 1 \subseteq buf[s] \cup push}

\* Mutation of ToAck: the ack is entered before the window is checked.
AckBeforeCheck(s, push) == push

\* dispose_push on the fragments `push` of one datagram, in ascending order.
\* One is dropped when it is Window or more past m_recv_wait_seq, that is when
\* a fragment at least Window below it is missing.
Accepted(s, push) ==
  {f \in push : wait[s]..f - Window \subseteq buf[s] \cup push}

\* The fragments dispose_push adds to m_recv_fragment.
ToBuffer(s, push) == {f \in Accepted(s, push) : f >= wait[s] /\ f \notin buf[s]}

\* Mutation of ToAck: a repeated fragment is not acked again.
AckOnce(s, push) == ToBuffer(s, push)

\* The fragments of `push` dispose_push enters in m_sending_ack: those it
\* accepts, the repeated ones it drops among them.
ToAck(s, push) == Accepted(s, push)

\* Mutation of Confirmed: an ack confirms everything before it as well.
ConfirmedUpTo(s, ack) == {f \in unacked[s] : \E a \in ack : f <= a}

\* dispose_ack on the acks of one datagram: the fragments erased.
Confirmed(s, ack) == {a \in ack : a < next[s]} \cap unacked[s]

\* The fragments of `push` disposed of when fragment c is delivered: those up to
\* the last one that c had to wait for.
Entered(s, push, c) == {f \in push : \E g \in wait[s]..c \ buf[s] : f <= g}

\* dispose_push inside service::process, called after m_recv_wait_seq has gone
\* past c and before c is erased from m_recv_fragment.  Which fragments end a
\* message is left open, and so is how often the application appends.
CallProcess(s, d) ==
  /\ \E c \in wait[s]..MaxSeq[Peer(s)] - 1 :
       LET push    == Entered(s, d.push, c)
           present == buf[s] \cup ToBuffer(s, push)
       IN  /\ wait[s]..c \subseteq present
           /\ wait' = [wait EXCEPT ![s] = c + 1]
           /\ buf' = [buf EXCEPT ![s] = {f \in present : f >= c}]
           /\ acks' = [acks EXCEPT ![s] = @ \cup ToAck(s, push)]
           /\ seen' = [seen EXCEPT ![s] = @ \cup {d.from} \X ToBuffer(s, push)]
           /\ rest' = [rest EXCEPT ![s] = {[d EXCEPT !.push = @ \ push]}]
  /\ UNCHANGED <<next, unacked, urgent, peerWin, broken, inc, writable, stamp, conv>>

\* The rest of dispose() without such a call: dispose_push on each push,
\* dispose_ack on each ack and the window update with it, then forward.
Finish(s, d, held) ==
  /\ LET present == buf[s] \cup ToBuffer(s, d.push) IN
       \E w \in wait[s]..MaxSeq[Peer(s)] :
         /\ w \notin present
         /\ wait[s]..w - 1 \subseteq present
         /\ wait' = [wait EXCEPT ![s] = w]
         /\ buf' = [buf EXCEPT ![s] = {f \in present : f >= w}]
  /\ seen' = [seen EXCEPT ![s] = @ \cup {d.from} \X ToBuffer(s, d.push)]
  /\ unacked' = [unacked EXCEPT ![s] = @ \ Confirmed(s, d.ack)]
  /\ peerWin' = IF d.ack = {} THEN peerWin
                ELSE [peerWin EXCEPT ![s] = d.wind]
  /\ rest' = [rest EXCEPT ![s] = {}]
  /\ UNCHANGED <<next, inc, writable, stamp, conv>>
  /\ Forward(s, urgent[s] \cap unacked'[s], acks[s] \cup ToAck(s, d.push), held)

\* dispose() of datagram d, or of what is left of it, until it ends or calls the
\* application.
Dispose(s, d, held) == Finish(s, d, held) \/ (CallProcess(s, d) /\ net' = held)

\* A data datagram for a live object, of which the network keeps `held`.  A
\* client whose sendto() failed reads no more: its m_fd is gone.
Take(s, d, held) ==
  /\ d.type = "data" /\ d.to = s
  /\ inc[s] # 0 /\ Idle(s)
  /\ s = "client" => ~broken[s]
  /\ Dispose(s, d, held)

\* It is read from the socket, and perhaps the network has another copy.
ReceiveData(s, d) == \E held \in {net, net \ {d}} : Take(s, d, held)

\* service::process returns to dispose_push, which erases the fragment delivered.
Return(s) == \E d \in rest[s] : Dispose(s, d, net)

\* The server drops a data datagram while the conversation has no context.
DropData(d) ==
  /\ d.type = "data" /\ d.to = "server"
  /\ inc["server"] = 0
  /\ net' = net \ {d}
  /\ UNCHANGED <<sides, rest, inc, writable, stamp, conv>>

Receive(d) == \/ ReceiveSetSession(d)
              \/ ReceiveAckSession(d)
              \/ \E s \in Side : ReceiveData(s, d)
              \/ DropData(d)

Next ==
  \/ \E s \in Side : Append(s) \/ Inspect(s) \/ Return(s)
  \/ RetryHandshake
  \/ \E d \in net : Receive(d)

Spec == Init /\ [][Next]_vars

-----------------------------------------------------------------------------
(* Fairness, for the liveness of the session.  routine_proxy::proxy_loop     *)
(* calls inspect() and reads the sockets for ever, each resend timer expires *)
(* again, and the application returns; of the network it is assumed that it  *)
(* does not lose the same fragment, or the same ack, every time, nor         *)
(* duplicates a datagram for ever.                                           *)

Carries(d, kind, s, f) ==
  d.type = "data" /\ d.to = s /\ f \in IF kind = "push" THEN d.push ELSE d.ack

\* A handler of side s after which fragment (or ack) f travels to its peer.
Sent(s, kind, f) == \E d \in net' : Carries(d, kind, Peer(s), f)

\* An inspect() of s resends f.
Resend(s, f) ==
  f \in InWindow(s, unacked[s], peerWin[s]) /\ Inspect(s) /\ Sent(s, "push", f)

\* Side s receives push f and its ack gets on its way.
ReceiveAndAck(s, f) ==
  \E d \in net : /\ Carries(d, "push", s, f)
                 /\ Take(s, d, net \ {d})
                 /\ Sent(s, "ack", f)

\* Side s receives an ack of f.
ReceiveAck(s, f) ==
  \E d \in net : Carries(d, "ack", s, f) /\ Take(s, d, net \ {d})

ReceiveHandshake ==
  \E d \in net : (ReceiveSetSession(d) \/ ReceiveAckSession(d)) /\ d \notin net'

Fairness ==
  /\ WF_vars(ReceiveHandshake)
  /\ \A s \in Side : WF_vars(Return(s))
  /\ \A s \in Side : \A f \in 0..MaxSeq[s] - 1 :
       /\ SF_vars(Resend(s, f))
       /\ SF_vars(ReceiveAndAck(Peer(s), f))
       /\ WF_vars(ReceiveAck(s, f))

FairSpec == Spec /\ Fairness

-----------------------------------------------------------------------------
(* Properties.                                                              *)

TypeOK ==
  /\ inc \in [Side -> Nat]
  /\ next \in [Side -> Nat]
  /\ unacked \in [Side -> SUBSET Nat]
  /\ urgent \in [Side -> SUBSET Nat]
  /\ peerWin \in [Side -> 0..Window]
  /\ wait \in [Side -> Nat]
  /\ buf \in [Side -> SUBSET Nat]
  /\ acks \in [Side -> SUBSET Nat]
  /\ rest \in [Side -> SUBSET Data]
  /\ broken \in [Side -> BOOLEAN]
  /\ writable \in BOOLEAN
  /\ stamp \in 1..MaxStamp
  /\ conv \in 0..MaxStamp
  /\ net \subseteq Datagram
  /\ seen \in [Side -> SUBSET (Nat \X Nat)]

\* The reorder buffer holds only fragments inside the receive window and not the
\* one waited for: at most Window - 1 of them.  While the application is called
\* it still holds the fragment just delivered, and the next one perhaps: at most
\* Window of them (dispose_push).
BufferInWindow ==
  \A s \in Side :
    IF Idle(s) THEN buf[s] \subseteq wait[s] + 1..wait[s] + Window - 1
    ELSE wait[s] - 1 \in buf[s] /\ buf[s] \subseteq wait[s] - 1..wait[s] + Window - 2

\* What a side no longer keeps for resending, its peer's application got or
\* will get: the live object of the peer has delivered or buffered it.
ConfirmedIsHeld ==
  \A s \in Side : \A f \in 0..next[s] - 1 :
    f \notin unacked[s] => f < wait[Peer(s)] \/ f \in buf[Peer(s)]

\* The server's pushes fall inside the client's window whenever they arrive, so
\* that the client never counts them as awful behaviour and drops them.  They arrive
\* when the client has no datagram in hand: all that it can deliver is delivered.
ServerPushInWindow ==
  Idle("client") =>
    \A d \in net : d.type = "data" /\ d.to = "client" =>
      \A f \in d.push : f < wait["client"] + Window

\* No side has more on its way than the window and, for the client, one more:
\* fragments sent and not acked span at most Window sequence numbers on the
\* server and are at most Window + 1 on the client, after any mix of acks that
\* open gaps in the list, window updates and resends.
FlightBounded ==
  /\ \A f \in unacked["server"] \ urgent["server"], g \in unacked["server"] :
       f - g < Window
  /\ Cardinality(unacked["client"] \ urgent["client"]) <= Window + 1

\* A fragment the client confirmed was accepted by some context of the server,
\* whatever contexts came and went since it was sent.
ClientConfirmedWasSeen ==
  \A f \in 0..next["client"] - 1 :
    f \notin unacked["client"] => <<inc["client"], f>> \in seen["server"]

\* The session context of a live client is never replaced: `ts` is "the conv of
\* client" (udp_service_routine.cc:156), and there is one client.
ContextKept == [][inc["server"] # 0 => inc'["server"] = inc["server"]]_vars

\* The window the server was told last lets nothing through, and no ack is due or
\* on its way that would tell it of another.
Blocked ==
  /\ peerWin["server"] = 0
  /\ acks["client"] = {}
  /\ \A d \in net \cup rest["server"] : d.type = "data" /\ d.to = "server" => d.ack = {}
  /\ \A d \in net \cup rest["client"] : d.type = "data" /\ d.to = "client" => d.push = {}

\* A window of 0 is a dead end: the server sends nothing past it, a window is told
\* only with the ack of a push, and nobody probes.  Whatever both ends append,
\* resend or receive, a server that is blocked stays so while its context lives.
BlockedForGood == [][Blocked /\ inc' = inc => Blocked']_vars

\* The server's last word from its peer is that it may send nothing.
ClosedTo(s) == s = "server" /\ peerWin[s] = 0

\* Everything side s appended went to the application of its peer and is
\* confirmed.
AllDelivered(s) == wait[Peer(s)] = next[s] /\ unacked[s] = {}

\* Once the handshake is answered, all that a side appends reaches the application
\* of the peer and is confirmed, again after every append, unless the side is the
\* server and its window is closed for good.
EventuallyDelivered ==
  \A s \in Side : <>[]ClosedTo(s) \/ []<>(writable => AllDelivered(s))

-----------------------------------------------------------------------------
(* What the session promises: a reliable stream each way.                    *)

Held(s) == 0..wait[s] - 1 \cup buf[s]

Reliable == INSTANCE ReliableStream WITH
  End       <- Side,
  sent      <- next,
  received  <- [s \in Side |-> Held(Peer(s))],
  delivered <- [s \in Side |-> wait[Peer(s)]],
  confirmed <- [s \in Side |-> 0..next[s] - 1 \ unacked[s]]

ReliableStreams == Reliable!Spec
=============================================================================
