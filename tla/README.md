# heron-routines in TLA+

TLA+ models of heron-routines, a C++ framework for event-driven services: every
*proxy* is a thread with an epoll loop that owns *routines* (sockets and
sessions), timers and two socket pairs to talk to the other proxies.  The part
with the most protocol in it is its own reliable session over UDP; it is modelled
here with the loop of a proxy, the registry of its routines, its timers, its TCP
sessions, the framing of messages, and the threads that talk and stop over socket
pairs, checked with TLC and, for most of it, proved with TLAPS.

## The system

| component | state | operations | what is hard about it |
|---|---|---|---|
| UDP session, client end (`active_udp_session_routine`) | `m_send_fragment`, `m_recv_fragment`, `m_sending_ack`, `m_next_send_seq`, `m_recv_wait_seq`, `m_peer_recv_window`, `m_writable`, `m_fd` | `create`, `inspect`, `on_readable`/`dispose`, `append_send_data`, `forward` | loss, duplication and reordering of datagrams; windows; retried handshake; a send that would block half way |
| UDP session, server end (`udp_session_context`) | the same, created by the listener, no descriptor of its own | the same, fed by the listener | the same, and a different window rule; both call the application in the middle of a datagram |
| UDP listener (`udp_service_routine`) | none of its own; the registry | `on_readable` | a handshake that arrives twice, late, or for a live context |
| proxy loop and registry (`routine_proxy`, `hybrid_list`) | `m_routine_mgr`, epoll registrations | `react`, `process_events`, `inspect`, `add_routine`, `close_routine`, `settle_routine` | events of a batch outlive the routine they are for; callbacks close routines |
| timers (`timer_manager`, `process_timers`) | buckets, the map of timers, the cursor | `register_timer`, `delete_timer`, `forward_timer`, `process_timers` | callbacks that register and delete timers; timers that run late; empty buckets |
| stream routines (`routine`, `*tcp*`) | `m_send`, `m_recv`, `m_writable`, `m_fd` | `do_nonblock_*`, `append_send_data`, `on_readable`, `on_writable` | arming of EPOLLOUT, partial writes, full buffers |
| circular buffer | `m_data`, `m_pos` | `append`, `consume` | boundaries |
| inter-proxy messages (`ipc_routine`), shutdown (`service::stop_service`) | `m_send_list`, `m_writable`, `m_service_state`, `m_proxy_exit_count` | `send_msg`, `send_stop`, `notify_stopped`, `on_readable`, `on_writable` | threads that share an `ipc_routine`; a stop or stopped message that waits in a backlog nobody drains; a signal before the loop starts |
| service | proxies, thread map, framing of messages | `process`, `start_service`, delegations | a stream cut anywhere; malformed and oversized messages; callbacks in the middle of the framing loop |
| logging | a socket pair per proxy, a file | `log`, `append_send_data`, `on_readable`, `append` | a full socket; partial writes; the log proxy is not joined |

The client's and the server's session objects interact only by datagrams.  A
session calls the application (`service::process`, `on_routine_closed`) in the
middle of its handlers and is called by it (`append_send_data`).  The proxy's
loop calls everything: readable sockets first, then `inspect()` of each routine
not inspected for 10 ms, then the timers.

## Modules

| module | what it is |
|---|---|
| `UdpSession` | one UDP conversation: client object, listener, the server's contexts, the network |
| `ReliableStream` | abstract: what a session promises, a reliable ordered stream in each direction |
| `MCUdpSession` | values of the constants of `UdpSession` for TLC |
| `UdpSessionProofs` | theorems about `UdpSession`, with proofs |
| `TimerWheel` | `timer_manager` as `process_timers` drives it, with an application that registers and deletes timers |
| `MCTimerWheel`, `TimerWheelProofs` | its instance for TLC, its theorems |
| `RoutineRing` | abstract: what `hybrid_list` promises the loop, routines found by id and their turns |
| `HybridList` | the map, the nodes and the pointers of `hybrid_list` |
| `MCHybridList`, `HybridListProofs` | its instance for TLC, its theorems |
| `Reactor` | the loop of one proxy: events, inspection, the registry, and what callbacks do to it |
| `MCReactor`, `ReactorProofs` | its symmetry for TLC, its theorems |
| `DistinctSequences` | lemmas about lists that hold no element twice, and the least of a set |
| `StreamRoutine` | one TCP session: buffers, handlers, the socket and the peer |
| `MCStreamRoutine`, `StreamRoutineProofs` | its instance for TLC, its theorems |
| `CircularBuffer` | the operations of `circular_buffer` |
| `Framing` | the receiving side of a session, of either kind: reads or fragments, `m_recv`, `service::process`, the application's answers |
| `MCFraming`, `FramingProofs` | its instance for TLC, its theorems |
| `ProxyIpc` | the threads of a service: messages, stops, notices and log lines over datagram sockets, signals and `stop_service` |
| `MCProxyIpc`, `ProxyIpcProofs` | its instance for TLC, its theorems |

`Reactor` uses the operators of `RoutineRing` for its ring, and `HybridList`
implements `RoutineRing` (`Refinement` and `RegistryIsAList` below): so what `Reactor`
takes of the list is what the list's pointers do. The modules of the sessions model the handlers that `Reactor` calls
as `Readable`, `Writable` and `InspectHead`, and `TimerWheel` what it calls as
`ProcessTimers`; each takes from the loop only that its handler runs to its end
on one thread. `StreamRoutine` and `Framing` are two views of a session:
`StreamRoutine` has the connection, the sending side and how much is received,
`Framing` has the received bytes and what `process` makes of them, for the UDP
sessions too (`UdpSession` stops where a fragment is next in order, `Framing`
starts there). `ProxyIpc` is the one module with several threads, each of which
runs the loop that `Reactor` details.

Operators called *Mutation of ...* are not part of a model: each is a plausible
bug of the definition that follows it, used to make sure that a property can
fail.

### UdpSession

Both ends have the same variables, indexed by side (`"client"`, `"server"`):
`next` is `m_next_send_seq`, `unacked` the sequence numbers in `m_send_fragment`
and `urgent` those whose `urgent` flag is set, `peerWin` is `m_peer_recv_window`,
`wait` is `m_recv_wait_seq`, `buf` is `m_recv_fragment`, `acks` is
`m_sending_ack`, `broken` is `m_fd = -1` after an error of `sendto`.  `inc`
numbers the objects: the client has one, the server makes a new context when a
`set_session` with another `ts` arrives.  `net` is the set of datagrams in
flight. `rest` is the stack of a handler that is inside `service::process`: what
it has still to dispose of of its datagram.

Each action is one handler, up to and including the `forward()` at its end.
`Append` is `append_send_data`; `Inspect` is `inspect()` of a session that is
set up and `RetryHandshake` that of a client that is not; `ReceiveSetSession`
and `DropData` are the listener's `on_readable` on a `set_session` and on data
for no context; `ReceiveAckSession` and `ReceiveData` are `dispose()`.

`dispose()` is the one handler that another one may interrupt. `dispose_push` calls
`service::process` after a fragment that ends a message, when `m_recv_wait_seq` has
passed it and it is still in `m_recv_fragment`, and what the application appends
there is forwarded at once, before the rest of the datagram. So `ReceiveData` is
either the whole of it (`Finish`) or the part up to such a call (`CallProcess`, which
leaves the rest of the datagram in `rest`); `Append` may come any number of times
then, as it may between handlers; and `Return` goes on, to the next call or to the
end. Every other handler of that side waits until it is `Idle`.

A `forward()` from inside `service::process` counts the fragment just delivered as
buffered. If the window is full with it, the acks that are due, that of this very
fragment among them, leave with `wind = 0`, and none is due afterwards
that would correct it. The server's `InSpan` lets nothing through then, so it sends
no push that could be acknowledged, and neither end probes. The client has no such
end: `InPositions` lets the head of its list through whatever the window.
`BlockedForGood` says so of the code. `EventuallyDelivered` excepts it (`ClosedTo`).

`Forward` decides what is sent (`InSpan` for the server's window rule,
`InPositions` for the client's), packs it into datagrams the way the code does
(pushes first, then acks in the room left, `PushSlot` and `AckSlot`), and stops
at the first `sendto` that would block or fails; the acks already erased into
that datagram are lost, as in the code.

What is abstracted:

- Time. Which fragments' resend timers have expired is chosen anew in each
  `forward()`. So the models allow every timing, those where the measured
  round-trip time makes the timeout 0 included.
- Contents. A fragment is (object that sent it, sequence number). Fragments are
  full, so that what is left in a datagram after the pushes that fit has no room
  for an ack before the last datagram (548 bytes of `gc_mss`: one push of
  28 + 520 bytes from the server, eleven of 28 + 20 from the client, with at
  most 20 bytes to spare; an ack is 28). A message fits
  `m_recv`.
- The network loses any datagram when it is sent, keeps a copy of any datagram
  it delivers, and delivers in any order.
- Which fragments end a message: `service::process` may be called after any.
- Keep-alive datagrams, which carry no data and change no window, and datagrams
  the parser rejects.
- One client object, and sequence numbers that do not wrap.

### TimerWheel

A wheel is a record: the registered timers with the time `left` until their next
execution, and the buckets, each the list of the timers in it. `Insert`, `Erase`,
`Reinsert` are the list operations of `register_timer`, `delete_timer` and
`forward_timer`, and `NextBusy` the loop that moves the cursor. The actions are
`Tick` (one millisecond), `Register`, `Delete`, and one round of `process_timers` in
two halves: `Fire` calls `on_timer` for the head of the cursor's bucket (`running`),
in which the application may register and delete any number of timers, and
`Forward` re-inserts the timer that ran. Time may pass in between.
`up` becomes FALSE where the code uses a NULL or a deleted timer: when a timer's
last execution empties its bucket (`timer.h:187`), and when `on_timer` deletes
its own timer (`routine_proxy.cc:384`). The clock is kept modulo the turn of the
wheel, which is all the buckets depend on.

### RoutineRing and HybridList

`HybridList` has the map (`stored`) and the two links of every node and of the
sentinel (`nxt`, `prv`). `InsertElem`, `EraseElem` and `ForwardElem` are the three
operations that change it; `Turned` is the six assignments of `forward_elem` in
their order, each reading what the ones before it wrote, which matters for rings
of one and two nodes. A list that is empty, or an id that is there (or is not),
makes an operation return without a change. `Turns` reads the ring off the
pointers: the refinement mapping to `RoutineRing`.

### Reactor

`ring` and `age` are `m_routine_mgr` (order, and the time since
`m_last_inspect_time`), `watch` is what epoll has registered: for each routine
with a descriptor the id its events carry (`tag`, the `data.u64` of the
registration) and whether EPOLLOUT is among them. `batch` is what is left of
`arr_events`, an event being the routine it comes from (`of`), the id it carries and the handlers `process_events` would call for it in
turn (`left`, one of `Handlers`). `phase` is where the loop is; `visits` is the `n` of
`inspect()`.

`Poll` is `epoll_wait`; `Dispatch` looks the routine of the next event up and
calls a handler or drops the event; `Readable`, `Failed` and `Writable` are the
return of the handler and what `process_events` does with it. Between `Dispatch`
and the return the handler is on the stack, and the application may call
`AddRoutine`, `CloseRoutine` and `SettleRoutine` any number of times: that is how
callbacks in the middle of `service::process` interleave. `SendBlocked` is a log
line or a message for a full socket pair, whose `modify_events` leaves the id of
the registration unset (`Modified` takes any). `Sleep`, `InspectHead`,
`InspectEnd` and `ProcessTimers` are the rest of `react()`.

A routine that is deleted (`CloseRoutine`) takes its descriptor out of epoll with
`~routine`, unless it is an active UDP session (`Udp`): its own destructor has set
`m_fd` to -1 by then (`Destroyed`), and the descriptor stays open and registered
under an id that nobody has. The closes and settlements that unregister the
descriptor first (`Unregistered`) fail to when a `sendto` of the session failed,
which sets `m_fd` to -1 too. `RegistryAgrees` states that ids of such sessions are all
that epoll knows besides the routines in the map; `Dispatch` drops their events.

`Closes` says which routines callbacks close: the one called, others. What the
listener's `on_readable` does after it closed a context that it dispatches to is
not told apart from other closes. `MayFill`
says whether the proxy's own socket pairs may be full. Ids are never given twice
(`gen_routine_id` is a 64-bit counter). What a handler does after its object was
deleted is undefined: the model stops there, and `NeverDangling` says that it
does not come to that. A routine that was settled elsewhere stays alive and does
not come back.

### StreamRoutine

`send` is `m_send`, `recv` the length of `m_recv`, `writable`, `established` and
`watchOut` are `m_writable`, `m_established` and whether EPOLLOUT is registered.
`out` and `in` are the socket's buffers, `got` what the peer read; `peer` and `eof`
are the state of the connection. The bytes sent are numbered, and `accepted` is
what `append_send_data` has returned true for.

`AppendSendData` is the whole of `append_send_data`, in its two branches and with a
socket that was reset. `Created` and `Writable` are `process_events` on EPOLLOUT:
for an active session that is not established the callback `on_routine_created`
runs in the middle (`handler = "created"`), and may append. `Readable` is
`do_nonblock_recv`, `service::process` (of which only matters how much of an
incomplete message it leaves, and whether it refused one), and the close that
follows; `Failed` the close after EPOLLERR, EPOLLRDHUP or EPOLLHUP.

The application returns `>= 0` from `process`: with less, `service::process` runs on
the same message for ever (`service.cc:298`). An incomplete message is shorter
than `m_recv` (`KeepMax < RecvCap`). In the code the two buffers and the largest
read are 64 KiB; the model takes any sizes.

### CircularBuffer and Framing

`CircularBuffer` has the string and the position of the first byte that is not
consumed, and `Consumed` the three cases of `consume`: the string is emptied, its
consumed prefix is erased, or only the position moves.

In `Framing` the peer's bytes are numbered, and `starts` says where its messages
begin. So a byte's value tells whether a header begins at it, and what `process`
reads at the head of `m_recv` is the size of the message that begins there, or, if
none does, anything (`Announced`, `Garbage`): garbage is a consequence, not an
assumption. A message's size is whatever its header says and may be less than a
header, or more than the buffer.

`Read`, `ReadNoRoom` and `ReadNothing` are `on_readable` of the two kinds of TCP
session up to `process`, with what each makes of `do_nonblock_recv`'s result
(`closing`); a full buffer makes `read()` of no bytes look like the end of the
stream. `Fragment` is the tail of `dispose_push` for the fragment next in order:
`process` is called after the last of a message, and a fragment that does not fit
stays in `m_recv_fragment`. `Wait`, `Malformed`, `Take`, `Settle` and `Fail` are one
round of the loop of `process`: nothing whole, a bad size, and the application's
three answers. `Return` is the handler after `process`: TCP sessions close on a bad
result, UDP sessions do not look at it. What epoll does about the end of the
stream, and errors of the socket, are in `StreamRoutine`.

### ProxyIpc

A channel is a datagram socket with the routine that writes to it: `Hub(w)` is the
`m_ipc_routine` of worker `w` that lives in the master's loop, `Log(w)` the
`m_log_routine` in the worker's own. Of each the model has `m_writable`,
`m_send_list` (`backlog`), the socket (`wire`), whether EPOLLOUT is registered
(`armed`) and the id its events carry (`tag`). `Post` is `send_msg`, `send_stop` and
`append_send_data`, which do the same; `Flush` is `on_writable` with what
`process_events` does after it. After a `modify_events`, which leaves `ev.data` unset,
`tag` is any id of the loop or none, until EPOLLOUT has been handled under the
right one; `Dispatch` gives an event to the routine its `tag` names, a notice too.

`pc` is where the master is: its loop, the loop of `stop_service` that sends stops,
the one that waits for the notices, the joins. `wpc` is where a worker is. `Signal` may
come at any time, `Work` overwrites what one before it wrote. `ReadLog` is the log
proxy's `on_readable` with `file_writer::append`, whose `write()` takes any part of
its buffer: it may end in the middle of a line, so a line is its two `Parts`.

What is abstracted: one datagram is read in a step, where the code goes on until
the socket is empty, so the model interleaves more. Messages and lines are
numbers. Errors of `write()` other than a full socket are left out, and so are the
master's own log lines (their channel is one more like a worker's). Only the
master sends messages: a worker that sends to another proxy uses the master's
`ipc_routine`, list and all, without a lock (`routine_proxy.cc:131`), which is
undefined. The notice of a worker does not find its socket full, for it is the only
datagram the worker writes there.

## What TLC checks

| run | instance | properties |
|---|---|---|
| `UdpUplink` | window 2, client sends 4 fragments, 2 per message and per datagram, two handshakes and contexts, sendto errors | `TypeOK`, `BufferInWindow`, `ClientConfirmedWasSeen`, `FlightBounded` |
| `UdpDownlink` | window 2, server sends 3, client 1, one handshake | `ConfirmedIsHeld`, `ServerPushInWindow`, `FlightBounded`, `BlockedForGood`, `ReliableStreams` |
| `UdpLive` | window 2, client 1, server 2, fair | `EventuallyDelivered` |
| `UdpRetryResets` | two handshakes | `ContextKept` is violated |
| `TimerOps` | 3 timers, intervals 2 and 5, for ever or twice, 3 buckets of 2 ms | `TypeOK`, `EachInItsBucket`, `CursorOnTimer` |
| `HybridRing` | 4 ids, 2 routines | `WellLinked`, `RingOfTurns` |
| `ReactorLoop` | one routine of the proxy and 2 that come and go, one of them a UDP session, 2 events a batch, callbacks close others, full sockets and unset ids, fair | `TypeOK`, `RegistryAgrees`, `NeverDangling`, `OnlyPolled`, `InspectMissesNone`, `EventuallyInspected` |
| `ReactorSelfClose` | callbacks close the routine they are called for | `NeverDangling` is violated |
| `StreamActive` | connecting, pending or made at once; `m_send` of 3 bytes, socket of 2, messages up to 3, 5 bytes in all, fair | `TypeOK`, `WritableIsIdle`, `SentInOrder`, `ClosedForAReason`, `ArmedIsFlushed`, `ToldOfConnection` |
| `StreamBurst` | accepted | `ClosedForAReason` is violated |
| `Framing` | buffer of 12, header of 2, reads of at most 8, fragments of at most 4; three messages of sizes 1, 2, 5, 12, 13; all three kinds of session; fair | `InStep`, `MemoryBounded`, `GivenWhole`, `ClosedForCause`, `GivenInTurn` |
| `ProxyStop` | 2 workers, sockets of one datagram, 3 loads of messages and log lines, 2 signals, fair | `TypeOK`, `InOrder`, `NobodyHangs`, `ReadBeforeLeaving`, `StoppedIsStopped`, `LinesInOrder`, `StopCompletes`, `LogDrains` |

Bounds. The number of fragments appended exceeds the window, by two for the
client, because it sends one more than the window: so the window opens, closes
and moves, the reorder buffer fills, and fragments arrive past the window.
`MaxInFlight` 2 is enough for reordering and, with a datagram kept on delivery,
for a duplicate that arrives after the window has moved. `MaxStamp` bounds
handshake retries and `MaxContexts` the contexts. `MaxBurst` 2 makes one message
of two fragments. With `Mss` 2 units, an ack is 1, a push is 1 (client: two per
datagram) or 2 (server: one per datagram), which keeps the two packings of the
code. With a window of 2 a fragment buffered out of order and the one it waited for
fill the window inside `service::process`: in `UdpDownlink` and `UdpLive`, where the
client has a fragment to append there, the server is told 0 and blocked. In `UdpUplink`
the server appends nothing and no window of 0 is told; that it is told to a client
is covered by the proofs only. `MaxLate` stops the clock of `TimerWheel` when a timer is so late, and
`LoopDelay` is how late the loop may come to `process_timers`. The runs of
`UdpSession` do not check deadlock: when all is appended and delivered, or the
client has used up its handshakes, nothing is left to do; nor do those of
`TimerWheel`, where time stops at the bound and `up` may become FALSE; nor those of
`StreamRoutine` and `Framing`, where a closed session has nothing left to do; nor
`ProxyStop`, which ends with the service. `HybridRing` and the
runs of `Reactor` check it: a list takes another operation, and a loop another
round, in every state (but one with a dangling object, which a property excludes).

`Gap` is 1 ms in the runs of `Reactor`, and ages are told apart up to `Gap + 1`:
a routine is young, due, or was never inspected. `FetchMax` 2 gives a batch in
which one event changes what the next one finds; two routines that come and
go, besides the one of the proxy, let one be closed while the other keeps its
turn, and a younger one be added in the middle of a batch.
`Id` bounds how many routines are ever added, as ids are not reused. In
`StreamRoutine` the sizes differ from each other, a message may be larger than
the socket and as large as `m_send`, and `MaxBytes` lets a second message come
while the first one waits.

The sizes of `Framing` are a message too short for its header, one that is only a
header, one that a read cuts, one that fills the buffer and one that exceeds it;
three of them in a row put the position of the buffer before, on and behind a
quarter of its capacity while bytes remain. In `ProxyStop` a socket of one datagram
is full at every second send, so backlogs of two form; two workers are what it
takes to send a notice astray to another worker's routine, and to have one stopped
while the other is not. The loads fill one kind of channel each: two messages and
the stop on one hub, three lines and the last one on one log, lines of both
workers. The second signal comes while the first is handled.

Fairness (`UdpSession!Fairness`). The loop calls `inspect()` and reads the
sockets for ever, and each resend timer expires again, which justifies that an
`inspect()` that sends a fragment happens again and again; that one of those
datagrams, and one of the acks it causes, arrives is assumed of the network (SF
of `Resend` and `ReceiveAndAck`), as is that it does not duplicate one datagram
for ever. The application returns from `service::process` (WF of `Return`).
`EventuallyDelivered` starts when the handshake is answered: a client
whose `set_session` is lost at the bound of retries waits for ever.
`Reactor!Fairness`: `react()` is called for ever and every callback returns, so
each step of the loop is weakly fair; the application is not.
`StreamRoutine!FairSpec`: the loop handles the EPOLLOUT that level-triggered epoll
reports again and again, the callback returns, a connection is made or refused, the
peer reads. `Framing`: the thread does not stop in the middle of `process`; whether
more bytes come is left open. `ProxyIpc!Fairness`: every thread goes on, and every
`react()` handles all events that wait, so each channel's events and each reader's
datagrams are weakly fair; signals, messages and lines are not.

`StopCompletes` and `LogDrains` state their exception: events that are astray for
good, which the code cannot rule out (`ev.data` is what the stack holds). Without it
TLC finds the stop that is never acknowledged. `StopCompletes` starts from a stop
asked for while the loop runs: a signal before `service_state_work` is assigned is
lost. `LogDrains` is about running workers, because what waits when a worker ends
is lost.

Three runs find the code to disagree with what it says of itself.

- `UdpRetryResets`. The client retries its handshake in every `inspect()` until
  it is answered, each time with a fresh clock value in `ts`; the listener, whose
  comment calls that value "the conv of client", closes the context on the
  second and makes another. Data of the first is lost to the application when it
  was delivered or buffered there, and both ends' numbers part. The theorems below that
  need it assume one handshake (`MaxStamp = 1`).
- `ReactorSelfClose`. `close_routine` deletes the object at once, also from a
  callback of that object, whose caller (`service::process`, and
  `active_udp_session_routine::on_readable` after a failed `dispose`) goes on to
  use it. `process_events` looks the routine up again, the callers do not.
- `StreamBurst`. A read that fills what it asked for makes `do_nonblock_recv`
  return 0, "not all received"; the passive session closes on 0.

Six more are in the models without a run of their own. A window of 0 advertised from
inside `service::process` stops the server's stream for good (above). The client allows one
fragment more than the window and counts list positions, not sequence numbers, so
that with gaps its pushes pass the window by more; the receiver drops them, and
they are resent: the session stays reliable, as `Confirmation` and `Refinement`
show. `append_send_data` of a stream returns before the call that registers
EPOLLOUT, so an accepted session whose socket was full keeps its data until the
next append; `ArmedIsFlushed` shows that what is armed does leave. `modify_events` registers
an `epoll_event` whose `data` nobody set, and the log or ipc socket's events then
go to any routine or to none (`Modified`; with `MayFill` FALSE they do not). An active
UDP session that is deleted leaks its descriptor, which stays in epoll (`Destroyed`). A
comment in `process_events` says that a readable routine that is not found shows a
bug of the proxy: it also happens when a callback closes a routine that a later
event of the batch is for, and is harmless. And a connection made at
once by `connect()` leaves nothing to ask EPOLLOUT for: the application is never told
of it. `ToldOfConnection` states both cases, and `StreamActive` starts from both.

Of the timers, TLC also showed what is not a property of the code: the lag of a
periodic timer is not bounded, even with two timers, because the cursor waits on
a bucket whose head is not due while other buckets are. There is no statement of
the code about it, so it is recorded as a hazard and not checked.

## What is proved

`UdpSessionProofs` proves, for every value of the constants:

- `TypeCorrect`, `BufferSafe`: `TypeOK` and `BufferInWindow` hold in every reachable
  state, any number of handshakes and contexts included. They come together from the
  inductive invariant `WindowInv`: between handlers the reorder buffer never holds the
  fragment waited for, which is why it has at most `Window - 1` elements
  (`BufferStaysInWindow`, `AdvertisedPositive`); inside `service::process` it holds the
  fragment just delivered as well, and `WindowInv` says what is in hand then.
- `WindowClosesInside`: a window of 0 is advertised only by an append from inside
  `service::process`. And `BlockedStays` (`BlockedForGood`): a server that was told 0,
  with nothing due or on its way that would tell it otherwise, is blocked for as
  long as its context lives. What `Forward` of either end adds to the network then has
  neither pushes to the client nor acks to the server (`ForwardStaysBlocked`).
- With `MaxStamp = 1`, `Confirmation`, `ServerPushesFit`, `ContextIsKept` and
  `Refinement` (the session implements `ReliableStream`, by the refinement
  mapping of `UdpSession`). They come from `StreamInv`, which adds to `WindowInv`
  what relates the two ends and the network: an ack in flight or due is for a
  fragment its sender holds, a fragment in flight was appended, what is not
  unacked is held by the peer, and while the server has no context nothing of it
  exists. None of the properties is inductive without the part about datagrams
  in flight. `InFlightKept` is that part for a handler that ends in `Forward`.
- With `MaxStamp = 1` again, `StoppedOnlyByZero`: the oldest fragment a side keeps always
  fits its own window and is always taken by the peer, whatever it is packed with,
  unless the side is the server and the last window it was told is 0. So that is all
  that can stop a stream: it is the safety that `EventuallyDelivered` rests on, exception
  included. It follows from `StreamInv`: were the oldest past the one the peer waits for,
  that one would be confirmed and not held.
- `ConfirmedWasTaken` (`ClientConfirmedWasSeen`) and `FlightSafe` (`FlightBounded`), with
  any number of handshakes and contexts. Their invariant is `SessionInv`. An ack in
  flight to the client, or due at a context, is for a fragment that a context of
  that conversation took (`AcksWereTaken`: with that, an ack of a context that is gone
  still tells the truth). What has been sent and is not acknowledged lies in the
  window counted from the oldest fragment kept (`SentInWindow`): `Forward` sends only
  what its window lets through, an ack that opens a gap in the list only brings the
  others nearer to its head (`RankShrinks`, for the client, which counts positions), and
  what is appended goes to the end, where it has not been sent.

The proofs use the assumptions on the constants in `UdpSession`
(`WindowAssumption`, `SizeAssumption`, `BoundAssumption`) and nothing else.

`HybridListProofs` proves `RingWellLinked`: `WellLinked` with the domains it names
is inductive, for any set of ids that the sentinel is not in (`RootAssumption`). And
it proves `Refinement`: `HybridList` implements `RoutineRing` (`RingOfTurns`). The two
directions being inverse would allow several rings; the invariant `RingInv` says that
there is one, that some list without repetition of exactly the ids in the map `Leads`
from the sentinel along `nxt` and back to it. `InsertLeads`, `EraseLeads` and `ForwardLeads`
give that list after each operation: the one `RoutineRing` has. `LeadsIsTurns` shows that
it is the list the refinement mapping reads off the pointers.

`DistinctSequences` has the lemmas about lists that hold no element twice (append,
tail, unlink one) and about the least of a set of naturals, on which the next two and
`HybridListProofs` rest. The prover cannot use the library's induction theorems; where a
recursive function is reasoned about (`Turns` of `HybridList`, `LinesOf` of `ProxyIpc`) it
is by the least counterexample (`LeastOf`), first to show that the function exists,
then that it is the only one.

`ReactorProofs` proves every safety property of `ReactorLoop`.
`ObjectsSafe`: if callbacks do not close the routine they are called for
(`"self" \notin Closes`), `NeverDangling`, because what is registered was not
deleted and the routine of a running handler is registered or was settled.
`EventsSafe`: `OnlyPolled`, because every event of a batch comes from a routine whose
id was given before the batch was fetched, and an id is given once. (An event that
`modify_events` sent astray may reach any routine; the theorem is about the others.)
`RegistrySafe`: `RegistryAgrees`, as `RegistryInv`, which adds that what is registered
was given an id; what a close leaves in epoll is of a UDP session (`ClosedLeaves`,
`UnregisteredIs`). `TypeCorrect`: `TypeOK`. `InspectionSafe`: `InspectMissesNone`, because the
ring is in the order of the inspections but for routines that wait for their
first (`Ordered`), which a routine that leaves, comes or is sent to the end keeps, and
what `inspect` has visited is at the end with age 0. `RegistryIsAList`: every step changes
ring and map as a step of `RoutineRing` or not at all, which is where this module and
`HybridList` meet. They use `QueueAssumption` (the
routines of the proxy itself are finitely many) and `GapAssumption`.

`TimerWheelProofs` proves every property of `TimerOps`: `TypeCorrect`, `BucketsAgree`
(`EachInItsBucket`) and `CursorSafe` (`CursorOnTimer`), from `TimerAssumption` alone: any
base, number of buckets, intervals and lateness. The invariant `Good` says that
each bucket is a list without repetition of exactly the timers whose `Slot` it is;
`SlotStays` is the arithmetic of a tick (the remainder does not change when the clock
gains and the time left loses one, past the end of a turn too), and `NextBusyFinds`
that the walk round the wheel ends on a timer if there is one. The invariant says of
`running` that the cursor's bucket has a head: what `on_timer` registers or deletes, its
own timer excepted, leaves it there, which is why `process_timers` may go on.

`StreamRoutineProofs` proves every invariant that `StreamActive` checks:
`BlockedSafe` (`WritableIsIdle`, which is inductive) for any sizes; `OrderSafe` (`SentInOrder`) and `TypeCorrect` for messages
that fit `m_send` (`MaxLen <= SendCap`: a longer one may be torn); `ReasonSafe`
(`ClosedForAReason`) for a connecting session whose incomplete messages are shorter
than its buffer (for an accepted one `StreamBurst` refutes it). They use
`KindAssumption` and `SizeAssumption` of `StreamRoutine`.

`FramingProofs` proves `TypeCorrect`, `AlwaysInStep`, `AlwaysBounded`,
`AlwaysGivenWhole` and `AlwaysClosedForCause` for any streams, capacity, header
length, read and fragment size. The inductive invariant `IInv` is `TypeOK`, `InStep`
and `MemoryBounded` with two facts that `ClosedForCause` needs: between
two handlers of a connected session the head of `m_recv` is not a whole message
(`Stalled`, so that a read finds no room only if the message is too large), and
`process` runs only for an open session (`Alive`). `TakeKeeps` and `ArriveKeeps` are the two operations of the buffer; after them
nothing of its position or erasures is needed.

`ProxyIpcProofs` proves `TypeCorrect`, `ChannelsInOrder`, `BacklogArmed`, `StoppedSafe`,
`NothingSentIsMissed`, `NobodyIsForgotten` and `LinesSafe` for any finite set of workers, socket size, loads and
signals. The invariant has four parts. `ChannelsInv`: each channel is `Good` (its
order, its size, armed while it has a backlog, a tag of its loop), which `Post`,
`Flush` and `Take` preserve. `CountInv`: `exits` is the cardinality of the workers
heard, which have ended and have no notice left, so that the count cannot reach
the number of workers before all have ended, whatever routine a notice went to.
`StopInv`: a worker that was asked to stop has read a stop; with the order of its
channel that is `ReadBeforeLeaving`. `TypeInv` is the rest of `TypeOK`.
`NobodyIsForgotten` is `NobodyHangs`: while the master waits, a worker that it has not
counted has a datagram to read, has its loop to leave, or its socket has an event
(a notice, or room for an armed backlog). It needs `WayInv` as well: a worker that has
not read its stop was sent one, and one that has ended is heard or has a notice. That
is the part of `StopCompletes` which is safety; that those events are handled is
fairness, and that they carry the right id is the exception `StopCompletes` names.
`LinesSafe` is `LinesInOrder`, from the types alone: one line more in what was read is
its two parts more at the end of the file and buffer together, whatever `write` took.
`BacklogArmed` says of every channel, the log's too, that a backlog is armed; it is
stated in `ProxyIpcProofs` only.

Every safety property that a run checks is proved: each invariant and both
refinements, under the assumptions named above. Model-checked only are the
liveness properties (`EventuallyDelivered`, `EventuallyInspected`, `ArmedIsFlushed`,
`ToldOfConnection` with its safety half, `GivenInTurn`, `StopCompletes`, `LogDrains`): they rest on fairness, and so
on ENABLED, which the prover does not have. What the proofs add to them is the
safety underneath: `NobodyHangs`, `OldestGoesThrough` (`StoppedOnlyByZero`), `BlockedForGood`, `InspectMissesNone`, `WritableIsIdle`,
`BacklogIsArmed` and, for `GivenInTurn`, `Stalled` of `FramingProofs`.

## Not modelled

- The keep-alive of `udp_session_context` and the resend timeout's values: they need
  real time; every timing of resends is in `UdpSession` as a choice.
- Sequence numbers that wrap at 2^32, after four billion fragments of a session.
- A routine settled to another proxy, once it has left: the receiving proxy copies
  it to a null pointer (`ipc_routine.cc:268`), so there is no behaviour to model.
- Messages sent by a worker to another proxy, and log lines of a signal handler:
  data races, every outcome of which is possible.
- The TCP listener, which accepts and adds routines (`AddRoutine` of `Reactor`) and keeps
  nothing (an `accept` that fails for want of descriptors is tried again for ever,
  `tcp_service_routine.cc:141`); `service`'s delegations to the proxy of the calling
  thread.
- `stop_service` called from anywhere but the end of `start_service` (from a callback of
  the master it would run twice, from a worker it would wait for that worker), and
  the destructor of the service, which deletes the log proxy under its thread.
- More than 30 proxies (the cap of `service.cc:46` is not the bound of the loop at
  `service.cc:58`), and the log level `log_all`, at which writing a log line logs a line.
- `udp_define`: conversions of fixed-width fields. `sample`, `tstruct`,
  `test_hyper_list`: an application and scratch programs.

## Plan

What is left that would add most: `UdpPacing`, the resend timeout with time, and
keep-alive; `UdpSession` with small-width sequence numbers.
