------------------------------ MODULE ProxyIpc ------------------------------
(***************************************************************************)
(* The threads of a service and the datagram sockets between them: the     *)
(* master sends messages to the workers and stops them (service.cc,        *)
(* ipc_routine.cc), every worker logs through the log proxy                *)
(* (log_routine.cc, file_writer.cc).                                       *)
(* A channel is a socket with the routine that writes to it: m_ipc_routine *)
(* of a worker in the master's epoll, m_log_routine in the worker's own.   *)
(***************************************************************************)
EXTENDS FiniteSets, SequencesExt

CONSTANTS
  Worker,     \* ids of the worker proxies
  Nobody,     \* event data that is the id of no routine
  SockCap,    \* datagrams that a socket holds
  Loads,      \* bounds: how much each worker is sent and logs before it stops
  MaxSignals  \* bound: signals

ASSUME WorkerAssumption == Worker \subseteq Nat \ {0} /\ IsFiniteSet(Worker)
ASSUME SockCapAssumption == SockCap \in Nat \ {0}
ASSUME LoadsAssumption == Loads \subseteq [msgs : [Worker -> Nat], lines : [Worker -> Nat]]
ASSUME MaxSignalsAssumption == MaxSignals \in Nat

VARIABLES
  pc,       \* the master: "ready", "work", "stopping", "waiting", "joining", "joined"
  state,    \* m_service_state
  todo,     \* the workers that the loop of stop_service has before it
  exits,    \* m_proxy_exit_count
  heard,    \* the workers whose notice was counted
  wpc,      \* the workers: "run", "asked" (require_stop was called), "ended"
  notices,  \* the workers whose notify_stopped datagram waits to be read
  chan,     \* the channels
  sent,     \* what was sent on each channel, in order
  got,      \* what was read from each channel, in order
  pending,  \* m_write_buffer of the file_writer
  file,     \* the log file
  load, signals  \* what is left of the bounds

master == <<pc, state, todo, exits, heard>>
workers == <<wpc, notices>>
log == <<pending, file>>
bounds == <<load, signals>>
vars == <<master, workers, chan, sent, got, log, bounds>>

Hub(w) == <<"hub", w>>
Log(w) == <<"log", w>>
Channel == {"hub", "log"} \X Worker

\* What a datagram to a worker is; messages and log lines are numbered.
Stop == 0

\* The ids that events of a channel may carry after modify_events left
\* ev.data unset: the right one, or another routine's. In a worker the only other
\* one, its m_ipc_routine, has nothing to write: the same as nobody's.
TagsOf(c) == {Nobody, c} \cup (IF c[1] = "hub" THEN {Hub(w) : w \in Worker} ELSE {})

Init ==
  /\ pc = "ready" /\ state = "init" /\ todo = {} /\ exits = 0 /\ heard = {}
  /\ wpc = [w \in Worker |-> "run"] /\ notices = {}
  /\ chan = [c \in Channel |-> [writable |-> TRUE, backlog |-> <<>>, wire |-> <<>>, armed |-> FALSE, tag |-> c]]
  /\ sent = [c \in Channel |-> <<>>] /\ got = [c \in Channel |-> <<>>]
  /\ pending = <<>> /\ file = <<>>
  /\ load \in Loads /\ signals = MaxSignals

-----------------------------------------------------------------------------
(* Writing to a channel.                                                    *)

\* Mutation of Blocked: what was queued earlier is overtaken.
BlockedBySocket(ch) == Len(ch.wire) = SockCap

\* m_writable is false, or write() fails with EAGAIN.
Blocked(ch) == ~ch.writable \/ Len(ch.wire) = SockCap

\* send_msg, send_stop and append_send_data of log_routine: to the socket, or
\* to m_send_list and modify_events.
Post(c, d) ==
  /\ sent' = [sent EXCEPT ![c] = Append(@, d)]
  /\ \/ /\ ~Blocked(chan[c])
        /\ chan' = [chan EXCEPT ![c].wire = Append(@, d)]
     \/ /\ Blocked(chan[c])
        /\ \E tag \in TagsOf(c) :
             chan' = [chan EXCEPT ![c].writable = FALSE, ![c].backlog = Append(@, d),
                                  ![c].armed = TRUE, ![c].tag = tag]

\* How much of m_send_list on_writable gets into the socket.
Room(ch) == Min({Len(ch.backlog), SockCap - Len(ch.wire)})

\* Mutation of StillWritable: m_writable stays as process_events set it.
StillWritableAlways(left) == TRUE

\* m_writable after on_writable: whether nothing blocked.
StillWritable(left) == left = <<>>

\* on_writable, and process_events after it: when all is written EPOLLOUT is
\* removed and the right id registered; a log_routine that is blocked calls
\* modify_events again.
Flush(c) ==
  LET ch == chan[c]
      left == SubSeq(ch.backlog, Room(ch) + 1, Len(ch.backlog))
      done == StillWritable(left)
  IN  \E tag \in IF done THEN {c} ELSE IF c[1] = "hub" THEN {ch.tag} ELSE TagsOf(c) :
        chan' = [chan EXCEPT ![c] =
          [writable |-> done, backlog |-> left,
           wire |-> ch.wire \o SubSeq(ch.backlog, 1, Room(ch)),
           armed |-> ~done /\ (ch.armed \/ c[1] = "log"), tag |-> tag]]

\* read() of one datagram.
Take(c) ==
  /\ chan[c].wire # <<>>
  /\ chan' = [chan EXCEPT ![c].wire = Tail(@)]
  /\ got' = [got EXCEPT ![c] = Append(@, Head(chan[c].wire))]

-----------------------------------------------------------------------------
(* The events of a writing end.                                             *)

\* Its thread is in react().
Running(c) == IF c[1] = "hub" THEN pc \in {"work", "waiting"} ELSE wpc[c[2]] # "ended"

EventIn(c) == c[1] = "hub" /\ c[2] \in notices
EventOut(c) == chan[c].armed /\ Len(chan[c].wire) < SockCap

\* process_events of one event of c: it is for the routine whose id the event
\* carries. on_readable counts the notices of that routine's socket.
Dispatch(c) ==
  /\ Running(c)
  /\ EventIn(c) \/ EventOut(c)
  /\ chan[c].tag # Nobody
  /\ LET t == chan[c].tag
     IN  /\ IF EventIn(c) /\ t[2] \in notices
            THEN exits' = exits + 1 /\ notices' = notices \ {t[2]} /\ heard' = heard \cup {t[2]}
            ELSE UNCHANGED <<exits, notices, heard>>
         /\ IF EventOut(c) THEN Flush(t) ELSE UNCHANGED chan
  /\ UNCHANGED <<pc, state, todo, wpc, sent, got, log, bounds>>

-----------------------------------------------------------------------------
(* The master.                                                              *)

\* start_service enters its loop, whatever a signal has written before.
Work ==
  /\ pc = "ready"
  /\ pc' = "work" /\ state' = "work"
  /\ UNCHANGED <<todo, exits, heard, workers, chan, sent, got, log, bounds>>

\* signal_handle of SIGINT.
Signal ==
  /\ signals > 0 /\ signals' = signals - 1
  /\ state' = "stop"
  /\ UNCHANGED <<pc, todo, exits, heard, workers, chan, sent, got, log, load>>

\* send_message of the application to a routine of a worker, from a callback.
SendMessage(w) ==
  /\ pc \in {"work", "waiting"} /\ load.msgs[w] > 0
  /\ load' = [load EXCEPT !.msgs[w] = @ - 1]
  /\ Post(Hub(w), Len(sent[Hub(w)]) + 1)
  /\ UNCHANGED <<master, workers, got, log, signals>>

\* The loop ends and stop_service begins.
LeaveLoop ==
  /\ pc = "work" /\ state # "work"
  /\ pc' = "stopping" /\ state' = "stop" /\ todo' = Worker
  /\ UNCHANGED <<exits, heard, workers, chan, sent, got, log, bounds>>

\* The loops of stop_service go from the highest id down.
IsNext(w) == w \in todo /\ \A v \in todo : v <= w

\* One iteration of its first loop.
SendStop(w) ==
  /\ pc = "stopping" /\ IsNext(w)
  /\ Post(Hub(w), Stop)
  /\ todo' = todo \ {w}
  /\ UNCHANGED <<pc, state, exits, heard, workers, got, log, bounds>>

WaitForAll ==
  /\ pc = "stopping" /\ todo = {}
  /\ pc' = "waiting"
  /\ UNCHANGED <<state, todo, exits, heard, workers, chan, sent, got, log, bounds>>

\* Mutation of Enough: one notice is not waited for.
EnoughButOne == exits + 1 >= Cardinality(Worker)

Enough == exits >= Cardinality(Worker)

\* "all stopped".
AllStopped ==
  /\ pc = "waiting" /\ Enough
  /\ pc' = "joining" /\ todo' = Worker
  /\ UNCHANGED <<state, exits, heard, workers, chan, sent, got, log, bounds>>

\* pthread_join of one worker.
Join(w) ==
  /\ pc = "joining" /\ IsNext(w)
  /\ wpc[w] = "ended"
  /\ todo' = todo \ {w}
  /\ UNCHANGED <<pc, state, exits, heard, workers, chan, sent, got, log, bounds>>

JoinedAll ==
  /\ pc = "joining" /\ todo = {}
  /\ pc' = "joined"
  /\ UNCHANGED <<state, todo, exits, heard, workers, chan, sent, got, log, bounds>>

-----------------------------------------------------------------------------
(* A worker.                                                                *)

\* on_readable of its m_ipc_routine, whose events always carry the right id.
ReadIpc(w) ==
  /\ wpc[w] # "ended"
  /\ Take(Hub(w))
  /\ wpc' = IF Head(chan[Hub(w)].wire) = Stop THEN [wpc EXCEPT ![w] = "asked"] ELSE wpc
  /\ UNCHANGED <<master, notices, sent, log, bounds>>

\* log_api::log.
LogLine(w) ==
  /\ wpc[w] # "ended" /\ load.lines[w] > 0
  /\ load' = [load EXCEPT !.lines[w] = @ - 1]
  /\ Post(Log(w), Len(sent[Log(w)]) + 1)
  /\ UNCHANGED <<master, workers, got, log, signals>>

\* Mutation of MayLeave: the loop is left without having been asked.
MayLeaveAlways(w) == wpc[w] # "ended"

MayLeave(w) == wpc[w] = "asked"

\* Mutation of Gone: the loop is entered again.
GoneBack(w) == wpc

\* The thread is past its loop.
Gone(w) == [wpc EXCEPT ![w] = "ended"]

\* proxy_loop ends: stop_proxy_loop logs a line and calls notify_stopped.
Leave(w) ==
  /\ MayLeave(w)
  /\ Post(Log(w), Len(sent[Log(w)]) + 1)
  /\ notices' = notices \cup {w}
  /\ wpc' = Gone(w)
  /\ UNCHANGED <<master, got, log, bounds>>

-----------------------------------------------------------------------------
(* The log proxy.                                                           *)

\* Mutation of Unwritten: what write() has not taken is dropped.
UnwrittenDropped(all, n) == <<>>

\* What file_writer::append keeps for its next call.
Unwritten(all, n) == SubSeq(all, n + 1, Len(all))

\* A line in m_write_buffer.  write() may end in the middle of it.
Parts(w, line) == <<<<w, line, "begin">>, <<w, line, "end">>>>

\* on_readable of the reading log_routine, and file_writer::append: write()
\* takes some of the buffer, or fails.
ReadLog(w) ==
  /\ Take(Log(w))
  /\ LET all == pending \o Parts(w, Head(chan[Log(w)].wire))
     IN  \E n \in 0..Len(all) :
           file' = file \o SubSeq(all, 1, n) /\ pending' = Unwritten(all, n)
  /\ UNCHANGED <<master, workers, sent, bounds>>

Next ==
  \/ Work \/ Signal \/ LeaveLoop \/ WaitForAll \/ AllStopped \/ JoinedAll
  \/ \E c \in Channel : Dispatch(c)
  \/ \E w \in Worker : SendMessage(w) \/ SendStop(w) \/ Join(w)
  \/ \E w \in Worker : ReadIpc(w) \/ LogLine(w) \/ Leave(w) \/ ReadLog(w)

\* Every thread goes on, and every react() handles every event that waits.
Fairness ==
  /\ WF_vars(Work \/ LeaveLoop \/ WaitForAll \/ AllStopped \/ JoinedAll
             \/ \E w \in Worker : SendStop(w) \/ Join(w))
  /\ \A c \in Channel : WF_vars(Dispatch(c))
  /\ \A w \in Worker : WF_vars(ReadIpc(w)) /\ WF_vars(Leave(w)) /\ WF_vars(ReadLog(w))

Spec == Init /\ [][Next]_vars /\ Fairness

-----------------------------------------------------------------------------
(* Properties.                                                              *)

Part == Worker \X Nat \X {"begin", "end"}

TypeOK ==
  /\ pc \in {"ready", "work", "stopping", "waiting", "joining", "joined"}
  /\ state \in {"init", "work", "stop"}
  /\ todo \subseteq Worker /\ heard \subseteq Worker /\ notices \subseteq Worker
  /\ exits \in 0..Cardinality(Worker)
  /\ wpc \in [Worker -> {"run", "asked", "ended"}]
  /\ chan \in [Channel -> [writable : BOOLEAN, backlog : Seq(Nat), wire : Seq(Nat),
                           armed : BOOLEAN, tag : Channel \cup {Nobody}]]
  /\ \A c \in Channel : chan[c].tag \in TagsOf(c)
  /\ sent \in [Channel -> Seq(Nat)] /\ got \in [Channel -> Seq(Nat)]
  /\ {pending, file} \subseteq Seq(Part)
  /\ load \in [msgs : [Worker -> Nat], lines : [Worker -> Nat]] /\ signals \in Nat

\* On every channel nothing is lost, doubled or overtaken between m_send_list,
\* the socket and the reader, wherever stray events went.
InOrder == \A c \in Channel : got[c] \o chan[c].wire \o chan[c].backlog = sent[c]

\* A worker leaves its loop only after it has read a stop, and every message that
\* was sent to it before.
ReadBeforeLeaving ==
  \A w \in Worker : wpc[w] # "run" =>
    \E k \in DOMAIN got[Hub(w)] :
      got[Hub(w)][k] = Stop /\ \A i \in 1..k : got[Hub(w)][i] = sent[Hub(w)][i]

\* When the master says "all stopped", all have left their loops.
StoppedIsStopped == pc \in {"joining", "joined"} => \A w \in Worker : wpc[w] = "ended"

\* There is something for w or its socket to do: a datagram to read, the end of
\* its loop, its notice, or room for the backlog.
Moves(w) ==
  \/ wpc[w] # "ended" /\ chan[Hub(w)].wire # <<>>
  \/ wpc[w] = "asked"
  \/ EventIn(Hub(w))
  \/ EventOut(Hub(w))

\* While stop_service waits, there is something to do for every worker whose
\* notice it has not counted.
NobodyHangs == pc = "waiting" => \A w \in Worker \ heard : Moves(w)

\* The lines of proxy w that begin in s.
LinesOf(w, s) ==
  LET lines[k \in 0..Len(s)] ==
        IF k = 0 THEN <<>>
        ELSE IF s[k][1] = w /\ s[k][3] = "begin" THEN Append(lines[k - 1], s[k][2])
             ELSE lines[k - 1]
  IN  lines[Len(s)]

\* Each line that begins in s ends where it begins.
Untorn(s) ==
  \A k \in DOMAIN s : s[k][3] = "begin" =>
    k + 1 \in DOMAIN s /\ s[k + 1] = <<s[k][1], s[k][2], "end">>

\* The lines of a proxy are in the log file and its buffer, in their order: those
\* that the log proxy read from it, each once, and none with another one's text in
\* the middle, whatever write() took of the buffer.
LinesInOrder ==
  /\ \A w \in Worker : LinesOf(w, file \o pending) = got[Log(w)]
  /\ Untorn(file \o pending)

StopRequested == pc = "work" /\ state = "stop"
Stray(c) == chan[c].tag # c

\* A stop that is requested while the service works completes, unless events of
\* a worker's socket go astray for good.
StopCompletes == (StopRequested ~> pc = "joined") \/ <>[](\E w \in Worker : Stray(Hub(w)))

\* What a running worker has logged goes to the log proxy, unless the events of
\* its log socket go astray for good.
LogDrains ==
  \A w \in Worker : \/ []<>(chan[Log(w)].backlog = <<>>)
                    \/ <>[]Stray(Log(w))
                    \/ <>(wpc[w] = "ended")
=============================================================================
