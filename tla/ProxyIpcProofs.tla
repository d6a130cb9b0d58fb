--------------------------- MODULE ProxyIpcProofs ---------------------------
(***************************************************************************)
(* Theorems about ProxyIpc, for any number of workers, any size of the     *)
(* sockets and any traffic: channels keep their order, what waits is armed *)
(* for EPOLLOUT, "all stopped" means that all have stopped, nobody is      *)
(* waited for in vain, and the log file has the lines that were read.      *)
(***************************************************************************)
EXTENDS ProxyIpc, DistinctSequences, FiniteSetTheorems

-----------------------------------------------------------------------------
(* Where a datagram is on its way: got \o wire \o backlog.                  *)

LEMMA PostedDirect ==
  ASSUME NEW g \in Seq(Nat), NEW w \in Seq(Nat), NEW d \in Nat
  PROVE  g \o Append(w, d) \o <<>> = Append(g \o w \o <<>>, d)
<1>1. <<d>> \in Seq(Nat) /\ g \o w \in Seq(Nat) /\ Append(w, d) \in Seq(Nat)
  BY ConcatProperties, AppendProperties
<1>2. g \o Append(w, d) \in Seq(Nat)
  BY <1>1, ConcatProperties
<1>3. g \o Append(w, d) \o <<>> = g \o Append(w, d) /\ g \o w \o <<>> = g \o w
  BY <1>1, <1>2, ConcatEmptySeq
<1>4. g \o (w \o <<d>>) = (g \o w) \o <<d>>
  BY <1>1, ConcatAssociative
<1>5. Append(w, d) = w \o <<d>> /\ Append(g \o w, d) = (g \o w) \o <<d>>
  BY <1>1, AppendIsConcat
<1> QED BY <1>3, <1>4, <1>5

LEMMA PostedQueued ==
  ASSUME NEW g \in Seq(Nat), NEW w \in Seq(Nat), NEW b \in Seq(Nat), NEW d \in Nat
  PROVE  g \o w \o Append(b, d) = Append(g \o w \o b, d)
<1>1. <<d>> \in Seq(Nat) /\ g \o w \in Seq(Nat) /\ g \o w \o b \in Seq(Nat)
  BY ConcatProperties
<1>2. (g \o w) \o (b \o <<d>>) = ((g \o w) \o b) \o <<d>>
  BY <1>1, ConcatAssociative
<1>3. Append(b, d) = b \o <<d>> /\ Append(g \o w \o b, d) = (g \o w \o b) \o <<d>>
  BY <1>1, AppendIsConcat
<1> QED BY <1>2, <1>3

LEMMA Parted ==
  ASSUME NEW S, NEW b \in Seq(S), NEW n \in 0..Len(b)
  PROVE  /\ SubSeq(b, 1, n) \in Seq(S) /\ SubSeq(b, n + 1, Len(b)) \in Seq(S)
         /\ Len(SubSeq(b, 1, n)) = n
         /\ SubSeq(b, 1, n) \o SubSeq(b, n + 1, Len(b)) = b
<1>1. Len(b) \in Nat /\ \A i \in 1..Len(b) : b[i] \in S
  BY LenProperties, ElementOfSeq
<1>2. SubSeq(b, 1, n) \in Seq(S) /\ Len(SubSeq(b, 1, n)) = n
  <2>1. n \in Int /\ 1 \in Int /\ \A i \in 1..n : b[i] \in S
    BY <1>1
  <2> QED BY <2>1, SubSeqProperties
<1>3. SubSeq(b, n + 1, Len(b)) \in Seq(S)
  <2>1. n + 1 \in Int /\ Len(b) \in Int /\ \A i \in (n + 1)..Len(b) : b[i] \in S
    BY <1>1
  <2> QED BY <2>1, SubSeqProperties
<1>4. SubSeq(b, 1, n) \o SubSeq(b, n + 1, Len(b)) = SubSeq(b, 1, Len(b))
  <2>1. 1 \in 1..(Len(b) + 1) /\ n \in (1 - 1)..Len(b) /\ Len(b) \in n..Len(b)
    BY <1>1
  <2> QED BY <2>1, ConcatAdjacentSubSeq
<1> QED BY <1>2, <1>3, <1>4, SubSeqFull

Datagrams == Seq(Nat)

LEMMA Regrouped2 ==
  ASSUME NEW s \in Datagrams, NEW t \in Datagrams, NEW u \in Datagrams
  PROVE  (s \o t) \o u = s \o (t \o u)
<1>1. s \o t \in Datagrams /\ t \o u \in Datagrams
  BY ConcatProperties DEF Datagrams
<1>2. (s \o t) \o u \in Datagrams /\ s \o (t \o u) \in Datagrams
  BY <1>1, ConcatProperties DEF Datagrams
<1>3. Len((s \o t) \o u) = Len(s \o (t \o u))
  BY <1>1 DEF Datagrams
<1>4. \A i \in 1..Len((s \o t) \o u) : ((s \o t) \o u)[i] = (s \o (t \o u))[i]
  BY <1>1 DEF Datagrams
<1> QED BY <1>2, <1>3, <1>4, SeqEqual DEF Datagrams

LEMMA Regrouped ==
  \A g, w, p, r \in Datagrams : (g \o (w \o p)) \o r = (g \o w) \o (p \o r)
<1> TAKE g, w, p, r \in Datagrams
<1>0. (g \o w) \o p = g \o (w \o p)
  BY Regrouped2
<1>1. g \o w \in Datagrams
  BY ConcatProperties DEF Datagrams
<1>2. ASSUME NEW gw \in Datagrams
      PROVE  (gw \o p) \o r = gw \o (p \o r)
  BY Regrouped2
<1>3. ((g \o w) \o p) \o r = (g \o w) \o (p \o r)
  BY <1>1, <1>2, Zenon
<1> QED BY <1>0, <1>3, Zenon

LEMMA Flushed ==
  ASSUME NEW g \in Seq(Nat), NEW w \in Seq(Nat), NEW b \in Seq(Nat), NEW n \in 0..Len(b)
  PROVE  g \o (w \o SubSeq(b, 1, n)) \o SubSeq(b, n + 1, Len(b)) = g \o w \o b
<1>1. /\ SubSeq(b, 1, n) \in Datagrams /\ SubSeq(b, n + 1, Len(b)) \in Datagrams
      /\ SubSeq(b, 1, n) \o SubSeq(b, n + 1, Len(b)) = b
  BY Parted DEF Datagrams
<1>2. g \in Datagrams /\ w \in Datagrams
  BY DEF Datagrams
<1>3. \A p, r \in Datagrams : (g \o (w \o p)) \o r = (g \o w) \o (p \o r)
  BY <1>2, Regrouped, Zenon
<1> QED BY <1>1, <1>3, ZenonT(60)

LEMMA Taken ==
  ASSUME NEW g \in Seq(Nat), NEW w \in Seq(Nat), w # <<>>, NEW b \in Seq(Nat)
  PROVE  /\ Head(w) \in Nat /\ Tail(w) \in Seq(Nat) /\ Len(Tail(w)) = Len(w) - 1
         /\ Append(g, Head(w)) \o Tail(w) \o b = g \o w \o b
<1>1. Head(w) \in Nat /\ Tail(w) \in Seq(Nat) /\ Len(Tail(w)) = Len(w) - 1
  BY HeadTailProperties
<1>2. w = <<Head(w)>> \o Tail(w)
  <2>1. Len(w) \in Nat \ {0}
    BY EmptySeq
  <2>2. 1 \in 1..Len(w) /\ Len(w) \in 1..Len(w)
    BY <2>1
  <2>3. SubSeq(w, 1, Len(w)) = <<w[1]>> \o SubSeq(w, 2, Len(w))
    BY <2>2, SubSeqRecursiveFirst
  <2>4. Head(w) = w[1] /\ Tail(w) = SubSeq(w, 2, Len(w)) /\ SubSeq(w, 1, Len(w)) = w
    BY TailIsSubSeq, SubSeqFull
  <2> QED BY <2>3, <2>4
<1>3. <<Head(w)>> \in Seq(Nat)
  BY <1>1
<1>4. (g \o <<Head(w)>>) \o Tail(w) = g \o (<<Head(w)>> \o Tail(w))
  BY <1>1, <1>3, ConcatAssociative, SMTT(60)
<1>5. Append(g, Head(w)) = g \o <<Head(w)>>
  BY <1>1, AppendIsConcat
<1> QED BY <1>1, <1>2, <1>4, <1>5

-----------------------------------------------------------------------------
(* One channel: its state ch, what was sent s and what was read g.          *)

ChannelState == [writable : BOOLEAN, backlog : Seq(Nat), wire : Seq(Nat),
                 armed : BOOLEAN, tag : Channel \cup {Nobody}]

Good(c, ch, s, g) ==
  /\ ch \in ChannelState /\ s \in Seq(Nat) /\ g \in Seq(Nat)
  /\ ch.tag \in TagsOf(c) /\ Len(ch.wire) <= SockCap
  /\ g \o ch.wire \o ch.backlog = s
  /\ ch.backlog # <<>> => ch.armed /\ ~ch.writable

ChannelsInv ==
  /\ chan \in [Channel -> ChannelState]
  /\ sent \in [Channel -> Seq(Nat)] /\ got \in [Channel -> Seq(Nat)]
  /\ \A c \in Channel : Good(c, chan[c], sent[c], got[c])

LEMMA TagsAreIds ==
  ASSUME NEW c \in Channel
  PROVE  TagsOf(c) \subseteq Channel \cup {Nobody}
<1>1. ASSUME NEW w \in Worker PROVE Hub(w) \in Channel
  BY DEF Hub, Channel
<1> QED BY <1>1 DEF TagsOf

\* A step that changes one channel and leaves it good leaves all of them good.
LEMMA OneChannel ==
  ASSUME ChannelsInv, NEW c \in Channel, NEW ch, NEW s, NEW g, Good(c, ch, s, g),
         chan' = [chan EXCEPT ![c] = ch], sent' = [sent EXCEPT ![c] = s],
         got' = [got EXCEPT ![c] = g]
  PROVE  ChannelsInv'
<1>1. ch \in ChannelState /\ s \in Seq(Nat) /\ g \in Seq(Nat)
  BY DEF Good
<1>2. /\ chan' \in [Channel -> ChannelState]
      /\ sent' \in [Channel -> Seq(Nat)] /\ got' \in [Channel -> Seq(Nat)]
  BY <1>1 DEF ChannelsInv
<1>3. ASSUME NEW e \in Channel PROVE Good(e, chan'[e], sent'[e], got'[e])
  <2>1. CASE e = c
    <3>1. chan'[c] = ch /\ sent'[c] = s /\ got'[c] = g
      BY DEF ChannelsInv
    <3> QED BY <2>1, <3>1
  <2>2. CASE e # c
    <3>1. chan'[e] = chan[e] /\ sent'[e] = sent[e] /\ got'[e] = got[e]
      BY <2>2 DEF ChannelsInv
    <3>2. Good(e, chan[e], sent[e], got[e])
      BY DEF ChannelsInv
    <3> QED BY <3>1, <3>2
  <2> QED BY <2>1, <2>2
<1>4. (\A e \in Channel : Good(e, chan[e], sent[e], got[e]))'
  <2>1. \A e \in Channel : Good(e, chan'[e], sent'[e], got'[e])
    BY <1>3
  <2> QED BY <2>1 DEF Good, ChannelState, Channel, TagsOf
<1> QED BY <1>2, <1>4 DEF ChannelsInv

LEMMA SentToSocket ==
  ASSUME NEW c \in Channel, NEW ch, NEW s, NEW g, NEW d \in Nat,
         Good(c, ch, s, g), ~Blocked(ch)
  PROVE  Good(c, [ch EXCEPT !.wire = Append(ch.wire, d)], Append(s, d), g)
<1>1. ch.backlog = <<>> /\ ch.wire \in Seq(Nat) /\ s \in Seq(Nat) /\ g \in Seq(Nat)
  BY DEF Good, Blocked, ChannelState
<1>2. Append(ch.wire, d) \in Seq(Nat) /\ Len(Append(ch.wire, d)) = Len(ch.wire) + 1
      /\ Append(s, d) \in Seq(Nat)
  BY <1>1, AppendProperties
<1>3. Len(ch.wire) + 1 <= SockCap
  BY <1>1, SockCapAssumption, LenProperties DEF Good, Blocked
<1>4. g \o Append(ch.wire, d) \o <<>> = Append(g \o ch.wire \o <<>>, d)
  BY <1>1, PostedDirect
<1>5. PICK x : x = [ch EXCEPT !.wire = Append(ch.wire, d)]
  OBVIOUS
<1>6. /\ x \in ChannelState /\ x.wire = Append(ch.wire, d) /\ x.backlog = ch.backlog
      /\ x.tag = ch.tag /\ x.armed = ch.armed /\ x.writable = ch.writable
  BY <1>2, <1>5 DEF Good, ChannelState
<1>7. g \o x.wire \o x.backlog = Append(s, d)
  BY <1>1, <1>4, <1>6 DEF Good
<1>8. Good(c, x, Append(s, d), g)
  BY <1>1, <1>2, <1>3, <1>6, <1>7 DEF Good
<1> QED BY <1>5, <1>8

LEMMA SentToList ==
  ASSUME NEW c \in Channel, NEW ch, NEW s, NEW g, NEW d \in Nat, NEW tag \in TagsOf(c),
         Good(c, ch, s, g)
  PROVE  Good(c, [ch EXCEPT !.writable = FALSE, !.backlog = Append(ch.backlog, d),
                            !.armed = TRUE, !.tag = tag], Append(s, d), g)
<1>1. /\ ch.backlog \in Seq(Nat) /\ ch.wire \in Seq(Nat) /\ s \in Seq(Nat) /\ g \in Seq(Nat)
      /\ tag \in Channel \cup {Nobody}
  BY TagsAreIds DEF Good, ChannelState
<1>2. Append(ch.backlog, d) \in Seq(Nat) /\ Append(s, d) \in Seq(Nat)
  BY <1>1, AppendProperties
<1>3. g \o ch.wire \o Append(ch.backlog, d) = Append(g \o ch.wire \o ch.backlog, d)
  BY <1>1, PostedQueued, ZenonT(60)
<1>4. PICK x : x = [ch EXCEPT !.writable = FALSE, !.backlog = Append(ch.backlog, d),
                              !.armed = TRUE, !.tag = tag]
  OBVIOUS
<1>5. /\ x \in ChannelState /\ x.wire = ch.wire /\ x.backlog = Append(ch.backlog, d)
      /\ x.tag = tag /\ x.armed = TRUE /\ x.writable = FALSE
  BY <1>1, <1>2, <1>4 DEF Good, ChannelState
<1>6. g \o x.wire \o x.backlog = Append(s, d)
  BY <1>3, <1>5 DEF Good
<1>7. Good(c, x, Append(s, d), g)
  BY <1>1, <1>2, <1>5, <1>6 DEF Good
<1> QED BY <1>4, <1>7

LEMMA PostKeeps ==
  ASSUME ChannelsInv, NEW c \in Channel, NEW d \in Nat, Post(c, d), UNCHANGED got
  PROVE  ChannelsInv'
<1>1. Good(c, chan[c], sent[c], got[c])
  BY DEF ChannelsInv
<1>2. sent' = [sent EXCEPT ![c] = Append(sent[c], d)] /\ got' = [got EXCEPT ![c] = got[c]]
  BY DEF Post, ChannelsInv
<1>3. CASE ~Blocked(chan[c])
  <2>1. chan' = [chan EXCEPT ![c] = [chan[c] EXCEPT !.wire = Append(chan[c].wire, d)]]
    BY <1>3 DEF Post
  <2>2. Good(c, [chan[c] EXCEPT !.wire = Append(chan[c].wire, d)], Append(sent[c], d), got[c])
    BY <1>1, <1>3, SentToSocket
  <2> QED BY <1>2, <2>1, <2>2, OneChannel
<1>4. CASE Blocked(chan[c])
  <2>1. PICK tag \in TagsOf(c) :
          chan' = [chan EXCEPT ![c] =
                    [chan[c] EXCEPT !.writable = FALSE, !.backlog = Append(chan[c].backlog, d),
                                    !.armed = TRUE, !.tag = tag]]
    BY <1>4 DEF Post
  <2>2. Good(c, [chan[c] EXCEPT !.writable = FALSE, !.backlog = Append(chan[c].backlog, d),
                                !.armed = TRUE, !.tag = tag], Append(sent[c], d), got[c])
    BY <1>1, SentToList
  <2> QED BY <1>2, <2>1, <2>2, OneChannel
<1> QED BY <1>3, <1>4

LEMMA MinOfTwo ==
  ASSUME NEW a \in Nat, NEW b \in Nat
  PROVE  Min({a, b}) \in {a, b} /\ Min({a, b}) <= a /\ Min({a, b}) <= b
<1>1. CASE a <= b
  <2>1. a \in {a, b} /\ \A y \in {a, b} : a <= y
    BY <1>1
  <2> QED BY <2>1 DEF Min
<1>2. CASE b <= a
  <2>1. b \in {a, b} /\ \A y \in {a, b} : b <= y
    BY <1>2
  <2> QED BY <2>1 DEF Min
<1> QED BY <1>1, <1>2

\* What on_writable leaves behind, for any channel state x of these fields.
LEMMA FlushedGood ==
  ASSUME NEW c \in Channel, NEW ch, NEW s, NEW g, Good(c, ch, s, g),
         NEW left, left = SubSeq(ch.backlog, Room(ch) + 1, Len(ch.backlog)),
         NEW tag \in TagsOf(c), NEW armed \in BOOLEAN, left # <<>> => armed,
         NEW x, x = [writable |-> left = <<>>, backlog |-> left,
                     wire |-> ch.wire \o SubSeq(ch.backlog, 1, Room(ch)),
                     armed |-> armed, tag |-> tag]
  PROVE  Good(c, x, s, g)
<1>1. /\ ch.backlog \in Seq(Nat) /\ ch.wire \in Seq(Nat) /\ s \in Seq(Nat) /\ g \in Seq(Nat)
      /\ tag \in Channel \cup {Nobody} /\ Len(ch.wire) <= SockCap
  BY TagsAreIds DEF Good, ChannelState
<1>2. Len(ch.backlog) \in Nat /\ Len(ch.wire) \in Nat /\ SockCap \in Nat
      /\ SockCap - Len(ch.wire) \in Nat
  BY <1>1, LenProperties, SockCapAssumption
<1>3. Room(ch) \in 0..Len(ch.backlog) /\ Room(ch) <= SockCap - Len(ch.wire)
  <2>1. PICK m \in Nat, k \in Nat : m = Len(ch.backlog) /\ k = SockCap - Len(ch.wire)
    BY <1>2
  <2>2. Min({m, k}) \in {m, k} /\ Min({m, k}) <= m /\ Min({m, k}) <= k
    BY MinOfTwo
  <2>3. Room(ch) = Min({m, k})
    BY <2>1 DEF Room
  <2>4. Room(ch) \in Nat /\ Room(ch) <= m /\ Room(ch) <= k
    BY <2>2, <2>3
  <2> QED BY <2>1, <2>4
<1>4. /\ SubSeq(ch.backlog, 1, Room(ch)) \in Seq(Nat) /\ left \in Seq(Nat)
      /\ Len(SubSeq(ch.backlog, 1, Room(ch))) = Room(ch)
  BY <1>1, <1>3, Parted
<1>5. /\ ch.wire \o SubSeq(ch.backlog, 1, Room(ch)) \in Seq(Nat)
      /\ Len(ch.wire \o SubSeq(ch.backlog, 1, Room(ch))) = Len(ch.wire) + Room(ch)
  BY <1>1, <1>4, ConcatProperties
<1>6. g \o (ch.wire \o SubSeq(ch.backlog, 1, Room(ch))) \o left = g \o ch.wire \o ch.backlog
  <2>1. \A n \in 0..Len(ch.backlog) :
          g \o (ch.wire \o SubSeq(ch.backlog, 1, n)) \o SubSeq(ch.backlog, n + 1, Len(ch.backlog))
            = g \o ch.wire \o ch.backlog
    BY <1>1, Flushed, ZenonT(60)
  <2> QED BY <1>3, <2>1, Zenon
<1>7. Len(ch.wire \o SubSeq(ch.backlog, 1, Room(ch))) <= SockCap
  BY <1>2, <1>3, <1>5
<1>8. x \in ChannelState
  BY <1>1, <1>4, <1>5 DEF ChannelState
<1>9. g \o x.wire \o x.backlog = s
  BY <1>6 DEF Good
<1> QED BY <1>1, <1>7, <1>8, <1>9 DEF Good

LEMMA NothingLeft ==
  ASSUME NEW ch \in ChannelState, ch.backlog = <<>>, Len(ch.wire) <= SockCap
  PROVE  SubSeq(ch.backlog, Room(ch) + 1, Len(ch.backlog)) = <<>>
<1>1. Len(ch.backlog) = 0 /\ Len(ch.wire) \in Nat
  BY LenProperties DEF ChannelState
<1>2. PICK k \in Nat : k = SockCap - Len(ch.wire)
  <2>1. SockCap - Len(ch.wire) \in Nat
    BY <1>1, SockCapAssumption, SMTT(60)
  <2> QED BY <2>1, ZenonT(60)
<1>3. Min({0, k}) \in Nat
  BY MinOfTwo
<1>4. Room(ch) \in Nat
  BY <1>1, <1>2, <1>3 DEF Room
<1> QED BY <1>1, <1>4, SubSeqEmpty

LEMMA FlushKeeps ==
  ASSUME ChannelsInv, NEW c \in Channel, Flush(c), UNCHANGED <<sent, got>>
  PROVE  ChannelsInv'
<1>1. PICK ch \in ChannelState : ch = chan[c]
  BY DEF ChannelsInv
<1>2. Good(c, ch, sent[c], got[c])
  BY <1>1 DEF ChannelsInv
<1>3. PICK left : left = SubSeq(ch.backlog, Room(ch) + 1, Len(ch.backlog))
  OBVIOUS
<1>4. PICK armed \in BOOLEAN : armed = (left # <<>> /\ (ch.armed \/ c[1] = "log"))
  OBVIOUS
<1>5. PICK tag \in IF left = <<>> THEN {c} ELSE IF c[1] = "hub" THEN {ch.tag} ELSE TagsOf(c) :
        chan' = [chan EXCEPT ![c] = [writable |-> left = <<>>, backlog |-> left,
                                     wire |-> ch.wire \o SubSeq(ch.backlog, 1, Room(ch)),
                                     armed |-> armed, tag |-> tag]]
  BY <1>1, <1>3, <1>4 DEF Flush, StillWritable
<1>6. tag \in TagsOf(c)
  BY <1>2, <1>5 DEF TagsOf, Good
<1>7. left # <<>> => armed
  BY <1>2, <1>3, <1>4, NothingLeft DEF Good
<1>8. PICK x : x = [writable |-> left = <<>>, backlog |-> left,
                    wire |-> ch.wire \o SubSeq(ch.backlog, 1, Room(ch)),
                    armed |-> armed, tag |-> tag]
  OBVIOUS
<1>9. Good(c, x, sent[c], got[c])
  BY <1>2, <1>3, <1>6, <1>7, <1>8, FlushedGood, ZenonT(60)
<1>10. sent' = [sent EXCEPT ![c] = sent[c]] /\ got' = [got EXCEPT ![c] = got[c]]
  BY DEF ChannelsInv
<1>11. chan' = [chan EXCEPT ![c] = x]
  BY <1>5, <1>8
<1> QED BY <1>9, <1>10, <1>11, OneChannel, ZenonT(60)

LEMMA TakeKeeps ==
  ASSUME ChannelsInv, NEW c \in Channel, Take(c), UNCHANGED sent
  PROVE  ChannelsInv'
<1>1. Good(c, chan[c], sent[c], got[c])
  BY DEF ChannelsInv
<1>2. /\ chan[c].wire # <<>> /\ chan' = [chan EXCEPT ![c] = [chan[c] EXCEPT !.wire = Tail(chan[c].wire)]]
      /\ got' = [got EXCEPT ![c] = Append(got[c], Head(chan[c].wire))]
      /\ sent' = [sent EXCEPT ![c] = sent[c]]
  BY DEF Take, ChannelsInv
<1>3. PICK x : x = [chan[c] EXCEPT !.wire = Tail(chan[c].wire)]
  OBVIOUS
<1>4. chan[c].wire \in Seq(Nat) /\ chan[c].backlog \in Seq(Nat) /\ got[c] \in Seq(Nat)
      /\ Len(chan[c].wire) <= SockCap /\ Len(chan[c].wire) \in Nat
  BY <1>1, LenProperties DEF Good, ChannelState
<1>5. /\ Head(chan[c].wire) \in Nat /\ Tail(chan[c].wire) \in Seq(Nat)
      /\ Len(Tail(chan[c].wire)) = Len(chan[c].wire) - 1
      /\ Append(got[c], Head(chan[c].wire)) \o Tail(chan[c].wire) \o chan[c].backlog
           = got[c] \o chan[c].wire \o chan[c].backlog
  BY <1>2, <1>4, Taken, ZenonT(60)
<1>6. Append(got[c], Head(chan[c].wire)) \in Seq(Nat)
  BY <1>4, <1>5, AppendProperties
<1>7. /\ x \in ChannelState /\ x.wire = Tail(chan[c].wire) /\ x.backlog = chan[c].backlog
      /\ x.tag = chan[c].tag /\ x.armed = chan[c].armed /\ x.writable = chan[c].writable
  BY <1>1, <1>3, <1>5 DEF Good, ChannelState
<1>8. Len(x.wire) <= SockCap
  <2>1. \A m, k, cap \in Nat : m = k - 1 /\ k <= cap => m <= cap
    OBVIOUS
  <2>2. Len(x.wire) \in Nat /\ Len(chan[c].wire) \in Nat
    BY <1>4, <1>5, <1>7, LenProperties
  <2> QED BY <1>4, <1>5, <1>7, <2>1, <2>2, SockCapAssumption
<1>9. Append(got[c], Head(chan[c].wire)) \o x.wire \o x.backlog = sent[c]
  BY <1>1, <1>5, <1>7 DEF Good
<1>10. Good(c, x, sent[c], Append(got[c], Head(chan[c].wire)))
  BY <1>1, <1>6, <1>7, <1>8, <1>9 DEF Good
<1> QED BY <1>2, <1>3, <1>10, OneChannel

-----------------------------------------------------------------------------
(* The stop: what the threads have counted.                                 *)

Lines == Seq(Part)

TypeInv ==
  /\ pc \in {"ready", "work", "stopping", "waiting", "joining", "joined"}
  /\ state \in {"init", "work", "stop"}
  /\ todo \subseteq Worker
  /\ wpc \in [Worker -> {"run", "asked", "ended"}]
  /\ pending \in Lines /\ file \in Lines
  /\ load \in [msgs : [Worker -> Nat], lines : [Worker -> Nat]] /\ signals \in Nat

CountInv ==
  /\ heard \subseteq Worker /\ notices \subseteq Worker
  /\ heard \cap notices = {}
  /\ \A w \in heard \cup notices : wpc[w] = "ended"
  /\ exits = Cardinality(heard)
  /\ pc \in {"joining", "joined"} => heard = Worker

HasRead(w) == \E k \in DOMAIN got[Hub(w)] : got[Hub(w)][k] = Stop

StopInv == \A w \in Worker : wpc[w] # "run" => HasRead(w)

IInv == TypeInv /\ ChannelsInv /\ CountInv /\ StopInv

LEMMA HubsAndLogs ==
  ASSUME NEW w \in Worker
  PROVE  /\ Hub(w) \in Channel /\ Log(w) \in Channel
         /\ \A v \in Worker : Hub(w) # Log(v)
BY DEF Hub, Log, Channel

\* What was read stays read.
LEMMA ReadStays ==
  ASSUME ChannelsInv, NEW c \in Channel, Take(c), NEW w \in Worker, HasRead(w)
  PROVE  HasRead(w)'
<1>1. PICK k \in DOMAIN got[Hub(w)] : got[Hub(w)][k] = Stop
  BY DEF HasRead
<1>2. Hub(w) \in Channel
  BY HubsAndLogs
<1>3. CASE c = Hub(w)
  <2>1. PICK g \in Seq(Nat) : g = got[Hub(w)]
    BY <1>2 DEF ChannelsInv
  <2>2. PICK d : d = Head(chan[c].wire)
    OBVIOUS
  <2>3. d \in Nat
    BY <2>2, Taken DEF ChannelsInv, Take, ChannelState
  <2>4. got'[Hub(w)] = Append(g, d)
    BY <1>2, <1>3, <2>1, <2>2 DEF Take, ChannelsInv
  <2>5. k \in 1..Len(g) /\ Len(g) \in Nat
    BY <1>1, <2>1, LenProperties
  <2>6. k \in DOMAIN Append(g, d) /\ Append(g, d)[k] = g[k]
    BY <2>3, <2>5, AppendProperties, LenProperties
  <2>7. got'[Hub(w)][k] = Stop /\ k \in DOMAIN got'[Hub(w)]
    BY <1>1, <2>1, <2>4, <2>6
  <2> QED BY <2>7 DEF HasRead, Hub, Stop
<1>4. CASE c # Hub(w)
  <2>1. got'[Hub(w)] = got[Hub(w)]
    BY <1>2, <1>4 DEF Take, ChannelsInv
  <2> QED BY <1>1, <2>1 DEF HasRead, Hub, Stop
<1> QED BY <1>3, <1>4

LEMMA ReadsStop ==
  ASSUME ChannelsInv, NEW w \in Worker, Take(Hub(w)), Head(chan[Hub(w)].wire) = Stop
  PROVE  HasRead(w)'
<1>1. Hub(w) \in Channel
  BY HubsAndLogs
<1>2. PICK g \in Seq(Nat) : g = got[Hub(w)]
  BY <1>1 DEF ChannelsInv
<1>3. got'[Hub(w)] = Append(g, Stop)
  BY <1>1, <1>2 DEF Take, ChannelsInv
<1>4. Stop \in Nat
  BY DEF Stop
<1>5. Len(g) \in Nat /\ Append(g, Stop) \in Seq(Nat) /\ Len(Append(g, Stop)) = Len(g) + 1
      /\ Append(g, Stop)[Len(g) + 1] = Stop
  BY <1>4, AppendProperties, LenProperties
<1>6. Len(g) + 1 \in DOMAIN Append(g, Stop)
  BY <1>5, LenProperties
<1>7. got'[Hub(w)][Len(g) + 1] = Stop /\ Len(g) + 1 \in DOMAIN got'[Hub(w)]
  BY <1>3, <1>5, <1>6
<1> QED BY <1>7 DEF HasRead, Hub, Stop

LEMMA LinesFlushed ==
  ASSUME NEW f \in Lines, NEW all \in Lines, NEW n \in 0..Len(all)
  PROVE  /\ f \o SubSeq(all, 1, n) \in Lines
         /\ SubSeq(all, n + 1, Len(all)) \in Lines
         /\ (f \o SubSeq(all, 1, n)) \o SubSeq(all, n + 1, Len(all)) = f \o all
<1>1. PICK a, b \in Lines :
        a = SubSeq(all, 1, n) /\ b = SubSeq(all, n + 1, Len(all)) /\ a \o b = all
  <2>1. all \in Seq(Part)
    BY DEF Lines
  <2>2. /\ SubSeq(all, 1, n) \in Seq(Part) /\ SubSeq(all, n + 1, Len(all)) \in Seq(Part)
        /\ SubSeq(all, 1, n) \o SubSeq(all, n + 1, Len(all)) = all
    BY <2>1, Parted
  <2> QED BY <2>2 DEF Lines
<1>2. f \o a \in Lines /\ a \o b \in Lines
  BY ConcatProperties DEF Lines
<1>3. (f \o a) \o b \in Lines /\ f \o (a \o b) \in Lines
  BY <1>2, ConcatProperties DEF Lines
<1>4. Len((f \o a) \o b) = Len(f \o (a \o b))
  BY <1>2 DEF Lines
<1>5. \A i \in 1..Len((f \o a) \o b) : ((f \o a) \o b)[i] = (f \o (a \o b))[i]
  BY <1>2 DEF Lines
<1>6. (f \o a) \o b = f \o (a \o b)
  BY <1>3, <1>4, <1>5, SeqEqual DEF Lines
<1> QED BY <1>1, <1>2, <1>6

LEMMA LineJoined ==
  ASSUME NEW p \in Lines, NEW f \in Lines, NEW l \in Part
  PROVE  Append(p, l) \in Lines /\ f \o Append(p, l) = Append(f \o p, l)
<1>1. f \o p \in Lines /\ Append(p, l) \in Lines
  BY ConcatProperties, AppendProperties DEF Lines
<1>2. f \o Append(p, l) \in Lines /\ Append(f \o p, l) \in Lines
  BY <1>1, ConcatProperties, AppendProperties DEF Lines
<1>3. Len(f \o Append(p, l)) = Len(Append(f \o p, l))
  BY <1>1 DEF Lines
<1>4. \A i \in 1..Len(Append(f \o p, l)) : (f \o Append(p, l))[i] = Append(f \o p, l)[i]
  BY <1>1 DEF Lines
<1> QED BY <1>1, <1>2, <1>3, <1>4, SeqEqual DEF Lines

\* A line joins the buffer.
LEMMA PartsJoined ==
  ASSUME NEW p \in Lines, NEW f \in Lines, NEW w \in Worker, NEW line \in Nat
  PROVE  /\ p \o Parts(w, line) \in Lines
         /\ f \o (p \o Parts(w, line))
              = Append(Append(f \o p, <<w, line, "begin">>), <<w, line, "end">>)
<1>1. PICK b \in Part, e \in Part : b = <<w, line, "begin">> /\ e = <<w, line, "end">>
  BY DEF Part
<1>2. Parts(w, line) = <<b, e>>
  BY <1>1 DEF Parts
<1>3. <<b, e>> \in Lines /\ Append(p, b) \in Lines
  BY AppendProperties DEF Lines
<1>4. p \o <<b, e>> \in Lines /\ Append(Append(p, b), e) \in Lines
  BY <1>3, ConcatProperties, AppendProperties DEF Lines
<1>5. Len(p \o <<b, e>>) = Len(Append(Append(p, b), e))
  BY <1>3 DEF Lines
<1>6. \A i \in 1..Len(p \o <<b, e>>) : (p \o <<b, e>>)[i] = Append(Append(p, b), e)[i]
  BY <1>3 DEF Lines
<1>7. p \o <<b, e>> = Append(Append(p, b), e)
  BY <1>4, <1>5, <1>6, SeqEqual DEF Lines
<1>8. f \o Append(Append(p, b), e) = Append(f \o Append(p, b), e)
  BY <1>3, LineJoined
<1>9. f \o Append(p, b) = Append(f \o p, b)
  BY LineJoined
<1> QED BY <1>1, <1>2, <1>4, <1>7, <1>8, <1>9

\* What file_writer::append does to its buffer and the file.
LEMMA ReadLogTyped ==
  ASSUME TypeInv, ChannelsInv, NEW w \in Worker, ReadLog(w)
  PROVE  /\ pending' \in Lines /\ file' \in Lines
         /\ Head(chan[Log(w)].wire) \in Nat
         /\ file' \o pending' = Append(Append(file \o pending,
              <<w, Head(chan[Log(w)].wire), "begin">>), <<w, Head(chan[Log(w)].wire), "end">>)
<1>1. Log(w) \in Channel
  BY HubsAndLogs
<1>2. PICK line \in Nat : line = Head(chan[Log(w)].wire)
  BY <1>1, Taken DEF ReadLog, Take, ChannelsInv, ChannelState
<1>3. PICK p \in Lines, f \in Lines : p = pending /\ f = file
  BY DEF TypeInv
<1>4. PICK all \in Lines : all = p \o Parts(w, line)
  BY PartsJoined
<1>5. PICK n \in 0..Len(all) :
        file' = f \o SubSeq(all, 1, n) /\ pending' = SubSeq(all, n + 1, Len(all))
  BY <1>2, <1>3, <1>4 DEF ReadLog, Unwritten
<1>6. /\ f \o SubSeq(all, 1, n) \in Lines
      /\ SubSeq(all, n + 1, Len(all)) \in Lines
      /\ (f \o SubSeq(all, 1, n)) \o SubSeq(all, n + 1, Len(all)) = f \o all
  BY LinesFlushed
<1>7. f \o all = Append(Append(f \o p, <<w, line, "begin">>), <<w, line, "end">>)
  BY <1>4, PartsJoined
<1> QED BY <1>2, <1>3, <1>5, <1>6, <1>7

\* A notice that is read was not counted before.
LEMMA Counted ==
  ASSUME CountInv, NEW v \in notices,
         exits' = exits + 1, notices' = notices \ {v}, heard' = heard \cup {v},
         UNCHANGED <<pc, wpc>>
  PROVE  CountInv'
<1>1. IsFiniteSet(heard) /\ v \notin heard
  BY WorkerAssumption, FS_Subset DEF CountInv
<1>2. Cardinality(heard \cup {v}) = Cardinality(heard) + 1
  BY <1>1, FS_AddElement
<1>3. pc \notin {"joining", "joined"}
  BY <1>1 DEF CountInv
<1> QED BY <1>2, <1>3 DEF CountInv

LEMMA AllCounted ==
  ASSUME CountInv, Enough
  PROVE  heard = Worker
<1>1. /\ IsFiniteSet(Worker) /\ IsFiniteSet(heard)
      /\ Cardinality(heard) <= Cardinality(Worker)
      /\ Cardinality(heard) = Cardinality(Worker) => heard = Worker
  BY WorkerAssumption, FS_Subset DEF CountInv
<1>2. Cardinality(heard) \in Nat /\ Cardinality(Worker) \in Nat
  BY <1>1, FS_CardinalityType
<1> QED BY <1>1, <1>2 DEF Enough, CountInv

LEMMA DispatchKeeps ==
  ASSUME IInv, NEW c \in Channel, Dispatch(c)
  PROVE  IInv'
<1> USE DEF IInv
<1>1. PICK t : t = chan[c].tag
  OBVIOUS
<1>2. t \in Channel
  BY <1>1, TagsAreIds DEF Dispatch, ChannelsInv, Good
<1>3. ChannelsInv'
  <2>1. CASE Flush(t)
    BY <1>2, <2>1, FlushKeeps DEF Dispatch
  <2>2. CASE UNCHANGED chan
    BY <2>2 DEF Dispatch, ChannelsInv, Good, ChannelState, Channel, TagsOf
  <2> QED BY <1>1, <2>1, <2>2 DEF Dispatch
<1>4. CountInv'
  <2>1. CASE EventIn(c) /\ t[2] \in notices
    <3>1. exits' = exits + 1 /\ notices' = notices \ {t[2]} /\ heard' = heard \cup {t[2]}
          /\ UNCHANGED <<pc, wpc>>
      BY <1>1, <2>1 DEF Dispatch
    <3> QED BY <2>1, <3>1, Counted
  <2>2. CASE ~(EventIn(c) /\ t[2] \in notices)
    BY <1>1, <2>2 DEF Dispatch, CountInv
  <2> QED BY <2>1, <2>2
<1>5. TypeInv'
  BY DEF Dispatch, TypeInv, Lines, log, bounds
<1>6. StopInv'
  BY DEF Dispatch, StopInv, HasRead, Hub, Stop
<1> QED BY <1>3, <1>4, <1>5, <1>6

LEMMA MasterKeeps ==
  ASSUME IInv, \/ Work \/ Signal \/ LeaveLoop \/ WaitForAll \/ AllStopped \/ JoinedAll
               \/ \E w \in Worker : Join(w)
  PROVE  IInv'
<1> USE DEF IInv
<1>1. UNCHANGED <<exits, heard, wpc, notices, chan, sent, got, pending, file>>
  BY DEF Work, Signal, LeaveLoop, WaitForAll, AllStopped, Join, JoinedAll, IsNext, workers, log, bounds
<1>2. ChannelsInv' /\ StopInv'
  BY <1>1 DEF ChannelsInv, Good, ChannelState, Channel, TagsOf, StopInv, HasRead, Hub, Stop
<1>3. CountInv'
  <2>1. CASE AllStopped
    BY <1>1, <2>1, AllCounted DEF CountInv, AllStopped
  <2>2. CASE Work \/ Signal \/ LeaveLoop \/ WaitForAll \/ (\E w \in Worker : Join(w)) \/ JoinedAll
    BY <1>1, <2>2 DEF CountInv, Work, Signal, LeaveLoop, WaitForAll, Join, JoinedAll
  <2> QED BY <2>1, <2>2
<1>4. TypeInv'
  BY <1>1, MaxSignalsAssumption
     DEF TypeInv, Lines, Work, Signal, LeaveLoop, WaitForAll, AllStopped, Join, JoinedAll, IsNext, bounds
<1> QED BY <1>2, <1>3, <1>4

\* What a Post leaves alone beside chan and sent.
LEMMA PostingKeeps ==
  ASSUME IInv, NEW w \in Worker, SendMessage(w) \/ SendStop(w) \/ LogLine(w)
  PROVE  IInv'
<1> USE DEF IInv
<1>1. UNCHANGED <<exits, heard, wpc, notices, got, pending, file>>
  BY DEF SendMessage, SendStop, LogLine, master, workers, log
<1>2. PICK c \in Channel, d \in Nat : Post(c, d)
  <2>1. Stop \in Nat /\ Hub(w) \in Channel /\ Log(w) \in Channel
    BY HubsAndLogs DEF Stop
  <2>2. Len(sent[Hub(w)]) + 1 \in Nat /\ Len(sent[Log(w)]) + 1 \in Nat
    BY <2>1, LenProperties DEF ChannelsInv
  <2> QED BY <2>1, <2>2 DEF SendMessage, SendStop, LogLine
<1>3. ChannelsInv'
  BY <1>1, <1>2, PostKeeps
<1>4. StopInv'
  BY <1>1 DEF StopInv, HasRead, Hub, Stop
<1>5. CountInv'
  BY <1>1 DEF CountInv, SendMessage, SendStop, LogLine, master
<1>6. TypeInv'
  <2>1. CASE SendMessage(w)
    <3>1. load.msgs[w] \in Nat /\ load.msgs[w] > 0 /\ load.msgs \in [Worker -> Nat]
      BY <2>1 DEF TypeInv, SendMessage
    <3>2. PICK left \in [Worker -> Nat] : left = [load.msgs EXCEPT ![w] = load.msgs[w] - 1]
      <4>1. PICK f \in [Worker -> Nat], n \in Nat : f = load.msgs /\ n = load.msgs[w] - 1
        BY <3>1
      <4>2. [f EXCEPT ![w] = n] \in [Worker -> Nat]
        OBVIOUS
      <4> QED BY <4>1, <4>2
    <3>3. load' = [load EXCEPT !.msgs = left]
      BY <2>1, <3>2 DEF SendMessage
    <3>4. load' \in [msgs : [Worker -> Nat], lines : [Worker -> Nat]]
      BY <3>2, <3>3 DEF TypeInv
    <3> QED BY <1>1, <2>1, <3>4 DEF TypeInv, Lines, SendMessage, master
  <2>2. CASE SendStop(w)
    BY <1>1, <2>2 DEF TypeInv, Lines, SendStop, bounds
  <2>3. CASE LogLine(w)
    <3>1. load.lines[w] \in Nat /\ load.lines[w] > 0 /\ load.lines \in [Worker -> Nat]
      BY <2>3 DEF TypeInv, LogLine
    <3>2. PICK left \in [Worker -> Nat] : left = [load.lines EXCEPT ![w] = load.lines[w] - 1]
      <4>1. PICK f \in [Worker -> Nat], n \in Nat : f = load.lines /\ n = load.lines[w] - 1
        BY <3>1
      <4>2. [f EXCEPT ![w] = n] \in [Worker -> Nat]
        OBVIOUS
      <4> QED BY <4>1, <4>2
    <3>3. load' = [load EXCEPT !.lines = left]
      BY <2>3, <3>2 DEF LogLine
    <3>4. load' \in [msgs : [Worker -> Nat], lines : [Worker -> Nat]]
      BY <3>2, <3>3 DEF TypeInv
    <3> QED BY <1>1, <2>3, <3>4 DEF TypeInv, Lines, LogLine, master
  <2> QED BY <2>1, <2>2, <2>3
<1> QED BY <1>3, <1>4, <1>5, <1>6

LEMMA ReadIpcKeeps ==
  ASSUME IInv, NEW w \in Worker, ReadIpc(w)
  PROVE  IInv'
<1> USE DEF IInv
<1>1. UNCHANGED <<pc, state, todo, exits, heard, notices, sent, pending, file, load, signals>>
  BY DEF ReadIpc, master, log, bounds
<1>2. Hub(w) \in Channel /\ Take(Hub(w))
  BY HubsAndLogs DEF ReadIpc
<1>3. ChannelsInv'
  BY <1>1, <1>2, TakeKeeps
<1>4. wpc' = wpc \/ (wpc' = [wpc EXCEPT ![w] = "asked"] /\ Head(chan[Hub(w)].wire) = Stop)
  BY DEF ReadIpc
<1>5. StopInv'
  <2>1. ASSUME NEW v \in Worker, wpc'[v] # "run"
        PROVE  HasRead(v)'
    <3>1. CASE wpc[v] # "run"
      BY <1>2, <3>1, ReadStays DEF StopInv
    <3>2. CASE wpc[v] = "run"
      <4>1. v = w /\ Head(chan[Hub(w)].wire) = Stop
        BY <1>4, <2>1, <3>2 DEF TypeInv
      <4> QED BY <1>2, <4>1, ReadsStop
    <3> QED BY <3>1, <3>2
  <2> QED BY <2>1 DEF StopInv
<1>6. TypeInv'
  BY <1>1, <1>4 DEF TypeInv, Lines
<1>7. CountInv'
  <2>1. w \notin heard \cup notices
    BY DEF ReadIpc, CountInv
  <2> QED BY <1>1, <1>4, <2>1 DEF CountInv, TypeInv
<1> QED BY <1>3, <1>5, <1>6, <1>7

LEMMA LeaveKeeps ==
  ASSUME IInv, NEW w \in Worker, Leave(w)
  PROVE  IInv'
<1> USE DEF IInv
<1>1. UNCHANGED <<pc, state, todo, exits, heard, got, pending, file, load, signals>>
  BY DEF Leave, master, log, bounds
<1>2. wpc[w] = "asked" /\ wpc' = [wpc EXCEPT ![w] = "ended"] /\ notices' = notices \cup {w}
  BY DEF Leave, MayLeave, Gone
<1>3. ChannelsInv'
  <2>1. Log(w) \in Channel
    BY HubsAndLogs
  <2>2. Len(sent[Log(w)]) + 1 \in Nat
    BY <2>1, LenProperties DEF ChannelsInv
  <2> QED BY <1>1, <2>1, <2>2, PostKeeps DEF Leave
<1>4. StopInv'
  <2>1. ASSUME NEW v \in Worker, wpc'[v] # "run"
        PROVE  HasRead(v)
    <3>1. wpc[v] # "run"
      BY <1>2, <2>1 DEF TypeInv
    <3> QED BY <3>1 DEF StopInv
  <2> QED BY <1>1, <2>1 DEF StopInv, HasRead, Hub, Stop
<1>5. TypeInv'
  BY <1>1, <1>2 DEF TypeInv, Lines
<1>6. CountInv'
  <2>1. w \notin heard \cup notices
    BY <1>2 DEF CountInv
  <2>2. \A v \in heard \cup notices' : wpc'[v] = "ended"
    BY <1>2 DEF CountInv, TypeInv
  <2> QED BY <1>1, <1>2, <2>1, <2>2 DEF CountInv
<1> QED BY <1>3, <1>4, <1>5, <1>6

LEMMA ReadLogKeeps ==
  ASSUME IInv, NEW w \in Worker, ReadLog(w)
  PROVE  IInv'
<1> USE DEF IInv
<1>1. UNCHANGED <<pc, state, todo, exits, heard, wpc, notices, sent, load, signals>>
  BY DEF ReadLog, master, workers, bounds
<1>2. Log(w) \in Channel /\ Take(Log(w))
  BY HubsAndLogs DEF ReadLog
<1>3. ChannelsInv'
  BY <1>1, <1>2, TakeKeeps
<1>4. StopInv'
  BY <1>1, <1>2, ReadStays DEF StopInv
<1>5. TypeInv'
  BY <1>1, ReadLogTyped DEF TypeInv, Lines
<1>6. CountInv'
  BY <1>1 DEF CountInv
<1> QED BY <1>3, <1>4, <1>5, <1>6

LEMMA IInvStep == IInv /\ [Next]_vars => IInv'
<1> SUFFICES ASSUME IInv, [Next]_vars PROVE IInv'
  OBVIOUS
<1>1. ASSUME NEW c \in Channel, Dispatch(c) PROVE IInv'
  BY <1>1, DispatchKeeps
<1>2. ASSUME NEW w \in Worker, SendMessage(w) \/ SendStop(w) \/ LogLine(w) PROVE IInv'
  BY <1>2, PostingKeeps
<1>3. ASSUME NEW w \in Worker, ReadIpc(w) \/ Leave(w) \/ ReadLog(w) PROVE IInv'
  BY <1>3, ReadIpcKeeps, LeaveKeeps, ReadLogKeeps
<1>4. ASSUME Work \/ Signal \/ LeaveLoop \/ WaitForAll \/ AllStopped \/ JoinedAll PROVE IInv'
  BY <1>4, MasterKeeps
<1>5. ASSUME NEW w \in Worker, Join(w) PROVE IInv'
  BY <1>5, MasterKeeps
<1>6. ASSUME UNCHANGED vars PROVE IInv'
  <2>1. TypeInv' /\ CountInv'
    BY <1>6 DEF vars, master, workers, log, bounds, IInv, TypeInv, Lines, CountInv
  <2>2. ChannelsInv'
    BY <1>6 DEF vars, IInv, ChannelsInv, Good, ChannelState, Channel, TagsOf
  <2>3. StopInv'
    BY <1>6 DEF vars, workers, IInv, StopInv, HasRead, Hub, Stop
  <2> QED BY <2>1, <2>2, <2>3 DEF IInv
<1> QED BY <1>1, <1>2, <1>3, <1>4, <1>5, <1>6 DEF Next

LEMMA InitIInv == Init => IInv
<1> SUFFICES ASSUME Init PROVE IInv
  OBVIOUS
<1>1. TypeInv
  BY LoadsAssumption, MaxSignalsAssumption, EmptySeq DEF Init, TypeInv, Lines
<1>2. ChannelsInv
  <2>1. /\ <<>> \in Seq(Nat) /\ Len(<<>>) = 0
    BY EmptySeq
  <2>2. <<>> \o <<>> \o <<>> = <<>>
    BY <2>1, ConcatEmptySeq
  <2>3. ASSUME NEW c \in Channel
        PROVE  Good(c, [writable |-> TRUE, backlog |-> <<>>, wire |-> <<>>, armed |-> FALSE, tag |-> c],
                    <<>>, <<>>)
    BY <2>1, <2>2, SockCapAssumption DEF Good, ChannelState, TagsOf
  <2>4. ASSUME NEW c \in Channel
        PROVE  Good(c, chan[c], sent[c], got[c])
    BY <2>3 DEF Init
  <2>5. chan \in [Channel -> ChannelState]
    BY <2>1 DEF Init, ChannelState
  <2>6. sent \in [Channel -> Seq(Nat)] /\ got \in [Channel -> Seq(Nat)]
    BY <2>1 DEF Init
  <2> QED BY <2>4, <2>5, <2>6 DEF ChannelsInv
<1>3. CountInv
  BY FS_EmptySet DEF Init, CountInv
<1>4. StopInv
  BY DEF Init, StopInv
<1> QED BY <1>1, <1>2, <1>3, <1>4 DEF IInv

LEMMA Invariance == Spec => []IInv
BY InitIInv, IInvStep, PTL DEF Spec

\* Everything stays well typed; no more notices are counted than there are workers.
THEOREM TypeCorrect == Spec => []TypeOK
<1>1. IInv => TypeOK
  <2> SUFFICES ASSUME IInv PROVE TypeOK
    OBVIOUS
  <2>1. exits \in 0..Cardinality(Worker)
    <3>1. /\ IsFiniteSet(heard) /\ IsFiniteSet(Worker)
          /\ Cardinality(heard) <= Cardinality(Worker)
      BY WorkerAssumption, FS_Subset DEF IInv, CountInv
    <3>2. Cardinality(heard) \in Nat /\ Cardinality(Worker) \in Nat
      BY <3>1, FS_CardinalityType
    <3> QED BY <3>1, <3>2 DEF IInv, CountInv
  <2>2. \A c \in Channel : chan[c].tag \in TagsOf(c)
    BY DEF IInv, ChannelsInv, Good
  <2> QED BY <2>1, <2>2 DEF IInv, TypeInv, Lines, ChannelsInv, ChannelState, CountInv, TypeOK
<1> QED BY <1>1, Invariance, PTL

\* Nothing is lost, doubled or overtaken on a channel, wherever the events of
\* modify_events' unset data went (ipc_routine.cc, log_routine.cc).
THEOREM ChannelsInOrder == Spec => []InOrder
<1>1. IInv => InOrder
  BY DEF IInv, ChannelsInv, Good, InOrder
<1> QED BY <1>1, Invariance, PTL

\* A channel that has something to send is armed for EPOLLOUT.
BacklogIsArmed == \A c \in Channel : chan[c].backlog # <<>> => chan[c].armed /\ ~chan[c].writable

\* What waits in an m_send_list is armed for EPOLLOUT, and nothing is written past it.
THEOREM BacklogArmed == Spec => []BacklogIsArmed
<1>1. IInv => BacklogIsArmed
  BY DEF IInv, ChannelsInv, Good, BacklogIsArmed
<1> QED BY <1>1, Invariance, PTL

\* "all stopped" of stop_service is true, however many workers there are.
THEOREM StoppedSafe == Spec => []StoppedIsStopped
<1>1. IInv => StoppedIsStopped
  BY DEF IInv, CountInv, StoppedIsStopped
<1> QED BY <1>1, Invariance, PTL

\* A prefix of a sequence agrees with it.
LEMMA PrefixAgrees ==
  ASSUME NEW g \in Seq(Nat), NEW w \in Seq(Nat), NEW b \in Seq(Nat), NEW i \in 1..Len(g)
  PROVE  (g \o w \o b)[i] = g[i]
<1>1. /\ Len(g) \in Nat /\ Len(w) \in Nat /\ Len(b) \in Nat
  BY LenProperties
<1>2. g \o w \in Seq(Nat) /\ Len(g \o w) = Len(g) + Len(w) /\ (g \o w)[i] = g[i]
  BY <1>1, ConcatProperties
<1>3. i \in 1..Len(g \o w)
  BY <1>1, <1>2
<1> QED BY <1>1, <1>2, <1>3, ConcatProperties

\* A worker that left its loop had read every message sent before the stop.
THEOREM NothingSentIsMissed == Spec => []ReadBeforeLeaving
<1>1. IInv => ReadBeforeLeaving
  <2> SUFFICES ASSUME IInv, NEW w \in Worker, wpc[w] # "run"
               PROVE  \E k \in DOMAIN got[Hub(w)] :
                        got[Hub(w)][k] = Stop /\ \A i \in 1..k : got[Hub(w)][i] = sent[Hub(w)][i]
    BY DEF ReadBeforeLeaving
  <2>1. PICK k \in DOMAIN got[Hub(w)] : got[Hub(w)][k] = Stop
    BY DEF IInv, StopInv, HasRead
  <2>2. PICK g \in Seq(Nat), x \in Seq(Nat), b \in Seq(Nat) :
          g = got[Hub(w)] /\ x = chan[Hub(w)].wire /\ b = chan[Hub(w)].backlog
    BY HubsAndLogs DEF IInv, ChannelsInv, ChannelState
  <2>3. sent[Hub(w)] = g \o x \o b
    BY <2>2, HubsAndLogs DEF IInv, ChannelsInv, Good
  <2>4. k \in 1..Len(g) /\ Len(g) \in Nat
    BY <2>1, <2>2, LenProperties
  <2>5. ASSUME NEW i \in 1..k PROVE g[i] = sent[Hub(w)][i]
    <3>1. i \in 1..Len(g)
      BY <2>4
    <3> QED BY <2>3, <3>1, PrefixAgrees
  <2> QED BY <2>1, <2>2, <2>5
<1> QED BY <1>1, Invariance, PTL

-----------------------------------------------------------------------------
(* While the service waits: the stops are on their way.                     *)

StopIn(s) == \E k \in DOMAIN s : s[k] = Stop

\* The stop of w is on the way out, its notice on the way back.
OnItsWay(w) ==
  /\ wpc[w] = "run" => ~StopIn(got[Hub(w)])
  /\ wpc[w] = "ended" => w \in heard \cup notices
  /\ (pc = "stopping" /\ w \notin todo) \/ pc \in {"waiting", "joining", "joined"}
       => StopIn(sent[Hub(w)])

WayInv == \A w \in Worker : OnItsWay(w)

LEMMA StopAppended ==
  ASSUME NEW s \in Seq(Nat), NEW d \in Nat
  PROVE  StopIn(Append(s, d)) <=> StopIn(s) \/ d = Stop
<1>1. /\ Len(s) \in Nat /\ DOMAIN s = 1..Len(s)
      /\ DOMAIN Append(s, d) = 1..Len(s) + 1
      /\ \A k \in 1..Len(s) : Append(s, d)[k] = s[k]
      /\ Append(s, d)[Len(s) + 1] = d
  BY AppendProperties, LenProperties
<1>2. PICK t : t = Append(s, d)
  OBVIOUS
<1>3. StopIn(t) <=> StopIn(s) \/ d = Stop
  <2>1. \A k \in DOMAIN t : k \in DOMAIN s \/ k = Len(s) + 1
    BY <1>1, <1>2
  <2>2. /\ \A k \in DOMAIN s : k \in DOMAIN t /\ t[k] = s[k]
        /\ Len(s) + 1 \in DOMAIN t /\ t[Len(s) + 1] = d
    BY <1>1, <1>2
  <2> QED BY <2>1, <2>2 DEF StopIn
<1> QED BY <1>2, <1>3

LEMMA PostAddsStop ==
  ASSUME ChannelsInv, NEW c \in Channel, NEW d \in Nat, Post(c, d), NEW w \in Worker
  PROVE  /\ StopIn(sent[Hub(w)]) => StopIn(sent'[Hub(w)])
         /\ c = Hub(w) /\ d = Stop => StopIn(sent'[Hub(w)])
<1>1. Hub(w) \in Channel
  BY HubsAndLogs
<1>2. PICK s \in Seq(Nat) : s = sent[Hub(w)]
  BY <1>1 DEF ChannelsInv
<1>3. sent'[Hub(w)] = IF c = Hub(w) THEN Append(s, d) ELSE s
  BY <1>1, <1>2 DEF Post, ChannelsInv
<1>4. StopIn(Append(s, d)) <=> StopIn(s) \/ d = Stop
  BY StopAppended
<1> QED BY <1>2, <1>3, <1>4

LEMMA TakeFindsStop ==
  ASSUME ChannelsInv, NEW c \in Channel, Take(c), NEW w \in Worker,
         StopIn(got'[Hub(w)])
  PROVE  StopIn(got[Hub(w)]) \/ (c = Hub(w) /\ Head(chan[c].wire) = Stop)
<1>1. Hub(w) \in Channel
  BY HubsAndLogs
<1>2. PICK g \in Seq(Nat) : g = got[Hub(w)]
  BY <1>1 DEF ChannelsInv
<1>3. PICK d : d = Head(chan[c].wire)
  OBVIOUS
<1>4. d \in Nat
  BY <1>3, Taken DEF ChannelsInv, Take, ChannelState
<1>5. got'[Hub(w)] = IF c = Hub(w) THEN Append(g, d) ELSE g
  BY <1>1, <1>2, <1>3 DEF Take, ChannelsInv
<1>6. StopIn(Append(g, d)) <=> StopIn(g) \/ d = Stop
  BY <1>4, StopAppended
<1> QED BY <1>2, <1>3, <1>5, <1>6

LEMMA InitWay == Init => WayInv
<1> SUFFICES ASSUME Init, NEW w \in Worker PROVE OnItsWay(w)
  BY DEF WayInv
<1>1. got[Hub(w)] = <<>>
  BY HubsAndLogs DEF Init
<1>2. ~StopIn(got[Hub(w)])
  BY <1>1 DEF StopIn
<1> QED BY <1>2 DEF Init, OnItsWay

LEMMA WayStep == IInv /\ WayInv /\ [Next]_vars => WayInv'
<1> SUFFICES ASSUME IInv, WayInv, [Next]_vars, NEW w \in Worker PROVE OnItsWay(w)'
  BY DEF WayInv
<1> USE DEF IInv
<1>0. OnItsWay(w)
  BY DEF WayInv
<1>1. ASSUME UNCHANGED <<pc, todo, wpc, sent, got>>, heard \cup notices \subseteq heard' \cup notices'
      PROVE  OnItsWay(w)'
  BY <1>0, <1>1 DEF OnItsWay, StopIn, Hub, Stop
<1>2. ASSUME NEW c \in Channel, Dispatch(c)
      PROVE  OnItsWay(w)'
  BY <1>1, <1>2 DEF Dispatch
<1>3. CASE Work \/ Signal \/ LeaveLoop \/ WaitForAll \/ AllStopped \/ JoinedAll \/ \E v \in Worker : Join(v)
  <2>1. UNCHANGED <<heard, notices, wpc, sent, got>>
    BY <1>3 DEF Work, Signal, LeaveLoop, WaitForAll, AllStopped, Join, JoinedAll, workers
  <2>2. (pc' = "stopping" /\ w \notin todo') \/ pc' \in {"waiting", "joining", "joined"}
          => (pc = "stopping" /\ w \notin todo) \/ pc \in {"waiting", "joining", "joined"}
    BY <1>3 DEF Work, Signal, LeaveLoop, WaitForAll, AllStopped, Join, JoinedAll
  <2> QED BY <1>0, <2>1, <2>2 DEF OnItsWay, StopIn, Hub, Stop
<1>4. ASSUME NEW v \in Worker, SendMessage(v) \/ SendStop(v) \/ LogLine(v)
      PROVE  OnItsWay(w)'
  <2>1. UNCHANGED <<pc, heard, notices, wpc, got>>
    BY <1>4 DEF SendMessage, SendStop, LogLine, master, workers
  <2>2. /\ StopIn(sent[Hub(w)]) => StopIn(sent'[Hub(w)])
        /\ SendStop(v) /\ v = w => StopIn(sent'[Hub(w)])
    <3>1. Hub(v) \in Channel /\ Log(v) \in Channel /\ Stop \in Nat
      BY HubsAndLogs DEF Stop
    <3>2. Len(sent[Hub(v)]) + 1 \in Nat /\ Len(sent[Log(v)]) + 1 \in Nat
      BY <3>1, LenProperties DEF ChannelsInv
    <3> QED BY <1>4, <3>1, <3>2, PostAddsStop DEF SendMessage, SendStop, LogLine
  <2>3. SendStop(v) /\ w # v => (w \in todo' <=> w \in todo)
    BY DEF SendStop
  <2>4. ~SendStop(v) => todo' = todo
    BY <1>4 DEF SendMessage, LogLine, master
  <2> QED BY <1>0, <2>1, <2>2, <2>3, <2>4 DEF OnItsWay, StopIn, Hub, Stop
<1>5. ASSUME NEW v \in Worker, ReadIpc(v)
      PROVE  OnItsWay(w)'
  <2>1. UNCHANGED <<pc, todo, heard, notices, sent>> /\ Hub(v) \in Channel /\ Take(Hub(v))
    BY <1>5, HubsAndLogs DEF ReadIpc, master
  <2>2. wpc' = IF Head(chan[Hub(v)].wire) = Stop THEN [wpc EXCEPT ![v] = "asked"] ELSE wpc
    BY <1>5 DEF ReadIpc
  <2>3. wpc \in [Worker -> {"run", "asked", "ended"}]
    BY DEF TypeInv
  <2>4. ASSUME wpc'[w] = "run", StopIn(got'[Hub(w)])
        PROVE  FALSE
    <3>1. wpc[w] = "run"
      BY <2>2, <2>3, <2>4
    <3>2. ~StopIn(got[Hub(w)])
      BY <1>0, <3>1 DEF OnItsWay
    <3>3. Hub(v) = Hub(w) /\ Head(chan[Hub(v)].wire) = Stop
      BY <2>1, <2>4, <3>2, TakeFindsStop
    <3>4. v = w
      BY <3>3 DEF Hub
    <3> QED BY <2>2, <2>3, <2>4, <3>3, <3>4
  <2>5. wpc'[w] = "ended" => wpc[w] = "ended"
    BY <2>2, <2>3
  <2> QED BY <1>0, <2>1, <2>4, <2>5 DEF OnItsWay, StopIn, Hub, Stop
<1>6. ASSUME NEW v \in Worker, Leave(v)
      PROVE  OnItsWay(w)'
  <2>1. /\ UNCHANGED <<pc, todo, heard, got>>
        /\ wpc' = [wpc EXCEPT ![v] = "ended"] /\ notices' = notices \cup {v}
    BY <1>6 DEF Leave, Gone, master
  <2>2. wpc \in [Worker -> {"run", "asked", "ended"}]
    BY DEF TypeInv
  <2>3. /\ wpc'[w] = "run" => wpc[w] = "run"
        /\ wpc'[w] = "ended" => wpc[w] = "ended" \/ w = v
    BY <2>1, <2>2
  <2>4. StopIn(sent[Hub(w)]) => StopIn(sent'[Hub(w)])
    <3>1. Log(v) \in Channel
      BY HubsAndLogs
    <3>2. Len(sent[Log(v)]) + 1 \in Nat
      BY <3>1, LenProperties DEF ChannelsInv
    <3> QED BY <1>6, <3>1, <3>2, PostAddsStop DEF Leave
  <2> QED BY <1>0, <2>1, <2>3, <2>4 DEF OnItsWay, StopIn, Hub, Stop
<1>7. ASSUME NEW v \in Worker, ReadLog(v)
      PROVE  OnItsWay(w)'
  <2>1. UNCHANGED <<pc, todo, heard, notices, wpc, sent>> /\ Log(v) \in Channel /\ Take(Log(v))
    BY <1>7, HubsAndLogs DEF ReadLog, master, workers
  <2>2. StopIn(got'[Hub(w)]) => StopIn(got[Hub(w)])
    BY <2>1, TakeFindsStop, HubsAndLogs
  <2> QED BY <1>0, <2>1, <2>2 DEF OnItsWay, StopIn, Hub, Stop
<1>8. CASE UNCHANGED vars
  BY <1>1, <1>8 DEF vars, master, workers
<1> QED BY <1>2, <1>3, <1>4, <1>5, <1>6, <1>7, <1>8 DEF Next

\* stop_service never waits for a worker that nothing would move any more: a stop
\* that is neither read nor in the socket is in a backlog that is armed, and who
\* has ended has notified (the safety that StopCompletes rests on).
THEOREM NobodyIsForgotten == Spec => []NobodyHangs
<1>1. IInv /\ WayInv => NobodyHangs
  <2> SUFFICES ASSUME IInv, WayInv, pc = "waiting", NEW w \in Worker, w \notin heard
               PROVE  Moves(w)
    BY DEF NobodyHangs
  <2>1. OnItsWay(w) /\ wpc[w] \in {"run", "asked", "ended"}
    BY DEF WayInv, IInv, TypeInv
  <2>2. CASE wpc[w] = "ended"
    BY <2>1, <2>2 DEF OnItsWay, Moves, EventIn, Hub
  <2>3. CASE wpc[w] = "asked"
    BY <2>3 DEF Moves
  <2>4. CASE wpc[w] = "run"
    <3>1. ~StopIn(got[Hub(w)]) /\ StopIn(sent[Hub(w)])
      BY <2>1, <2>4 DEF OnItsWay
    <3>2. PICK g \in Seq(Nat), x \in Seq(Nat), b \in Seq(Nat) :
            g = got[Hub(w)] /\ x = chan[Hub(w)].wire /\ b = chan[Hub(w)].backlog
      BY HubsAndLogs DEF IInv, ChannelsInv, ChannelState
    <3>3. sent[Hub(w)] = g \o x \o b /\ (b # <<>> => chan[Hub(w)].armed)
      BY <3>2, HubsAndLogs DEF IInv, ChannelsInv, Good
    <3>4. x # <<>> \/ b # <<>>
      <4>1. g \o <<>> \o <<>> = g
        BY ConcatEmptySeq
      <4> QED BY <3>1, <3>2, <3>3, <4>1
    <3>5. CASE x # <<>>
      BY <2>4, <3>2, <3>5 DEF Moves
    <3>6. CASE x = <<>>
      <4>1. Len(chan[Hub(w)].wire) < SockCap
        BY <3>2, <3>6, EmptySeq, SockCapAssumption
      <4> QED BY <3>3, <3>4, <3>6, <4>1 DEF Moves, EventOut
    <3> QED BY <3>5, <3>6
  <2> QED BY <2>1, <2>2, <2>3, <2>4
<1>2. Spec => []WayInv
  BY InitWay, WayStep, Invariance, PTL DEF Spec
<1> QED BY <1>1, <1>2, Invariance, PTL

-----------------------------------------------------------------------------
(* The lines of one proxy in the log file.                                  *)

\* The lines of w among the first m of s, for every m up to its last.
AreLines(f, m, w, s) ==
  f = [k \in 0..m |-> IF k = 0 THEN <<>>
                      ELSE IF s[k][1] = w /\ s[k][3] = "begin" THEN Append(f[k - 1], s[k][2]) ELSE f[k - 1]]

LEMMA LinesExist ==
  ASSUME NEW w, NEW s
  PROVE  \A m \in Nat : \E f : AreLines(f, m, w, s)
<1> DEFINE T == {m \in Nat : ~ \E f : AreLines(f, m, w, s)}
<1> SUFFICES ASSUME T # {} PROVE FALSE
  OBVIOUS
<1>1. PICK m \in T : \A j \in T : ~(j < m)
  <2>1. T \in SUBSET Nat
    OBVIOUS
  <2> HIDE DEF T
  <2> QED BY <2>1, LeastOf
<1>2. CASE m = 0
  <2>1. AreLines([k \in 0..0 |-> <<>>], 0, w, s)
    BY DEF AreLines
  <2> QED BY <1>1, <1>2, <2>1
<1>3. CASE m # 0
  <2>1. m - 1 \in Nat /\ m - 1 \notin T
    BY <1>1, <1>3
  <2>2. PICK f : AreLines(f, m - 1, w, s)
    BY <2>1
  <2> DEFINE step(k, x) == IF s[k][1] = w /\ s[k][3] = "begin" THEN Append(x, s[k][2]) ELSE x
             g == [k \in 0..m |-> IF k = 0 THEN <<>> ELSE step(k, f[k - 1])]
  <2>3. f = [k \in 0..m - 1 |-> IF k = 0 THEN <<>> ELSE step(k, f[k - 1])]
    BY <2>2 DEF AreLines
  <2>4. AreLines(g, m, w, s) <=> g = [k \in 0..m |-> IF k = 0 THEN <<>> ELSE step(k, g[k - 1])]
    BY DEF AreLines
  <2> HIDE DEF step
  <2>5. \A k \in 0..m - 1 : f[k] = g[k]
    BY <2>1, <2>3
  <2>6. \A k \in 0..m : k # 0 => k - 1 \in 0..m - 1
    BY <2>1
  <2>7. g = [k \in 0..m |-> IF k = 0 THEN <<>> ELSE step(k, g[k - 1])]
    BY <2>5, <2>6
  <2> HIDE DEF g
  <2> QED BY <1>1, <2>4, <2>7
<1> QED BY <1>2, <1>3

\* The lines among the first m of two lists that begin alike are the same.
LEMMA LinesAgree ==
  ASSUME NEW w, NEW s, NEW t, NEW f, NEW g, NEW m \in Nat, NEW p \in Nat, m <= p,
         \A k \in 1..m : s[k] = t[k], AreLines(f, m, w, s), AreLines(g, p, w, t)
  PROVE  \A k \in 0..m : f[k] = g[k]
<1> DEFINE T == {k \in 0..m : f[k] # g[k]}
<1> SUFFICES ASSUME T # {} PROVE FALSE
  OBVIOUS
<1>1. PICK k \in T : \A j \in T : ~(j < k)
  <2>1. T \in SUBSET Nat
    OBVIOUS
  <2> HIDE DEF T
  <2> QED BY <2>1, LeastOf
<1>2. k \in 0..m /\ k \in 0..p /\ f[k] # g[k]
  BY <1>1
<1>3. CASE k = 0
  BY <1>2, <1>3 DEF AreLines
<1>4. CASE k # 0
  <2>1. k - 1 \in 0..m /\ k - 1 \notin T /\ k \in 1..m
    BY <1>1, <1>4
  <2>2. f[k - 1] = g[k - 1] /\ s[k] = t[k]
    BY <2>1
  <2>3. f[k] = IF s[k][1] = w /\ s[k][3] = "begin" THEN Append(f[k - 1], s[k][2]) ELSE f[k - 1]
    BY <1>2, <1>4 DEF AreLines
  <2>4. g[k] = IF t[k][1] = w /\ t[k][3] = "begin" THEN Append(g[k - 1], t[k][2]) ELSE g[k - 1]
    BY <1>2, <1>4 DEF AreLines
  <2> QED BY <1>2, <2>2, <2>3, <2>4
<1> QED BY <1>3, <1>4

LEMMA LinesOfIs ==
  ASSUME NEW w, NEW s, Len(s) \in Nat
  PROVE  \E f : AreLines(f, Len(s), w, s) /\ LinesOf(w, s) = f[Len(s)]
<1>1. \E f : AreLines(f, Len(s), w, s)
  BY LinesExist
<1> QED BY <1>1 DEF LinesOf, AreLines

\* One part of a line more.
LEMMA LinesOfAppend ==
  ASSUME NEW w, NEW S, NEW s \in Seq(S), NEW l \in S
  PROVE  LinesOf(w, Append(s, l)) = IF l[1] = w /\ l[3] = "begin"
                                    THEN Append(LinesOf(w, s), l[2]) ELSE LinesOf(w, s)
<1> DEFINE t == Append(s, l)
           n == Len(s)
<1>1. n \in Nat /\ Len(t) = n + 1 /\ t[n + 1] = l /\ \A k \in 1..n : s[k] = t[k]
  OBVIOUS
<1> HIDE DEF t
<1>2. PICK f : AreLines(f, n, w, s) /\ LinesOf(w, s) = f[n]
  BY <1>1, LinesOfIs
<1>3. PICK g : AreLines(g, n + 1, w, t) /\ LinesOf(w, t) = g[n + 1]
  <2>1. Len(t) \in Nat
    BY <1>1
  <2> QED BY <1>1, <2>1, LinesOfIs
<1> HIDE DEF n
<1>4. f[n] = g[n]
  <2>1. n \in Nat /\ n + 1 \in Nat /\ n <= n + 1 /\ n \in 0..n
    BY <1>1
  <2>2. AreLines(f, n, w, s) /\ AreLines(g, n + 1, w, t) /\ \A k \in 1..n : s[k] = t[k]
    BY <1>1, <1>2, <1>3
  <2>3. \A k \in 0..n : f[k] = g[k]
    <3> HIDE DEF AreLines
    <3>1. PICK p \in Nat : p = n + 1
      BY <2>1
    <3>2. n <= p /\ AreLines(g, p, w, t)
      BY <2>1, <2>2, <3>1
    <3>3. n \in Nat /\ \A k \in 1..n : s[k] = t[k]
      BY <2>1, <2>2
    <3> QED BY <2>2, <3>2, <3>3, LinesAgree
  <2> QED BY <2>1, <2>3
<1>5. g[n + 1] = IF t[n + 1][1] = w /\ t[n + 1][3] = "begin" THEN Append(g[n], t[n + 1][2]) ELSE g[n]
  <2>1. n + 1 \in 0..n + 1 /\ n + 1 # 0 /\ (n + 1) - 1 = n
    BY <1>1
  <2> QED BY <1>3, <2>1 DEF AreLines
<1> QED BY <1>1, <1>2, <1>3, <1>4, <1>5 DEF t

\* A line whose parts come one after the other is not torn.
LEMMA UntornAppend ==
  ASSUME NEW s \in Lines, Untorn(s), NEW b \in Part, NEW e \in Part,
         e = <<b[1], b[2], "end">>
  PROVE  Untorn(Append(Append(s, b), e))
<1> DEFINE t == Append(Append(s, b), e)
           n == Len(s)
<1>1. n \in Nat /\ DOMAIN s = 1..n /\ DOMAIN t = 1..n + 2
  BY DEF Lines
<1>2. t[n + 1] = b /\ t[n + 2] = e /\ \A k \in 1..n : t[k] = s[k]
  BY DEF Lines
<1>3. e[3] = "end"
  OBVIOUS
<1> HIDE DEF t, n
<1>4. ASSUME NEW k \in 1..n + 2, t[k][3] = "begin"
      PROVE  k + 1 \in 1..n + 2 /\ t[k + 1] = <<t[k][1], t[k][2], "end">>
  <2>1. CASE k \in 1..n
    <3>1. k + 1 \in 1..n /\ s[k + 1] = <<s[k][1], s[k][2], "end">>
      BY <1>1, <1>2, <1>4, <2>1 DEF Untorn
    <3> QED BY <1>1, <1>2, <2>1, <3>1
  <2>2. CASE k = n + 1
    BY <1>1, <1>2, <2>2
  <2>3. CASE k = n + 2
    BY <1>2, <1>3, <1>4, <2>3
  <2> QED BY <1>1, <2>1, <2>2, <2>3
<1> QED BY <1>1, <1>4 DEF Untorn, t

\* Only the log proxy reads lines, and it writes every line that it reads, or
\* keeps what is left of it for its next write (log_routine::on_readable,
\* file_writer::append).
THEOREM LinesSafe == Spec => []LinesInOrder
<1>1. Init => LinesInOrder
  <2> SUFFICES ASSUME Init PROVE LinesInOrder
    OBVIOUS
  <2>1. <<>> \in Seq(Nat) /\ Len(<<>>) = 0 /\ <<>> \o <<>> = <<>> /\ DOMAIN <<>> = {}
    BY EmptySeq, ConcatEmptySeq
  <2>2. file \o pending = <<>> /\ \A w \in Worker : got[Log(w)] = <<>>
    BY <2>1, HubsAndLogs DEF Init
  <2>3. ASSUME NEW w \in Worker PROVE LinesOf(w, <<>>) = <<>>
    <3>1. PICK f : AreLines(f, 0, w, <<>>) /\ LinesOf(w, <<>>) = f[0]
      BY <2>1, LinesOfIs
    <3> QED BY <3>1 DEF AreLines
  <2> QED BY <2>1, <2>2, <2>3 DEF LinesInOrder, Untorn
<1>2. IInv /\ LinesInOrder /\ [Next]_vars => LinesInOrder'
  <2> SUFFICES ASSUME IInv, LinesInOrder, [Next]_vars PROVE LinesInOrder'
    OBVIOUS
  <2>1. ASSUME NEW w \in Worker, ReadLog(w)
        PROVE  LinesInOrder'
    <3> DEFINE line == Head(chan[Log(w)].wire)
    <3>1. /\ line \in Nat
          /\ file' \o pending' = Append(Append(file \o pending, <<w, line, "begin">>), <<w, line, "end">>)
          /\ file \o pending \in Lines
      BY <2>1, ReadLogTyped, ConcatProperties DEF IInv, TypeInv, Lines
    <3>2. /\ got' = [got EXCEPT ![Log(w)] = Append(got[Log(w)], line)]
          /\ got \in [Channel -> Seq(Nat)]
      BY <2>1 DEF ReadLog, Take, IInv, ChannelsInv
    <3> HIDE DEF line
    <3>3. PICK all \in Lines, b \in Part, e \in Part :
            all = file \o pending /\ b = <<w, line, "begin">> /\ e = <<w, line, "end">>
      BY <3>1 DEF Part
    <3>4. file' \o pending' = Append(Append(all, b), e)
      BY <3>1, <3>3
    <3>5. ASSUME NEW v \in Worker
          PROVE  LinesOf(v, Append(Append(all, b), e))
                   = IF v = w THEN Append(got[Log(v)], line) ELSE got[Log(v)]
      <4>1. Append(all, b) \in Lines
        BY AppendProperties DEF Lines
      <4>2. LinesOf(v, Append(Append(all, b), e)) = LinesOf(v, Append(all, b))
        <5>1. PICK some \in Seq(Part) : some = Append(all, b)
          BY <4>1 DEF Lines
        <5>2. LinesOf(v, Append(some, e)) = IF e[1] = v /\ e[3] = "begin"
                                            THEN Append(LinesOf(v, some), e[2]) ELSE LinesOf(v, some)
          BY LinesOfAppend, ZenonT(60)
        <5>3. e[3] # "begin"
          BY <3>3
        <5> QED BY <5>1, <5>2, <5>3
      <4>3. LinesOf(v, Append(all, b)) = IF b[1] = v /\ b[3] = "begin"
                                         THEN Append(LinesOf(v, all), b[2]) ELSE LinesOf(v, all)
        <5>1. all \in Seq(Part)
          BY DEF Lines
        <5> QED BY <5>1, LinesOfAppend, ZenonT(60)
      <4>4. LinesOf(v, all) = got[Log(v)]
        BY <3>3 DEF LinesInOrder
      <4>5. b[1] = w /\ b[2] = line /\ b[3] = "begin"
        BY <3>3
      <4> QED BY <4>2, <4>3, <4>4, <4>5
    <3>6. ASSUME NEW v \in Worker
          PROVE  got'[Log(v)] = IF v = w THEN Append(got[Log(v)], line) ELSE got[Log(v)]
      BY <3>2, HubsAndLogs DEF Log
    <3>7. Untorn(Append(Append(all, b), e))
      <4>1. Untorn(all) /\ e = <<b[1], b[2], "end">>
        BY <3>3 DEF LinesInOrder
      <4> QED BY <4>1, UntornAppend
    <3> QED BY <3>4, <3>5, <3>6, <3>7 DEF LinesInOrder
  <2>2. ASSUME UNCHANGED <<pending, file>>, \A w \in Worker : got'[Log(w)] = got[Log(w)]
        PROVE  LinesInOrder'
    BY <2>2 DEF LinesInOrder, Log
  <2>3. ASSUME NEW w \in Worker, ReadIpc(w)
        PROVE  LinesInOrder'
    <3>1. \A v \in Worker : got'[Log(v)] = got[Log(v)]
      BY <2>3, HubsAndLogs DEF ReadIpc, Take, Hub, Log, IInv, ChannelsInv
    <3> QED BY <2>2, <2>3, <3>1 DEF ReadIpc, log
  <2>4. CASE UNCHANGED <<got, pending, file>>
    BY <2>2, <2>4
  <2> QED BY <2>1, <2>3, <2>4 DEF Next, Dispatch, Work, Signal, LeaveLoop, WaitForAll,
             AllStopped, JoinedAll, SendMessage, SendStop, Join, LogLine, Leave, log, vars
<1> QED BY Invariance, <1>1, <1>2, PTL DEF Spec
=============================================================================
