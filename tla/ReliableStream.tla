--------------------------- MODULE ReliableStream ---------------------------
(***************************************************************************)
(* What a UDP session promises to the applications at its ends: each end   *)
(* sends a stream of numbered fragments; the other end receives some of    *)
(* them, in any order and once each, delivers a gapless prefix in order,   *)
(* and only a fragment that was received is ever confirmed to its sender.  *)
(* A step may advance both streams at once, because one datagram carries   *)
(* fragments of one and acks of the other.                                 *)
(***************************************************************************)
EXTENDS Integers

CONSTANT End   \* the ends; each sends one stream

VARIABLES
  sent,        \* sent[e]: fragments end e has handed to the session
  received,    \* received[e]: those of them the other end has
  delivered,   \* delivered[e]: length of the prefix its application got
  confirmed    \* confirmed[e]: fragments e knows to be received

streams == <<sent, received, delivered, confirmed>>

Init ==
  /\ sent = [e \in End |-> 0]
  /\ received = [e \in End |-> {}]
  /\ delivered = [e \in End |-> 0]
  /\ confirmed = [e \in End |-> {}]

\* Stream e moves forward, or stays: nothing sent, received, delivered or
\* confirmed is taken back, nothing is received that was not sent, nothing is
\* delivered past a gap, and nothing is confirmed that was not received before.
Advance(e) ==
  /\ sent'[e] >= sent[e]
  /\ received[e] \subseteq received'[e]
  /\ received'[e] \subseteq 0..sent[e] - 1
  /\ delivered'[e] >= delivered[e]
  /\ 0..delivered'[e] - 1 \subseteq received'[e]
  /\ confirmed[e] \subseteq confirmed'[e]
  /\ confirmed'[e] \subseteq received[e]

Next == \A e \in End : Advance(e)

Spec == Init /\ [][Next]_streams
=============================================================================
