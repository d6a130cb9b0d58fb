---------------------------- MODULE MCHybridList ----------------------------
(* Four ids, so that a turn and an erasure meet rings of none to four nodes.  *)
EXTENDS HybridList
=============================================================================
