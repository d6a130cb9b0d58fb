---------------------------- MODULE MCTimerWheel ----------------------------
(* Timers that run twice and timers for ever.                               *)
EXTENDS TimerWheel
MCTimes == {-1, 2}
MCSymmetry == Permutations(Timer)
=============================================================================
