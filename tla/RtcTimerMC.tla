---------------------------- MODULE RtcTimerMC ----------------------------
(***************************************************************************)
(* RtcTimer for model checking: timers are interchangeable.                *)
(***************************************************************************)
EXTENDS RtcTimer, TLC

CONSTANTS t1, t2, t3

Symmetric == Permutations(Timer)
=============================================================================
