-------------------------- MODULE MCAlarmScheduler --------------------------
(***************************************************************************)
(* Model checking AlarmScheduler.  Its clock is bounded, so a run ends up  *)
(* at the last instant, where every timer that is armed has fired or is    *)
(* about to.                                                               *)
(***************************************************************************)
EXTENDS AlarmScheduler

=============================================================================
