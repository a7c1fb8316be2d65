------------------------------- MODULE MCJobs -------------------------------
(***************************************************************************)
(* Half a second is a tick: three ticks to a period or a timeout, and a    *)
(* clock of 24 ticks, which is eight periods instead of 666.               *)
(***************************************************************************)
EXTENDS PeriodicJobs

MCGarbage == {0, 7, 1000}
=============================================================================
