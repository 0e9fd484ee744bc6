----------------------------- MODULE MCScheduler -----------------------------
(***************************************************************************)
(* Instances of Scheduler for TLC: the constants of the cfgs that are not  *)
(* plain values.                                                           *)
(***************************************************************************)
EXTENDS Scheduler
CONSTANTS s1, s2, q1

NoReaders  == [q \in {} |-> s1]
OneReader  == [q \in {q1} |-> s1]

AllOps == {"trouble", "fork", "yield", "wait", "signal", "suspend", "resume",
           "terminate", "nextPut", "next"}
=============================================================================
