------------------------------ MODULE MCSched ------------------------------
(* Model values and bounds for the runs of Sched.                          *)
EXTENDS Sched

=============================================================================
