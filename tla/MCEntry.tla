------------------------------ MODULE MCEntry ------------------------------
(* Constants for the runs of Entry are in the configurations.              *)
EXTENDS Entry
=============================================================================
