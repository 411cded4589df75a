---------------------------- MODULE MCColdStart -----------------------------
(* Three keys: a high-severity metric, whole host and one process, and a routine one. *)
EXTENDS ColdStart

MCDims == {"ptrace", "ptrace@gdb", "exec"}
MCMetricOf == [d \in MCDims |-> IF d = "exec" THEN "exec" ELSE "ptrace"]
MCHostOf == [d \in MCDims |-> MCMetricOf[d]]
=============================================================================
