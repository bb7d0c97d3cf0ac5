-------------------------- MODULE ExclusiveOpenMC --------------------------
(* Instances of ExclusiveOpen: the processes are model values. *)
EXTENDS ExclusiveOpen

CONSTANTS t1, t2, t3
=============================================================================
