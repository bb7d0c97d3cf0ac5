----------------------------- MODULE FlagReadMC -----------------------------
(* Instances of FlagRead: the threads are model values. *)
EXTENDS FlagRead

CONSTANTS t1, t2
=============================================================================
