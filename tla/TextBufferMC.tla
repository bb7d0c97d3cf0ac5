---------------------------- MODULE TextBufferMC ----------------------------
(* Instances of TextBuffer: threads and files are model values. *)
EXTENDS TextBuffer

CONSTANTS t1, t2, f1
=============================================================================
