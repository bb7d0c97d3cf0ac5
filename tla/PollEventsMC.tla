---------------------------- MODULE PollEventsMC ----------------------------
(* Instances of PollEvents for TLC. *)
EXTENDS PollEvents, TLC

CONSTANTS t1, t2, f1, f2

MCThread == {t1, t2}
MCFile == {f1, f2}

(* each thread has a file of its own ... *)
PrivateFiles == f1 :> {t1} @@ f2 :> {t2}

(* ... or both hold a descriptor of the same file, as after fork or dup *)
SharedFile == f1 :> {t1, t2} @@ f2 :> {}
=============================================================================
