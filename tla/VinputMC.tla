------------------------------ MODULE VinputMC ------------------------------
(* Instances of Vinput: processes, devices and types are model values. *)
EXTENDS Vinput

CONSTANTS p1, p2, v1, v2, vkbd, vmouse
=============================================================================
