----------------------------- MODULE MCBootIo ------------------------------
(* Constants of the run of BootIo: a byte, an int and an address. *)
EXTENDS BootIo

MCWords == {<<165>>, <<255, 160, 9, 1>>}
MCStatus == {<<37, 0, 0, 0, 0, 0, 0, 0>>}
=============================================================================
