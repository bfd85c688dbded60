---------------------------- MODULE MCBootImage ----------------------------
(* The three files that lsm build writes, started one after the other. *)
EXTENDS BootImage

MCTargets == <<"img", "elf64", "elf32">>

=============================================================================
