---------------------------- MODULE MCCanaryTrap ----------------------------
(* CanaryTrap for TLC.  Every constant is given its value in the .cfg; the *)
(* request slots are not declared symmetric, since the runs of this module *)
(* check temporal properties.                                              *)
EXTENDS CanaryTrap
=============================================================================
