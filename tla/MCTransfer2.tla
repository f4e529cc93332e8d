---------------------------- MODULE MCTransfer2 ----------------------------
(* Model-checking instances of Transfer2; the constants are in the .cfg     *)
(* files.                                                                   *)
EXTENDS Transfer2
=============================================================================
