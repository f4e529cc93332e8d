---------------------------- MODULE MCDotTransfer ----------------------------
(* Model-checking instances of DotTransfer. *)
EXTENDS DotTransfer

(* Every line of at most two characters. *)
ShortLines == UNION {[1 .. n -> {Dot, Other}] : n \in 0 .. 2}
=============================================================================
