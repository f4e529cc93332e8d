----------------------------- MODULE MCDispatch -----------------------------
(* Model-checking instances of Dispatch. *)
EXTENDS Dispatch

(* Two policies, the old one and the new one of a reload, and a proxy. *)
TwoPolicies == {"l1", "l2"}
OneProxy == {"f1"}
Address == {"a", "b"}
AnyPort == "any"

(* The proxy binds any free port. *)
OwnPort == [e \in TwoPolicies \union OneProxy |-> IF e \in TwoPolicies THEN "a" ELSE "any"]

(* The proxy shares the address of the policies. *)
Shared == [e \in TwoPolicies \union OneProxy |-> "a"]

(* ZD_PRI_LISTEN and ZD_PRI_RELATED. *)
Priorities == [e \in TwoPolicies \union OneProxy |-> IF e \in TwoPolicies THEN 100 ELSE -100]

BothLayouts == {OwnPort, Shared}
=============================================================================
