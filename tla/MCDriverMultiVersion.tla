------------------------- MODULE MCDriverMultiVersion -------------------------
(* DriverMultiVersion for TLC: a driver of one or two modules. *)
EXTENDS DriverMultiVersion

CONSTANTS k1, k2, m1, m2, v1, v2

Both == {m1, m2}
(* Both variants whole for both kernels; one of them for one kernel only;  *)
(* one with fewer modules.                                                 *)
MCTrees ==
  {[k \in {k1, k2} |-> [v \in {v1, v2} |-> Both]],
   [k \in {k1, k2} |-> [v \in {v1, v2} |-> IF k = k2 /\ v = v2 THEN {} ELSE Both]],
   [k \in {k1, k2} |-> [v \in {v1, v2} |-> IF v = v2 THEN {m2} ELSE Both]],
   [k \in {k1, k2} |-> [v \in {v1, v2} |-> IF v = v2 THEN {} ELSE {m1}]]}
=============================================================================
