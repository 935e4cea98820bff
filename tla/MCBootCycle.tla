----------------------------- MODULE MCBootCycle -----------------------------
(* Machines and static rules of BootCycle for TLC. *)
EXTENDS BootCycle, TLC

CONSTANTS p1, p2, p3

MCPci == {p1, p2, p3}
(* Up to two nics, each in a slot of its own. *)
Slotted(macs, slots) ==
  {m \in UNION {[S -> slots] : S \in SUBSET macs} :
     Cardinality(DOMAIN m) \in 1 .. 2 /\ \A a, b \in DOMAIN m : m[a] = m[b] => a = b}
TwoSlots   == Slotted(1 .. 3, {p1, p2})
ThreeSlots == Slotted(1 .. 3, MCPci)
(* Three nics, two of them on one function, and one of those replaced. *)
Shared == {(1 :> p1) @@ (2 :> p1) @@ (3 :> p2), (1 :> p1) @@ (4 :> p1) @@ (3 :> p2),
           (3 :> p2) @@ (4 :> p2)}

NoRules  == {<<>>}
OneRule  == {<<>>} \cup {<<[mac |-> 1, pci |-> p, tname |-> Eth(1)]>> : p \in MCPci}

Slots == Permutations(MCPci)

=============================================================================
