---------------------------- MODULE MCStaticRules ----------------------------
(* Lines, files and machines of StaticRules for TLC. *)
EXTENDS StaticRules

Line(t, m, v, q) == [target |-> t, method |-> m, value |-> v, quoted |-> q]

Values == {<<"mac", 1>>, <<"mac", 2>>, <<"pci", "p", 0>>, <<"pci", "p", 1>>,
           <<"ppn", "p1p1">>, <<"oldppn", "p1p1">>, <<"text", "guess">>, <<"text", "label">>, <<"text", "lan">>}

Lines == {Line(0, "none", v, q) : v \in Values, q \in BOOLEAN}
         \cup {Line(0, m, v, TRUE) : m \in {"mac", "ppn", "label"}, v \in Values}
         \cup {Line(1, "pci", <<"pci", "p", i>>, FALSE) : i \in 0 .. 1}
         \cup {Line(1, "guess", <<"oldppn", "p1p1">>, FALSE), Line(1, "other", <<"mac", 1>>, FALSE)}
Written2 == {<<a, b>> : a, b \in Lines}

(* Formulae of an installer: some write() refuses, an old-style ppn. *)
F(t, m, v)  == [target |-> t, method |-> m, value |-> v]
Installer == {<<F(1, "mac", <<"mac", 2>>), F(0, "ppn", <<"oldppn", "p1p1">>)>>,
              <<F(1, "pci", <<"text", "lan">>), F(0, "pci", <<"pci", "p", 1>>)>>}

(* Two nics on one function, the kernel's order against that of the MACs, *)
(* with or without a ppn, a label or a MAC in common.                     *)
Nic(m, p, l) == [mac |-> m, pci |-> "p", ppn |-> p, label |-> l]
Machines ==
  {<<Nic(2, a, "lan"), Nic(1, b, None)>> : a, b \in {None, "p1p1"}}
  \cup {<<Nic(1, "p1p1", "guess")>>,
        <<Nic(2, None, "lan"), Nic(1, None, "lan")>>, <<Nic(1, None, None), Nic(1, None, "lan")>>}
=============================================================================
