------------------------------ MODULE MCRename ------------------------------
(* Inputs of Rename for TLC. *)
EXTENDS Rename, SequencesExt, TLC

CONSTANTS p1, p2, p3

SeqUpTo(S, n) == UNION {[1 .. m -> S] : m \in 0 .. n}
Entries(macs, pcis, names) ==
  {[mac |-> m, pci |-> p, tname |-> t] : m \in macs, p \in pcis, t \in names}
(* Lists without two entries of one name or one MAC. *)
Clean(es) == ~NamesClash(es) /\ ~MacsClash(es)
CleanUpTo(S, n) == {es \in SeqUpTo(S, n) : Clean(es)}

Nics(macs, pcis, knames, orders) ==
  [i \in DOMAIN macs |-> [mac |-> macs[i], pci |-> pcis[i], order |-> orders[i],
                          kname |-> knames[i], tname |-> None]]
Inj(n, S) == {f \in [1 .. n -> S] : \A i, j \in 1 .. n : f[i] = f[j] => i = j}

(* One nic per function: nic i is in slot i; a memory of up to two nics of *)
(* last boot, one static rule and one older nic, three of them in all,     *)
(* over three MACs and three slots.                                        *)
SlotCur == {Nics(<<1, 2>>, <<p1, p2>>, f, <<0, 0>>) :
              f \in Inj(2, {Eth(0), Eth(1), Eth(2), Side(1, 0)})}
SlotEntry == Entries(1 .. 3, {p1, p2, p3}, {Eth(0), Eth(1)})
SlotInputs ==
  {in \in [static : CleanUpTo(SlotEntry, 1), cur : SlotCur,
           last : CleanUpTo(SlotEntry, 2), old : SeqUpTo(SlotEntry, 1)] :
     Len(in.static) + Len(in.last) + Len(in.old) <= 3}

(* Inputs rename() rejects or filters, and the empty ones. *)
Odd(n) == [mac |-> 3, pci |-> p3, tname |-> n]
WithKname == {Odd(Eth(2))}
OddEntries == SeqUpTo({Odd(Ibft(0)), Odd(EthFoo), Odd(Eth(0))} \cup WithKname, 2)
OddCur == {<<>>, Nics(<<1>>, <<p1>>, <<Ibft(0)>>, <<0>>)}
          \cup {Nics(<<1, m>>, <<p1, p2>>, f, <<0, 0>>) :
                  m \in 1 .. 2, f \in [1 .. 2 -> {Eth(0), EthFoo, Ibft(0)}]}
          \cup {[Nics(<<1>>, <<p1>>, <<Eth(0)>>, <<0>>) EXCEPT ![1].tname = Eth(0)]}
OddInputs == [static : OddEntries, cur : OddCur, last : OddEntries, old : OddEntries]

(* Three nics on two functions, one of them at least shared, in any order  *)
(* of the MACs, with the orders of the firmware all distinct and not.      *)
SharedCur ==
  {Nics(m, p, n, o) :
     m \in Inj(3, 1 .. 3),
     p \in {<<p1, p1, p1>>, <<p1, p2, p1>>},
     n \in {<<Eth(0), Eth(1), Eth(2)>>, <<Side(1, 0), Eth(0), Side(1, 1)>>},
     o \in {<<2, 1, 0>>, <<1, 1, 0>>}}
SharedEntry == Entries({1, 4, 5}, {p1, p2}, {Eth(0), Eth(1)})
SharedInputs ==
  {in \in [static : CleanUpTo(Entries({1, 4}, {p1}, {Eth(0), Eth(3)}), 1), cur : SharedCur,
           last : CleanUpTo(SharedEntry, 2), old : SeqUpTo(SharedEntry, 1)] :
     in.static = <<>> \/ in.old = <<>>}

AllInputs == SlotInputs \cup OddInputs \cup SharedInputs

MCPci == {p1, p2, p3}

=============================================================================
