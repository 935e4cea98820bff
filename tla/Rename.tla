-------------------------------- MODULE Rename --------------------------------
(***************************************************************************)
(* xcp/net/ifrename/logic.py: rename() and rename_logic(), which decide    *)
(* the names of the network interfaces (nics) of a machine at boot and     *)
(* return the list of renames to carry out.                                *)
(*                                                                         *)
(* A step is one iteration of a loop of the code: one static rule of pass  *)
(* 1, one nic of pass 2, one function or one nic of pass 3, one nic of     *)
(* pass 4.  MAC addresses are naturals, in the order of MAC.integer.       *)
(***************************************************************************)
EXTENDS NicNames, Integers, Sequences, FiniteSets

CONSTANTS
  Mac,       \* MAC addresses
  Pci,       \* PCI functions
  TempNum,   \* the random numbers get_new_temp_name draws, 1..9999 in the code
  Inputs,    \* the [static, cur, last, old] rename() may be called with
  Knamed,    \* of the entries of its other lists, those that have a kname
  None       \* Python's None, as a nic's tname

Entry == [mac : Mac, pci : Pci, tname : Name]
Nic   == [mac : Mac, pci : Pci, order : Nat, kname : Name, tname : Name \cup {None}]
Input == [static : Seq(Entry), cur : Seq(Nic), last : Seq(Entry), old : Seq(Entry)]

ASSUME RenameAssumption ==
  /\ Mac \subseteq Nat
  /\ TempNum \subseteq Nat \ {0}
  /\ None \notin Name
  /\ Inputs \subseteq Input /\ Knamed \subseteq Entry

VARIABLES
  static,        \* static_rules, last_state and old_state as given
  last,
  old,
  nics,          \* cur_state, as a function on its positions
  transactions,  \* the (source, destination) renames so far
  pc,            \* the pass, or how the call ended
  error,         \* the exception raised, if any
  k,             \* pass 1: the rule looked at
  fns,           \* pass 3: multi-nic functions still to visit
  work,          \* passes 2, 3 and 4: the nics the loop has still to visit
  nextethnum     \* pass 4: the next new number

inputs == <<static, last, old>>
vars   == <<static, last, old, nics, transactions, pc, error, k, fns, work, nextethnum>>

-----------------------------------------------------------------------------
(* Lookups.  A lookup that scans a list returns the first entry that fits. *)

WithMac(es, m)   == {i \in DOMAIN es : es[i].mac = m}
WithPci(es, p)   == {i \in DOMAIN es : es[i].pci = p}
Same(es, e)      == WithMac(es, e.mac) \cap WithPci(es, e.pci)   \* MACPCI.__eq__
IsFirst(i, S)    == i \in S /\ \A j \in S : i <= j
Present(m)       == WithMac(nics, m) # {}

(* Fault: the last boot is forgotten. *)
RememberedOldOnly == old
Remembered       == last \o old

TnameFree(name)  == \A i \in DOMAIN nics : nics[i].tname # name
(* Fault: a nic is done only when its kernel name is its new name. *)
NeedsRenamingByKname(n) == n.kname # n.tname

NeedsRenaming(n) == ~(n.tname # None /\ IsEth(n.tname))

(* Unrenamed nics whose kernel name is name. *)
Aliased(name)    == {i \in DOMAIN nics : nics[i].tname = None /\ nics[i].kname = name}

(* Fault: the temporary name may be in use. *)
TempNameUnchecked(eth) == {Side(r, eth.num) : r \in TempNum}

TempName(eth) ==
  {t \in {Side(r, eth.num) : r \in TempNum} :
     \A i \in DOMAIN nics : nics[i].kname # t /\ nics[i].tname # t}

(* PCI functions that carry more than one current nic. *)
MultinicFunctions ==
  {p \in {nics[i].pci : i \in DOMAIN nics} : Cardinality(WithPci(nics, p)) > 1}

(* The rank of i in S by MAC address, equal ones in list order: sort() is  *)
(* stable; likewise by order.                                              *)
MacRank(es, S, i) ==
  Cardinality({j \in S : es[j].mac < es[i].mac \/ (es[j].mac = es[i].mac /\ j < i)})
OrderBefore(i, j) ==
  nics[i].order < nics[j].order \/ (nics[i].order = nics[j].order /\ i < j)
OrderRank(S, i) == Cardinality({j \in S : OrderBefore(j, i)})

-----------------------------------------------------------------------------
(* __rename_nic *)

(* Either assertion at its head fails. *)
Refused(name) == ~IsEth(name) \/ ~TnameFree(name)

(* Nobody has the name: take it. *)
TakeFree(i, name) ==
  /\ Aliased(name) = {}
  /\ nics' = [nics EXCEPT ![i].tname = name]
  /\ transactions' = Append(transactions, <<nics[i].kname, name>>)

(* The nic has the name already. *)
TakeOwn(i, name) ==
  /\ \E j \in Aliased(name) :
       IsFirst(j, Aliased(name)) /\ i \in Same(nics, nics[j]) /\ nics[j].kname = nics[i].kname
  /\ nics' = [nics EXCEPT ![i].tname = nics[i].kname]
  /\ UNCHANGED transactions

(* Faults: the nic itself is not named; the renames are in the wrong order. *)
TakeOverUnnamed(i, name) ==
  \E j \in Aliased(name), t \in TempName(name) :
    /\ j # i
    /\ nics' = [nics EXCEPT ![j].kname = t]
    /\ transactions' = transactions \o << <<name, t>>, <<nics[i].kname, name>> >>
TakeOverSwapped(i, name) ==
  \E j \in Aliased(name), t \in TempName(name) :
    /\ j # i
    /\ nics' = [nics EXCEPT ![j].kname = t, ![i].tname = name]
    /\ transactions' = transactions \o << <<nics[i].kname, name>>, <<name, t>> >>

(* Fault: the nic moved sideways is still known by the name it had. *)
TakeOverKname(i, name) ==
  \E j \in Aliased(name), t \in TempName(name) :
    /\ j # i
    /\ nics' = [nics EXCEPT ![i].tname = name]
    /\ transactions' = transactions \o << <<name, t>>, <<nics[i].kname, name>> >>

(* Another nic has the name: it moves sideways. *)
TakeOver(i, name) ==
  \E j \in Aliased(name), t \in TempName(name) :
    /\ IsFirst(j, Aliased(name))
    /\ ~(i \in Same(nics, nics[j]) /\ nics[j].kname = nics[i].kname)
    /\ nics' = [nics EXCEPT ![j].kname = t, ![i].tname = name]
    /\ transactions' = transactions \o << <<name, t>>, <<nics[i].kname, name>> >>

RenameNic(i, name) ==
  /\ ~Refused(name)
  /\ TakeFree(i, name) \/ TakeOwn(i, name) \/ TakeOver(i, name)

Raise(e) == pc' = "raised" /\ error' = e

(* The call of __rename_nic from the loops, which go on at pass p. *)
Call(i, name, p) ==
  \/ RenameNic(i, name) /\ pc' = p /\ UNCHANGED error
  \/ Refused(name) /\ Raise("AssertionError") /\ UNCHANGED <<nics, transactions>>

(* An iteration that leaves the nics alone. *)
Skip == UNCHANGED <<nics, transactions, pc, error>>

-----------------------------------------------------------------------------
(* rename(): sanitise the input, then start *)

NamesClash(es) == \E i, j \in DOMAIN es : i # j /\ es[i].tname = es[j].tname
MacsClash(es)  == \E i, j \in DOMAIN es : i # j /\ es[i].mac = es[j].mac

BadStatic ==
  \/ \E i \in DOMAIN static : static[i] \in Knamed \/ ~StartsEth(static[i].tname)
  \/ NamesClash(static) \/ MacsClash(static)

(* The current nics that are not filtered out, and those of them the loop  *)
(* over the current state objects to.                                      *)
Considered == {i \in DOMAIN nics : ~IsIbft(nics[i].kname)}
Faulty     == {i \in Considered : nics[i].tname # None \/ ~IsCurKname(nics[i].kname)}
CurClash   == \E i, j \in Considered :
                i # j /\ (nics[i].kname = nics[j].kname \/ nics[i].mac = nics[j].mac)

(* The check of the kernel names of the current state raises the error of  *)
(* the static rules.                                                       *)
BadKname   == \E i \in Faulty : IsFirst(i, Faulty) /\ nics[i].tname = None
BadCurrent == \/ \E i \in Faulty : IsFirst(i, Faulty) /\ nics[i].tname # None
              \/ Faulty = {} /\ CurClash

BadLast ==
  \/ \E i \in DOMAIN last : last[i] \in Knamed \/ ~IsEth(last[i].tname)
  \/ NamesClash(last) \/ MacsClash(last)

BadOld == \E i \in DOMAIN old : old[i] \in Knamed \/ ~StartsEth(old[i].tname)

CurrentFine == ~BadStatic /\ Faulty = {} /\ ~CurClash
Sanitised   == CurrentFine /\ ~BadLast /\ ~BadOld

Reject ==
  /\ pc = "sanitise"
  /\ \/ (BadStatic \/ BadKname)            /\ Raise("StaticRuleError")
     \/ ~BadStatic /\ BadCurrent           /\ Raise("CurrentStateError")
     \/ CurrentFine /\ BadLast             /\ Raise("LastStateError")
     \/ CurrentFine /\ ~BadLast /\ BadOld  /\ Raise("OldStateError")
  /\ UNCHANGED <<inputs, nics, transactions, k, fns, work, nextethnum>>

Accept ==
  /\ pc = "sanitise"
  /\ Sanitised
  /\ nics' = [i \in Considered |-> nics[i]]
  /\ pc' = IF Considered = {} THEN "done" ELSE "static"
  /\ UNCHANGED <<inputs, transactions, error, k, fns, work, nextethnum>>

-----------------------------------------------------------------------------
(* Pass 1: static rules *)

StaticRule ==
  /\ pc = "static" /\ k <= Len(static)
  /\ \/ Same(nics, static[k]) = {} /\ Skip
     \/ \E i \in Same(nics, static[k]) :
          IsFirst(i, Same(nics, static[k])) /\ Call(i, static[k].tname, "static")
  /\ k' = k + 1
  /\ UNCHANGED <<inputs, fns, work, nextethnum>>

StaticDone ==
  /\ pc = "static" /\ k > Len(static)
  /\ pc' = "dynamic"
  /\ work' = DOMAIN nics
  /\ UNCHANGED <<inputs, nics, transactions, error, k, fns, nextethnum>>

-----------------------------------------------------------------------------
(* Pass 2: nics the last or the old state knows *)

(* Nic i is the next of the loop. *)
Visit(i) ==
  /\ pc = "dynamic" /\ IsFirst(i, work)
  /\ work' = work \ {i}
  /\ UNCHANGED <<inputs, k, fns, nextethnum>>

Named(i) == Visit(i) /\ ~NeedsRenaming(nics[i]) /\ Skip

(* Same place as last boot: the last name, if it is free. *)
SamePlace(i) ==
  /\ Visit(i) /\ NeedsRenaming(nics[i])
  /\ \E l \in Same(last, nics[i]) :
       /\ IsFirst(l, Same(last, nics[i]))
       /\ \/ TnameFree(last[l].tname) /\ Call(i, last[l].tname, "dynamic")
          \/ ~TnameFree(last[l].tname) /\ Skip

(* Seen last boot elsewhere: the last name, whether it is free or not. *)
Moved(i) ==
  /\ Visit(i) /\ NeedsRenaming(nics[i])
  /\ Same(last, nics[i]) = {}
  /\ \E l \in WithMac(last, nics[i].mac) :
       IsFirst(l, WithMac(last, nics[i].mac)) /\ Call(i, last[l].tname, "dynamic")

(* Fault: the last boot is not consulted by MAC. *)
UnseenAtAll(i) == Visit(i) /\ NeedsRenaming(nics[i])

(* Not seen last boot. *)
Unseen(i) ==
  /\ Visit(i) /\ NeedsRenaming(nics[i])
  /\ WithMac(last, nics[i].mac) = {}

OnMultinic(i) == Unseen(i) /\ nics[i].pci \in MultinicFunctions /\ Skip

(* In the place of an older nic, that of entry l. *)
InPlaceOf(i, l) ==
  /\ nics[i].pci \notin MultinicFunctions
  /\ IsFirst(l, WithPci(Remembered, nics[i].pci))

Displaced(i) ==
  /\ Unseen(i)
  /\ \E l \in DOMAIN Remembered : InPlaceOf(i, l) /\ Present(Remembered[l].mac)
  /\ Skip

(* The older nic is gone: its name, whether it is free or not. *)
Replaced(i) ==
  /\ Unseen(i)
  /\ \E l \in DOMAIN Remembered :
       /\ InPlaceOf(i, l) /\ ~Present(Remembered[l].mac)
       /\ Call(i, Remembered[l].tname, "dynamic")

(* Seen before last boot: the old name, if it is free. *)
NewPlace(i) ==
  /\ nics[i].pci \notin MultinicFunctions
  /\ WithPci(Remembered, nics[i].pci) = {}

Returned(i) ==
  /\ Unseen(i) /\ NewPlace(i)
  /\ \E l \in WithMac(old, nics[i].mac) :
       /\ IsFirst(l, WithMac(old, nics[i].mac))
       /\ \/ TnameFree(old[l].tname) /\ Call(i, old[l].tname, "dynamic")
          \/ ~TnameFree(old[l].tname) /\ Skip

BrandNew(i) ==
  Unseen(i) /\ NewPlace(i) /\ WithMac(old, nics[i].mac) = {} /\ Skip

Dynamic(i) ==
  \/ Named(i) \/ SamePlace(i) \/ Moved(i) \/ OnMultinic(i)
  \/ Displaced(i) \/ Replaced(i) \/ Returned(i) \/ BrandNew(i)

DynamicDone ==
  /\ pc = "dynamic" /\ work = {}
  /\ pc' = "multinic"
  /\ fns' = MultinicFunctions
  /\ UNCHANGED <<inputs, nics, transactions, error, k, work, nextethnum>>

-----------------------------------------------------------------------------
(* Pass 3: functions with several nics whose nics were replaced *)

(* Fault: only the nics of last boot are counted. *)
ReplaceableLast(fn) ==
  /\ Cardinality(WithPci(last, fn)) = Cardinality(WithPci(nics, fn))
  /\ \A i \in WithPci(nics, fn) : NeedsRenaming(nics[i])
  /\ \A l \in WithPci(Remembered, fn) : TnameFree(Remembered[l].tname)

Replaceable(fn) ==
  /\ Cardinality(WithPci(Remembered, fn)) = Cardinality(WithPci(nics, fn))
  /\ \A i \in WithPci(nics, fn) : NeedsRenaming(nics[i])
  /\ \A l \in WithPci(Remembered, fn) : TnameFree(Remembered[l].tname)

(* The functions are a Python set: they come in any order. *)
VisitFunction(fn) ==
  /\ pc = "multinic" /\ work = {}
  /\ fns' = fns \ {fn}
  /\ work' = IF Replaceable(fn) THEN WithPci(nics, fn) ELSE {}
  /\ UNCHANGED <<inputs, nics, transactions, pc, error, k, nextethnum>>

(* The nics of the function, by MAC, take the names of the older ones, by  *)
(* MAC.                                                                    *)
ReplaceOnFunction(i) ==
  LET new == WithPci(nics, nics[i].pci)
      lst == WithPci(Remembered, nics[i].pci)
  IN /\ pc = "multinic"
     /\ \A j \in work : MacRank(nics, new, i) <= MacRank(nics, new, j)
     /\ \E l \in lst :
          /\ MacRank(Remembered, lst, l) = MacRank(nics, new, i)
          /\ Call(i, Remembered[l].tname, "multinic")
     /\ work' = work \ {i}
     /\ UNCHANGED <<inputs, k, fns, nextethnum>>

-----------------------------------------------------------------------------
(* Pass 4: everything still unnamed, by order *)

(* Fault: the orders are left as they came. *)
DealtOrderAsIs(i, o) == o = nics[i].order

(* On a function with several nics the orders are dealt out again: of the  *)
(* nics still unnamed, that of the n-th smallest MAC gets the n-th         *)
(* smallest order.  o is the order nic i then has.                         *)
DealtOrder(i, o) ==
  LET S == {j \in WithPci(nics, nics[i].pci) : NeedsRenaming(nics[j])}
  IN IF nics[i].pci \in MultinicFunctions /\ i \in S
     THEN \E j \in S : OrderRank(S, j) = MacRank(nics, S, i) /\ o = nics[j].order
     ELSE o = nics[i].order

(* tname or kname *)
CurName(n) == IF n.tname = None THEN n.kname ELSE n.tname

(* Fault: the names of the current nics are not counted. *)
EthNumbersRemembered ==
  {x.num : x \in {y \in {static[i].tname : i \in DOMAIN static}
                       \cup {last[i].tname : i \in DOMAIN last} : IsEth(y)}}

EthNumbers ==
  {x.num : x \in {y \in {static[i].tname : i \in DOMAIN static}
                       \cup {last[i].tname : i \in DOMAIN last}
                       \cup {CurName(nics[i]) : i \in DOMAIN nics} : IsEth(y)}}

(* One more than the largest, 0 if there is none. *)
IsNextEthNumber(n) ==
  /\ \A m \in EthNumbers : m < n
  /\ n = 0 \/ n - 1 \in EthNumbers

Unnamed == {i \in DOMAIN nics : NeedsRenaming(nics[i])}

MultinicDone ==
  /\ pc = "multinic" /\ work = {} /\ fns = {}
  /\ pc' = "number"
  /\ \E ord \in [DOMAIN nics -> {nics[i].order : i \in DOMAIN nics}] :
       /\ \A i \in DOMAIN nics : DealtOrder(i, ord[i])
       /\ nics' = [i \in DOMAIN nics |-> [nics[i] EXCEPT !.order = ord[i]]]
  /\ nextethnum' \in {n \in {0} \cup {m + 1 : m \in EthNumbers} : IsNextEthNumber(n)}
  /\ work' = Unnamed
  /\ UNCHANGED <<inputs, transactions, error, k, fns>>

NextToNumber(i) == pc = "number" /\ \A j \in work : i = j \/ OrderBefore(i, j)
KeepsKname(i)   == IsEth(nics[i].kname) /\ TnameFree(nics[i].kname)

NumberKept(i) ==
  /\ NextToNumber(i) /\ KeepsKname(i)
  /\ nics' = [nics EXCEPT ![i].tname = nics[i].kname]
  /\ work' = work \ {i}
  /\ UNCHANGED <<inputs, transactions, pc, error, k, fns, nextethnum>>

NumberNew(i) ==
  /\ NextToNumber(i) /\ ~KeepsKname(i)
  /\ Call(i, Eth(nextethnum), "number")
  /\ nextethnum' = nextethnum + 1
  /\ work' = work \ {i}
  /\ UNCHANGED <<inputs, k, fns>>

NumberDone ==
  /\ pc = "number" /\ work = {}
  /\ pc' = "done"
  /\ UNCHANGED <<inputs, nics, transactions, error, k, fns, work, nextethnum>>

-----------------------------------------------------------------------------

Begin(in) ==
  /\ static = in.static /\ last = in.last /\ old = in.old
  /\ nics = in.cur
  /\ transactions = <<>>
  /\ pc = "sanitise" /\ error = "none"
  /\ k = 1 /\ fns = {} /\ work = {} /\ nextethnum = 0

Init == \E in \in Inputs : Begin(in)

Next ==
  \/ Reject \/ Accept
  \/ StaticRule \/ StaticDone
  \/ \E i \in work : Dynamic(i)
  \/ DynamicDone
  \/ \E fn \in fns : VisitFunction(fn)
  \/ \E i \in work : ReplaceOnFunction(i)
  \/ MultinicDone
  \/ \E i \in work : NumberKept(i) \/ NumberNew(i)
  \/ NumberDone

Spec == Init /\ [][Next]_vars

-----------------------------------------------------------------------------
(* Properties *)

(* The input passed the checks of rename().                                *)
Accepted == pc # "sanitise" /\ error \in {"none", "AssertionError"}

(* Types of the variables. *)
TypeOK ==
  /\ static \in Seq(Entry) /\ last \in Seq(Entry) /\ old \in Seq(Entry)
  /\ nics \in [DOMAIN nics -> Nic] /\ DOMAIN nics \subseteq Nat
  /\ transactions \in Seq(Name \X Name)
  /\ pc \in {"sanitise", "static", "dynamic", "multinic", "number", "done", "raised"}
  /\ error \in {"none", "StaticRuleError", "CurrentStateError", "LastStateError",
                "OldStateError", "AssertionError"}
  /\ k \in 1 .. Len(static) + 1 /\ fns \subseteq Pci /\ work \subseteq DOMAIN nics /\ nextethnum \in Nat

(* The names the nics have after the renames so far are pairwise distinct, *)
(* at every step of the four passes: __rename_nic moves whoever is in the  *)
(* way, to a name nobody has, before it hands a name out.                  *)
NamesDistinct ==
  Accepted => \A i, j \in DOMAIN nics : CurName(nics[i]) = CurName(nics[j]) => i = j

(* The renames can be carried out one after the other: every one is from   *)
(* the name a nic has by then and to a name no nic has by then.            *)
Link == IF Accepted THEN [i \in DOMAIN nics |-> CurName(nics[i])] ELSE <<>>
Plan == INSTANCE RenamePlan WITH link <- Link, plan <- transactions
PlanSpec == Plan!Spec

(* A name that was decided is never revised: no pass, the iteration over   *)
(* the nics least of all, touches a nic an earlier one has named.          *)
NamedForGood ==
  [][pc # "sanitise" =>
       \A i \in DOMAIN nics : nics[i].tname # None => nics'[i].tname = nics[i].tname]_vars

(* "Static rules provided by the user, taking absolute priority": a nic a  *)
(* rule describes ends up with the name of the rule, whatever name it had, *)
(* whatever was remembered for it and whoever had that name.               *)
StaticPriority ==
  pc = "done" =>
    \A r \in DOMAIN static, i \in DOMAIN nics :
      i \in Same(nics, static[r]) => nics[i].tname = static[r].tname

(* The memory names no interface twice: remembered entries have distinct,  *)
(* well-formed names, and a static rule shares a name only with the entry  *)
(* of the same MAC.  rename() does not check it.                           *)
Unambiguous ==
  /\ \A r \in DOMAIN static : IsEth(static[r].tname)
  /\ \A l \in DOMAIN Remembered : IsEth(Remembered[l].tname)
  /\ ~NamesClash(Remembered)
  /\ \A r \in DOMAIN static, l \in DOMAIN Remembered :
       static[r].tname = Remembered[l].tname => static[r].mac = Remembered[l].mac

(* With an unambiguous memory the assertions of __rename_nic never fail.   *)
NoAssertion == TypeOK /\ (Unambiguous => error # "AssertionError")

(* With an unambiguous memory a nic of the last boot keeps its name, in    *)
(* whatever slot it is now, unless a static rule describes it.             *)
RemembersName ==
  Unambiguous /\ pc = "done" =>
    \A i \in DOMAIN nics, l \in DOMAIN last :
      nics[i].mac = last[l].mac =>
        \/ nics[i].tname = last[l].tname
        \/ \E r \in DOMAIN static : i \in Same(nics, static[r])

(* With an unambiguous memory a nic nobody has seen, alone on a function   *)
(* whose nic of last boot is gone, takes over the name of that nic.        *)
InheritsName ==
  Unambiguous /\ pc = "done" =>
    \A i \in DOMAIN nics, l \in DOMAIN last :
      \/ nics[i].pci # last[l].pci
      \/ nics[i].pci \in MultinicFunctions \/ Cardinality(WithPci(last, nics[i].pci)) > 1
      \/ Present(last[l].mac)
      \/ WithMac(static, nics[i].mac) # {} \/ WithMac(last, nics[i].mac) # {}
      \/ nics[i].tname = last[l].tname

(* Every nic ends up with an eth<num> name.  Nics on one function that     *)
(* pass 4 gave new numbers to are numbered in the order of their MACs, if  *)
(* the orders they came with are distinct.                                 *)
NewNumber(i) ==
  /\ nics[i].tname # nics[i].kname
  /\ \A r \in DOMAIN static : static[r].tname # nics[i].tname
  /\ \A l \in DOMAIN Remembered : Remembered[l].tname # nics[i].tname
NumberedByMac ==
  pc = "done" =>
    /\ \A i \in DOMAIN nics : nics[i].tname # None /\ IsEth(CurName(nics[i]))
    /\ \A i, j \in DOMAIN nics :
         /\ nics[i].pci = nics[j].pci /\ nics[i].order # nics[j].order
         /\ NewNumber(i) /\ NewNumber(j) /\ nics[i].mac < nics[j].mac
         => nics[i].tname.num < nics[j].tname.num

(* When the nics of a function were all replaced and nothing else claims   *)
(* their names, the new nics take them over in the order of the MACs.      *)
ReplacedByMac ==
  pc = "done" =>
    \A fn \in MultinicFunctions :
      LET new == WithPci(nics, fn)
          lst == WithPci(Remembered, fn)
      IN (/\ Unambiguous
          /\ Cardinality(new) = Cardinality(lst)
          /\ \A i \in new : WithMac(static, nics[i].mac) = {} /\ WithMac(last, nics[i].mac) = {}
          /\ \A l \in lst : ~Present(Remembered[l].mac))
         => \A i \in new, l \in lst :
              MacRank(nics, new, i) = MacRank(Remembered, lst, l) =>
                nics[i].tname = Remembered[l].tname

(* "AssertionError: If the current state contains invalid entries", and no *)
(* other time: the current state passed all of the checks of rename().     *)
AssertionMeansInvalid == Accepted => error # "AssertionError"

=============================================================================
