----------------------------- MODULE BootProofs -----------------------------
(***************************************************************************)
(* Proofs about Rename and BootCycle, for any number of nics, rules and    *)
(* remembered entries.  First part, one call of rename(): the variables    *)
(* keep their types, the nics have pairwise distinct names after every     *)
(* rename, and the renames form a plan.                                    *)
(*                                                                         *)
(* Then, what is decided: static rules come first, the memory is kept and  *)
(* passed on, new numbers follow the MACs.  The invariant for it has three *)
(* layers.  Provenance: every name decided in passes 1 to 3 is that of a   *)
(* rule or of a remembered entry that fits the nic.  Trusted, for an       *)
(* unambiguous memory: a name that a nic has a claim to is free until the  *)
(* nic is visited, because whoever had it would have it by the same entry, *)
(* and the nic has it afterwards.  Counted and Numbers, of pass 4: no name *)
(* in use has the next number, and the nics come by the orders that were   *)
(* dealt out by MAC.                                                       *)
(*                                                                         *)
(* Second part, from "The steps of the passes" on: what holds of the names *)
(* over any number of boots, whatever fails, whenever it crashes and       *)
(* however the kernel lists the nics.                                      *)
(***************************************************************************)
EXTENDS BootCycle, FiniteSetTheorems, TLAPS

NicsOK == nics \in [DOMAIN nics -> Nic] /\ DOMAIN nics \subseteq Nat

-----------------------------------------------------------------------------
(* The inductive invariant.  That names stay distinct when nic i is named  *)
(* rests on i being unnamed: its old name, which is then free, must be its *)
(* kernel name.  In passes 2 to 4 the code tests it; in pass 1 it follows  *)
(* from the rules having distinct MACs, so that no rule describes a nic    *)
(* that an earlier one has named.                                          *)

Distinct  == \A i, j \in DOMAIN nics : CurName(nics[i]) = CurName(nics[j]) => i = j
TnamesEth == \A i \in DOMAIN nics : nics[i].tname = None \/ IsEth(nics[i].tname)
RulesAhead ==
  pc = "static" =>
    \A r \in k .. Len(static), i \in DOMAIN nics :
      i \in Same(nics, static[r]) => nics[i].tname = None
WorkUnnamed ==
  pc \in {"multinic", "number"} => \A i \in work : nics[i].tname = None

PcOK ==
  /\ pc # "raised" => error = "none"
  /\ pc \in {"sanitise", "static"} => work = {}
  /\ pc = "sanitise" => transactions = <<>>

Inv ==
  /\ TypeOK /\ PcOK
  /\ Accepted => /\ ~MacsClash(nics) /\ ~MacsClash(static)
                 /\ Distinct /\ TnamesEth /\ RulesAhead /\ WorkUnnamed

-----------------------------------------------------------------------------

(* What one call of __rename_nic on a nic that has no name yet does: it    *)
(* keeps the types and the MACs, names that nic alone, and leaves the      *)
(* names distinct.                                                         *)
LEMMA RenameNicEffect ==
  ASSUME NicsOK, transactions \in Seq(Name \X Name), ~MacsClash(nics),
         \A i, j \in DOMAIN nics : CurName(nics[i]) = CurName(nics[j]) => i = j,
         NEW i \in DOMAIN nics, NEW nm \in Name, nics[i].tname = None,
         RenameNic(i, nm)
  PROVE  /\ nics' \in [DOMAIN nics -> Nic]
         /\ transactions' \in Seq(Name \X Name)
         /\ nics'[i].tname = nm /\ IsEth(nm)
         /\ \A j \in DOMAIN nics :
              nics'[j].mac = nics[j].mac /\ nics'[j].pci = nics[j].pci
         /\ \A j \in DOMAIN nics \ {i} : nics'[j].tname = nics[j].tname
         /\ \A j, h \in DOMAIN nics : CurName(nics'[j]) = CurName(nics'[h]) => j = h
<1> USE RenameAssumption
<1>1. nm # None /\ IsEth(nm) /\ \A j \in DOMAIN nics : nics[j].tname # nm
  BY DEF RenameNic, Refused, TnameFree
<1>2. \A j \in DOMAIN nics : nics[j] \in Nic
  BY DEF NicsOK
<1>3. CASE TakeFree(i, nm)
  <2>1. nics' = [nics EXCEPT ![i].tname = nm]
    BY <1>3 DEF TakeFree
  <2>2. /\ nics'[i] = [nics[i] EXCEPT !.tname = nm]
        /\ \A j \in DOMAIN nics \ {i} : nics'[j] = nics[j]
        /\ DOMAIN nics' = DOMAIN nics
    BY <2>1 DEF NicsOK
  <2>3. nics'[i] \in Nic /\ nics'[i].tname = nm /\ nics'[i].mac = nics[i].mac /\ nics'[i].pci = nics[i].pci
    BY <2>2, <1>2 DEF Nic
  <2>4. nics' \in [DOMAIN nics -> Nic]
    BY <2>1, <2>2, <2>3, <1>2 DEF NicsOK
  <2>5. \A j \in DOMAIN nics : CurName(nics[j]) # nm
    BY <1>1, <1>3 DEF TakeFree, Aliased, CurName
  <2>6. CurName(nics'[i]) = nm
    BY <2>3, <1>1 DEF CurName
  <2>7. \A j, h \in DOMAIN nics : CurName(nics'[j]) = CurName(nics'[h]) => j = h
    BY <2>2, <2>5, <2>6
  <2>8. transactions' \in Seq(Name \X Name)
    BY <1>3, <1>2 DEF TakeFree, Nic
  <2> QED
    BY <1>1, <2>2, <2>3, <2>4, <2>7, <2>8
<1>4. CASE TakeOwn(i, nm)
  <2>1. i \in Aliased(nm)
    BY <1>4 DEF TakeOwn, IsFirst, Aliased, Same, WithMac, MacsClash
  <2>2. nics' = [nics EXCEPT ![i].tname = nics[i].kname] /\ nics[i].kname = nm
    BY <1>4, <2>1 DEF TakeOwn, Aliased
  <2>3. /\ nics'[i] = [nics[i] EXCEPT !.tname = nm]
        /\ \A j \in DOMAIN nics \ {i} : nics'[j] = nics[j]
        /\ DOMAIN nics' = DOMAIN nics
    BY <2>2 DEF NicsOK
  <2>4. nics'[i] \in Nic /\ nics'[i].tname = nm /\ nics'[i].mac = nics[i].mac /\ nics'[i].pci = nics[i].pci
    BY <2>3, <1>2 DEF Nic
  <2>5. nics' \in [DOMAIN nics -> Nic]
    BY <2>2, <2>3, <2>4, <1>2 DEF NicsOK
  <2>6. CurName(nics'[i]) = CurName(nics[i])
    BY <2>2, <2>4, <1>1 DEF CurName
  <2>7. \A j, h \in DOMAIN nics : CurName(nics'[j]) = CurName(nics'[h]) => j = h
    BY <2>3, <2>6
  <2> QED
    BY <1>1, <1>4, <2>3, <2>4, <2>5, <2>7 DEF TakeOwn
<1>5. CASE TakeOver(i, nm)
  <2>1. PICK j \in Aliased(nm), t \in TempName(nm) :
          /\ IsFirst(j, Aliased(nm))
          /\ ~(i \in Same(nics, nics[j]) /\ nics[j].kname = nics[i].kname)
          /\ nics' = [nics EXCEPT ![j].kname = t, ![i].tname = nm]
          /\ transactions' = transactions \o << <<nm, t>>, <<nics[i].kname, nm>> >>
    BY <1>5 DEF TakeOver
  <2>2. j \in DOMAIN nics /\ j # i /\ nics[j].tname = None /\ nics[j].kname = nm
    BY <2>1 DEF Aliased, Same, WithMac, WithPci
  <2>3. t \in Name /\ t # None /\ t # nm
        /\ \A h \in DOMAIN nics : nics[h].kname # t /\ nics[h].tname # t
    BY <1>1 DEF TempName, Side, Name, IsEth
  <2>4. /\ nics'[j] = [nics[j] EXCEPT !.kname = t]
        /\ nics'[i] = [nics[i] EXCEPT !.tname = nm]
        /\ \A h \in DOMAIN nics \ {i, j} : nics'[h] = nics[h]
        /\ DOMAIN nics' = DOMAIN nics
    BY <2>1, <2>2 DEF NicsOK
  <2>5. /\ nics'[i] \in Nic /\ nics'[i].tname = nm
        /\ nics'[i].mac = nics[i].mac /\ nics'[i].pci = nics[i].pci
    BY <2>4, <1>2 DEF Nic
  <2>6. /\ nics'[j] \in Nic /\ nics'[j].tname = None /\ nics'[j].kname = t
        /\ nics'[j].mac = nics[j].mac /\ nics'[j].pci = nics[j].pci
    BY <2>2, <2>3, <2>4, <1>2 DEF Nic
  <2>7. nics' \in [DOMAIN nics -> Nic]
    BY <2>1, <2>4, <2>5, <2>6, <1>2 DEF NicsOK
  <2>8. CurName(nics'[i]) = nm /\ CurName(nics'[j]) = t /\ CurName(nics[j]) = nm
    BY <2>2, <2>5, <2>6, <1>1 DEF CurName
  <2>9. \A h \in DOMAIN nics \ {i, j} :
          CurName(nics'[h]) # nm /\ CurName(nics'[h]) # t /\ CurName(nics'[h]) = CurName(nics[h])
    BY <2>2, <2>3, <2>4, <2>8 DEF CurName
  <2>10. \A h, g \in DOMAIN nics : CurName(nics'[h]) = CurName(nics'[g]) => h = g
    BY <2>3, <2>8, <2>9
  <2>11. transactions' \in Seq(Name \X Name)
    BY <2>1, <2>3, <1>2 DEF Nic
  <2> QED
    BY <1>1, <2>2, <2>4, <2>5, <2>6, <2>7, <2>10, <2>11
<1> QED
  BY <1>3, <1>4, <1>5 DEF RenameNic

(* A call from one of the loops either names nic i as above or raises and  *)
(* leaves the nics alone.                                                  *)
LEMMA CallEffect ==
  ASSUME Inv, Accepted,
         NEW i \in DOMAIN nics, NEW nm \in Name, nics[i].tname = None,
         NEW p, Call(i, nm, p)
  PROVE  /\ nics' \in [DOMAIN nics -> Nic] /\ DOMAIN nics' = DOMAIN nics
         /\ transactions' \in Seq(Name \X Name)
         /\ \A j \in DOMAIN nics :
              nics'[j].mac = nics[j].mac /\ nics'[j].pci = nics[j].pci
         /\ \A j \in DOMAIN nics \ {i} : nics'[j].tname = nics[j].tname
         /\ Distinct' /\ TnamesEth' /\ ~MacsClash(nics)'
         /\ \/ pc' = p /\ error' = error
            \/ pc' = "raised" /\ error' = "AssertionError"
<1>1. CASE RenameNic(i, nm) /\ pc' = p /\ UNCHANGED error
  <2>1. NicsOK /\ transactions \in Seq(Name \X Name) /\ ~MacsClash(nics)
    BY DEF Inv, TypeOK, NicsOK
  <2>2. \A j, h \in DOMAIN nics : CurName(nics[j]) = CurName(nics[h]) => j = h
    BY DEF Inv, Distinct
  <2>3. /\ nics' \in [DOMAIN nics -> Nic]
        /\ transactions' \in Seq(Name \X Name)
        /\ nics'[i].tname = nm /\ IsEth(nm)
        /\ \A j \in DOMAIN nics :
             nics'[j].mac = nics[j].mac /\ nics'[j].pci = nics[j].pci
        /\ \A j \in DOMAIN nics \ {i} : nics'[j].tname = nics[j].tname
        /\ \A j, h \in DOMAIN nics : CurName(nics'[j]) = CurName(nics'[h]) => j = h
    BY <2>1, <2>2, <1>1, RenameNicEffect
  <2>4. DOMAIN nics' = DOMAIN nics
    BY <2>3
  <2>5. Distinct' /\ TnamesEth' /\ ~MacsClash(nics)'
    BY <2>1, <2>3, <2>4 DEF Inv, Distinct, TnamesEth, MacsClash, CurName
  <2> QED
    BY <2>3, <2>4, <2>5, <1>1
<1>2. CASE Raise("AssertionError") /\ UNCHANGED <<nics, transactions>>
  BY <1>2 DEF Raise, Inv, TypeOK, Distinct, TnamesEth, MacsClash, CurName
<1> QED
  BY <1>1, <1>2 DEF Call

(* A call of rename(), on any lists. *)
Called ==
  /\ static \in Seq(Entry) /\ last \in Seq(Entry) /\ old \in Seq(Entry) /\ nics \in Seq(Nic)
  /\ transactions = <<>> /\ pc = "sanitise" /\ error = "none"
  /\ k = 1 /\ fns = {} /\ work = {} /\ nextethnum = 0

LEMMA InitCalled == Init => Called
<1> SUFFICES ASSUME NEW in \in Inputs, Begin(in) PROVE Called
  BY DEF Init
<1>1. in \in Input
  BY RenameAssumption
<1> QED
  BY <1>1 DEF Input, Begin, Called

LEMMA CalledInv == Called => Inv
<1> SUFFICES ASSUME Called PROVE Inv
  OBVIOUS
<1>1. static \in Seq(Entry) /\ last \in Seq(Entry) /\ old \in Seq(Entry) /\ nics \in Seq(Nic)
  BY DEF Called
<1>2. nics \in [DOMAIN nics -> Nic] /\ DOMAIN nics \subseteq Nat
  BY <1>1
<1>3. TypeOK
  BY <1>1, <1>2 DEF TypeOK, Called
<1> QED
  BY <1>3 DEF Inv, Called, Accepted, PcOK

(* The lists rename() is given hold entries with names. *)
LEMMA EntryNames ==
  ASSUME TypeOK
  PROVE  /\ \A r \in DOMAIN static : static[r].tname \in Name
         /\ \A l \in DOMAIN last : last[l].tname \in Name
         /\ \A l \in DOMAIN old : old[l].tname \in Name
         /\ \A l \in DOMAIN Remembered : Remembered[l].tname \in Name
<1>1. Remembered \in Seq(Entry)
  BY DEF TypeOK, Remembered
<1>2. \A es \in Seq(Entry) : \A l \in DOMAIN es : es[l] \in Entry
  OBVIOUS
<1> QED
  BY <1>1, <1>2 DEF TypeOK, Entry

LEMMA AcceptInv == Inv /\ Accept => Inv'
<1> SUFFICES ASSUME Inv, Accept PROVE Inv'
  OBVIOUS
<1> USE RenameAssumption
<1>1. /\ nics' = [i \in Considered |-> nics[i]] /\ DOMAIN nics' = Considered
      /\ Considered \subseteq DOMAIN nics
      /\ \A i \in Considered : nics'[i] = nics[i]
  BY DEF Accept, Considered
<1>2. \A i \in Considered : nics[i] \in Nic /\ nics[i].tname = None
  BY <1>1 DEF Inv, TypeOK, Accept, Sanitised, CurrentFine, Faulty
<1>3. TypeOK'
  <2>1. nics' \in [DOMAIN nics' -> Nic]
    BY <1>1, <1>2
  <2>2. DOMAIN nics' \subseteq Nat /\ work' = {}
    BY <1>1 DEF Inv, TypeOK, Accept, PcOK
  <2>3. pc' \in {"static", "done"} /\ error' = error /\ UNCHANGED <<static, last, old, transactions, k, fns, nextethnum>>
    BY DEF Accept, inputs
  <2> QED
    BY <2>1, <2>2, <2>3 DEF Inv, TypeOK
<1>4. \A i, j \in DOMAIN nics' : i # j =>
         nics'[i].kname # nics'[j].kname /\ nics'[i].mac # nics'[j].mac
  BY <1>1 DEF Accept, Sanitised, CurrentFine, CurClash
<1>5. Distinct' /\ TnamesEth' /\ ~MacsClash(nics)'
  BY <1>1, <1>2, <1>4 DEF Distinct, TnamesEth, MacsClash, CurName
<1>6. ~MacsClash(static)'
  BY DEF Accept, Sanitised, CurrentFine, BadStatic, inputs, MacsClash
<1>7. RulesAhead' /\ WorkUnnamed'
  BY <1>1, <1>2 DEF RulesAhead, WorkUnnamed, Accept, Same, WithMac, WithPci
<1>8. PcOK'
  BY DEF Accept, Inv, PcOK
<1> QED
  BY <1>3, <1>5, <1>6, <1>7, <1>8 DEF Inv

LEMMA StaticInv == Inv /\ StaticRule => Inv'
<1> SUFFICES ASSUME Inv, StaticRule PROVE Inv'
  OBVIOUS
<1>1. /\ pc = "static" /\ k \in DOMAIN static /\ k' = k + 1 /\ Accepted
      /\ UNCHANGED <<static, last, old, fns, work, nextethnum>>
  BY DEF Inv, TypeOK, StaticRule, inputs, PcOK, Accepted
<1>0. k' \in 1 .. Len(static) + 1 /\ \A r \in k' .. Len(static) : r \in k .. Len(static)
  BY <1>1 DEF Inv, TypeOK
<1>2. CASE Same(nics, static[k]) = {} /\ Skip
  <2>1. TypeOK' /\ PcOK'
    BY <1>0, <1>1, <1>2 DEF Inv, TypeOK, PcOK, Skip
  <2>2. ~MacsClash(nics)' /\ ~MacsClash(static)' /\ Distinct' /\ TnamesEth' /\ WorkUnnamed'
    BY <1>1, <1>2 DEF Inv, Skip, MacsClash, Distinct, TnamesEth, WorkUnnamed, CurName
  <2>3. RulesAhead'
    BY <1>0, <1>1, <1>2 DEF Inv, Skip, RulesAhead, Same, WithMac, WithPci
  <2> QED
    BY <2>1, <2>2, <2>3 DEF Inv
<1>3. ASSUME NEW i \in Same(nics, static[k]), Call(i, static[k].tname, "static")
      PROVE  Inv'
  <2>1. i \in DOMAIN nics /\ static[k].tname \in Name
    BY <1>1, <1>3, EntryNames DEF Inv, Same, WithMac
  <2>2. nics[i].tname = None
    <3>1. k \in k .. Len(static)
      BY <1>1 DEF Inv, TypeOK
    <3> QED
      BY <1>1, <1>3, <2>1, <3>1 DEF Inv, RulesAhead
  <2>3. /\ nics' \in [DOMAIN nics -> Nic] /\ DOMAIN nics' = DOMAIN nics
        /\ transactions' \in Seq(Name \X Name)
        /\ \A j \in DOMAIN nics : nics'[j].mac = nics[j].mac /\ nics'[j].pci = nics[j].pci
        /\ \A j \in DOMAIN nics \ {i} : nics'[j].tname = nics[j].tname
        /\ Distinct' /\ TnamesEth' /\ ~MacsClash(nics)'
        /\ \/ pc' = "static" /\ error' = error
           \/ pc' = "raised" /\ error' = "AssertionError"
    BY <1>1, <1>3, <2>1, <2>2, CallEffect
  <2>4. TypeOK' /\ PcOK'
    BY <1>0, <1>1, <2>3 DEF Inv, TypeOK, PcOK
  <2>5. RulesAhead'
    <3> SUFFICES ASSUME NEW r \in k' .. Len(static), NEW j \in DOMAIN nics,
                        j \in Same(nics, static[r])
                 PROVE  nics'[j].tname = None
      BY <1>1, <2>3 DEF RulesAhead, Same, WithMac, WithPci
    <3>1. r \in DOMAIN static /\ r # k /\ r \in k .. Len(static)
      BY <1>0, <1>1 DEF Inv, TypeOK
    <3>2. j # i
      BY <1>1, <1>3, <3>1 DEF Inv, MacsClash, Same, WithMac
    <3> QED
      BY <1>1, <2>3, <3>1, <3>2 DEF Inv, RulesAhead
  <2>6. WorkUnnamed' /\ ~MacsClash(static)'
    BY <1>1, <2>3 DEF Inv, WorkUnnamed, MacsClash
  <2> QED
    BY <2>3, <2>4, <2>5, <2>6 DEF Inv
<1> QED
  BY <1>2, <1>3 DEF StaticRule

(* The iterations of passes 2 to 4 that name the nic they visit. *)
LEMMA LoopCallInv ==
  ASSUME Inv, pc \in {"dynamic", "multinic", "number"},
         NEW i \in work, NEW nm \in Name, NeedsRenaming(nics[i]),
         Call(i, nm, pc), work' = work \ {i},
         UNCHANGED <<inputs, k, fns>>, nextethnum' \in Nat
  PROVE  Inv'
<1>1. Accepted /\ i \in DOMAIN nics
  BY DEF Inv, PcOK, Accepted, TypeOK
<1>2. nics[i].tname = None
  BY <1>1 DEF Inv, NeedsRenaming, TnamesEth
<1>3. /\ nics' \in [DOMAIN nics -> Nic] /\ DOMAIN nics' = DOMAIN nics
      /\ transactions' \in Seq(Name \X Name)
      /\ \A j \in DOMAIN nics \ {i} : nics'[j].tname = nics[j].tname
      /\ Distinct' /\ TnamesEth' /\ ~MacsClash(nics)'
      /\ \/ pc' = pc /\ error' = error
         \/ pc' = "raised" /\ error' = "AssertionError"
  BY <1>1, <1>2, CallEffect
<1>4. TypeOK'
  BY <1>3 DEF Inv, TypeOK, inputs
<1>5. PcOK' /\ RulesAhead'
  BY <1>3 DEF Inv, PcOK, RulesAhead
<1>6. WorkUnnamed' /\ ~MacsClash(static)'
  BY <1>1, <1>3 DEF Inv, TypeOK, WorkUnnamed, MacsClash, inputs
<1> QED
  BY <1>3, <1>4, <1>5, <1>6 DEF Inv

(* The steps that leave the nics alone, past pass 1. *)
LEMMA QuietInv ==
  ASSUME Inv, pc # "sanitise",
         UNCHANGED <<inputs, nics, transactions, error, k, nextethnum>>,
         pc' \in {"dynamic", "multinic", "number", "done"}, error = "none",
         fns' \subseteq Pci, work' \subseteq DOMAIN nics,
         pc' \in {"multinic", "number"} => \A i \in work' : nics[i].tname = None
  PROVE  Inv'
<1>1. Accepted
  BY DEF Accepted
<1>2. TypeOK' /\ PcOK'
  BY DEF Inv, TypeOK, PcOK, inputs
<1>3. Distinct' /\ TnamesEth' /\ RulesAhead' /\ WorkUnnamed'
  BY <1>1 DEF Inv, Distinct, TnamesEth, RulesAhead, WorkUnnamed, CurName
<1>4. ~MacsClash(nics)' /\ ~MacsClash(static)'
  BY <1>1 DEF Inv, MacsClash, inputs
<1> QED
  BY <1>2, <1>3, <1>4 DEF Inv

LEMMA DynamicInv == ASSUME Inv, NEW i \in work, Dynamic(i) PROVE Inv'
<1>1. /\ pc = "dynamic" /\ error = "none"
      /\ work' = work \ {i} /\ work' \subseteq DOMAIN nics
      /\ UNCHANGED <<inputs, k, fns, nextethnum>> /\ fns \subseteq Pci /\ nextethnum \in Nat
  BY DEF Dynamic, Named, SamePlace, Moved, OnMultinic, Displaced, Replaced, Returned, BrandNew,
         Unseen, Visit, Inv, PcOK, TypeOK
<1>2. ASSUME Skip PROVE Inv'
  BY <1>1, <1>2, QuietInv DEF Skip
<1>3. ASSUME NEW nm \in Name, NeedsRenaming(nics[i]), Call(i, nm, "dynamic") PROVE Inv'
  BY <1>1, <1>3, LoopCallInv
<1>4. /\ \A l \in DOMAIN last : last[l].tname \in Name
      /\ \A l \in DOMAIN old : old[l].tname \in Name
      /\ \A l \in DOMAIN Remembered : Remembered[l].tname \in Name
  BY EntryNames DEF Inv
<1>5. CASE Named(i)
  BY <1>2, <1>5 DEF Named
<1>6. CASE SamePlace(i)
  BY <1>2, <1>3, <1>4, <1>6 DEF SamePlace, Same, WithMac
<1>7. CASE Moved(i)
  BY <1>3, <1>4, <1>7 DEF Moved, WithMac
<1>8. CASE OnMultinic(i)
  BY <1>2, <1>8 DEF OnMultinic
<1>9. CASE Displaced(i)
  BY <1>2, <1>9 DEF Displaced
<1>10. CASE Replaced(i)
  BY <1>3, <1>4, <1>10 DEF Replaced, Unseen
<1>11. CASE Returned(i)
  BY <1>2, <1>3, <1>4, <1>11 DEF Returned, Unseen, WithMac
<1>12. CASE BrandNew(i)
  BY <1>2, <1>12 DEF BrandNew
<1> QED
  BY <1>5, <1>6, <1>7, <1>8, <1>9, <1>10, <1>11, <1>12 DEF Dynamic

LEMMA MultinicPcis == Inv => MultinicFunctions \subseteq Pci
  BY DEF Inv, TypeOK, Nic, MultinicFunctions

LEMMA VisitFunctionInv == ASSUME Inv, NEW fn \in fns, VisitFunction(fn) PROVE Inv'
<1>1. /\ pc = "multinic" /\ pc' = pc /\ error = "none"
      /\ UNCHANGED <<inputs, nics, transactions, error, k, nextethnum>>
      /\ fns' \subseteq Pci
  BY DEF VisitFunction, Inv, TypeOK, PcOK
<1>2. work' \subseteq DOMAIN nics /\ \A i \in work' : NeedsRenaming(nics[i])
  BY DEF VisitFunction, Replaceable, WithPci
<1>3. \A i \in work' : nics[i].tname = None
  BY <1>1, <1>2 DEF Inv, Accepted, TnamesEth, NeedsRenaming
<1> QED
  BY <1>1, <1>2, <1>3, QuietInv

LEMMA ReplaceInv == ASSUME Inv, NEW i \in work, ReplaceOnFunction(i) PROVE Inv'
<1>1. PICK l \in WithPci(Remembered, nics[i].pci) : Call(i, Remembered[l].tname, "multinic")
  BY DEF ReplaceOnFunction
<1>2. Remembered[l].tname \in Name
  BY <1>1, EntryNames DEF Inv, WithPci
<1>3. pc = "multinic" /\ work' = work \ {i} /\ UNCHANGED <<inputs, k, fns, nextethnum>>
  BY DEF ReplaceOnFunction
<1>4. NeedsRenaming(nics[i]) /\ nextethnum' \in Nat
  BY <1>3 DEF Inv, TypeOK, PcOK, Accepted, WorkUnnamed, NeedsRenaming
<1> QED
  BY <1>1, <1>2, <1>3, <1>4, LoopCallInv

LEMMA MultinicDoneInv == Inv /\ MultinicDone => Inv'
<1> SUFFICES ASSUME Inv, MultinicDone PROVE Inv'
  OBVIOUS
<1>1. PICK ord \in [DOMAIN nics -> {nics[i].order : i \in DOMAIN nics}] :
        nics' = [i \in DOMAIN nics |-> [nics[i] EXCEPT !.order = ord[i]]]
  BY DEF MultinicDone
<1>2. Accepted /\ error = "none" /\ pc' = "number"
      /\ UNCHANGED <<inputs, transactions, error, k, fns>>
  BY DEF MultinicDone, Inv, PcOK, Accepted
<1>3. \A i \in DOMAIN nics : nics[i] \in Nic /\ ord[i] \in Nat
  BY DEF Inv, TypeOK, Nic
<1>4. \A i \in DOMAIN nics :
        /\ nics'[i] = [nics[i] EXCEPT !.order = ord[i]]
        /\ nics'[i] \in Nic /\ nics'[i].mac = nics[i].mac
        /\ nics'[i].tname = nics[i].tname /\ nics'[i].kname = nics[i].kname
  BY <1>1, <1>3 DEF Nic
<1>5. nics' \in [DOMAIN nics -> Nic] /\ DOMAIN nics' = DOMAIN nics
  BY <1>1, <1>4
<1>6. nextethnum' \in Nat
  <2>1. \A x \in Name : x.num \in Nat
    BY DEF Name
  <2>2. \A i \in DOMAIN nics : CurName(nics[i]) \in Name
    BY <1>3 DEF Nic, CurName
  <2>3. EthNumbers \subseteq Nat
    BY <2>1, <2>2, EntryNames DEF EthNumbers, Inv
  <2> QED
    BY <2>3 DEF MultinicDone
<1>7. work' = {i \in DOMAIN nics : NeedsRenaming(nics[i])}
  BY DEF MultinicDone, Unnamed
<1>8. TypeOK'
  BY <1>2, <1>5, <1>6, <1>7 DEF Inv, TypeOK, inputs
<1>9. Distinct' /\ TnamesEth' /\ ~MacsClash(nics)'
  BY <1>2, <1>4, <1>5 DEF Inv, Distinct, TnamesEth, MacsClash, CurName
<1>10. PcOK' /\ RulesAhead' /\ ~MacsClash(static)'
  BY <1>2 DEF Inv, PcOK, RulesAhead, MacsClash, inputs
<1>11. WorkUnnamed'
  BY <1>2, <1>4, <1>5, <1>7 DEF Inv, WorkUnnamed, TnamesEth, NeedsRenaming
<1> QED
  BY <1>8, <1>9, <1>10, <1>11 DEF Inv

LEMMA NumberKeptInv == ASSUME Inv, NEW i \in work, NumberKept(i) PROVE Inv'
<1>1. /\ Accepted /\ error = "none" /\ pc = "number" /\ i \in DOMAIN nics
      /\ UNCHANGED <<inputs, transactions, pc, error, k, fns, nextethnum>>
      /\ work' = work \ {i}
      /\ nics' = [nics EXCEPT ![i].tname = nics[i].kname]
      /\ nics[i].tname = None /\ IsEth(nics[i].kname)
  BY DEF NumberKept, NextToNumber, KeepsKname, Inv, PcOK, Accepted, TypeOK, WorkUnnamed
<1>2. \A j \in DOMAIN nics : nics[j] \in Nic
  BY DEF Inv, TypeOK
<1>3. /\ nics'[i] = [nics[i] EXCEPT !.tname = nics[i].kname]
      /\ \A j \in DOMAIN nics \ {i} : nics'[j] = nics[j]
      /\ DOMAIN nics' = DOMAIN nics
  BY <1>1
<1>4. /\ nics'[i] \in Nic /\ nics'[i].tname = nics[i].kname
      /\ nics'[i].mac = nics[i].mac /\ CurName(nics'[i]) = CurName(nics[i])
  BY <1>1, <1>2, <1>3, RenameAssumption DEF Nic, CurName
<1>5. nics' \in [DOMAIN nics -> Nic]
  BY <1>1, <1>2, <1>3, <1>4
<1>6. TypeOK' /\ PcOK' /\ RulesAhead'
  BY <1>1, <1>3, <1>5 DEF Inv, TypeOK, PcOK, RulesAhead, inputs
<1>7. Distinct' /\ TnamesEth' /\ ~MacsClash(nics)'
  BY <1>1, <1>3, <1>4 DEF Inv, Distinct, TnamesEth, MacsClash
<1>8. WorkUnnamed' /\ ~MacsClash(static)'
  BY <1>1, <1>3 DEF Inv, TypeOK, WorkUnnamed, MacsClash, inputs
<1> QED
  BY <1>6, <1>7, <1>8 DEF Inv

LEMMA NumberNewInv == ASSUME Inv, NEW i \in work, NumberNew(i) PROVE Inv'
<1>1. /\ pc = "number" /\ Call(i, Eth(nextethnum), "number") /\ work' = work \ {i}
      /\ nextethnum' = nextethnum + 1 /\ UNCHANGED <<inputs, k, fns>>
  BY DEF NumberNew, NextToNumber
<1>2. Eth(nextethnum) \in Name /\ nextethnum' \in Nat
  BY <1>1 DEF Inv, TypeOK, Eth, Name
<1>3. NeedsRenaming(nics[i])
  BY <1>1 DEF Inv, PcOK, Accepted, WorkUnnamed, NeedsRenaming
<1> QED
  BY <1>1, <1>2, <1>3, LoopCallInv

LEMMA PassesInv == Inv /\ (StaticDone \/ DynamicDone \/ NumberDone) => Inv'
<1> SUFFICES ASSUME Inv PROVE (StaticDone \/ DynamicDone \/ NumberDone) => Inv'
  OBVIOUS
<1>1. ASSUME StaticDone PROVE Inv'
  BY <1>1, QuietInv DEF StaticDone, Inv, TypeOK, PcOK
<1>2. ASSUME DynamicDone PROVE Inv'
  BY <1>2, QuietInv, MultinicPcis DEF DynamicDone, Inv, TypeOK, PcOK
<1>3. ASSUME NumberDone PROVE Inv'
  BY <1>3, QuietInv DEF NumberDone, Inv, TypeOK, PcOK
<1> QED
  BY <1>1, <1>2, <1>3

LEMMA RejectInv == Inv /\ Reject => Inv'
<1> SUFFICES ASSUME Inv, Reject PROVE Inv'
  OBVIOUS
<1>1. /\ pc' = "raised"
      /\ error' \in {"StaticRuleError", "CurrentStateError", "LastStateError", "OldStateError"}
      /\ UNCHANGED <<inputs, nics, transactions, k, fns, work, nextethnum>>
  BY DEF Reject, Raise
<1> QED
  BY <1>1 DEF Inv, TypeOK, PcOK, Accepted, inputs

LEMMA StutterInv == Inv /\ UNCHANGED vars => Inv'
BY DEF Inv, TypeOK, PcOK, Accepted, MacsClash, Distinct, CurName, TnamesEth, RulesAhead,
       Same, WithMac, WithPci, WorkUnnamed, vars

LEMMA NextInv == Inv /\ [Next]_vars => Inv'
<1> SUFFICES ASSUME Inv, [Next]_vars PROVE Inv'
  OBVIOUS
<1>1. CASE Next
  BY <1>1, RejectInv, AcceptInv, StaticInv, PassesInv, DynamicInv, VisitFunctionInv,
     ReplaceInv, MultinicDoneInv, NumberKeptInv, NumberNewInv DEF Next
<1> QED
  BY <1>1, StutterInv

(* Whatever the lists, the steps of rename() keep the invariant. *)
THEOREM Invariance == Spec => []Inv
<1>1. Init => Inv
  BY InitCalled, CalledInv
<1> QED
  BY <1>1, NextInv, PTL DEF Spec

(* The variables keep their types. *)
THEOREM TypeCorrect == Spec => []TypeOK
<1>1. Inv => TypeOK
  BY DEF Inv
<1> QED
  BY <1>1, Invariance, PTL

(* No two nics are ever to have the same name, at any point of the plan.   *)
THEOREM NamesStayDistinct == Spec => []NamesDistinct
<1>1. Inv => NamesDistinct
  BY DEF Inv, Distinct, NamesDistinct
<1> QED
  BY <1>1, Invariance, PTL

-----------------------------------------------------------------------------
(* The plan of renames *)

LEMMA SameNames == Plan!Name = Name
  BY DEF Plan!Name, Name

LEMMA CallPlan ==
  ASSUME Inv, Accepted, Accepted',
         NEW i \in DOMAIN nics, NEW nm \in Name, nics[i].tname = None,
         RenameNic(i, nm)
  PROVE  Plan!Next \/ UNCHANGED Plan!vars
<1> DEFINE L == [j \in DOMAIN nics |-> CurName(nics[j])]
<1>1. NicsOK /\ transactions \in Seq(Name \X Name) /\ ~MacsClash(nics) /\ Distinct
  BY DEF Inv, TypeOK, NicsOK
<1>2. nics' \in [DOMAIN nics -> Nic] /\ DOMAIN nics' = DOMAIN nics /\ nics'[i].tname = nm /\ IsEth(nm)
  BY <1>1, RenameNicEffect DEF Distinct
<1>3. nm # None /\ \A j \in DOMAIN nics : nics[j].tname # nm
  BY RenameAssumption DEF RenameNic, Refused, TnameFree
<1>4. Link = L /\ Link' = [j \in DOMAIN nics |-> CurName(nics'[j])]
  BY <1>2 DEF Link
<1>5. L[i] = nics[i].kname /\ Link'[i] = nm
  BY <1>2, <1>3, <1>4 DEF CurName
<1>6. CASE TakeFree(i, nm)
  <2>1. \A j \in DOMAIN nics \ {i} : nics'[j] = nics[j]
    BY <1>6 DEF TakeFree
  <2>2. Link' = [L EXCEPT ![i] = Link'[i]]
    BY <1>4, <2>1
  <2>3. \A j \in DOMAIN nics : L[j] # nm
    BY <1>3, <1>6 DEF TakeFree, Aliased, CurName
  <2>4. transactions' = Append(transactions, <<L[i], Link'[i]>>)
    BY <1>5, <1>6 DEF TakeFree
  <2>5. Plan!RenameFree(i)
    BY <1>4, <1>5, <2>2, <2>3, <2>4, SameNames
       DEF Plan!RenameFree, Plan!Held
  <2> QED
    BY <1>4, <2>5 DEF Plan!Next
<1>7. CASE TakeOwn(i, nm)
  <2>1. i \in Aliased(nm)
    BY <1>1, <1>7 DEF TakeOwn, IsFirst, Aliased, Same, WithMac, MacsClash
  <2>2. nics[i].kname = nm /\ \A j \in DOMAIN nics \ {i} : nics'[j] = nics[j]
    BY <1>7, <2>1 DEF TakeOwn, Aliased
  <2>3. Link' = L
    BY <1>4, <1>5, <2>2
  <2> QED
    BY <1>4, <1>7, <2>3 DEF TakeOwn, Plan!vars
<1>8. CASE TakeOver(i, nm)
  <2>1. PICK j \in Aliased(nm), t \in TempName(nm) :
          /\ ~(i \in Same(nics, nics[j]) /\ nics[j].kname = nics[i].kname)
          /\ nics' = [nics EXCEPT ![j].kname = t, ![i].tname = nm]
          /\ transactions' = transactions \o << <<nm, t>>, <<nics[i].kname, nm>> >>
    BY <1>8 DEF TakeOver
  <2>2. j \in DOMAIN nics /\ j # i /\ nics[j].tname = None /\ nics[j].kname = nm
    BY <2>1 DEF Aliased, Same, WithMac, WithPci
  <2>3. t \in Name /\ \A h \in DOMAIN nics : L[h] # t
    BY RenameAssumption, <1>3 DEF TempName, Side, Name, CurName
  <2>4. /\ nics'[j] = [nics[j] EXCEPT !.kname = t]
        /\ \A h \in DOMAIN nics \ {i, j} : nics'[h] = nics[h]
    BY <2>1, <2>2 DEF NicsOK
  <2>5. Link'[j] = t /\ L[j] = nm
    <3>1. nics[j] \in Nic
      BY <1>1, <2>2 DEF NicsOK
    <3>2. nics'[j].kname = t /\ nics'[j].tname = None
      BY <2>2, <2>4, <3>1 DEF Nic
    <3> QED
      BY <1>4, <2>2, <3>2 DEF CurName
  <2>6. Link' = [L EXCEPT ![j] = Link'[j], ![i] = L[j]]
    BY <1>4, <1>5, <2>2, <2>4, <2>5
  <2>7. transactions' = transactions \o << <<L[j], Link'[j]>>, <<L[i], L[j]>> >>
    BY <1>5, <2>1, <2>5
  <2>8. Plan!RenameOver(i, j)
    BY <1>4, <2>2, <2>3, <2>5, <2>6, <2>7, SameNames
       DEF Plan!RenameOver, Plan!Held
  <2> QED
    BY <1>4, <2>2, <2>8 DEF Plan!Next
<1> QED
  BY <1>6, <1>7, <1>8 DEF RenameNic

(* Steps that change no name of no nic leave the plan as it is. *)
LEMMA QuietPlan ==
  ASSUME Accepted, Accepted', UNCHANGED transactions, DOMAIN nics' = DOMAIN nics,
         \A j \in DOMAIN nics : CurName(nics'[j]) = CurName(nics[j])
  PROVE  UNCHANGED Plan!vars
BY DEF Plan!vars, Link

(* The visits of the loops: the call is made only for an unnamed nic. *)
LEMMA VisitPlan ==
  ASSUME Inv, Accepted, pc' # "sanitise",
         \/ Skip
         \/ \E i \in DOMAIN nics, nm \in Name :
              nics[i].tname = None /\ Call(i, nm, pc)
  PROVE  /\ Plan!Next \/ UNCHANGED Plan!vars
         /\ \A j \in DOMAIN nics : nics[j].tname # None => nics'[j].tname = nics[j].tname
<1>1. CASE Skip
  BY <1>1, QuietPlan DEF Skip, Accepted
<1>2. CASE \E i \in DOMAIN nics, nm \in Name :
             nics[i].tname = None /\ Call(i, nm, pc)
  <2>1. PICK i \in DOMAIN nics, nm \in Name : nics[i].tname = None /\ Call(i, nm, pc)
    BY <1>2
  <2>2. \A j \in DOMAIN nics : nics[j].tname # None => nics'[j].tname = nics[j].tname
    BY <2>1, CallEffect
  <2>3. CASE RenameNic(i, nm) /\ pc' = pc /\ UNCHANGED error
    BY <2>1, <2>2, <2>3, CallPlan DEF Accepted
  <2>4. CASE Raise("AssertionError") /\ UNCHANGED <<nics, transactions>>
    BY <2>2, <2>4, QuietPlan DEF Raise, Accepted
  <2> QED
    BY <2>1, <2>3, <2>4 DEF Call
<1> QED
  BY <1>1, <1>2

(* Every iteration of a loop is such a visit. *)
LEMMA LoopIsVisit ==
  ASSUME Inv,
         \/ StaticRule
         \/ \E i \in work : Dynamic(i) \/ ReplaceOnFunction(i) \/ NumberNew(i)
  PROVE  /\ Accepted /\ pc' # "sanitise"
         /\ \/ Skip
            \/ \E i \in DOMAIN nics, nm \in Name :
                 nics[i].tname = None /\ Call(i, nm, pc)
<1> DEFINE Visits == \/ Skip
                     \/ \E i \in DOMAIN nics, nm \in Name :
                          nics[i].tname = None /\ Call(i, nm, pc)
<1>1. \A i \in work : i \in DOMAIN nics
  BY DEF Inv, TypeOK
<1>2. ASSUME StaticRule PROVE Accepted /\ Visits
  <2>1. pc = "static" /\ k \in DOMAIN static /\ Accepted /\ k \in k .. Len(static)
    BY <1>2 DEF StaticRule, Inv, TypeOK, PcOK, Accepted
  <2>2. ASSUME NEW i \in Same(nics, static[k]), Call(i, static[k].tname, "static")
        PROVE  Visits
    <3>1. i \in DOMAIN nics /\ static[k].tname \in Name
      BY <2>1, <2>2, EntryNames DEF Inv, Same, WithMac
    <3>2. nics[i].tname = None
      BY <2>1, <2>2, <3>1 DEF Inv, RulesAhead
    <3> QED
      BY <2>1, <2>2, <3>1, <3>2
  <2> QED
    BY <1>2, <2>1, <2>2 DEF StaticRule
<1>3. ASSUME NEW i \in work, Dynamic(i) PROVE Accepted /\ Visits
  <2>1. pc = "dynamic" /\ Accepted
    BY <1>3 DEF Dynamic, Named, SamePlace, Moved, OnMultinic, Displaced, Replaced, Returned,
                BrandNew, Unseen, Visit, Inv, PcOK, Accepted
  <2>2. ASSUME NEW nm \in Name, NeedsRenaming(nics[i]), Call(i, nm, "dynamic") PROVE Visits
    BY <1>1, <2>1, <2>2 DEF Inv, TnamesEth, NeedsRenaming
  <2>3. /\ \A l \in DOMAIN last : last[l].tname \in Name
        /\ \A l \in DOMAIN old : old[l].tname \in Name
        /\ \A l \in DOMAIN Remembered : Remembered[l].tname \in Name
    BY EntryNames DEF Inv
  <2>4. CASE Named(i) \/ OnMultinic(i) \/ Displaced(i) \/ BrandNew(i)
    BY <2>1, <2>4 DEF Named, OnMultinic, Displaced, BrandNew
  <2>5. CASE SamePlace(i)
    BY <2>1, <2>2, <2>3, <2>5 DEF SamePlace, Same, WithMac
  <2>6. CASE Moved(i)
    BY <2>1, <2>2, <2>3, <2>6 DEF Moved, WithMac
  <2>7. CASE Replaced(i)
    BY <2>1, <2>2, <2>3, <2>7 DEF Replaced, Unseen
  <2>8. CASE Returned(i)
    BY <2>1, <2>2, <2>3, <2>8 DEF Returned, Unseen, WithMac
  <2> QED
    BY <1>3, <2>4, <2>5, <2>6, <2>7, <2>8 DEF Dynamic
<1>4. ASSUME NEW i \in work, ReplaceOnFunction(i) PROVE Accepted /\ Visits
  <2>1. pc = "multinic" /\ Accepted /\ nics[i].tname = None
    BY <1>4 DEF ReplaceOnFunction, Inv, PcOK, Accepted, WorkUnnamed
  <2>2. PICK l \in WithPci(Remembered, nics[i].pci) : Call(i, Remembered[l].tname, "multinic")
    BY <1>4 DEF ReplaceOnFunction
  <2>3. Remembered[l].tname \in Name
    BY <2>2, EntryNames DEF Inv, WithPci
  <2> QED
    BY <1>1, <2>1, <2>2, <2>3
<1>5. ASSUME NEW i \in work, NumberNew(i) PROVE Accepted /\ Visits
  <2>1. pc = "number" /\ Accepted /\ nics[i].tname = None /\ Call(i, Eth(nextethnum), "number")
    BY <1>5 DEF NumberNew, NextToNumber, Inv, PcOK, Accepted, WorkUnnamed
  <2>2. Eth(nextethnum) \in Name
    BY DEF Inv, TypeOK, Eth, Name
  <2> QED
    BY <1>1, <2>1, <2>2
<1>6. Accepted /\ Visits
  BY <1>2, <1>3, <1>4, <1>5
<1>7. pc' # "sanitise"
  BY <1>6 DEF Skip, Call, Raise, Accepted
<1> QED
  BY <1>6, <1>7

(* NamedForGood, of one step. *)
KeepsNamed ==
  pc # "sanitise" =>
    \A i \in DOMAIN nics : nics[i].tname # None => nics'[i].tname = nics[i].tname

LEMMA StepPlan ==
  ASSUME Inv, Inv', [Next]_vars
  PROVE  (Plan!Next \/ UNCHANGED Plan!vars) /\ KeepsNamed
<1>1. CASE Reject
  <2>1. pc' = "raised" /\ UNCHANGED <<nics, transactions>> /\ pc = "sanitise"
        /\ error' \in {"StaticRuleError", "CurrentStateError", "LastStateError", "OldStateError"}
    BY <1>1 DEF Reject, Raise
  <2> QED
    BY <2>1 DEF Accepted, Plan!vars, Link, KeepsNamed
<1>2. CASE Accept
  <2>1. pc = "sanitise" /\ ~Accepted /\ Accepted' /\ transactions = <<>> /\ transactions' = <<>>
    BY <1>2 DEF Accept, Accepted, Inv, PcOK
  <2>2. Link = <<>> /\ DOMAIN Link = {}
    BY <2>1 DEF Link
  <2>3. Link' = [i \in DOMAIN nics' |-> CurName(nics'[i])]
    BY <2>1 DEF Link
  <2>4. \A i \in DOMAIN nics' : CurName(nics'[i]) \in Name
    BY DEF Inv, TypeOK, Nic, CurName
  <2>5. Plan!AllDistinct(Link')
    BY <2>1, <2>3 DEF Inv, Distinct, Plan!AllDistinct
  <2>6. Link' \in [DOMAIN Link' -> Plan!Name]
    BY <2>3, <2>4, SameNames
  <2>7. Plan!Observe
    BY <2>1, <2>2, <2>5, <2>6 DEF Plan!Observe
  <2> QED
    BY <2>1, <2>7 DEF Plan!Next, KeepsNamed
<1>3. CASE \/ StaticRule
           \/ \E i \in work : Dynamic(i) \/ ReplaceOnFunction(i) \/ NumberNew(i)
  BY <1>3, LoopIsVisit, VisitPlan DEF KeepsNamed
<1>4. CASE \/ StaticDone \/ DynamicDone \/ NumberDone
           \/ \E fn \in fns : VisitFunction(fn)
  <2>1. Accepted /\ Accepted' /\ UNCHANGED <<nics, transactions>>
    BY <1>4 DEF StaticDone, DynamicDone, NumberDone, VisitFunction, Inv, PcOK, Accepted
  <2> QED
    BY <2>1, QuietPlan DEF KeepsNamed
<1>5. CASE MultinicDone
  <2>1. PICK ord \in [DOMAIN nics -> {nics[i].order : i \in DOMAIN nics}] :
          nics' = [i \in DOMAIN nics |-> [nics[i] EXCEPT !.order = ord[i]]]
    BY <1>5 DEF MultinicDone
  <2>2. Accepted /\ Accepted' /\ UNCHANGED transactions /\ DOMAIN nics' = DOMAIN nics
    BY <1>5, <2>1 DEF MultinicDone, Inv, PcOK, Accepted
  <2>3. \A i \in DOMAIN nics :
          nics'[i].tname = nics[i].tname /\ CurName(nics'[i]) = CurName(nics[i])
    BY <2>1 DEF Inv, TypeOK, Nic, CurName
  <2> QED
    BY <2>2, <2>3, QuietPlan DEF KeepsNamed
<1>6. ASSUME NEW i \in work, NumberKept(i)
      PROVE  UNCHANGED Plan!vars /\ KeepsNamed
  <2>1. /\ Accepted /\ Accepted' /\ UNCHANGED transactions /\ i \in DOMAIN nics
        /\ nics' = [nics EXCEPT ![i].tname = nics[i].kname] /\ nics[i].tname = None
    BY <1>6 DEF NumberKept, NextToNumber, Inv, PcOK, Accepted, TypeOK, WorkUnnamed
  <2>2. /\ nics'[i].tname = nics[i].kname /\ DOMAIN nics' = DOMAIN nics
        /\ \A j \in DOMAIN nics \ {i} : nics'[j] = nics[j]
        /\ nics[i].kname \in Name
    BY <2>1 DEF Inv, TypeOK, Nic
  <2>3. \A j \in DOMAIN nics : CurName(nics'[j]) = CurName(nics[j])
    BY <2>1, <2>2, RenameAssumption DEF CurName
  <2> QED
    BY <2>1, <2>2, <2>3, QuietPlan DEF KeepsNamed
<1>7. CASE UNCHANGED vars
  BY <1>7 DEF vars, Plan!vars, Link, Accepted, CurName, KeepsNamed
<1> QED
  BY <1>1, <1>2, <1>3, <1>4, <1>5, <1>6, <1>7 DEF Next

(* The transactions are a plan that can be carried out in its order: the   *)
(* renaming logic implements RenamePlan.                                   *)
THEOREM ImplementsPlan == Spec => PlanSpec
<1>1. Init => Plan!Init
  BY DEF Init, Begin, Plan!Init, Link, Accepted
<1>2. Inv /\ Inv' /\ [Next]_vars => [Plan!Next]_Plan!vars
  BY StepPlan
<1> QED
  BY <1>1, <1>2, Invariance, PTL DEF Spec, PlanSpec, Plan!Spec

(* No step of the passes revises a name. *)
THEOREM NamesAreFinal == Spec => NamedForGood
<1>1. Inv /\ Inv' /\ [Next]_vars =>
        [pc # "sanitise" =>
           \A i \in DOMAIN nics : nics[i].tname # None => nics'[i].tname = nics[i].tname]_vars
  BY StepPlan DEF KeepsNamed
<1> QED
  BY <1>1, Invariance, PTL DEF Spec, NamedForGood

-----------------------------------------------------------------------------
(* Lookups, which see the places of the nics and not their names.          *)

InPlace ==
  /\ DOMAIN nics' = DOMAIN nics
  /\ \A j \in DOMAIN nics : nics'[j].mac = nics[j].mac /\ nics'[j].pci = nics[j].pci

LEMMA Lookups ==
  ASSUME InPlace, UNCHANGED inputs
  PROVE  /\ \A m : WithMac(nics', m) = WithMac(nics, m)
         /\ \A p : WithPci(nics', p) = WithPci(nics, p)
         /\ \A e : Same(nics', e) = Same(nics, e)
         /\ \A m : Present(m)' <=> Present(m)
         /\ MultinicFunctions' = MultinicFunctions
         /\ static' = static /\ last' = last /\ old' = old /\ Remembered' = Remembered
         /\ Unambiguous' = Unambiguous
<1>1. static' = static /\ last' = last /\ old' = old /\ Remembered' = Remembered
  BY DEF inputs, Remembered
<1>2. \A m : WithMac(nics', m) = WithMac(nics, m)
  BY DEF InPlace, WithMac
<1>3. \A p : WithPci(nics', p) = WithPci(nics, p)
  BY DEF InPlace, WithPci
<1>4. \A e : Same(nics', e) = Same(nics, e)
  BY <1>2, <1>3 DEF Same
<1>5. \A m : Present(m)' <=> Present(m)
  BY <1>2 DEF Present
<1>6. MultinicFunctions' = MultinicFunctions
  <2>1. {nics'[i].pci : i \in DOMAIN nics'} = {nics[i].pci : i \in DOMAIN nics}
    BY DEF InPlace
  <2> QED BY <1>3, <2>1 DEF MultinicFunctions
<1>7. Unambiguous' = Unambiguous
  BY <1>1 DEF Unambiguous, NamesClash
<1> QED BY <1>1, <1>2, <1>3, <1>4, <1>5, <1>6, <1>7

LEMMA Several ==
  ASSUME NEW S, IsFiniteSet(S), NEW a \in S, NEW b \in S, a # b
  PROVE  Cardinality(S) > 1
<1>1. IsFiniteSet({a}) /\ Cardinality({a}) = 1
  BY FS_Singleton
<1>2. IsFiniteSet({a} \cup {b}) /\ Cardinality({a} \cup {b}) = 2
  <2>1. b \notin {a}
    OBVIOUS
  <2>2. IsFiniteSet({a} \cup {b}) /\ Cardinality({a} \cup {b}) = Cardinality({a}) + 1
    BY <1>1, <2>1, FS_AddElement
  <2> QED BY <1>1, <2>2
<1>3. ({a} \cup {b}) \in SUBSET S
  OBVIOUS
<1>4. Cardinality({a} \cup {b}) <= Cardinality(S) /\ Cardinality(S) \in Nat
  BY <1>3, FS_Subset, FS_CardinalityType
<1> QED BY <1>2, <1>4

(* The memory is the last boot, then what is older. *)
LEMMA MemoryIs ==
  ASSUME TypeOK
  PROVE  /\ \A l \in DOMAIN last : l \in DOMAIN Remembered /\ Remembered[l] = last[l]
         /\ \A l \in DOMAIN old : \E m \in DOMAIN Remembered : Remembered[m] = old[l]
         /\ \A l \in DOMAIN Remembered : l \in Nat /\ Remembered[l].tname # None
         /\ \A l \in DOMAIN Remembered : l \notin DOMAIN last => \A m \in DOMAIN last : m < l
         /\ IsFiniteSet(DOMAIN Remembered) /\ IsFiniteSet(DOMAIN last)
<1>1. last \in Seq(Entry) /\ old \in Seq(Entry) /\ Remembered = last \o old
  BY DEF TypeOK, Remembered
<1>2. \A l \in DOMAIN old : Len(last) + l \in DOMAIN Remembered /\ Remembered[Len(last) + l] = old[l]
  BY <1>1
<1>3. Remembered \in Seq(Entry)
  BY <1>1
<1>4. \A l \in DOMAIN Remembered : l \in Nat /\ Remembered[l] \in Entry
  BY <1>3
<1>5. \A l \in DOMAIN Remembered : Remembered[l].tname # None
  BY <1>4, RenameAssumption DEF Entry
<1>6. \A l \in DOMAIN last : l \in DOMAIN Remembered /\ Remembered[l] = last[l]
  BY <1>1
<1>7. \A l \in DOMAIN Remembered : l \notin DOMAIN last => \A m \in DOMAIN last : m < l
  BY <1>1
<1>8. IsFiniteSet(DOMAIN Remembered) /\ IsFiniteSet(DOMAIN last)
  BY <1>1, <1>3, FS_Interval
<1> QED BY <1>2, <1>4, <1>5, <1>6, <1>7, <1>8

-----------------------------------------------------------------------------
(* What naming a nic does. *)

Names(i, nm) ==
  /\ i \in DOMAIN nics /\ nics[i].tname = None /\ InPlace
  /\ IsEth(nm) /\ TnameFree(nm) /\ nics'[i].tname = nm
  /\ \A j \in DOMAIN nics : nics'[j].order = nics[j].order
  /\ \A j \in DOMAIN nics \ {i} :
       /\ nics'[j].tname = nics[j].tname
       /\ nics[j].tname # None => nics'[j] = nics[j]
       /\ nics'[j].kname = nics[j].kname \/ ~IsEth(nics'[j].kname)

LEMMA CallNames ==
  ASSUME Inv, NEW i \in DOMAIN nics, NEW nm, nics[i].tname = None, NEW p, Call(i, nm, p)
  PROVE  \/ Names(i, nm) /\ pc' = p /\ error' = error
         \/ Refused(nm) /\ pc' = "raised" /\ error' = "AssertionError" /\ nics' = nics
<1>1. \A j \in DOMAIN nics : nics[j] \in Nic
  BY DEF Inv, TypeOK
<1>2. ASSUME RenameNic(i, nm) PROVE Names(i, nm)
  <2>1. IsEth(nm) /\ TnameFree(nm)
    BY <1>2 DEF RenameNic, Refused
  <2>2. ASSUME NEW n, nics' = [nics EXCEPT ![i].tname = n], n = nm
        PROVE  Names(i, nm)
    <3>1. DOMAIN nics' = DOMAIN nics /\ \A j \in DOMAIN nics \ {i} : nics'[j] = nics[j]
      BY <2>2
    <3>2. /\ nics'[i].tname = nm /\ nics'[i].mac = nics[i].mac /\ nics'[i].pci = nics[i].pci
          /\ nics'[i].order = nics[i].order
      BY <1>1, <2>2 DEF Nic
    <3> QED BY <2>1, <3>1, <3>2 DEF Names, InPlace
  <2>3. CASE TakeFree(i, nm)
    BY <2>2, <2>3 DEF TakeFree
  <2>4. CASE TakeOwn(i, nm)
    <3>1. nics[i].kname = nm
      BY <2>4 DEF TakeOwn, Aliased, IsFirst
    <3> QED BY <2>2, <2>4, <3>1 DEF TakeOwn
  <2>5. CASE TakeOver(i, nm)
    <3>1. PICK j \in Aliased(nm), t \in TempName(nm) :
            /\ ~(i \in Same(nics, nics[j]) /\ nics[j].kname = nics[i].kname)
            /\ nics' = [nics EXCEPT ![j].kname = t, ![i].tname = nm]
      BY <2>5 DEF TakeOver
    <3>2. j # i
      BY <3>1 DEF Same, WithMac, WithPci
    <3>3. j \in DOMAIN nics /\ nics[j].tname = None
      BY DEF Aliased
    <3>4. ~IsEth(t)
      BY DEF TempName, Side, IsEth
    <3>5. /\ nics'[i] = [nics[i] EXCEPT !.tname = nm] /\ nics'[j] = [nics[j] EXCEPT !.kname = t]
          /\ \A h \in DOMAIN nics \ {i, j} : nics'[h] = nics[h]
          /\ DOMAIN nics' = DOMAIN nics
      BY <3>1, <3>2, <3>3
    <3>6. /\ nics'[i].tname = nm /\ nics'[i].mac = nics[i].mac /\ nics'[i].pci = nics[i].pci
          /\ nics'[i].order = nics[i].order
      BY <1>1, <3>5 DEF Nic
    <3>7. /\ nics'[j].tname = nics[j].tname /\ nics'[j].mac = nics[j].mac /\ nics'[j].pci = nics[j].pci
          /\ nics'[j].order = nics[j].order /\ nics'[j].kname = t
      BY <1>1, <3>3, <3>5 DEF Nic
    <3> QED BY <2>1, <3>3, <3>4, <3>5, <3>6, <3>7 DEF Names, InPlace
  <2> QED BY <1>2, <2>3, <2>4, <2>5 DEF RenameNic
<1> QED BY <1>2 DEF Call, Raise

LEMMA NumberKeptNames ==
  ASSUME Inv, NEW i \in DOMAIN nics, nics[i].tname = None, KeepsKname(i),
         nics' = [nics EXCEPT ![i].tname = nics[i].kname]
  PROVE  Names(i, nics[i].kname)
<1>1. nics[i] \in Nic
  BY DEF Inv, TypeOK
<1>2. nics'[i] = [nics[i] EXCEPT !.tname = nics[i].kname]
  OBVIOUS
<1>3. /\ nics'[i].tname = nics[i].kname /\ nics'[i].mac = nics[i].mac /\ nics'[i].pci = nics[i].pci
      /\ nics'[i].order = nics[i].order
  BY <1>1, <1>2 DEF Nic
<1>4. DOMAIN nics' = DOMAIN nics /\ \A j \in DOMAIN nics \ {i} : nics'[j] = nics[j]
  OBVIOUS
<1> QED BY <1>3, <1>4 DEF Names, InPlace, KeepsKname

-----------------------------------------------------------------------------
(* Where names come from *)

Passes == {"static", "dynamic", "multinic", "number", "done"}

Tidy ==
  /\ IsFiniteSet(DOMAIN nics)
  /\ pc = "sanitise" => k = 1
  /\ pc \in Passes => ~NamesClash(static) /\ ~MacsClash(last) /\ ~NamesClash(last)

Reached(r) == pc = "static" => r < k

Ruled ==
  pc \in Passes =>
    \A r \in DOMAIN static, i \in DOMAIN nics :
      i \in Same(nics, static[r]) /\ Reached(r) => nics[i].tname = static[r].tname

ByRule(i) ==
  \E r \in DOMAIN static :
    Reached(r) /\ i \in Same(nics, static[r]) /\ nics[i].tname = static[r].tname

(* Passes 1 and 2 come to a nic that has a name only if a rule named it.   *)
RulesFirst ==
  \A i \in DOMAIN nics :
    (pc = "static" \/ (pc = "dynamic" /\ i \in work)) /\ nics[i].tname # None => ByRule(i)

Multi(i) == nics[i].pci \in MultinicFunctions

(* An entry of the memory that names the nic: its own, or one of its place.*)
ByEntry(i, l) ==
  /\ nics[i].tname = Remembered[l].tname
  /\ \/ Remembered[l].mac = nics[i].mac
     \/ /\ Remembered[l].pci = nics[i].pci
        /\ \/ ~Multi(i) /\ ~Present(Remembered[l].mac)
           \/ Multi(i) /\ pc = "multinic" /\ nics[i].pci \notin fns

Origins ==
  pc \in {"static", "dynamic", "multinic"} =>
    \A i \in DOMAIN nics : nics[i].tname # None =>
      ByRule(i) \/ \E l \in DOMAIN Remembered : ByEntry(i, l)

OfFunctions == pc = "multinic" => fns \subseteq MultinicFunctions

Provenance == Tidy /\ Ruled /\ RulesFirst /\ Origins

(* Steps that leave the nics alone. *)
LEMMA QuietProvenance ==
  ASSUME Inv, Provenance, nics' = nics, UNCHANGED inputs,
         \/ pc' = pc /\ k' = k /\ work' \subseteq work /\ fns' \subseteq fns
         \/ pc = "static" /\ pc' = pc /\ Same(nics, static[k]) = {} /\ k' = k + 1 /\ k \in DOMAIN static
         \/ pc = "static" /\ pc' = "dynamic" /\ k > Len(static)
         \/ pc = "dynamic" /\ pc' = "multinic"
         \/ pc = "multinic" /\ pc' = pc /\ fns' \subseteq fns
         \/ pc = "number" /\ pc' = "done"
         \/ pc' = "raised"
  PROVE  Provenance'
<1> USE DEF Passes
<1>1. InPlace
  BY DEF InPlace
<1>2. /\ static' = static /\ last' = last /\ Remembered' = Remembered
      /\ MultinicFunctions' = MultinicFunctions
      /\ \A m : Present(m)' <=> Present(m)
  BY <1>1, Lookups
<1>3. static \in Seq(Entry) /\ k \in 1 .. Len(static) + 1
  BY DEF Inv, TypeOK
<1>4. Tidy'
  BY <1>2 DEF Tidy, Provenance, NamesClash, MacsClash
<1>5. ASSUME pc' \in Passes, NEW r \in DOMAIN static, Reached(r)'
      PROVE  pc \in Passes /\ (Reached(r) \/ Same(nics, static[r]) = {})
  BY <1>3, <1>5 DEF Reached
<1>6. Ruled'
  BY <1>2, <1>5 DEF Ruled, Provenance
<1>7. ASSUME NEW r \in DOMAIN static, Reached(r), pc' \in Passes PROVE Reached(r)'
  BY <1>3, <1>7 DEF Reached
<1>8. ASSUME NEW i \in DOMAIN nics, ByRule(i), pc' \in Passes PROVE ByRule(i)'
  BY <1>2, <1>7, <1>8 DEF ByRule
<1>9. RulesFirst'
  BY <1>8 DEF RulesFirst, Provenance, Inv, TypeOK
<1>10. ASSUME NEW i \in DOMAIN nics, NEW l \in DOMAIN Remembered, ByEntry(i, l),
             pc' \in {"static", "dynamic", "multinic"}
      PROVE  ByEntry(i, l)'
  BY <1>2, <1>10 DEF ByEntry, Multi
<1>11. Origins'
  BY <1>2, <1>8, <1>10 DEF Origins, Provenance
<1> QED BY <1>4, <1>6, <1>9, <1>11 DEF Provenance

(* Why a nic gets the name it gets. *)
Reason(i, nm) ==
  \/ /\ pc = "static" /\ k \in DOMAIN static /\ k' = k + 1
     /\ i \in Same(nics, static[k]) /\ nm = static[k].tname
  \/ /\ pc = "dynamic" /\ k' = k /\ work' = work \ {i}
     /\ \E l \in DOMAIN Remembered :
          /\ nm = Remembered[l].tname
          /\ \/ Remembered[l].mac = nics[i].mac
             \/ Remembered[l].pci = nics[i].pci /\ ~Multi(i) /\ ~Present(Remembered[l].mac)
  \/ /\ pc = "multinic" /\ k' = k /\ fns' = fns /\ nics[i].pci \notin fns /\ Multi(i)
     /\ \E l \in DOMAIN Remembered : nm = Remembered[l].tname /\ Remembered[l].pci = nics[i].pci
  \/ pc = "number" /\ k' = k

LEMMA NamesProvenance ==
  ASSUME Inv, Provenance, NEW i, NEW nm, Names(i, nm), Reason(i, nm), UNCHANGED inputs, pc' = pc
  PROVE  Provenance'
<1> USE DEF Passes
<1>0. /\ InPlace /\ i \in DOMAIN nics /\ nics[i].tname = None /\ nics'[i].tname = nm
      /\ \A j \in DOMAIN nics \ {i} : nics'[j].tname = nics[j].tname
      /\ DOMAIN nics' = DOMAIN nics
      /\ \A j \in DOMAIN nics : nics'[j].mac = nics[j].mac /\ nics'[j].pci = nics[j].pci
  BY DEF Names, InPlace
<1>1. /\ static' = static /\ last' = last /\ Remembered' = Remembered
      /\ MultinicFunctions' = MultinicFunctions
      /\ \A m : Present(m)' <=> Present(m)
      /\ \A e : Same(nics', e) = Same(nics, e)
  BY <1>0, Lookups
<1>2. /\ pc \in {"static", "dynamic", "multinic", "number"} /\ Accepted /\ ~MacsClash(nics)
      /\ (pc # "static" => k' = k)
  BY DEF Reason, Inv, PcOK, Accepted
<1>3. static \in Seq(Entry) /\ k \in 1 .. Len(static) + 1
  BY DEF Inv, TypeOK
<1>4. \A r \in DOMAIN static : static[r].tname # None
  <2>1. \A r \in DOMAIN static : static[r] \in Entry
    BY <1>3
  <2> QED BY <2>1, RenameAssumption DEF Entry
<1>5. Tidy'
  BY <1>0, <1>1, <1>2 DEF Tidy, Provenance, NamesClash, MacsClash
<1>6. pc = "static" =>
        /\ k \in DOMAIN static /\ k' = k + 1 /\ nm = static[k].tname
        /\ i \in Same(nics, static[k]) /\ \A j \in Same(nics, static[k]) : j = i
  <2> SUFFICES ASSUME pc = "static" PROVE /\ k \in DOMAIN static /\ k' = k + 1 /\ nm = static[k].tname
                                          /\ i \in Same(nics, static[k])
                                          /\ \A j \in Same(nics, static[k]) : j = i
    OBVIOUS
  <2>1. k \in DOMAIN static /\ k' = k + 1 /\ i \in Same(nics, static[k]) /\ nm = static[k].tname
    BY DEF Reason
  <2>2. \A j \in Same(nics, static[k]) : j \in DOMAIN nics /\ nics[j].mac = nics[i].mac
    BY <2>1 DEF Same, WithMac
  <2> QED BY <1>0, <1>2, <2>1, <2>2 DEF MacsClash
<1>7. Ruled'
  <2> SUFFICES ASSUME NEW r \in DOMAIN static, NEW j \in DOMAIN nics,
                      j \in Same(nics, static[r]), Reached(r)'
               PROVE  nics'[j].tname = static[r].tname
    BY <1>0, <1>1 DEF Ruled
  <2>1. CASE Reached(r)
    <3>1. nics[j].tname = static[r].tname
      BY <1>2, <2>1 DEF Ruled, Provenance
    <3> QED BY <1>0, <1>4, <3>1
  <2>2. CASE ~Reached(r)
    <3>1. pc = "static" /\ r = k
      BY <1>2, <1>3, <1>6, <2>2 DEF Reached
    <3> QED BY <1>0, <1>6, <3>1
  <2> QED BY <2>1, <2>2
<1>8. ASSUME NEW j \in DOMAIN nics, ByRule(j) PROVE ByRule(j)'
  <2>1. PICK r \in DOMAIN static :
          Reached(r) /\ j \in Same(nics, static[r]) /\ nics[j].tname = static[r].tname
    BY <1>8 DEF ByRule
  <2>2. nics'[j].tname = static[r].tname
    BY <1>0, <1>4, <2>1
  <2>3. Reached(r)'
    BY <1>3, <1>6, <2>1 DEF Reached
  <2> QED BY <1>1, <2>1, <2>2, <2>3 DEF ByRule
<1>9. pc = "static" => ByRule(i)'
  BY <1>0, <1>1, <1>3, <1>6 DEF ByRule, Reached
<1>10. RulesFirst'
  <2> SUFFICES ASSUME NEW j \in DOMAIN nics, nics'[j].tname # None,
                      pc = "static" \/ (pc = "dynamic" /\ j \in work')
               PROVE  ByRule(j)'
    BY <1>0 DEF RulesFirst
  <2>1. CASE j = i
    BY <1>9, <2>1 DEF Reason
  <2>2. CASE j # i
    <3>1. nics[j].tname # None
      BY <1>0, <2>2
    <3>2. pc = "dynamic" => j \in work
      BY DEF Reason
    <3> QED BY <1>8, <3>1, <3>2 DEF RulesFirst, Provenance
  <2> QED BY <2>1, <2>2
<1>11. ASSUME NEW j \in DOMAIN nics, j # i, NEW l \in DOMAIN Remembered, ByEntry(j, l), pc # "number"
       PROVE  ByEntry(j, l)'
  <2>1. nics'[j].tname = nics[j].tname /\ (pc = "multinic" => fns' = fns)
    BY <1>0, <1>11 DEF Reason
  <2> QED BY <1>0, <1>1, <1>11, <2>1 DEF ByEntry, Multi
<1>12. pc \in {"dynamic", "multinic"} => \E l \in DOMAIN Remembered : ByEntry(i, l)'
  BY <1>0, <1>1 DEF Reason, ByEntry, Multi
<1>13. Origins'
  <2> SUFFICES ASSUME pc \in {"static", "dynamic", "multinic"},
                      NEW j \in DOMAIN nics, nics'[j].tname # None
               PROVE  ByRule(j)' \/ \E l \in DOMAIN Remembered : ByEntry(j, l)'
    BY <1>0, <1>1 DEF Origins
  <2>1. CASE j = i
    BY <1>9, <1>12, <2>1
  <2>2. CASE j # i
    BY <1>0, <1>8, <1>11, <2>2 DEF Origins, Provenance
  <2> QED BY <2>1, <2>2
<1> QED BY <1>5, <1>7, <1>10, <1>13 DEF Provenance

Refusal(nm) == Refused(nm) /\ pc' = "raised" /\ error' = "AssertionError" /\ nics' = nics

(* The cases of an iteration of pass 2.                                    *)
LEMMA DynamicCases ==
  ASSUME Inv, NEW i \in work, Dynamic(i)
  PROVE  /\ pc = "dynamic" /\ i \in DOMAIN nics /\ work' = work \ {i} /\ UNCHANGED <<inputs, k, fns>>
         /\ \/ nics[i].tname # None /\ Skip
            \/ /\ nics[i].tname = None
               /\ \E l \in DOMAIN last :
                    /\ last[l].mac = nics[i].mac
                    /\ Call(i, last[l].tname, "dynamic") \/ (~TnameFree(last[l].tname) /\ Skip)
            \/ /\ nics[i].tname = None /\ WithMac(last, nics[i].mac) = {}
               /\ \/ Multi(i) /\ Skip
                  \/ /\ ~Multi(i)
                     /\ \E l \in DOMAIN Remembered :
                          /\ IsFirst(l, WithPci(Remembered, nics[i].pci))
                          /\ \/ Present(Remembered[l].mac) /\ Skip
                             \/ ~Present(Remembered[l].mac) /\ Call(i, Remembered[l].tname, "dynamic")
                  \/ /\ ~Multi(i) /\ WithPci(Remembered, nics[i].pci) = {}
                     /\ \/ Skip
                        \/ \E l \in DOMAIN old :
                             old[l].mac = nics[i].mac /\ Call(i, old[l].tname, "dynamic")
<1>1. Visit(i)
  BY DEF Dynamic, Named, SamePlace, Moved, OnMultinic, Displaced, Replaced, Returned, BrandNew, Unseen
<1>2. /\ pc = "dynamic" /\ i \in DOMAIN nics /\ work' = work \ {i} /\ UNCHANGED <<inputs, k, fns>>
  BY <1>1 DEF Visit, Inv, TypeOK
<1>3. NeedsRenaming(nics[i]) <=> nics[i].tname = None
  BY <1>2 DEF Inv, Accepted, PcOK, TnamesEth, NeedsRenaming
<1>4. CASE Named(i)
  BY <1>2, <1>3, <1>4 DEF Named
<1>5. CASE SamePlace(i)
  BY <1>2, <1>3, <1>5 DEF SamePlace, Same, WithMac, IsFirst
<1>6. CASE Moved(i)
  BY <1>2, <1>3, <1>6 DEF Moved, WithMac, IsFirst
<1>7. CASE OnMultinic(i)
  BY <1>2, <1>3, <1>7 DEF OnMultinic, Unseen, Multi
<1>8. CASE Displaced(i)
  BY <1>2, <1>3, <1>8 DEF Displaced, Unseen, Multi, InPlaceOf
<1>9. CASE Replaced(i)
  BY <1>2, <1>3, <1>9 DEF Replaced, Unseen, Multi, InPlaceOf
<1>10. CASE Returned(i)
  BY <1>2, <1>3, <1>10 DEF Returned, Unseen, Multi, NewPlace, WithMac
<1>11. CASE BrandNew(i)
  BY <1>2, <1>3, <1>11 DEF BrandNew, Unseen, Multi, NewPlace
<1> QED BY <1>4, <1>5, <1>6, <1>7, <1>8, <1>9, <1>10, <1>11 DEF Dynamic

LEMMA CallProvenance ==
  ASSUME Inv, Provenance, NEW i \in DOMAIN nics, NEW nm, nics[i].tname = None,
         Call(i, nm, pc), Reason(i, nm), UNCHANGED inputs
  PROVE  Provenance'
<1>1. CASE Names(i, nm) /\ pc' = pc
  BY <1>1, NamesProvenance
<1>2. CASE pc' = "raised" /\ nics' = nics
  BY <1>2, QuietProvenance
<1> QED BY <1>1, <1>2, CallNames

LEMMA DynamicProvenance == ASSUME Inv, Provenance, NEW i \in work, Dynamic(i) PROVE Provenance'
<1>1. pc = "dynamic" /\ i \in DOMAIN nics /\ work' = work \ {i} /\ UNCHANGED <<inputs, k, fns>>
  BY DynamicCases
<1>2. CASE Skip
  BY <1>1, <1>2, QuietProvenance DEF Skip
<1>3. ASSUME nics[i].tname = None, NEW l \in DOMAIN Remembered, Call(i, Remembered[l].tname, "dynamic"),
             \/ Remembered[l].mac = nics[i].mac
             \/ Remembered[l].pci = nics[i].pci /\ ~Multi(i) /\ ~Present(Remembered[l].mac)
      PROVE  Provenance'
  <2>1. Reason(i, Remembered[l].tname)
    BY <1>1, <1>3 DEF Reason
  <2> QED BY <1>1, <1>3, <2>1, CallProvenance
<1>4. \A l \in DOMAIN Remembered :
        IsFirst(l, WithPci(Remembered, nics[i].pci)) => Remembered[l].pci = nics[i].pci
  BY DEF IsFirst, WithPci
<1>5. /\ \A l \in DOMAIN last : l \in DOMAIN Remembered /\ Remembered[l] = last[l]
      /\ \A l \in DOMAIN old : \E m \in DOMAIN Remembered : Remembered[m] = old[l]
  BY MemoryIs DEF Inv
<1>6. ASSUME nics[i].tname = None, NEW l \in DOMAIN last, last[l].mac = nics[i].mac,
             Call(i, last[l].tname, "dynamic")
      PROVE  Provenance'
  BY <1>3, <1>5, <1>6
<1>7. ASSUME nics[i].tname = None, NEW l \in DOMAIN old, old[l].mac = nics[i].mac,
             Call(i, old[l].tname, "dynamic")
      PROVE  Provenance'
  <2>1. PICK m \in DOMAIN Remembered : Remembered[m] = old[l]
    BY <1>5
  <2> QED BY <1>3, <1>7, <2>1
<1> QED BY <1>2, <1>3, <1>4, <1>6, <1>7, DynamicCases

LEMMA StaticProvenance == ASSUME Inv, Provenance, StaticRule PROVE Provenance'
<1>1. /\ pc = "static" /\ k \in DOMAIN static /\ k' = k + 1 /\ UNCHANGED <<inputs, fns, work>>
  BY DEF StaticRule, Inv, TypeOK
<1>2. CASE Same(nics, static[k]) = {} /\ Skip
  BY <1>1, <1>2, QuietProvenance DEF Skip
<1>3. ASSUME NEW i \in Same(nics, static[k]), Call(i, static[k].tname, "static") PROVE Provenance'
  <2>1. Reason(i, static[k].tname) /\ i \in DOMAIN nics
    BY <1>1, <1>3 DEF Reason, Same, WithMac
  <2>2. nics[i].tname = None
    BY <1>1, <2>1 DEF Inv, PcOK, Accepted, RulesAhead
  <2> QED BY <1>1, <1>3, <2>1, <2>2, CallProvenance
<1> QED BY <1>2, <1>3 DEF StaticRule

(* Pass 3 goes through one function at a time, and once.                   *)
OnFunctions ==
  pc = "multinic" =>
    /\ fns \subseteq MultinicFunctions
    /\ \A i \in work : Multi(i) /\ nics[i].pci \notin fns
    /\ \A i, j \in work : nics[i].pci = nics[j].pci

LEMMA FunctionSteps ==
  ASSUME Inv, OnFunctions, Next
  PROVE  OnFunctions'
<1>1. CASE DynamicDone
  BY <1>1 DEF DynamicDone, OnFunctions, MultinicFunctions, WithPci
<1>2. ASSUME NEW fn \in fns, VisitFunction(fn) PROVE OnFunctions'
  <2>1. pc = "multinic" /\ UNCHANGED nics /\ fns' = fns \ {fn} /\ work' \subseteq WithPci(nics, fn)
    BY <1>2 DEF VisitFunction
  <2>2. MultinicFunctions' = MultinicFunctions
    BY <2>1 DEF MultinicFunctions, WithPci
  <2> QED BY <2>1, <2>2 DEF OnFunctions, Multi, WithPci
<1>3. ASSUME NEW i \in work, ReplaceOnFunction(i) PROVE OnFunctions'
  <2>1. /\ pc = "multinic" /\ work' = work \ {i} /\ UNCHANGED <<inputs, fns>>
        /\ \E l \in WithPci(Remembered, nics[i].pci) : Call(i, Remembered[l].tname, "multinic")
    BY <1>3 DEF ReplaceOnFunction
  <2>2. i \in DOMAIN nics /\ nics[i].tname = None /\ work \subseteq DOMAIN nics
    BY <2>1 DEF Inv, TypeOK, PcOK, Accepted, WorkUnnamed
  <2>3. CASE pc' # "multinic"
    BY <2>3 DEF OnFunctions
  <2>4. CASE InPlace
    <3>1. MultinicFunctions' = MultinicFunctions
      BY <2>1, <2>4, Lookups
    <3> QED BY <2>1, <2>2, <2>4, <3>1 DEF OnFunctions, Multi, InPlace
  <2> QED BY <2>1, <2>2, <2>3, <2>4, CallNames DEF Names
<1>4. ASSUME pc' = "multinic", ~DynamicDone, ~\E fn \in fns : VisitFunction(fn),
             ~\E i \in work : ReplaceOnFunction(i)
      PROVE  FALSE
  <2>1. /\ ~Reject /\ ~Accept /\ ~StaticDone /\ ~MultinicDone /\ ~NumberDone
    BY <1>4 DEF Reject, Raise, Accept, StaticDone, MultinicDone, NumberDone
  <2>2. ~StaticRule
    BY <1>4 DEF StaticRule, Skip, Call, Raise
  <2>3. ~\E i \in work : Dynamic(i)
    BY <1>4, DynamicCases DEF Skip, Call, Raise
  <2>4. ~\E i \in work : NumberKept(i) \/ NumberNew(i)
    BY <1>4 DEF NumberKept, NumberNew, NextToNumber, Call, Raise
  <2> QED BY <1>4, <2>1, <2>2, <2>3, <2>4 DEF Next
<1> QED BY <1>1, <1>2, <1>3, <1>4 DEF OnFunctions

LEMMA ReplaceProvenance ==
  ASSUME Inv, Provenance, OnFunctions, NEW i \in work, ReplaceOnFunction(i) PROVE Provenance'
<1>1. pc = "multinic" /\ work' = work \ {i} /\ UNCHANGED <<inputs, k, fns>>
  BY DEF ReplaceOnFunction
<1>2. PICK l \in WithPci(Remembered, nics[i].pci) : Call(i, Remembered[l].tname, "multinic")
  BY DEF ReplaceOnFunction
<1>3. i \in DOMAIN nics /\ nics[i].tname = None
  BY <1>1 DEF Inv, TypeOK, PcOK, Accepted, WorkUnnamed
<1>4. Reason(i, Remembered[l].tname)
  BY <1>1, <1>2 DEF Reason, OnFunctions, WithPci
<1> QED BY <1>1, <1>2, <1>3, <1>4, CallProvenance

LEMMA NumberProvenance ==
  ASSUME Inv, Provenance, NEW i \in work, NumberKept(i) \/ NumberNew(i) PROVE Provenance'
<1>1. pc = "number" /\ UNCHANGED <<inputs, k>>
  BY DEF NumberKept, NumberNew, NextToNumber
<1>2. i \in DOMAIN nics /\ nics[i].tname = None
  BY <1>1 DEF Inv, TypeOK, PcOK, Accepted, WorkUnnamed
<1>3. \A nm : Reason(i, nm)
  BY <1>1 DEF Reason
<1>4. CASE NumberNew(i)
  BY <1>1, <1>2, <1>3, <1>4, CallProvenance DEF NumberNew
<1>5. CASE NumberKept(i)
  <2>1. KeepsKname(i) /\ nics' = [nics EXCEPT ![i].tname = nics[i].kname] /\ pc' = pc
    BY <1>5 DEF NumberKept
  <2> QED BY <1>1, <1>2, <1>3, <2>1, NumberKeptNames, NamesProvenance
<1> QED BY <1>4, <1>5

(* Pass 4 changes the orders first.                                        *)
LEMMA OrdersEffect ==
  ASSUME Inv, MultinicDone
  PROVE  /\ InPlace /\ pc = "multinic" /\ pc' = "number" /\ UNCHANGED <<inputs, error, k>>
         /\ \A i \in DOMAIN nics : nics'[i].tname = nics[i].tname /\ nics'[i].kname = nics[i].kname
         /\ \A i \in DOMAIN nics : DealtOrder(i, nics'[i].order)
<1>1. PICK ord \in [DOMAIN nics -> {nics[i].order : i \in DOMAIN nics}] :
        /\ \A i \in DOMAIN nics : DealtOrder(i, ord[i])
        /\ nics' = [i \in DOMAIN nics |-> [nics[i] EXCEPT !.order = ord[i]]]
  BY DEF MultinicDone
<1>2. \A i \in DOMAIN nics : nics[i] \in Nic
  BY DEF Inv, TypeOK
<1>3. \A i \in DOMAIN nics :
        /\ nics'[i].tname = nics[i].tname /\ nics'[i].kname = nics[i].kname
        /\ nics'[i].mac = nics[i].mac /\ nics'[i].pci = nics[i].pci /\ nics'[i].order = ord[i]
  BY <1>1, <1>2 DEF Nic
<1>4. InPlace
  BY <1>1, <1>3 DEF InPlace
<1> QED BY <1>1, <1>3, <1>4 DEF MultinicDone

LEMMA OrdersProvenance == ASSUME Inv, Provenance, MultinicDone PROVE Provenance'
<1> USE DEF Passes
<1>1. /\ InPlace /\ pc = "multinic" /\ pc' = "number" /\ UNCHANGED <<inputs, k>>
      /\ \A i \in DOMAIN nics : nics'[i].tname = nics[i].tname
  BY OrdersEffect
<1>2. static' = static /\ last' = last /\ \A e : Same(nics', e) = Same(nics, e)
  BY <1>1, Lookups
<1>3. Tidy' /\ Ruled'
  BY <1>1, <1>2 DEF Provenance, Tidy, Ruled, Reached, InPlace, NamesClash, MacsClash
<1> QED BY <1>1, <1>3 DEF Provenance, RulesFirst, Origins

LEMMA StartProvenance == ASSUME Inv, Provenance, Reject \/ Accept PROVE Provenance'
<1> USE DEF Passes
<1>1. CASE Reject
  BY <1>1 DEF Reject, Raise, Provenance, Tidy, Ruled, RulesFirst, Origins
<1>2. CASE Accept
  <2>1. /\ pc = "sanitise" /\ Sanitised /\ UNCHANGED <<inputs, k>>
        /\ nics' = [i \in Considered |-> nics[i]] /\ pc' = IF Considered = {} THEN "done" ELSE "static"
    BY <1>2 DEF Accept
  <2>2. Considered \subseteq DOMAIN nics /\ DOMAIN nics' = Considered
    BY <2>1 DEF Considered
  <2>3. \A i \in DOMAIN nics' : nics'[i].tname = None
    BY <2>1, <2>2 DEF Sanitised, CurrentFine, Faulty
  <2>4. IsFiniteSet(DOMAIN nics')
    BY <2>2, FS_Subset DEF Provenance, Tidy
  <2>5. static' = static /\ last' = last /\ ~NamesClash(static) /\ ~MacsClash(last) /\ ~NamesClash(last)
    BY <2>1 DEF inputs, Sanitised, CurrentFine, BadStatic, BadLast
  <2>6. Tidy'
    BY <2>1, <2>4, <2>5 DEF Tidy, NamesClash, MacsClash
  <2>7. Ruled'
    <3>1. CASE Considered = {}
      BY <2>1, <2>2, <3>1 DEF Ruled
    <3>2. CASE Considered # {}
      <4>1. pc' = "static" /\ k' = 1 /\ \A r \in DOMAIN static : r \in Nat /\ ~(r < 1)
        BY <2>1, <3>2 DEF Provenance, Tidy, Inv, TypeOK
      <4> QED BY <2>5, <4>1 DEF Ruled, Reached
    <3> QED BY <3>1, <3>2
  <2> QED BY <2>3, <2>6, <2>7 DEF Provenance, RulesFirst, Origins
<1> QED BY <1>1, <1>2

LEMMA PassesProvenance ==
  ASSUME Inv, Provenance, StaticDone \/ DynamicDone \/ NumberDone \/ \E fn \in fns : VisitFunction(fn)
  PROVE  Provenance'
BY QuietProvenance DEF StaticDone, DynamicDone, NumberDone, VisitFunction

LEMMA CalledProvenance == Called => Provenance /\ OnFunctions
<1> SUFFICES ASSUME Called PROVE Provenance /\ OnFunctions
  OBVIOUS
<1>1. nics \in Seq(Nic) /\ pc = "sanitise" /\ k = 1
  BY DEF Called
<1>2. IsFiniteSet(DOMAIN nics)
  BY <1>1, FS_Interval
<1> QED BY <1>1, <1>2 DEF Provenance, OnFunctions, Tidy, Passes, Ruled, RulesFirst, Origins

LEMMA NextProvenance ==
  ASSUME Inv, Provenance, OnFunctions, [Next]_vars PROVE Provenance' /\ OnFunctions'
<1>1. CASE Next
  BY <1>1, FunctionSteps, StartProvenance, StaticProvenance, PassesProvenance, DynamicProvenance,
     ReplaceProvenance, OrdersProvenance, NumberProvenance DEF Next
<1>2. CASE UNCHANGED vars
  <2>1. Provenance'
    <3>1. UNCHANGED <<inputs, nics, pc, k, work, fns>>
      BY <1>2 DEF vars, inputs
    <3> QED BY <3>1, QuietProvenance
  <2>2. MultinicFunctions' = MultinicFunctions
    BY <1>2 DEF vars, MultinicFunctions, WithPci
  <2> QED BY <1>2, <2>1, <2>2 DEF vars, OnFunctions, Multi
<1> QED BY <1>1, <1>2

LEMMA AlwaysProvenance == Spec => [](Inv /\ Provenance /\ OnFunctions)
<1>1. Inv /\ (Provenance /\ OnFunctions) /\ [Next]_vars => (Provenance /\ OnFunctions)'
  BY NextProvenance
<1> QED BY <1>1, InitCalled, CalledProvenance, Invariance, PTL DEF Spec

(* A nic that a rule describes has the name of the rule when rename() ends,*)
(* for any rules, nics and memory.                                         *)
THEOREM RulesComeFirst == Spec => []StaticPriority
<1>1. Provenance => StaticPriority
  BY DEF Provenance, Ruled, Passes, Reached, StaticPriority
<1> QED BY <1>1, AlwaysProvenance, PTL

-----------------------------------------------------------------------------
(* Ranks *)

LEMMA Smaller ==
  ASSUME NEW S, IsFiniteSet(S), NEW A, NEW B, B \subseteq S, A \subseteq B, NEW x \in B, x \notin A
  PROVE  Cardinality(A) < Cardinality(B)
<1>1. IsFiniteSet(B) /\ IsFiniteSet(A) /\ Cardinality(A) <= Cardinality(B)
      /\ (Cardinality(B) = Cardinality(A) => B = A)
  BY FS_Subset
<1>2. Cardinality(A) \in Nat /\ Cardinality(B) \in Nat
  BY <1>1, FS_CardinalityType
<1> QED BY <1>1, <1>2

(* Ranks by MAC are in the order of the MACs, and no two are the same.     *)
LEMMA MacRanks ==
  ASSUME NEW es, NEW S, IsFiniteSet(S), S \subseteq Nat, \A j \in S : es[j].mac \in Nat,
         NEW a \in S, NEW b \in S
  PROVE  /\ es[a].mac < es[b].mac => MacRank(es, S, a) < MacRank(es, S, b)
         /\ a # b => MacRank(es, S, a) # MacRank(es, S, b)
         /\ MacRank(es, S, a) \in Nat
<1> DEFINE Below(i) == {j \in S : es[j].mac < es[i].mac \/ (es[j].mac = es[i].mac /\ j < i)}
<1>1. ASSUME NEW i \in S, NEW j \in S, es[i].mac < es[j].mac \/ (es[i].mac = es[j].mac /\ i < j)
      PROVE  MacRank(es, S, i) < MacRank(es, S, j)
  <2>1. Below(i) \subseteq Below(j) /\ Below(j) \subseteq S /\ i \in Below(j) /\ i \notin Below(i)
    <3>1. \A h \in S : h \in Nat /\ es[h].mac \in Nat
      OBVIOUS
    <3> DEFINE m == [h \in S |-> es[h].mac]
               B(n) == {h \in S : m[h] < m[n] \/ (m[h] = m[n] /\ h < n)}
    <3>2. m \in [S -> Nat] /\ (m[i] < m[j] \/ (m[i] = m[j] /\ i < j))
      BY <1>1, <3>1
    <3>3. Below(i) = B(i) /\ Below(j) = B(j)
      OBVIOUS
    <3> HIDE DEF m, Below
    <3>4. B(i) \subseteq B(j) /\ B(j) \subseteq S /\ i \in B(j) /\ i \notin B(i)
      <4>1. i \in Nat /\ j \in Nat /\ m[i] \in Nat /\ m[j] \in Nat
        BY <3>1, <3>2
      <4>2. i \in B(j) /\ i \notin B(i) /\ B(j) \subseteq S
        BY <3>2, <4>1
      <4>3. ASSUME NEW h \in B(i) PROVE h \in B(j)
        <5>1. h \in S /\ h \in Nat /\ m[h] \in Nat /\ (m[h] < m[i] \/ (m[h] = m[i] /\ h < i))
          BY <3>1, <3>2, <4>3
        <5>2. m[h] < m[j] \/ (m[h] = m[j] /\ h < j)
          BY <3>2, <4>1, <5>1
        <5> QED BY <5>1, <5>2
      <4> QED BY <4>2, <4>3
    <3> QED BY <3>3, <3>4
  <2> HIDE DEF Below
  <2>2. Cardinality(Below(i)) < Cardinality(Below(j))
    BY <2>1, Smaller
  <2> QED BY <2>2 DEF MacRank, Below
<1>2. ASSUME NEW i \in S PROVE MacRank(es, S, i) \in Nat
  <2>1. Below(i) \in SUBSET S
    OBVIOUS
  <2> HIDE DEF Below
  <2>2. Cardinality(Below(i)) \in Nat
    BY <2>1, FS_Subset, FS_CardinalityType
  <2> QED BY <2>2 DEF MacRank, Below
<1>3. a # b => \/ es[a].mac < es[b].mac \/ (es[a].mac = es[b].mac /\ a < b)
               \/ es[b].mac < es[a].mac \/ (es[b].mac = es[a].mac /\ b < a)
  <2>1. a \in Nat /\ b \in Nat /\ es[a].mac \in Nat /\ es[b].mac \in Nat
    OBVIOUS
  <2> QED BY <2>1
<1>4. MacRank(es, S, a) \in Nat /\ MacRank(es, S, b) \in Nat
  BY <1>2
<1> QED BY <1>1, <1>3, <1>4

(* The same of the lists that rename() ranks.                              *)
LEMMA RanksOfLists ==
  ASSUME Inv, Tidy, NEW p
  PROVE  /\ \A a, b \in WithPci(nics, p) :
              /\ a # b => MacRank(nics, WithPci(nics, p), a) # MacRank(nics, WithPci(nics, p), b)
              /\ nics[a].mac < nics[b].mac =>
                   MacRank(nics, WithPci(nics, p), a) < MacRank(nics, WithPci(nics, p), b)
         /\ \A a, b \in WithPci(Remembered, p) : a # b =>
              MacRank(Remembered, WithPci(Remembered, p), a) # MacRank(Remembered, WithPci(Remembered, p), b)
         /\ IsFiniteSet(WithPci(nics, p))
<1>1. WithPci(nics, p) \in SUBSET DOMAIN nics /\ WithPci(Remembered, p) \in SUBSET DOMAIN Remembered
  BY DEF WithPci
<1>2. IsFiniteSet(WithPci(nics, p)) /\ IsFiniteSet(WithPci(Remembered, p))
  BY <1>1, MemoryIs, FS_Subset DEF Inv, Tidy
<1>3. /\ DOMAIN nics \subseteq Nat /\ \A j \in DOMAIN nics : nics[j].mac \in Nat
      /\ DOMAIN Remembered \subseteq Nat /\ \A j \in DOMAIN Remembered : Remembered[j].mac \in Nat
  <2>1. \A j \in DOMAIN nics : nics[j] \in Nic
    BY DEF Inv, TypeOK
  <2>2. Remembered \in Seq(Entry)
    BY DEF Inv, TypeOK, Remembered
  <2>3. \A j \in DOMAIN Remembered : Remembered[j] \in Entry /\ j \in Nat
    BY <2>2
  <2> QED BY <2>1, <2>3, RenameAssumption DEF Inv, TypeOK, Nic, Entry
<1>4. /\ WithPci(nics, p) \subseteq Nat /\ \A j \in WithPci(nics, p) : nics[j].mac \in Nat
      /\ WithPci(Remembered, p) \subseteq Nat /\ \A j \in WithPci(Remembered, p) : Remembered[j].mac \in Nat
  BY <1>1, <1>3
<1> QED BY <1>2, <1>4, MacRanks

-----------------------------------------------------------------------------
(* What an unambiguous memory entails.  Heirs are the nics of a function   *)
(* whose nics were all replaced; Takes(i, l) if nic i is alone on the      *)
(* function of entry l of last boot, whose nic is gone.                    *)

Later == {"dynamic", "multinic", "number", "done"}

Described(i) == \E r \in DOMAIN static : i \in Same(nics, static[r])

LastOK(i) ==
  \A l \in DOMAIN last :
    nics[i].mac = last[l].mac => nics[i].tname = last[l].tname \/ Described(i)

Takes(i, l) ==
  /\ nics[i].pci = last[l].pci /\ ~Multi(i) /\ ~(Cardinality(WithPci(last, nics[i].pci)) > 1)
  /\ ~Present(last[l].mac) /\ WithMac(static, nics[i].mac) = {} /\ WithMac(last, nics[i].mac) = {}

PlaceOK(i) == \A l \in DOMAIN last : Takes(i, l) => nics[i].tname = last[l].tname

Heir(i) ==
  LET new == WithPci(nics, nics[i].pci)
      lst == WithPci(Remembered, nics[i].pci)
  IN /\ Multi(i) /\ Cardinality(new) = Cardinality(lst)
     /\ \A j \in new : WithMac(static, nics[j].mac) = {} /\ WithMac(last, nics[j].mac) = {}
     /\ \A l \in lst : ~Present(Remembered[l].mac)

Rank(i)      == MacRank(nics, WithPci(nics, nics[i].pci), i)
Matches(i)   ==
  {l \in WithPci(Remembered, nics[i].pci) :
     MacRank(Remembered, WithPci(Remembered, nics[i].pci), l) = Rank(i)}
HeirOK(i)    == Heir(i) => \A l \in Matches(i) : nics[i].tname = Remembered[l].tname

Waits(i)     == pc = "dynamic" \/ (pc = "multinic" /\ nics[i].pci \in fns)
Served(i)    == pc \in {"number", "done"} \/ (pc = "multinic" /\ nics[i].pci \notin fns /\ i \notin work)

Trusted ==
  /\ pc \in Later =>
       \A i \in DOMAIN nics : (pc = "dynamic" => i \notin work) => LastOK(i) /\ PlaceOK(i)
  /\ \A i \in DOMAIN nics : Waits(i) /\ Heir(i) => nics[i].tname = None
  /\ \A i \in DOMAIN nics : Served(i) => HeirOK(i)
  /\ pc = "multinic" => \A i \in work : \A l \in Matches(i) : TnameFree(Remembered[l].tname)
  /\ error # "AssertionError"

LEMMA Lasting ==
  ASSUME Inv, InPlace, UNCHANGED inputs, NEW i \in DOMAIN nics
  PROVE  /\ Described(i)' = Described(i) /\ Heir(i)' = Heir(i) /\ Matches(i)' = Matches(i)
         /\ \A l \in DOMAIN last : Takes(i, l)' = Takes(i, l)
<1>1. /\ static' = static /\ last' = last /\ Remembered' = Remembered
      /\ MultinicFunctions' = MultinicFunctions
      /\ \A m : Present(m)' <=> Present(m)
      /\ \A e : Same(nics', e) = Same(nics, e)
      /\ \A p : WithPci(nics', p) = WithPci(nics, p)
  BY Lookups
<1>2. \A j \in DOMAIN nics : nics'[j].mac = nics[j].mac /\ nics'[j].pci = nics[j].pci
  BY DEF InPlace
<1>3. WithPci(nics, nics[i].pci) \subseteq DOMAIN nics
  BY DEF WithPci
<1>4. Described(i)' = Described(i)
  BY <1>1 DEF Described
<1>5. Heir(i)' = Heir(i)
  BY <1>1, <1>2, <1>3 DEF Heir, Multi
<1>6. Rank(i)' = Rank(i)
  <2>1. {j \in WithPci(nics, nics[i].pci) :
           nics'[j].mac < nics'[i].mac \/ (nics'[j].mac = nics'[i].mac /\ j < i)}
        = {j \in WithPci(nics, nics[i].pci) :
           nics[j].mac < nics[i].mac \/ (nics[j].mac = nics[i].mac /\ j < i)}
    BY <1>2, <1>3
  <2> QED BY <1>1, <1>2, <2>1 DEF Rank, MacRank
<1>7. Matches(i)' = Matches(i)
  BY <1>1, <1>2, <1>6 DEF Matches, MacRank
<1>8. \A l \in DOMAIN last : Takes(i, l)' = Takes(i, l)
  BY <1>1, <1>2 DEF Takes, Multi
<1> QED BY <1>4, <1>5, <1>7, <1>8

(* What holds of a nic holds as long as it keeps its name.                 *)
LEMMA Persists ==
  ASSUME Inv, InPlace, UNCHANGED inputs, NEW i \in DOMAIN nics,
         nics[i].tname # None => nics'[i].tname = nics[i].tname
  PROVE  /\ LastOK(i) => LastOK(i)'
         /\ PlaceOK(i) => PlaceOK(i)'
         /\ HeirOK(i) => HeirOK(i)'
<1>1. /\ last' = last /\ Remembered' = Remembered /\ nics'[i].mac = nics[i].mac
      /\ Described(i)' = Described(i) /\ Heir(i)' = Heir(i) /\ Matches(i)' = Matches(i)
      /\ \A l \in DOMAIN last : Takes(i, l)' = Takes(i, l)
  BY Lasting, Lookups DEF InPlace
<1>2. /\ \A l \in DOMAIN last : last[l].tname # None
      /\ \A l \in Matches(i) : Remembered[l].tname # None
  <2>1. /\ \A l \in DOMAIN Remembered : Remembered[l].tname # None
        /\ \A l \in DOMAIN last : l \in DOMAIN Remembered /\ Remembered[l] = last[l]
    BY MemoryIs DEF Inv
  <2>2. Matches(i) \subseteq DOMAIN Remembered
    BY DEF Matches, WithPci
  <2> QED BY <2>1, <2>2
<1>3. LastOK(i) => LastOK(i)'
  BY <1>1, <1>2 DEF LastOK
<1>4. PlaceOK(i) => PlaceOK(i)'
  BY <1>1, <1>2 DEF PlaceOK
<1>5. HeirOK(i) => HeirOK(i)'
  BY <1>1, <1>2 DEF HeirOK
<1> QED BY <1>3, <1>4, <1>5

LEMMA StepInPlace ==
  ASSUME Inv, Next, pc # "sanitise"
  PROVE  InPlace /\ UNCHANGED inputs
<1>1. ~Reject /\ ~Accept
  BY DEF Reject, Accept
<1>2. nics' = nics => InPlace
  BY DEF InPlace
<1>3. CASE StaticDone \/ DynamicDone \/ NumberDone \/ \E fn \in fns : VisitFunction(fn)
  BY <1>2, <1>3 DEF StaticDone, DynamicDone, NumberDone, VisitFunction
<1>4. CASE StaticRule \/ \E i \in work : Dynamic(i) \/ ReplaceOnFunction(i) \/ NumberNew(i)
  <2>1. \/ nics' = nics
        \/ \E i \in DOMAIN nics, nm \in Name : nics[i].tname = None /\ Call(i, nm, pc)
    BY <1>4, LoopIsVisit DEF Skip
  <2>2. InPlace
    BY <1>2, <2>1, CallNames DEF Names
  <2> QED BY <1>4, <2>2, DynamicCases DEF StaticRule, ReplaceOnFunction, NumberNew
<1>5. CASE MultinicDone
  BY <1>5, OrdersEffect
<1>6. ASSUME NEW i \in work, NumberKept(i) PROVE InPlace /\ UNCHANGED inputs
  <2>1. i \in DOMAIN nics /\ nics[i].tname = None
    BY <1>6 DEF NumberKept, NextToNumber, Inv, TypeOK, PcOK, Accepted, WorkUnnamed
  <2> QED BY <1>6, <2>1, NumberKeptNames DEF NumberKept, NextToNumber, Names
<1> QED BY <1>1, <1>3, <1>4, <1>5, <1>6 DEF Next

(* The nic that has the name of an entry has it by that entry.             *)
LEMMA Holder ==
  ASSUME Inv, Provenance, Unambiguous, pc \in {"dynamic", "multinic"},
         NEW j \in DOMAIN nics, NEW l \in DOMAIN Remembered, nics[j].tname = Remembered[l].tname
  PROVE  /\ Present(Remembered[l].mac) =>
              Remembered[l].mac = nics[j].mac \/ (pc = "multinic" /\ Multi(j) /\ nics[j].pci \notin fns)
         /\ ~Present(Remembered[l].mac) => Remembered[l].pci = nics[j].pci /\
              (~Multi(j) \/ (pc = "multinic" /\ nics[j].pci \notin fns))
<1>1. nics[j].tname # None
  BY MemoryIs DEF Inv
<1>2. Present(nics[j].mac)
  BY DEF Present, WithMac
<1>3. ByRule(j) \/ \E m \in DOMAIN Remembered : ByEntry(j, m)
  BY <1>1 DEF Provenance, Origins
<1>4. CASE ByRule(j)
  <2>1. PICK r \in DOMAIN static : j \in Same(nics, static[r]) /\ nics[j].tname = static[r].tname
    BY <1>4 DEF ByRule
  <2>2. static[r].mac = nics[j].mac
    BY <2>1 DEF Same, WithMac
  <2>3. static[r].mac = Remembered[l].mac
    BY <2>1 DEF Unambiguous
  <2> QED BY <1>2, <2>2, <2>3
<1>5. ASSUME NEW m \in DOMAIN Remembered, ByEntry(j, m) PROVE m = l
  BY <1>5 DEF ByEntry, Unambiguous, NamesClash
<1>6. CASE ByEntry(j, l)
  BY <1>2, <1>6 DEF ByEntry
<1> QED BY <1>3, <1>4, <1>5, <1>6

LEMMA OwnIsFree ==
  ASSUME Inv, Provenance, Unambiguous, pc = "dynamic", NEW i \in DOMAIN nics, nics[i].tname = None,
         NEW l \in DOMAIN Remembered, Remembered[l].mac = nics[i].mac
  PROVE  TnameFree(Remembered[l].tname) /\ ~Refused(Remembered[l].tname)
<1>1. ~MacsClash(nics) /\ Present(Remembered[l].mac)
  BY DEF Inv, Accepted, PcOK, Present, WithMac
<1>2. ASSUME NEW j \in DOMAIN nics, nics[j].tname = Remembered[l].tname PROVE FALSE
  <2>1. nics[j].mac = nics[i].mac
    BY <1>1, <1>2, Holder
  <2>2. j = i
    BY <1>1, <2>1 DEF MacsClash
  <2> QED BY <1>2, <2>2, MemoryIs DEF Inv
<1> QED BY <1>2 DEF TnameFree, Refused, Unambiguous

LEMMA PlaceIsFree ==
  ASSUME Inv, Provenance, Unambiguous, pc = "dynamic", NEW i \in DOMAIN nics, nics[i].tname = None,
         NEW l \in DOMAIN Remembered, Remembered[l].pci = nics[i].pci, ~Multi(i),
         ~Present(Remembered[l].mac)
  PROVE  ~Refused(Remembered[l].tname)
<1>1. ASSUME NEW j \in DOMAIN nics, nics[j].tname = Remembered[l].tname PROVE FALSE
  <2>1. nics[j].pci = nics[i].pci
    BY <1>1, Holder
  <2>2. j # i
    BY <1>1, MemoryIs DEF Inv
  <2>3. IsFiniteSet(WithPci(nics, nics[i].pci))
    BY RanksOfLists DEF Provenance
  <2>4. i \in WithPci(nics, nics[i].pci) /\ j \in WithPci(nics, nics[i].pci)
    BY <2>1 DEF WithPci
  <2>5. Cardinality(WithPci(nics, nics[i].pci)) > 1
    BY <2>2, <2>3, <2>4, Several
  <2> QED BY <2>5 DEF Multi, MultinicFunctions
<1> QED BY <1>1 DEF TnameFree, Refused, Unambiguous

LEMMA HeirsAreFree ==
  ASSUME Inv, Provenance, Unambiguous, pc = "multinic", NEW fn \in fns, fn \in MultinicFunctions,
         NEW l \in WithPci(Remembered, fn), ~Present(Remembered[l].mac)
  PROVE  TnameFree(Remembered[l].tname)
<1>1. l \in DOMAIN Remembered /\ Remembered[l].pci = fn
  BY DEF WithPci
<1>2. ASSUME NEW j \in DOMAIN nics, nics[j].tname = Remembered[l].tname PROVE FALSE
  <2>1. nics[j].pci = fn /\ ~Multi(j)
    BY <1>1, <1>2, Holder
  <2> QED BY <2>1 DEF Multi
<1> QED BY <1>2 DEF TnameFree

LEMMA TrustStatic ==
  ASSUME Inv, Provenance, Unambiguous, StaticRule \/ StaticDone
  PROVE  Trusted'
<1>1. pc = "static" /\ error = "none"
  BY DEF StaticRule, StaticDone, Inv, PcOK
<1>2. CASE StaticRule
  <2>1. k \in DOMAIN static
    BY <1>2 DEF StaticRule, Inv, TypeOK
  <2>2. ~Refused(static[k].tname)
    <3>1. ASSUME NEW j \in DOMAIN nics, nics[j].tname = static[k].tname PROVE FALSE
      <4>1. static[k] \in Entry
        BY <2>1 DEF Inv, TypeOK
      <4>2. nics[j].tname # None
        BY <3>1, <4>1, RenameAssumption DEF Entry
      <4>3. PICK r \in DOMAIN static : r < k /\ nics[j].tname = static[r].tname
        BY <1>1, <4>2 DEF Provenance, RulesFirst, ByRule, Reached
      <4>4. k \in Int
        BY DEF Inv, TypeOK
      <4>5. r # k
        BY <4>3, <4>4
      <4> QED BY <1>1, <2>1, <3>1, <4>3, <4>5 DEF Provenance, Tidy, Passes, NamesClash
    <3> QED BY <2>1, <3>1 DEF Refused, TnameFree, Unambiguous
  <2>3. pc' = "static" /\ error' = error
    BY <1>1, <1>2, <2>2 DEF StaticRule, Skip, Call
  <2> QED BY <1>1, <2>3 DEF Trusted, Later, Waits, Served
<1>3. CASE StaticDone
  <2>1. pc' = "dynamic" /\ work' = DOMAIN nics /\ nics' = nics /\ UNCHANGED <<inputs, error>>
    BY <1>3 DEF StaticDone
  <2>2. ASSUME NEW i \in DOMAIN nics, Heir(i) PROVE nics[i].tname = None
    <3>1. WithMac(static, nics[i].mac) = {}
      BY <2>2 DEF Heir, WithPci
    <3>2. ~ByRule(i)
      BY <3>1 DEF ByRule, Same, WithMac
    <3> QED BY <1>1, <3>2 DEF Provenance, RulesFirst
  <2>3. InPlace
    BY <2>1 DEF InPlace
  <2>4. \A i \in DOMAIN nics : Heir(i)' = Heir(i)
    BY <2>1, <2>3, Lasting
  <2> QED BY <1>1, <2>1, <2>2, <2>4 DEF Trusted, Waits, Served
<1> QED BY <1>2, <1>3

(* The nic that an iteration of pass 2 is about.                           *)
LEMMA TrustVisited ==
  ASSUME Inv, Provenance, Unambiguous, Trusted, NEW i \in work, Dynamic(i)
  PROVE  /\ error' = error /\ pc' = "dynamic"
         /\ LastOK(i)' /\ PlaceOK(i)'
         /\ nics' = nics \/ (\E nm : Names(i, nm) /\ ~Heir(i))
<1>1. /\ pc = "dynamic" /\ i \in DOMAIN nics /\ work' = work \ {i} /\ UNCHANGED <<inputs, k, fns>>
  BY DynamicCases
<1>2. /\ \A l \in DOMAIN last : l \in DOMAIN Remembered /\ Remembered[l] = last[l]
      /\ \A l \in DOMAIN old : \E m \in DOMAIN Remembered : Remembered[m] = old[l]
      /\ \A l \in DOMAIN Remembered : l \in Nat /\ Remembered[l].tname # None
      /\ \A l \in DOMAIN Remembered : l \notin DOMAIN last => \A m \in DOMAIN last : m < l
      /\ IsFiniteSet(DOMAIN last)
  BY MemoryIs DEF Inv
<1>3. CASE nics[i].tname # None /\ Skip
  <2>1. ByRule(i)
    BY <1>1, <1>3 DEF Provenance, RulesFirst
  <2>2. Described(i) /\ WithMac(static, nics[i].mac) # {}
    BY <2>1 DEF ByRule, Described, Same, WithMac
  <2>3. LastOK(i) /\ PlaceOK(i)
    BY <2>2 DEF LastOK, PlaceOK, Takes
  <2>4. InPlace
    BY <1>3 DEF Skip, InPlace
  <2> QED BY <1>1, <1>3, <2>3, <2>4, Persists DEF Skip
<1>4. ASSUME nics[i].tname = None, NEW l \in DOMAIN last, last[l].mac = nics[i].mac,
             Call(i, last[l].tname, "dynamic") \/ (~TnameFree(last[l].tname) /\ Skip)
      PROVE  /\ error' = error /\ pc' = "dynamic" /\ Names(i, last[l].tname)
             /\ ~Heir(i) /\ LastOK(i)' /\ PlaceOK(i)'
  <2>1. TnameFree(last[l].tname) /\ ~Refused(last[l].tname)
    BY <1>1, <1>2, <1>4, OwnIsFree
  <2>2. error' = error /\ pc' = "dynamic" /\ Names(i, last[l].tname)
    BY <1>1, <1>4, <2>1, CallNames
  <2>3. ~Heir(i) /\ \A m \in DOMAIN last : ~Takes(i, m)
    BY <1>1, <1>4 DEF Heir, Takes, WithMac, WithPci
  <2>4. \A m \in DOMAIN last : last[m].mac = nics[i].mac => m = l
    BY <1>1, <1>4 DEF Provenance, Tidy, Passes, MacsClash
  <2>5. InPlace /\ nics'[i].tname = last[l].tname
    BY <2>2 DEF Names
  <2>6. /\ last' = last /\ nics'[i].mac = nics[i].mac
        /\ \A m \in DOMAIN last : ~Takes(i, m)'
    BY <1>1, <2>3, <2>5, Lasting, Lookups DEF InPlace
  <2> QED BY <2>2, <2>3, <2>4, <2>5, <2>6 DEF LastOK, PlaceOK
<1>5. ASSUME nics[i].tname = None, WithMac(last, nics[i].mac) = {}
      PROVE  /\ LastOK(i)
             /\ InPlace => LastOK(i)'
  <2>1. \A l \in DOMAIN last : last[l].mac # nics[i].mac
    BY <1>5 DEF WithMac
  <2> QED BY <1>1, <2>1 DEF LastOK, InPlace, inputs
<1>6. ASSUME NEW l \in DOMAIN last, Takes(i, l), NEW m \in DOMAIN Remembered,
             IsFirst(m, WithPci(Remembered, nics[i].pci))
      PROVE  m = l
  <2>1. Remembered[m].pci = nics[i].pci /\ m <= l
    BY <1>2, <1>6 DEF IsFirst, WithPci, Takes
  <2>2. m \in DOMAIN last
    BY <1>2, <2>1
  <2>3. m \in WithPci(last, nics[i].pci) /\ l \in WithPci(last, nics[i].pci)
    BY <1>2, <1>6, <2>1, <2>2 DEF Takes, WithPci
  <2>4. IsFiniteSet(WithPci(last, nics[i].pci))
    BY <1>2, FS_Subset DEF WithPci
  <2> QED BY <1>6, <2>3, <2>4, Several DEF Takes
<1>7. \A l \in DOMAIN last : Takes(i, l) =>
        ~Multi(i) /\ ~Present(Remembered[l].mac) /\ WithPci(Remembered, nics[i].pci) # {}
  BY <1>2 DEF Takes, WithPci
<1>8. ASSUME nics[i].tname = None, WithMac(last, nics[i].mac) = {}, Skip,
             \A l \in DOMAIN last : ~Takes(i, l)
      PROVE  error' = error /\ pc' = "dynamic" /\ LastOK(i)' /\ PlaceOK(i)' /\ nics' = nics
  <2>1. InPlace /\ error' = error /\ pc' = "dynamic" /\ nics' = nics
    BY <1>1, <1>8 DEF Skip, InPlace
  <2>2. PlaceOK(i)
    BY <1>8 DEF PlaceOK
  <2> QED BY <1>1, <1>5, <1>8, <2>1, <2>2, Persists
<1>9. ASSUME nics[i].tname = None, WithMac(last, nics[i].mac) = {}, ~Multi(i),
             NEW nm, Call(i, nm, "dynamic"), ~Refused(nm),
             \A l \in DOMAIN last : Takes(i, l) => nm = last[l].tname
      PROVE  /\ error' = error /\ pc' = "dynamic" /\ LastOK(i)' /\ PlaceOK(i)'
             /\ Names(i, nm) /\ ~Heir(i)
  <2>1. error' = error /\ pc' = "dynamic" /\ Names(i, nm)
    BY <1>1, <1>9, CallNames
  <2>2. InPlace /\ nics'[i].tname = nm
    BY <2>1 DEF Names
  <2>3. last' = last /\ \A l \in DOMAIN last : Takes(i, l)' = Takes(i, l)
    BY <1>1, <2>2, Lasting, Lookups
  <2>4. PlaceOK(i)'
    BY <1>9, <2>2, <2>3 DEF PlaceOK
  <2> QED BY <1>5, <1>9, <2>1, <2>2, <2>4 DEF Heir
<1>10. ASSUME nics[i].tname = None, WithMac(last, nics[i].mac) = {}, ~Multi(i),
              NEW l \in DOMAIN Remembered, IsFirst(l, WithPci(Remembered, nics[i].pci)),
              ~Present(Remembered[l].mac), Call(i, Remembered[l].tname, "dynamic")
       PROVE  /\ error' = error /\ pc' = "dynamic" /\ LastOK(i)' /\ PlaceOK(i)'
              /\ Names(i, Remembered[l].tname) /\ ~Heir(i)
  <2>1. Remembered[l].pci = nics[i].pci
    BY <1>10 DEF IsFirst, WithPci
  <2>2. ~Refused(Remembered[l].tname)
    BY <1>1, <1>10, <2>1, PlaceIsFree
  <2>3. \A m \in DOMAIN last : Takes(i, m) => Remembered[l].tname = last[m].tname
    BY <1>2, <1>6, <1>10
  <2> QED BY <1>9, <1>10, <2>2, <2>3
<1>11. ASSUME nics[i].tname = None, WithMac(last, nics[i].mac) = {}, ~Multi(i),
              WithPci(Remembered, nics[i].pci) = {},
              NEW l \in DOMAIN old, old[l].mac = nics[i].mac, Call(i, old[l].tname, "dynamic")
       PROVE  /\ error' = error /\ pc' = "dynamic" /\ LastOK(i)' /\ PlaceOK(i)'
              /\ Names(i, old[l].tname) /\ ~Heir(i)
  <2>1. PICK m \in DOMAIN Remembered : Remembered[m] = old[l]
    BY <1>2
  <2>2. ~Refused(old[l].tname)
    BY <1>1, <1>11, <2>1, OwnIsFree
  <2> QED BY <1>7, <1>9, <1>11, <2>2
<1>12. ASSUME nics[i].tname = None, WithMac(last, nics[i].mac) = {},
              NEW l \in DOMAIN Remembered, IsFirst(l, WithPci(Remembered, nics[i].pci)),
              Present(Remembered[l].mac)
       PROVE  \A m \in DOMAIN last : ~Takes(i, m)
  BY <1>6, <1>7, <1>12
<1> QED BY <1>3, <1>4, <1>7, <1>8, <1>10, <1>11, <1>12, DynamicCases

LEMMA TrustDynamic ==
  ASSUME Inv, Provenance, Unambiguous, Trusted, NEW i \in work, Dynamic(i)
  PROVE  Trusted'
<1>1. /\ pc = "dynamic" /\ i \in DOMAIN nics /\ work' = work \ {i} /\ UNCHANGED <<inputs, k, fns>>
  BY DynamicCases
<1>2. /\ error' = error /\ pc' = "dynamic" /\ LastOK(i)' /\ PlaceOK(i)'
      /\ nics' = nics \/ (\E nm : Names(i, nm) /\ ~Heir(i))
  BY TrustVisited
<1>3. InPlace /\ \A j \in DOMAIN nics : j # i => nics'[j].tname = nics[j].tname
  BY <1>2 DEF InPlace, Names
<1>4. \A j \in DOMAIN nics : Heir(j)' = Heir(j)
  BY <1>1, <1>3, Lasting
<1>5. ASSUME NEW j \in DOMAIN nics, j \notin work' PROVE LastOK(j)' /\ PlaceOK(j)'
  <2>1. CASE j = i
    BY <1>2, <2>1
  <2>2. CASE j # i
    <3>1. LastOK(j) /\ PlaceOK(j)
      BY <1>1, <1>5, <2>2 DEF Trusted, Later
    <3> QED BY <1>1, <1>3, <2>2, <3>1, Persists
  <2> QED BY <2>1, <2>2
<1>6. ASSUME NEW j \in DOMAIN nics, Heir(j) PROVE nics'[j].tname = None
  <2>1. nics[j].tname = None
    BY <1>1, <1>6 DEF Trusted, Waits
  <2> QED BY <1>2, <1>3, <1>6, <2>1
<1>7. DOMAIN nics' = DOMAIN nics
  BY <1>3 DEF InPlace
<1> QED BY <1>2, <1>4, <1>5, <1>6, <1>7 DEF Trusted, Served

LEMMA TrustFunctions ==
  ASSUME Inv, Provenance, OnFunctions, Unambiguous, Trusted,
         DynamicDone \/ \E fn \in fns : VisitFunction(fn)
  PROVE  Trusted'
<1>1. nics' = nics /\ pc' = "multinic" /\ UNCHANGED <<inputs, error>>
  BY DEF DynamicDone, VisitFunction
<1>2. InPlace
  BY <1>1 DEF InPlace
<1>3. \A j \in DOMAIN nics : LastOK(j) /\ PlaceOK(j)
  BY DEF Trusted, Later, DynamicDone, VisitFunction
<1>4. \A j \in DOMAIN nics : LastOK(j)' /\ PlaceOK(j)'
  BY <1>1, <1>2, <1>3, Persists
<1>5. \A j \in DOMAIN nics : Heir(j)' = Heir(j) /\ Matches(j)' = Matches(j) /\ (HeirOK(j) => HeirOK(j)')
  BY <1>1, <1>2, Lasting, Persists
<1>6. Remembered' = Remembered
  BY <1>1, <1>2, Lookups
<1>7. CASE DynamicDone
  <2>1. pc = "dynamic" /\ work' = {} /\ fns' = MultinicFunctions
    BY <1>7 DEF DynamicDone
  <2>2. \A j \in DOMAIN nics : Heir(j) => nics[j].tname = None
    BY <2>1 DEF Trusted, Waits
  <2>3. \A j \in DOMAIN nics : Served(j)' => ~Heir(j)
    BY <1>1, <2>1 DEF Served, Heir, Multi
  <2>4. \A j \in DOMAIN nics : Served(j)' => HeirOK(j)'
    BY <1>5, <2>3 DEF HeirOK
  <2> QED BY <1>1, <1>4, <1>5, <2>1, <2>2, <2>4 DEF Trusted
<1>8. ASSUME NEW fn \in fns, VisitFunction(fn) PROVE Trusted'
  <2>1. /\ pc = "multinic" /\ work = {} /\ fns' = fns \ {fn}
        /\ work' = IF Replaceable(fn) THEN WithPci(nics, fn) ELSE {}
    BY <1>8 DEF VisitFunction
  <2>2. \A j \in DOMAIN nics : Waits(j)' /\ Heir(j)' => nics'[j].tname = None
    BY <1>1, <1>5, <2>1 DEF Trusted, Waits
  <2>3. ASSUME NEW j \in DOMAIN nics, Served(j)' PROVE HeirOK(j)'
    <3>1. nics[j].pci \notin fns' /\ j \notin work'
      BY <1>1, <2>3 DEF Served
    <3>2. CASE nics[j].pci # fn
      BY <1>5, <2>1, <3>1, <3>2 DEF Trusted, Served
    <3>3. CASE nics[j].pci = fn
      <4>1. ASSUME Heir(j) PROVE FALSE
        <5>1. fn \in MultinicFunctions
          BY <2>1 DEF OnFunctions
        <5>2. \A l \in WithPci(Remembered, fn) : TnameFree(Remembered[l].tname)
          BY <2>1, <3>3, <4>1, <5>1, HeirsAreFree DEF Heir
        <5>3. \A h \in WithPci(nics, fn) : Heir(h)
          BY <3>3, <4>1 DEF Heir, Multi, WithPci
        <5>4. \A h \in WithPci(nics, fn) : nics[h].tname = None
          BY <2>1, <5>3 DEF Trusted, Waits, WithPci
        <5>5. Cardinality(WithPci(Remembered, fn)) = Cardinality(WithPci(nics, fn))
          BY <3>3, <4>1 DEF Heir
        <5>6. Replaceable(fn)
          BY <5>2, <5>4, <5>5 DEF Replaceable, NeedsRenaming
        <5> QED BY <2>1, <3>1, <3>3, <5>6 DEF WithPci
      <4> QED BY <1>5, <4>1 DEF HeirOK
    <3> QED BY <3>2, <3>3
  <2>4. ASSUME NEW j \in work', NEW l \in Matches(j) PROVE TnameFree(Remembered[l].tname)
    <3>1. Replaceable(fn) /\ j \in WithPci(nics, fn)
      BY <2>1, <2>4
    <3> QED BY <2>4, <3>1 DEF Replaceable, Matches, WithPci
  <2>5. \A j \in work' : j \in DOMAIN nics
    BY <2>1 DEF WithPci
  <2> QED BY <1>1, <1>4, <1>5, <1>6, <2>2, <2>3, <2>4, <2>5 DEF Trusted, TnameFree
<1> QED BY <1>7, <1>8

LEMMA TrustReplace ==
  ASSUME Inv, Provenance, OnFunctions, Unambiguous, Trusted, NEW i \in work, ReplaceOnFunction(i)
  PROVE  Trusted'
<1>1. pc = "multinic" /\ work' = work \ {i} /\ UNCHANGED <<inputs, k, fns>> /\ work \subseteq DOMAIN nics
  BY DEF ReplaceOnFunction, Inv, TypeOK
<1>2. PICK l \in Matches(i) : Call(i, Remembered[l].tname, "multinic")
  BY DEF ReplaceOnFunction, Matches, Rank
<1>3. i \in DOMAIN nics /\ nics[i].tname = None
  BY <1>1 DEF Inv, TypeOK, PcOK, Accepted, WorkUnnamed
<1>4. l \in DOMAIN Remembered /\ TnameFree(Remembered[l].tname)
  BY <1>1, <1>2 DEF Trusted, Matches, WithPci
<1>5. Names(i, Remembered[l].tname) /\ pc' = "multinic" /\ error' = error
  BY <1>2, <1>3, <1>4, CallNames DEF Refused, Unambiguous
<1>6. /\ InPlace /\ nics'[i].tname = Remembered[l].tname
      /\ DOMAIN nics' = DOMAIN nics
      /\ \A j \in DOMAIN nics : nics'[j].pci = nics[j].pci
      /\ \A j \in DOMAIN nics \ {i} : nics'[j].tname = nics[j].tname
  BY <1>5 DEF Names, InPlace
<1>7. \A j \in DOMAIN nics : Heir(j)' = Heir(j) /\ Matches(j)' = Matches(j)
  BY <1>1, <1>6, Lasting
<1>8. /\ \A j \in DOMAIN nics : LastOK(j)' /\ PlaceOK(j)' /\ (HeirOK(j) => HeirOK(j)')
      /\ Remembered' = Remembered
  BY <1>1, <1>3, <1>6, Persists, Lookups DEF Trusted, Later
<1>9. \A j \in DOMAIN nics : Waits(j)' /\ Heir(j)' => nics'[j].tname = None
  <2>1. ~Waits(i)'
    BY <1>1, <1>5, <1>6 DEF Waits, OnFunctions
  <2> QED BY <1>1, <1>5, <1>6, <1>7, <2>1 DEF Trusted, Waits
<1>10. HeirOK(i)'
  <2>1. \A m \in Matches(i) : m = l
    BY <1>2, RanksOfLists DEF Matches, Provenance
  <2> QED BY <1>3, <1>6, <1>7, <1>8, <2>1 DEF HeirOK
<1>11. \A j \in DOMAIN nics : Served(j)' => HeirOK(j)'
  BY <1>1, <1>5, <1>6, <1>8, <1>10 DEF Trusted, Served
<1>12. ASSUME NEW j \in work', NEW m \in Matches(j) PROVE TnameFree(Remembered[m].tname)'
  <2>1. j \in work /\ j # i /\ nics[j].pci = nics[i].pci /\ TnameFree(Remembered[m].tname)
    BY <1>1, <1>12 DEF OnFunctions, Trusted
  <2>2. i \in WithPci(nics, nics[i].pci) /\ j \in WithPci(nics, nics[i].pci)
    BY <1>1, <1>3, <2>1 DEF WithPci
  <2>3. Rank(j) # Rank(i)
    BY <2>1, <2>2, RanksOfLists DEF Rank, Provenance
  <2>4. m # l
    BY <1>2, <1>12, <2>1, <2>3 DEF Matches
  <2>5. m \in DOMAIN Remembered
    BY <1>12 DEF Matches, WithPci
  <2>6. Remembered[m].tname # Remembered[l].tname
    BY <1>4, <2>4, <2>5 DEF Unambiguous, NamesClash
  <2> QED BY <1>6, <1>8, <2>1, <2>6 DEF TnameFree
<1>13. \A j \in work' : \A m \in Matches(j)' : TnameFree(Remembered[m].tname)'
  BY <1>1, <1>7, <1>12
<1> QED BY <1>5, <1>6, <1>8, <1>9, <1>11, <1>13 DEF Trusted

-----------------------------------------------------------------------------
(* Pass 4: the numbers of the names in use are below the next new one.     *)

Counted ==
  pc = "number" =>
    \A i \in DOMAIN nics : IsEth(CurName(nics[i])) => CurName(nics[i]).num < nextethnum

LEMMA CountedSteps ==
  ASSUME Inv, Counted, Next
  PROVE  Counted'
<1>0. \A j \in DOMAIN nics : nics[j] \in Nic
  BY DEF Inv, TypeOK
<1>1. CASE MultinicDone
  <2>1. /\ nextethnum' \in {n \in {0} \cup {m + 1 : m \in EthNumbers} : IsNextEthNumber(n)}
        /\ DOMAIN nics' = DOMAIN nics
        /\ \A i \in DOMAIN nics : CurName(nics'[i]) = CurName(nics[i])
    BY <1>1, OrdersEffect DEF MultinicDone, InPlace, CurName
  <2>2. \A m \in EthNumbers : m < nextethnum'
    BY <2>1 DEF IsNextEthNumber
  <2>3. \A i \in DOMAIN nics : IsEth(CurName(nics[i])) => CurName(nics[i]).num \in EthNumbers
    BY DEF EthNumbers
  <2> QED BY <2>1, <2>2, <2>3 DEF Counted
<1>2. ASSUME NEW i \in work, NumberNew(i) PROVE Counted'
  <2>1. /\ pc = "number" /\ Call(i, Eth(nextethnum), "number") /\ nextethnum' = nextethnum + 1
        /\ nextethnum \in Nat /\ i \in DOMAIN nics /\ nics[i].tname = None
    BY <1>2 DEF NumberNew, NextToNumber, Inv, TypeOK, PcOK, Accepted, WorkUnnamed
  <2>2. CASE pc' = "raised"
    BY <2>2 DEF Counted
  <2>3. CASE Names(i, Eth(nextethnum))
    <3>1. /\ DOMAIN nics' = DOMAIN nics /\ nics'[i].tname = Eth(nextethnum)
          /\ Eth(nextethnum) # None /\ Eth(nextethnum).num = nextethnum
      <4>1. Eth(nextethnum) \in Name
        BY <2>1 DEF Eth, Name
      <4> QED BY <2>3, <4>1, RenameAssumption DEF Names, InPlace, Eth
    <3>2. CurName(nics'[i]).num < nextethnum'
      BY <2>1, <3>1 DEF CurName
    <3>3. ASSUME NEW j \in DOMAIN nics, j # i, IsEth(CurName(nics'[j]))
          PROVE  CurName(nics'[j]).num < nextethnum'
      <4>1. /\ nics'[j].tname = nics[j].tname
            /\ nics'[j].kname = nics[j].kname \/ ~IsEth(nics'[j].kname)
        BY <2>3, <3>3 DEF Names
      <4>2. CurName(nics'[j]) = CurName(nics[j])
        BY <3>3, <4>1 DEF CurName
      <4>3. CurName(nics[j]).num < nextethnum
        BY <2>1, <3>3, <4>2 DEF Counted
      <4>4. CurName(nics[j]).num \in Nat
        BY <1>0 DEF Nic, Name, CurName
      <4> QED BY <2>1, <4>2, <4>3, <4>4
    <3> QED BY <3>1, <3>2, <3>3 DEF Counted
  <2> QED BY <2>1, <2>2, <2>3, CallNames
<1>3. ASSUME NEW i \in work, NumberKept(i) PROVE Counted'
  <2>1. /\ pc = "number" /\ nextethnum' = nextethnum /\ i \in DOMAIN nics /\ nics[i].tname = None
        /\ nics' = [nics EXCEPT ![i].tname = nics[i].kname]
    BY <1>3 DEF NumberKept, NextToNumber, Inv, TypeOK, PcOK, Accepted, WorkUnnamed
  <2>2. /\ DOMAIN nics' = DOMAIN nics /\ nics'[i].tname = nics[i].kname
        /\ \A j \in DOMAIN nics \ {i} : nics'[j] = nics[j]
        /\ nics[i].kname # None
    BY <1>0, <2>1, RenameAssumption DEF Nic
  <2>3. \A j \in DOMAIN nics : CurName(nics'[j]) = CurName(nics[j])
    BY <2>1, <2>2 DEF CurName
  <2> QED BY <2>1, <2>2, <2>3 DEF Counted
<1>4. ASSUME pc' = "number", ~MultinicDone, ~\E i \in work : NumberKept(i) \/ NumberNew(i)
      PROVE  FALSE
  <2>1. ~Reject /\ ~Accept /\ ~StaticDone /\ ~DynamicDone /\ ~NumberDone
    BY <1>4 DEF Reject, Raise, Accept, StaticDone, DynamicDone, NumberDone
  <2>2. ~StaticRule /\ ~\E fn \in fns : VisitFunction(fn)
    BY <1>4 DEF StaticRule, Skip, Call, Raise, VisitFunction
  <2>3. ~\E i \in work : Dynamic(i) \/ ReplaceOnFunction(i)
    BY <1>4, DynamicCases DEF ReplaceOnFunction, Skip, Call, Raise
  <2> QED BY <1>4, <2>1, <2>2, <2>3 DEF Next
<1> QED BY <1>1, <1>2, <1>3, <1>4 DEF Counted

LEMMA TrustNumbers ==
  ASSUME Inv, Counted, Unambiguous, Trusted,
         MultinicDone \/ NumberDone \/ \E i \in work : NumberKept(i) \/ NumberNew(i)
  PROVE  Trusted'
<1>1. ASSUME NEW i \in work, NumberNew(i) PROVE pc' = "number" /\ error' = error
  <2>1. pc = "number" /\ Call(i, Eth(nextethnum), "number") /\ nextethnum \in Nat
    BY <1>1 DEF NumberNew, NextToNumber, Inv, TypeOK
  <2>2. ASSUME NEW j \in DOMAIN nics, nics[j].tname = Eth(nextethnum) PROVE FALSE
    <3>1. CurName(nics[j]) = Eth(nextethnum)
      <4>1. Eth(nextethnum) \in Name
        BY <2>1 DEF Eth, Name
      <4> QED BY <2>2, <4>1, RenameAssumption DEF CurName
    <3>2. IsEth(Eth(nextethnum)) /\ Eth(nextethnum).num = nextethnum
      BY DEF IsEth, Eth
    <3>3. nextethnum < nextethnum
      BY <2>1, <3>1, <3>2 DEF Counted
    <3> QED BY <2>1, <3>3
  <2>3. ~Refused(Eth(nextethnum))
    BY <2>2 DEF Refused, TnameFree, IsEth, Eth
  <2> QED BY <2>1, <2>3 DEF Call
<1>2. /\ pc \in {"multinic", "number"} /\ pc' \in {"number", "done"} /\ error' = error
      /\ (pc = "multinic" => fns = {} /\ work = {})
  BY <1>1 DEF MultinicDone, NumberDone, NumberKept, NumberNew, NextToNumber
<1>3. InPlace /\ UNCHANGED inputs
  BY <1>2, StepInPlace DEF Next
<1>4. \A j \in DOMAIN nics : nics[j].tname # None => nics'[j].tname = nics[j].tname
  <2>1. CASE MultinicDone \/ NumberDone
    BY <2>1, OrdersEffect DEF NumberDone
  <2>2. ASSUME NEW i \in work, NumberKept(i) \/ NumberNew(i)
        PROVE  \A j \in DOMAIN nics : nics[j].tname # None => nics'[j].tname = nics[j].tname
    <3>1. i \in DOMAIN nics /\ nics[i].tname = None
      BY <2>2 DEF NumberKept, NumberNew, NextToNumber, Inv, TypeOK, PcOK, Accepted, WorkUnnamed
    <3>2. nics' = nics \/ \E nm : Names(i, nm)
      BY <2>2, <3>1, CallNames, NumberKeptNames DEF NumberKept, NumberNew
    <3> QED BY <3>1, <3>2 DEF Names
  <2> QED BY <2>1, <2>2
<1>5. \A j \in DOMAIN nics : LastOK(j) /\ PlaceOK(j) /\ HeirOK(j)
  BY <1>2 DEF Trusted, Later, Served
<1>6. \A j \in DOMAIN nics : LastOK(j)' /\ PlaceOK(j)' /\ HeirOK(j)'
  BY <1>3, <1>4, <1>5, Persists
<1>7. DOMAIN nics' = DOMAIN nics
  BY <1>3 DEF InPlace
<1> QED BY <1>2, <1>6, <1>7 DEF Trusted, Waits

LEMMA TrustStart ==
  ASSUME Inv, Reject \/ Accept PROVE Trusted'
<1>1. CASE Reject
  BY <1>1 DEF Reject, Raise, Trusted, Later, Waits, Served
<1>2. CASE Accept
  <2>1. /\ error' = "none" /\ DOMAIN nics' = Considered
        /\ pc' = "static" \/ (pc' = "done" /\ Considered = {})
    BY <1>2 DEF Accept, Inv, PcOK
  <2> QED BY <2>1 DEF Trusted, Later, Waits, Served
<1> QED BY <1>1, <1>2

-----------------------------------------------------------------------------
(* The theorems *)

TrustInv  == Unambiguous => Trusted
MemoryInv == (Inv /\ Provenance /\ OnFunctions) /\ (Counted /\ TrustInv)

LEMMA CalledMemory == Called => MemoryInv
<1> SUFFICES ASSUME Called PROVE MemoryInv
  OBVIOUS
<1>1. Inv /\ Provenance /\ OnFunctions
  BY CalledInv, CalledProvenance
<1>2. pc = "sanitise" /\ error = "none"
  BY DEF Called
<1> QED BY <1>1, <1>2 DEF MemoryInv, Counted, TrustInv, Trusted, Later, Waits, Served

LEMMA NextTrust == ASSUME MemoryInv, Next PROVE TrustInv'
<1> USE DEF MemoryInv
<1>1. Unambiguous' = Unambiguous
  <2>1. CASE pc = "sanitise"
    <3>1. CASE Reject \/ Accept
      <4>1. static' = static /\ Remembered' = Remembered
        BY <3>1 DEF Reject, Accept, inputs, Remembered
      <4> QED BY <4>1 DEF Unambiguous, NamesClash
    <3>2. CASE ~Reject /\ ~Accept
      <4>1. ~StaticRule /\ ~StaticDone /\ ~DynamicDone /\ ~MultinicDone /\ ~NumberDone
        BY <2>1 DEF StaticRule, StaticDone, DynamicDone, MultinicDone, NumberDone
      <4>2. ~\E fn \in fns : VisitFunction(fn)
        BY <2>1 DEF VisitFunction
      <4>3. ~\E i \in work : Dynamic(i) \/ ReplaceOnFunction(i) \/ NumberKept(i) \/ NumberNew(i)
        BY <2>1, DynamicCases DEF ReplaceOnFunction, NumberKept, NumberNew, NextToNumber
      <4> QED BY <3>2, <4>1, <4>2, <4>3 DEF Next
    <3> QED BY <3>1, <3>2
  <2>2. CASE pc # "sanitise"
    BY <2>2, StepInPlace, Lookups
  <2> QED BY <2>1, <2>2
<1> SUFFICES ASSUME Unambiguous PROVE Trusted'
  BY <1>1 DEF TrustInv
<1>2. Trusted
  BY DEF TrustInv
<1>3. CASE Reject \/ Accept
  BY <1>3, TrustStart
<1>4. CASE StaticRule \/ StaticDone
  BY <1>4, TrustStatic
<1>5. CASE \E i \in work : Dynamic(i)
  BY <1>2, <1>5, TrustDynamic
<1>6. CASE DynamicDone \/ \E fn \in fns : VisitFunction(fn)
  BY <1>2, <1>6, TrustFunctions
<1>7. CASE \E i \in work : ReplaceOnFunction(i)
  BY <1>2, <1>7, TrustReplace
<1>8. CASE MultinicDone \/ NumberDone \/ \E i \in work : NumberKept(i) \/ NumberNew(i)
  BY <1>2, <1>8, TrustNumbers
<1> QED BY <1>3, <1>4, <1>5, <1>6, <1>7, <1>8 DEF Next

LEMMA StutterMemory == ASSUME MemoryInv, UNCHANGED vars PROVE Counted' /\ TrustInv'
<1> USE DEF MemoryInv
<1>1. UNCHANGED <<inputs, nics, pc, error, fns, work, nextethnum>>
  BY DEF vars, inputs
<1>2. InPlace
  BY <1>1 DEF InPlace
<1>3. Counted'
  BY <1>1 DEF Counted
<1>4. /\ Unambiguous' = Unambiguous /\ Remembered' = Remembered
      /\ \A j \in DOMAIN nics :
           /\ Heir(j)' = Heir(j) /\ Matches(j)' = Matches(j)
           /\ LastOK(j) => LastOK(j)'
           /\ PlaceOK(j) => PlaceOK(j)'
           /\ HeirOK(j) => HeirOK(j)'
  BY <1>1, <1>2, Lasting, Persists, Lookups
<1>5. ASSUME Trusted PROVE Trusted'
  <2>1. work \subseteq DOMAIN nics
    BY DEF Inv, TypeOK
  <2>2. pc' \in Later =>
          \A i \in DOMAIN nics : (pc' = "dynamic" => i \notin work') => LastOK(i)' /\ PlaceOK(i)'
    BY <1>1, <1>4, <1>5 DEF Trusted
  <2>3. \A i \in DOMAIN nics : Waits(i)' /\ Heir(i)' => nics'[i].tname = None
    BY <1>1, <1>4, <1>5 DEF Trusted, Waits
  <2>4. \A i \in DOMAIN nics : Served(i)' => HeirOK(i)'
    BY <1>1, <1>4, <1>5 DEF Trusted, Served
  <2>5. pc' = "multinic" => \A i \in work' : \A l \in Matches(i)' : TnameFree(Remembered[l].tname)'
    BY <1>1, <1>4, <1>5, <2>1 DEF Trusted, TnameFree
  <2> QED BY <1>1, <1>5, <2>2, <2>3, <2>4, <2>5 DEF Trusted
<1> QED BY <1>3, <1>4, <1>5 DEF TrustInv

LEMMA NextMemory == MemoryInv /\ [Next]_vars => MemoryInv'
<1> SUFFICES ASSUME MemoryInv, [Next]_vars PROVE MemoryInv'
  OBVIOUS
<1>1. Inv' /\ Provenance' /\ OnFunctions'
  BY NextInv, NextProvenance DEF MemoryInv
<1>2. CASE Next
  BY <1>1, <1>2, CountedSteps, NextTrust DEF MemoryInv
<1>3. CASE UNCHANGED vars
  BY <1>1, <1>3, StutterMemory DEF MemoryInv
<1> QED BY <1>2, <1>3

LEMMA AlwaysMemory == Spec => []MemoryInv
<1>1. Init => MemoryInv
  BY InitCalled, CalledMemory
<1> QED BY <1>1, NextMemory, PTL DEF Spec

(* The assertions of __rename_nic only fail on a memory that names an      *)
(* interface twice, or with something that is no interface name.           *)
THEOREM AssertionsHold == Spec => []NoAssertion
<1>1. MemoryInv => NoAssertion
  BY DEF MemoryInv, Inv, TrustInv, Trusted, NoAssertion
<1> QED BY <1>1, AlwaysMemory, PTL

(* A nic of the last boot that no rule describes keeps its name.           *)
THEOREM NamesAreRemembered == Spec => []RemembersName
<1>1. MemoryInv => RemembersName
  <2> SUFFICES ASSUME Trusted, pc = "done" PROVE RemembersName
    BY DEF MemoryInv, TrustInv, RemembersName
  <2>1. \A i \in DOMAIN nics : LastOK(i)
    BY DEF Trusted, Later
  <2> QED BY <2>1 DEF LastOK, Described, RemembersName
<1> QED BY <1>1, AlwaysMemory, PTL

(* A new nic takes over the name of the one whose place it has taken.      *)
THEOREM NamesAreInherited == Spec => []InheritsName
<1>1. MemoryInv => InheritsName
  <2> SUFFICES ASSUME Trusted, pc = "done" PROVE InheritsName
    BY DEF MemoryInv, TrustInv, InheritsName
  <2>1. \A i \in DOMAIN nics, l \in DOMAIN last : Takes(i, l) => nics[i].tname = last[l].tname
    BY DEF Trusted, Later, PlaceOK
  <2> QED BY <2>1 DEF Takes, Multi, InheritsName
<1> QED BY <1>1, AlwaysMemory, PTL

(* The nics that have replaced all of the nics of a function take over     *)
(* their names, by MAC: the n-th of the new ones that of the n-th of the   *)
(* old ones.                                                               *)
THEOREM ReplacedInOrder == Spec => []ReplacedByMac
<1>1. MemoryInv => ReplacedByMac
  <2> SUFFICES ASSUME MemoryInv, pc = "done", Unambiguous, NEW fn \in MultinicFunctions,
                      Cardinality(WithPci(nics, fn)) = Cardinality(WithPci(Remembered, fn)),
                      \A i \in WithPci(nics, fn) :
                        WithMac(static, nics[i].mac) = {} /\ WithMac(last, nics[i].mac) = {},
                      \A l \in WithPci(Remembered, fn) : ~Present(Remembered[l].mac),
                      NEW i \in WithPci(nics, fn), NEW l \in WithPci(Remembered, fn),
                      MacRank(nics, WithPci(nics, fn), i) = MacRank(Remembered, WithPci(Remembered, fn), l)
               PROVE  nics[i].tname = Remembered[l].tname
    BY DEF ReplacedByMac
  <2>1. i \in DOMAIN nics /\ nics[i].pci = fn
    BY DEF WithPci
  <2>2. Heir(i) /\ l \in Matches(i)
    BY <2>1 DEF Heir, Multi, Matches, Rank
  <2>3. HeirOK(i)
    BY <2>1 DEF MemoryInv, TrustInv, Trusted, Served
  <2> QED BY <2>2, <2>3 DEF HeirOK
<1> QED BY <1>1, AlwaysMemory, PTL

-----------------------------------------------------------------------------
(* Pass 4 numbers the nics of a function in the order of their MACs: the   *)
(* orders were dealt out by MAC, the nics come by order, the numbers rise. *)

Numbering == pc \in {"number", "done"}
NamedNew(i) == nics[i].tname # None /\ NewNumber(i)

AllInWork ==
  /\ pc = "number" => \A i \in DOMAIN nics : nics[i].tname = None => i \in work
  /\ pc = "done" => \A i \in DOMAIN nics : nics[i].tname # None

DealtByMac ==
  Numbering =>
    \A i, j \in DOMAIN nics :
      /\ NewNumber(i) /\ NewNumber(j)
      /\ nics[i].pci = nics[j].pci /\ nics[i].mac < nics[j].mac /\ nics[i].order # nics[j].order
      => nics[i].order < nics[j].order

NumberedByOrder ==
  Numbering =>
    \A i, j \in DOMAIN nics :
      NamedNew(i) /\ NamedNew(j) /\ nics[i].order < nics[j].order => nics[i].tname.num < nics[j].tname.num

FirstInOrder ==
  Numbering =>
    \A i, j \in DOMAIN nics :
      NamedNew(i) /\ nics[j].tname = None => nics[i].order <= nics[j].order

Numbers == AllInWork /\ DealtByMac /\ NumberedByOrder /\ FirstInOrder

LEMMA ToBeNumbered ==
  ASSUME Inv, NEW i \in DOMAIN nics, nics[i].tname = None
  PROVE  NewNumber(i)
<1>1. nics[i] \in Nic
  BY DEF Inv, TypeOK
<1>2. \A r \in DOMAIN static : static[r] \in Entry
  BY DEF Inv, TypeOK
<1>3. \A l \in DOMAIN Remembered : Remembered[l].tname # None
  BY MemoryIs DEF Inv
<1> QED BY <1>1, <1>2, <1>3, RenameAssumption DEF NewNumber, Nic, Entry

(* A nic that an earlier pass named has the name of a rule or of an entry. *)
LEMMA NotNumbered ==
  ASSUME Inv, Provenance, pc = "multinic", NEW i \in DOMAIN nics, nics[i].tname # None
  PROVE  ~NewNumber(i)
BY DEF Provenance, Origins, ByRule, ByEntry, NewNumber

LEMMA OrderRanks ==
  ASSUME Inv, Tidy, NEW S, S \subseteq DOMAIN nics, NEW a \in S, NEW b \in S,
         nics[b].order < nics[a].order
  PROVE  OrderRank(S, b) < OrderRank(S, a) /\ OrderRank(S, a) \in Nat /\ OrderRank(S, b) \in Nat
<1> DEFINE es == [i \in DOMAIN nics |-> [mac |-> nics[i].order]]
<1>1. \A i \in S : OrderRank(S, i) = MacRank(es, S, i)
  BY DEF OrderRank, OrderBefore, MacRank
<1>2. \A i \in DOMAIN nics : nics[i] \in Nic
  BY DEF Inv, TypeOK
<1>3. \A i \in S : es[i].mac = nics[i].order /\ es[i].mac \in Nat
  BY <1>2 DEF Nic
<1>4. S \subseteq Nat /\ IsFiniteSet(S)
  BY FS_Subset DEF Inv, TypeOK, Tidy
<1> HIDE DEF es
<1>5. MacRank(es, S, b) < MacRank(es, S, a) /\ MacRank(es, S, a) \in Nat /\ MacRank(es, S, b) \in Nat
  BY <1>3, <1>4, MacRanks
<1> QED BY <1>1, <1>5

LEMMA OrdersAreDealt ==
  ASSUME Inv, Provenance, MultinicDone,
         NEW i \in DOMAIN nics, NEW j \in DOMAIN nics, nics[i].tname = None, nics[j].tname = None,
         nics[i].pci = nics[j].pci, nics[i].mac < nics[j].mac, nics'[i].order # nics'[j].order
  PROVE  nics'[i].order < nics'[j].order
<1> DEFINE S == {h \in WithPci(nics, nics[i].pci) : NeedsRenaming(nics[h])}
<1>1. i \in S /\ j \in S
  BY DEF WithPci, NeedsRenaming
<1>2. \A h \in DOMAIN nics : nics[h] \in Nic
  BY DEF Inv, TypeOK
<1>3. i # j /\ \A h \in DOMAIN nics : nics[h].mac \in Nat /\ nics[h].order \in Nat
  BY <1>2, RenameAssumption DEF Nic
<1>4. /\ S \subseteq DOMAIN nics /\ S \subseteq Nat /\ IsFiniteSet(S)
      /\ IsFiniteSet(WithPci(nics, nics[i].pci))
  <2>1. WithPci(nics, nics[i].pci) \subseteq DOMAIN nics
    BY DEF WithPci
  <2>2. S \subseteq DOMAIN nics
    BY <2>1
  <2> QED BY <2>1, <2>2, FS_Subset DEF Provenance, Tidy, Inv, TypeOK
<1>5. nics[i].pci \in MultinicFunctions
  <2>1. Cardinality(WithPci(nics, nics[i].pci)) > 1
    BY <1>3, <1>4, Several DEF WithPci
  <2> QED BY <2>1 DEF MultinicFunctions
<1>6. DealtOrder(i, nics'[i].order) /\ DealtOrder(j, nics'[j].order)
  BY OrdersEffect
<1>7. PICK a \in S : OrderRank(S, a) = MacRank(nics, S, i) /\ nics'[i].order = nics[a].order
  BY <1>1, <1>5, <1>6 DEF DealtOrder
<1>8. PICK b \in S : OrderRank(S, b) = MacRank(nics, S, j) /\ nics'[j].order = nics[b].order
  BY <1>1, <1>5, <1>6 DEF DealtOrder
<1> HIDE DEF S
<1>9. MacRank(nics, S, i) < MacRank(nics, S, j) /\ MacRank(nics, S, i) \in Nat /\ MacRank(nics, S, j) \in Nat
  BY <1>1, <1>3, <1>4, MacRanks
<1>10. ASSUME nics[b].order < nics[a].order PROVE FALSE
  <2>1. OrderRank(S, b) < OrderRank(S, a)
    BY <1>4, <1>10, OrderRanks DEF Provenance
  <2> QED BY <1>7, <1>8, <1>9, <2>1
<1>11. nics[a].order \in Nat /\ nics[b].order \in Nat
  BY <1>3, <1>4
<1> QED BY <1>7, <1>8, <1>10, <1>11

LEMMA NumbersStart ==
  ASSUME Inv, Provenance, MultinicDone
  PROVE  Numbers'
<1>1. /\ InPlace /\ pc = "multinic" /\ pc' = "number" /\ UNCHANGED inputs
      /\ \A i \in DOMAIN nics : nics'[i].tname = nics[i].tname /\ nics'[i].kname = nics[i].kname
  BY OrdersEffect
<1>2. /\ DOMAIN nics' = DOMAIN nics /\ work' = Unnamed
      /\ \A i \in DOMAIN nics : nics'[i].mac = nics[i].mac /\ nics'[i].pci = nics[i].pci
  BY <1>1 DEF InPlace, MultinicDone
<1>3. \A i \in DOMAIN nics : NewNumber(i)' <=> NewNumber(i)
  BY <1>1, Lookups DEF NewNumber
<1>4. \A i \in DOMAIN nics : NewNumber(i)' => nics[i].tname = None
  BY <1>1, <1>3, NotNumbered
<1>5. AllInWork'
  BY <1>1, <1>2 DEF AllInWork, Unnamed, NeedsRenaming
<1>6. DealtByMac'
  BY <1>2, <1>4, OrdersAreDealt DEF DealtByMac
<1>7. NumberedByOrder' /\ FirstInOrder'
  BY <1>1, <1>2, <1>4 DEF NumberedByOrder, FirstInOrder, NamedNew
<1> QED BY <1>5, <1>6, <1>7 DEF Numbers

(* One nic is named, the first by order of those still to be named.        *)
LEMMA NumbersGoOn ==
  ASSUME Inv, Counted, Numbers, pc = "number", pc' = "number", UNCHANGED inputs,
         NEW i \in work, NextToNumber(i), work' = work \ {i}, NEW nm \in Name, Names(i, nm),
         nics'[i].kname = nm \/ nm = Eth(nextethnum)
  PROVE  Numbers'
<1>1. /\ InPlace /\ i \in DOMAIN nics /\ nics[i].tname = None /\ nics'[i].tname = nm
      /\ DOMAIN nics' = DOMAIN nics
      /\ \A h \in DOMAIN nics : /\ nics'[h].mac = nics[h].mac /\ nics'[h].pci = nics[h].pci
                                /\ nics'[h].order = nics[h].order
      /\ \A h \in DOMAIN nics \ {i} : /\ nics'[h].tname = nics[h].tname
                                      /\ nics[h].tname # None => nics'[h] = nics[h]
  BY DEF Names, InPlace
<1>2. static' = static /\ Remembered' = Remembered
  BY <1>1, Lookups
<1>3. \A h \in DOMAIN nics : nics[h].order \in Nat
  <2>1. \A h \in DOMAIN nics : nics[h] \in Nic
    BY DEF Inv, TypeOK
  <2> QED BY <2>1 DEF Nic
<1>4. \A h \in DOMAIN nics \ {i} : NamedNew(h)' <=> NamedNew(h)
  BY <1>1, <1>2 DEF NamedNew, NewNumber
<1>5. \A h \in DOMAIN nics : NewNumber(h)' => NewNumber(h)
  <2>1. \A h \in DOMAIN nics : nics[h].tname = None => NewNumber(h)
    BY ToBeNumbered
  <2> QED BY <1>1, <1>4, <2>1 DEF NamedNew
<1>6. NewNumber(i)' => nm = Eth(nextethnum)
  BY <1>1 DEF NewNumber
<1>7. AllInWork'
  BY <1>1, RenameAssumption DEF AllInWork, Numbers
<1>8. DealtByMac'
  BY <1>1, <1>5 DEF DealtByMac, Numbers, Numbering
<1>9. FirstInOrder'
  <2> SUFFICES ASSUME NEW h \in DOMAIN nics, NEW j \in DOMAIN nics, NamedNew(h)', nics'[j].tname = None
               PROVE  nics[h].order <= nics[j].order
    BY <1>1 DEF FirstInOrder
  <2>2. j # i
    <3>1. nics'[i].tname # None
      BY <1>1, RenameAssumption
    <3> QED BY <3>1
  <2>3. nics[j].tname = None /\ j \in work
    BY <1>1, <2>2 DEF Numbers, AllInWork
  <2>4. CASE h = i
    BY <1>3, <2>2, <2>3, <2>4 DEF NextToNumber, OrderBefore
  <2>5. CASE h # i
    BY <1>4, <2>3, <2>5 DEF Numbers, FirstInOrder, Numbering
  <2> QED BY <2>4, <2>5
<1>10. NumberedByOrder'
  <2> SUFFICES ASSUME NEW h \in DOMAIN nics, NEW j \in DOMAIN nics, NamedNew(h)', NamedNew(j)',
                      nics[h].order < nics[j].order
               PROVE  nics'[h].tname.num < nics'[j].tname.num
    BY <1>1 DEF NumberedByOrder
  <2>1. CASE h # i /\ j # i
    BY <1>1, <1>4, <2>1 DEF Numbers, NumberedByOrder, Numbering
  <2>2. CASE h # i /\ j = i
    <3>1. NamedNew(h) /\ nics'[h].tname = nics[h].tname
      BY <1>1, <1>4, <2>2
    <3>2. nics[h].tname.num < nextethnum
      BY <3>1 DEF NamedNew, Counted, CurName, Inv, Accepted, PcOK, TnamesEth
    <3> QED BY <1>1, <1>6, <2>2, <3>1, <3>2 DEF NamedNew, Eth
  <2>3. CASE h = i /\ j # i
    <3>1. nics[j].order <= nics[i].order
      BY <1>1, <1>4, <2>3 DEF Numbers, FirstInOrder, Numbering
    <3> QED BY <1>3, <2>3, <3>1
  <2>4. CASE h = i /\ j = i
    BY <1>3, <2>4
  <2> QED BY <2>1, <2>2, <2>3, <2>4
<1> QED BY <1>7, <1>8, <1>9, <1>10 DEF Numbers

LEMMA ToNumbering ==
  ASSUME Inv, Next, Numbering'
  PROVE  \/ Accept /\ DOMAIN nics' = {} /\ pc' = "done"
         \/ MultinicDone \/ NumberDone
         \/ \E i \in work : NumberKept(i) \/ NumberNew(i)
<1>1. Accept => DOMAIN nics' = {} /\ pc' = "done"
  BY DEF Accept, Numbering
<1>2. ~Reject /\ ~StaticDone /\ ~DynamicDone
  BY DEF Reject, Raise, StaticDone, DynamicDone, Numbering
<1>3. ~StaticRule /\ ~\E fn \in fns : VisitFunction(fn)
  BY DEF StaticRule, Skip, Call, Raise, VisitFunction, Numbering
<1>4. ~\E i \in work : Dynamic(i) \/ ReplaceOnFunction(i)
  BY DynamicCases DEF ReplaceOnFunction, Skip, Call, Raise, Numbering
<1> QED BY <1>1, <1>2, <1>3, <1>4 DEF Next

LEMMA NumbersSteps ==
  ASSUME Inv, Provenance, Counted, Numbers, [Next]_vars
  PROVE  Numbers'
<1> USE DEF Numbers
<1>1. CASE ~Numbering'
  BY <1>1 DEF AllInWork, DealtByMac, NumberedByOrder, FirstInOrder, Numbering
<1>2. CASE Accept /\ DOMAIN nics' = {} /\ pc' = "done"
  BY <1>2 DEF AllInWork, DealtByMac, NumberedByOrder, FirstInOrder
<1>3. CASE MultinicDone
  BY <1>3, NumbersStart
<1>4. ASSUME UNCHANGED <<nics, work, static, last, old>>,
             pc' = pc \/ (pc = "number" /\ pc' = "done" /\ work = {})
      PROVE  Numbers'
  <2>1. Remembered' = Remembered
    BY <1>4 DEF Remembered
  <2>2. \A i \in DOMAIN nics : NamedNew(i)' = NamedNew(i) /\ NewNumber(i)' = NewNumber(i)
    BY <1>4, <2>1 DEF NamedNew, NewNumber
  <2>3. AllInWork'
    BY <1>4 DEF AllInWork
  <2>4. DealtByMac' /\ NumberedByOrder' /\ FirstInOrder'
    BY <1>4, <2>2 DEF DealtByMac, NumberedByOrder, FirstInOrder, Numbering
  <2> QED BY <2>3, <2>4
<1>5. CASE NumberDone
  BY <1>4, <1>5 DEF NumberDone, inputs
<1>6. CASE UNCHANGED vars
  BY <1>4, <1>6 DEF vars
<1>7. ASSUME NEW i \in work, NumberKept(i) \/ NumberNew(i) PROVE Numbers'
  <2>1. /\ pc = "number" /\ NextToNumber(i) /\ work' = work \ {i} /\ UNCHANGED inputs
        /\ i \in DOMAIN nics /\ nics[i].tname = None
    BY <1>7 DEF NumberKept, NumberNew, NextToNumber, Inv, TypeOK, PcOK, Accepted, WorkUnnamed
  <2>2. nics[i] \in Nic /\ nextethnum \in Nat
    BY <2>1 DEF Inv, TypeOK
  <2>3. CASE NumberKept(i)
    <3>1. KeepsKname(i) /\ pc' = pc /\ nics' = [nics EXCEPT ![i].tname = nics[i].kname]
      BY <2>3 DEF NumberKept
    <3>2. Names(i, nics[i].kname) /\ nics[i].kname \in Name /\ nics'[i].kname = nics[i].kname
      BY <2>1, <2>2, <3>1, NumberKeptNames DEF Nic
    <3> QED BY <2>1, <3>1, <3>2, NumbersGoOn
  <2>4. CASE NumberNew(i)
    <3>1. Eth(nextethnum) \in Name /\ Call(i, Eth(nextethnum), "number")
      BY <2>2, <2>4 DEF NumberNew, Eth, Name
    <3>2. CASE pc' = "raised"
      BY <1>1, <3>2 DEF Numbering
    <3>3. CASE Names(i, Eth(nextethnum)) /\ pc' = "number"
      BY <2>1, <3>1, <3>3, NumbersGoOn
    <3> QED BY <2>1, <3>1, <3>2, <3>3, CallNames
  <2> QED BY <1>7, <2>3, <2>4
<1> QED BY <1>1, <1>2, <1>3, <1>5, <1>6, <1>7, ToNumbering

LEMMA CalledNumbers == Called => Numbers
BY DEF Called, Numbers, AllInWork, DealtByMac, NumberedByOrder, FirstInOrder, Numbering

(* Every nic has an eth<num> name in the end, and the nics of a function   *)
(* that got new numbers are numbered in the order of their MACs.           *)
THEOREM NumbersFollowMacs == Spec => []NumberedByMac
<1>1. MemoryInv /\ Numbers /\ [Next]_vars => Numbers'
  BY NumbersSteps DEF MemoryInv
<1>2. Init => Numbers
  BY InitCalled, CalledNumbers
<1>3. MemoryInv /\ Numbers => NumberedByMac
  <2> SUFFICES ASSUME Inv, Numbers, pc = "done" PROVE NumberedByMac
    BY DEF MemoryInv, NumberedByMac
  <2>1. \A i \in DOMAIN nics : nics[i].tname # None /\ IsEth(CurName(nics[i]))
    BY DEF Numbers, AllInWork, Inv, PcOK, Accepted, TnamesEth, CurName
  <2>2. ASSUME NEW i \in DOMAIN nics, NEW j \in DOMAIN nics,
               nics[i].pci = nics[j].pci, nics[i].order # nics[j].order,
               NewNumber(i), NewNumber(j), nics[i].mac < nics[j].mac
        PROVE  nics[i].tname.num < nics[j].tname.num
    <3>1. nics[i].order < nics[j].order
      BY <2>2 DEF Numbers, DealtByMac, Numbering
    <3> QED BY <2>1, <2>2, <3>1 DEF Numbers, NumberedByOrder, NamedNew, Numbering
  <2> QED BY <2>1, <2>2 DEF NumberedByMac
<1> QED BY <1>1, <1>2, <1>3, AlwaysMemory, PTL DEF Spec


-----------------------------------------------------------------------------
(* The steps of the passes. *)

LEMMA StepOfPass ==
  ASSUME Inv, Next
  PROVE  \/ pc = "sanitise" /\ (Reject \/ Accept)
         \/ pc = "static" /\ (StaticRule \/ StaticDone)
         \/ pc = "dynamic" /\ ((\E i \in work : Dynamic(i)) \/ DynamicDone)
         \/ pc = "multinic" /\ \/ \E fn \in fns : VisitFunction(fn)
                               \/ \E i \in work : ReplaceOnFunction(i)
                               \/ MultinicDone
         \/ pc = "number" /\ ((\E i \in work : NumberKept(i) \/ NumberNew(i)) \/ NumberDone)
<1>1. \A i \in work : Dynamic(i) => pc = "dynamic"
  BY DynamicCases
<1> QED BY <1>1 DEF Next, Reject, Accept, StaticRule, StaticDone, DynamicDone, VisitFunction,
                  ReplaceOnFunction, MultinicDone, NumberKept, NumberNew, NextToNumber, NumberDone

-----------------------------------------------------------------------------
(* One call of rename(): a nic in its place keeps its name. *)

(* Something other than the nic that has it lays claim to the name of      *)
(* entry l of last boot.                                                   *)
Contested(l) ==
  \/ \E r \in DOMAIN static : static[r].mac = last[l].mac \/ static[r].tname = last[l].tname
  \/ \E o \in DOMAIN old : old[o].tname = last[l].tname

PlaceKept ==
  pc \in Later =>
    \A i \in DOMAIN nics : \A l \in Same(last, nics[i]) :
      (pc = "dynamic" => i \notin work) => nics[i].tname = last[l].tname \/ Contested(l)

(* An entry of the memory that is not of last boot is an older one.        *)
LEMMA OlderIs ==
  ASSUME TypeOK, NEW l \in DOMAIN Remembered, l \notin DOMAIN last
  PROVE  \E o \in DOMAIN old : old[o] = Remembered[l]
<1>1. last \in Seq(Entry) /\ old \in Seq(Entry) /\ Remembered = last \o old
  BY DEF TypeOK, Remembered
<1>2. l - Len(last) \in DOMAIN old /\ old[l - Len(last)] = Remembered[l]
  BY <1>1
<1> QED BY <1>2

(* Whoever has the name of a nic that is still to be visited has a claim.  *)
LEMMA HolderClaims ==
  ASSUME Inv, Provenance, pc = "dynamic", NEW i \in DOMAIN nics, NEW l \in DOMAIN last,
         last[l].mac = nics[i].mac, nics[i].tname = None, ~TnameFree(last[l].tname)
  PROVE  Contested(l)
<1>0. /\ Accepted /\ ~MacsClash(nics) /\ ~NamesClash(last)
  BY DEF Inv, PcOK, Accepted, Provenance, Tidy, Passes
<1>1. PICK j \in DOMAIN nics : nics[j].tname = last[l].tname
  BY DEF TnameFree
<1>2. /\ l \in DOMAIN Remembered /\ Remembered[l] = last[l] /\ last[l].tname # None
      /\ \A m \in DOMAIN last : Remembered[m] = last[m]
  BY MemoryIs DEF Inv
<1>3. j # i
  BY <1>1, <1>2
<1>4. CASE ByRule(j)
  BY <1>1, <1>4 DEF ByRule, Contested
<1>5. ASSUME NEW m \in DOMAIN Remembered, ByEntry(j, m) PROVE Contested(l)
  <2>1. Remembered[m].tname = last[l].tname
    BY <1>1, <1>5 DEF ByEntry
  <2>2. CASE m \notin DOMAIN last
    BY <2>1, <2>2, OlderIs DEF Inv, Contested
  <2>3. CASE m \in DOMAIN last
    <3>1. m = l
      BY <1>0, <1>2, <2>1, <2>3 DEF NamesClash
    <3>2. Present(Remembered[m].mac)
      BY <1>2, <3>1 DEF Present, WithMac
    <3>3. nics[j].mac = nics[i].mac
      BY <1>2, <1>5, <3>1, <3>2 DEF ByEntry
    <3> QED BY <1>0, <1>3, <3>3 DEF MacsClash
  <2> QED BY <2>2, <2>3
<1> QED BY <1>1, <1>2, <1>4, <1>5 DEF Provenance, Origins

(* A visit of pass 2 leaves the nic with its name, or contested.           *)
LEMMA VisitKeeps ==
  ASSUME Inv, Provenance, NEW i \in work, Dynamic(i), pc' # "raised",
         NEW l \in Same(last, nics[i])
  PROVE  nics'[i].tname = last[l].tname \/ Contested(l)
<1>0. ~MacsClash(last) /\ l \in DOMAIN last /\ last[l].mac = nics[i].mac /\ i \in DOMAIN nics /\ pc = "dynamic"
  BY DynamicCases DEF Provenance, Tidy, Passes, Same, WithMac
<1>1. CASE nics[i].tname # None
  <2>1. ByRule(i)
    BY <1>0, <1>1 DEF Provenance, RulesFirst
  <2> QED BY <1>0, <2>1 DEF ByRule, Contested, Same, WithMac
<1>2. ASSUME nics[i].tname = None, NEW m \in DOMAIN last, last[m].mac = nics[i].mac,
             Call(i, last[m].tname, "dynamic")
      PROVE  nics'[i].tname = last[l].tname
  <2>1. m = l
    BY <1>0, <1>2 DEF MacsClash
  <2> QED BY <1>0, <1>2, <2>1, CallNames DEF Names
<1>3. ASSUME nics[i].tname = None, NEW m \in DOMAIN last, last[m].mac = nics[i].mac,
             ~TnameFree(last[m].tname)
      PROVE  Contested(l)
  <2>1. m = l
    BY <1>0, <1>3 DEF MacsClash
  <2> QED BY <1>0, <1>3, <2>1, HolderClaims
<1>4. WithMac(last, nics[i].mac) # {}
  BY <1>0 DEF WithMac
<1> QED BY <1>1, <1>2, <1>3, <1>4, DynamicCases

LEMMA PlaceKeptSteps ==
  ASSUME Inv, Inv', Provenance, PlaceKept, [Next]_vars
  PROVE  PlaceKept'
<1>1. CASE pc = "sanitise" /\ Next
  <2>1. pc' \notin Later \/ DOMAIN nics' = {}
    <3>1. CASE Reject
      BY <3>1 DEF Reject, Raise, Later
    <3>2. CASE Accept
      BY <3>2 DEF Accept, Later
    <3> QED BY <1>1, <3>1, <3>2, StepOfPass
  <2> QED BY <2>1 DEF PlaceKept
<1>2. ASSUME InPlace, UNCHANGED inputs, KeepsNamed, pc # "sanitise", pc' \in Later,
             NEW i \in DOMAIN nics, NEW l \in Same(last, nics[i]),
             nics[i].tname = last[l].tname \/ Contested(l)
      PROVE  nics'[i].tname = last[l].tname \/ Contested(l)
  <2>1. l \in DOMAIN last /\ \A m \in DOMAIN last : last[m].tname # None
    <3>1. \A m \in DOMAIN last : m \in DOMAIN Remembered /\ Remembered[m] = last[m]
                                 /\ Remembered[m].tname # None
      BY MemoryIs DEF Inv
    <3> QED BY <3>1 DEF Same, WithMac
  <2> QED BY <1>2, <2>1 DEF KeepsNamed
<1>3. ASSUME Next, pc # "sanitise" PROVE PlaceKept'
  <2>0. InPlace /\ UNCHANGED inputs /\ KeepsNamed
    BY <1>3, StepInPlace, StepPlan
  <2>1. /\ DOMAIN nics' = DOMAIN nics /\ \A i \in DOMAIN nics : Same(last, nics'[i]) = Same(last, nics[i])
        /\ last' = last /\ \A l : Contested(l)' = Contested(l)
    BY <2>0 DEF InPlace, Same, inputs, Contested
  <2>2. ASSUME pc' \in Later, NEW i \in DOMAIN nics, NEW l \in Same(last, nics[i]),
               pc' = "dynamic" => i \notin work'
        PROVE  nics'[i].tname = last[l].tname \/ Contested(l)
    <3>1. CASE pc \in Later /\ (pc = "dynamic" => i \notin work)
      BY <1>2, <1>3, <2>0, <2>2, <3>1 DEF PlaceKept
    <3>2. CASE pc = "dynamic" /\ i \in work
      <4>1. PICK j \in work : Dynamic(j)
        BY <1>3, <3>2, StepOfPass DEF DynamicDone
      <4>2. work' = work \ {j} /\ pc' # "raised"
        BY <2>2, <4>1, DynamicCases DEF Later
      <4>3. CASE i = j
        BY <4>1, <4>2, <4>3, VisitKeeps
      <4>4. CASE i # j
        <5>1. pc' = pc
          BY <4>1, <4>2, DynamicCases, CallNames DEF Skip
        <5> QED BY <2>2, <3>2, <4>2, <4>4, <5>1
      <4> QED BY <4>3, <4>4
    <3>3. CASE pc \notin Later
      <4>1. StaticDone
        BY <1>3, <2>2, <3>3, StepOfPass DEF StaticRule, Skip, Call, Raise, Later
      <4> QED BY <2>2, <4>1 DEF StaticDone
    <3> QED BY <3>1, <3>2, <3>3
  <2> QED BY <2>1, <2>2 DEF PlaceKept
<1>4. CASE UNCHANGED vars
  BY <1>4 DEF vars, PlaceKept, Contested, Same, WithMac, WithPci
<1> QED BY <1>1, <1>3, <1>4

-----------------------------------------------------------------------------
(* One call of rename(): when every nic is where it was, every nic keeps   *)
(* its name.  The rules named the nics of last boot too, so that they want *)
(* nothing else now.                                                       *)

Obeyed(es) ==
  \A r \in DOMAIN static : \A l \in Same(es, static[r]) : es[l].tname = static[r].tname

LastFits ==
  /\ \A l \in DOMAIN last : IsEth(last[l].tname)
  /\ ~NamesClash(last) /\ ~MacsClash(last) /\ Obeyed(last)

NoneMoved == \A i \in DOMAIN nics : Same(last, nics[i]) # {}

Settled ==
  /\ pc # "raised"
  /\ \A i \in DOMAIN nics : \A l \in Same(last, nics[i]) : nics[i].tname \in {None, last[l].tname}
  /\ \A i \in DOMAIN nics :
       pc \in {"multinic", "number", "done"} \/ (pc = "dynamic" /\ i \notin work) => nics[i].tname # None

StaysPut == pc # "sanitise" /\ LastFits /\ NoneMoved => Settled

(* The last name of a nic without a name is free. *)
LEMMA LastIsFree ==
  ASSUME Inv, Accepted, LastFits, NoneMoved, Settled,
         NEW i \in DOMAIN nics, nics[i].tname = None, NEW l \in Same(last, nics[i])
  PROVE  ~Refused(last[l].tname)
<1>1. l \in DOMAIN last /\ last[l].mac = nics[i].mac /\ IsEth(last[l].tname) /\ last[l].tname # None
  <2>1. l \in DOMAIN last /\ last[l].mac = nics[i].mac
    BY DEF Same, WithMac
  <2> QED BY <2>1, MemoryIs DEF Inv, LastFits
<1>2. ASSUME NEW j \in DOMAIN nics, nics[j].tname = last[l].tname PROVE FALSE
  <2>1. PICK m \in Same(last, nics[j]) : TRUE
    BY DEF NoneMoved
  <2>2. m \in DOMAIN last /\ last[m].mac = nics[j].mac
    BY <2>1 DEF Same, WithMac
  <2>3. last[m].tname = last[l].tname
    BY <1>1, <1>2, <2>1 DEF Settled
  <2>4. m = l
    BY <1>1, <2>2, <2>3 DEF LastFits, NamesClash
  <2>5. j = i
    BY <1>1, <2>2, <2>4 DEF Inv, MacsClash
  <2> QED BY <1>1, <1>2, <2>5
<1> QED BY <1>1, <1>2 DEF Refused, TnameFree

(* A nic is given its last name. *)
LEMMA SettlesOne ==
  ASSUME Inv, Accepted, LastFits, NoneMoved, Settled,
         NEW i \in DOMAIN nics, nics[i].tname = None, NEW l \in Same(last, nics[i]),
         NEW p, Call(i, last[l].tname, p)
  PROVE  /\ pc' = p /\ Names(i, last[l].tname)
         /\ \A j \in DOMAIN nics : \A m \in Same(last, nics[j]) : nics'[j].tname \in {None, last[m].tname}
<1>1. pc' = p /\ Names(i, last[l].tname)
  BY LastIsFree, CallNames
<1>2. \A m \in Same(last, nics[i]) : m = l
  BY DEF LastFits, MacsClash, Same, WithMac
<1>3. \A m \in Same(last, nics[i]) : nics'[i].tname = last[m].tname
  BY <1>1, <1>2 DEF Names
<1>4. \A j \in DOMAIN nics \ {i} : nics'[j].tname = nics[j].tname
  BY <1>1 DEF Names
<1> QED BY <1>1, <1>3, <1>4 DEF Settled

LEMMA SettledSteps ==
  ASSUME Inv, Provenance, StaysPut, [Next]_vars, ~Reject
  PROVE  StaysPut'
<1>1. CASE pc = "sanitise" /\ Accept
  <2>1. /\ nics' = [i \in Considered |-> nics[i]] /\ Sanitised
        /\ pc' = "static" \/ (pc' = "done" /\ Considered = {})
    BY <1>1 DEF Accept
  <2>2. \A i \in DOMAIN nics' : nics'[i].tname = None
    BY <2>1 DEF Sanitised, CurrentFine, Faulty, Considered
  <2> QED BY <2>1, <2>2 DEF StaysPut, Settled
<1>2. CASE UNCHANGED vars
  <2>1. UNCHANGED <<static, last, nics, pc, work>>
    BY <1>2 DEF vars
  <2> QED BY <2>1 DEF StaysPut, LastFits, NoneMoved, Settled, NamesClash, MacsClash, Obeyed, Same, WithMac, WithPci
<1>3. ASSUME Next, pc # "sanitise", LastFits', NoneMoved' PROVE Settled'
  <2>1. InPlace /\ UNCHANGED inputs
    BY <1>3, StepInPlace
  <2>2. /\ last' = last /\ static' = static /\ DOMAIN nics' = DOMAIN nics
        /\ \A i \in DOMAIN nics : Same(last, nics'[i]) = Same(last, nics[i])
    BY <2>1 DEF InPlace, inputs, Same
  <2>3. LastFits /\ NoneMoved
    BY <1>3, <2>2 DEF LastFits, NoneMoved, NamesClash, MacsClash, Obeyed, Same, WithMac, WithPci
  <2>4. Settled /\ Accepted
    BY <1>3, <2>3 DEF StaysPut, Settled, Inv, PcOK, Accepted
  <2>5. SUFFICES /\ pc' # "raised"
                 /\ \A i \in DOMAIN nics : \A l \in Same(last, nics[i]) : nics'[i].tname \in {None, last[l].tname}
                 /\ \A i \in DOMAIN nics :
                      pc' \in {"multinic", "number", "done"} \/ (pc' = "dynamic" /\ i \notin work')
                        => nics'[i].tname # None
    BY <2>2 DEF Settled
  <2>6. CASE StaticRule
    <3>1. CASE Skip
      BY <2>4, <2>6, <3>1 DEF StaticRule, Skip, Settled
    <3>2. ASSUME NEW i \in Same(nics, static[k]), Call(i, static[k].tname, "static")
          PROVE  /\ pc' = "static"
                 /\ \A j \in DOMAIN nics : \A l \in Same(last, nics[j]) : nics'[j].tname \in {None, last[l].tname}
      <4>1. k \in DOMAIN static /\ k \in k .. Len(static) /\ i \in DOMAIN nics /\ pc = "static"
        BY <2>6 DEF StaticRule, Inv, TypeOK, Same, WithMac
      <4>2. nics[i].tname = None
        BY <2>4, <4>1 DEF Inv, RulesAhead
      <4>3. PICK l \in Same(last, nics[i]) : TRUE
        BY <2>3, <4>1 DEF NoneMoved
      <4>4. l \in Same(last, static[k])
        BY <4>3 DEF Same, WithMac, WithPci
      <4>5. last[l].tname = static[k].tname
        BY <2>3, <4>1, <4>4 DEF LastFits, Obeyed
      <4> QED BY <2>3, <2>4, <3>2, <4>1, <4>2, <4>3, <4>5, SettlesOne
    <3> QED BY <2>6, <3>1, <3>2 DEF StaticRule, Skip
  <2>7. CASE StaticDone \/ DynamicDone \/ NumberDone \/ \E fn \in fns : VisitFunction(fn)
    BY <2>4, <2>7 DEF StaticDone, DynamicDone, NumberDone, VisitFunction, Settled
  <2>8. ASSUME NEW i \in work, Dynamic(i)
        PROVE  /\ pc' = "dynamic" /\ work' = work \ {i} /\ nics'[i].tname # None
               /\ \A j \in DOMAIN nics : nics[j].tname # None => nics'[j].tname = nics[j].tname
               /\ \A j \in DOMAIN nics : \A l \in Same(last, nics[j]) : nics'[j].tname \in {None, last[l].tname}
    <3>1. pc = "dynamic" /\ i \in DOMAIN nics /\ work' = work \ {i}
      BY <2>8, DynamicCases
    <3>2. PICK l \in Same(last, nics[i]) : TRUE
      BY <2>3, <3>1 DEF NoneMoved
    <3>3. l \in DOMAIN last /\ last[l].mac = nics[i].mac
      BY <3>2 DEF Same, WithMac
    <3>4. CASE nics[i].tname # None
      BY <2>4, <2>8, <3>1, <3>4, DynamicCases DEF Skip, Settled
    <3>5. CASE nics[i].tname = None
      <4>1. PICK m \in DOMAIN last : /\ last[m].mac = nics[i].mac
                                    /\ \/ Call(i, last[m].tname, "dynamic")
                                       \/ ~TnameFree(last[m].tname) /\ Skip
        BY <2>8, <3>3, <3>5, DynamicCases DEF WithMac
      <4>2. m = l
        BY <2>3, <3>3, <4>1 DEF LastFits, MacsClash
      <4>3. ~Refused(last[l].tname)
        BY <2>3, <2>4, <3>1, <3>2, <3>5, LastIsFree
      <4>4. Call(i, last[l].tname, "dynamic")
        BY <4>1, <4>2, <4>3 DEF Refused
      <4>5. last[l].tname # None
        BY <3>3, MemoryIs DEF Inv
      <4> QED BY <2>3, <2>4, <3>1, <3>2, <3>5, <4>4, <4>5, SettlesOne, ZenonT(60) DEF Names
    <3> QED BY <3>4, <3>5
  <2>9. CASE \E i \in work : Dynamic(i)
    <3>1. PICK i \in work : Dynamic(i)
      BY <2>9
    <3>2. pc = "dynamic"
      BY <3>1, DynamicCases
    <3> QED BY <2>4, <2>8, <3>1, <3>2 DEF Settled
  <2>10. ~\E i \in work : ReplaceOnFunction(i) \/ NumberKept(i) \/ NumberNew(i)
    <3>1. ASSUME NEW i \in work, pc \in {"multinic", "number"} PROVE FALSE
      BY <2>4, <3>1 DEF Inv, TypeOK, WorkUnnamed, Settled
    <3> QED BY <3>1 DEF ReplaceOnFunction, NumberKept, NumberNew, NextToNumber
  <2>11. CASE MultinicDone
    BY <2>4, <2>11, OrdersEffect DEF Settled
  <2> QED BY <1>3, <2>6, <2>7, <2>9, <2>10, <2>11, StepOfPass
<1> QED BY <1>1, <1>2, <1>3, StepOfPass DEF StaysPut

-----------------------------------------------------------------------------
(* One call of rename(): every transaction is of one nic.  Nic i starts as *)
(* eth<i-1>, its place in the list; a transaction takes it sideways or to  *)
(* its new name.  No name a nic starts from was given to a nic before.     *)

Own(i, p) ==
  \/ nics[i].tname # None /\ transactions[p] = <<nics[i].kname, nics[i].tname>>
  \/ ~IsEth(nics[i].kname) /\ transactions[p] = <<Eth(i - 1), nics[i].kname>>

KnamesOwn ==
  /\ \A i \in DOMAIN nics : IsEth(nics[i].kname) => nics[i].kname = Eth(i - 1)
  /\ \A i, j \in DOMAIN nics : nics[i].kname = nics[j].kname => i = j

Owned ==
  /\ \A p \in DOMAIN transactions : \E i \in DOMAIN nics : Own(i, p)
  /\ \A p, q \in DOMAIN transactions :
       q < p /\ transactions[q][2] = transactions[p][1] => ~IsEth(transactions[p][1])

(* The name of a nic that has no new one yet was given to no nic.          *)
LEMMA NotGiven ==
  ASSUME Inv, Accepted, Owned, NEW i \in DOMAIN nics, nics[i].tname = None, IsEth(nics[i].kname),
         NEW p \in DOMAIN transactions
  PROVE  transactions[p][2] # nics[i].kname
<1>1. PICK h \in DOMAIN nics : Own(h, p)
  BY DEF Owned
<1>2. CASE ~IsEth(nics[h].kname) /\ transactions[p] = <<Eth(h - 1), nics[h].kname>>
  BY <1>2
<1>3. CASE nics[h].tname # None /\ transactions[p] = <<nics[h].kname, nics[h].tname>>
  <2>1. CurName(nics[h]) = nics[h].tname /\ CurName(nics[i]) = nics[i].kname
    BY <1>3 DEF CurName
  <2>2. h # i
    BY <1>3
  <2> QED BY <1>3, <2>1, <2>2 DEF Inv, Distinct
<1> QED BY <1>1, <1>2, <1>3 DEF Own

(* Two transactions more, or one. *)
LEMMA OwnedGrows ==
  ASSUME Inv, Accepted, Owned, KnamesOwn, NEW i \in DOMAIN nics, nics[i].tname = None,
         NEW new \in Name, RenameNic(i, new)
  PROVE  Owned' /\ KnamesOwn'
<1>1. /\ transactions \in Seq(Name \X Name) /\ IsEth(new) /\ new # None
      /\ \A j \in DOMAIN nics : nics[j] \in Nic
  BY RenameAssumption DEF Inv, TypeOK, RenameNic, Refused
<1>2. PICK n \in Nat : n = Len(transactions) /\ DOMAIN transactions = 1 .. n
  BY <1>1
<1>3. ASSUME transactions' = transactions \/ transactions' = Append(transactions, <<nics[i].kname, new>>),
             nics' = [nics EXCEPT ![i].tname = new]
      PROVE  Owned' /\ KnamesOwn'
  <2>1. /\ DOMAIN nics' = DOMAIN nics /\ nics'[i].kname = nics[i].kname /\ nics'[i].tname = new
        /\ \A j \in DOMAIN nics \ {i} : nics'[j] = nics[j]
    <3>1. nics'[i] = [nics[i] EXCEPT !.tname = new] /\ nics[i] \in Nic
      BY <1>1, <1>3
    <3>2. DOMAIN nics' = DOMAIN nics /\ \A j \in DOMAIN nics \ {i} : nics'[j] = nics[j]
      BY <1>3
    <3> QED BY <3>1, <3>2 DEF Nic
  <2>2. \A j \in DOMAIN nics : nics'[j].kname = nics[j].kname
    BY <2>1
  <2>3. KnamesOwn'
    BY <2>1, <2>2 DEF KnamesOwn
  <2>4. ASSUME NEW p \in 1 .. n, transactions'[p] = transactions[p]
        PROVE  \E j \in DOMAIN nics' : Own(j, p)'
    <3>1. PICK j \in DOMAIN nics : Own(j, p)
      BY <1>2 DEF Owned
    <3> QED BY <2>1, <2>2, <2>4, <3>1 DEF Own
  <2>5. CASE transactions' = transactions
    <3>1. \A p \in DOMAIN transactions' : \E j \in DOMAIN nics' : Own(j, p)'
      BY <1>2, <2>4, <2>5
    <3> QED BY <2>3, <2>5, <3>1 DEF Owned
  <2>6. CASE transactions' = Append(transactions, <<nics[i].kname, new>>)
    <3>1. /\ DOMAIN transactions' = 1 .. n + 1 /\ transactions'[n + 1] = <<nics[i].kname, new>>
          /\ \A p \in 1 .. n : transactions'[p] = transactions[p]
      BY <1>1, <1>2, <2>6
    <3>2. Own(i, n + 1)'
      BY <1>1, <2>1, <3>1 DEF Own
    <3>3. \A p \in DOMAIN transactions' : \E j \in DOMAIN nics' : Own(j, p)'
      <4>1. \A p \in 1 .. n : \E j \in DOMAIN nics' : Own(j, p)'
        BY <2>4, <3>1
      <4>2. \A p \in 1 .. n + 1 : p \in 1 .. n \/ p = n + 1
        BY <1>2
      <4> QED BY <2>1, <3>1, <3>2, <4>1, <4>2
    <3>4. ASSUME NEW p \in DOMAIN transactions', NEW q \in DOMAIN transactions', q < p,
                 transactions'[q][2] = transactions'[p][1]
          PROVE  ~IsEth(transactions'[p][1])
      <4>1. q \in 1 .. n /\ transactions'[q] = transactions[q]
        BY <1>2, <3>1, <3>4
      <4>2. CASE p \in 1 .. n
        BY <1>2, <3>1, <3>4, <4>1, <4>2 DEF Owned
      <4>3. CASE p = n + 1
        BY <1>2, <3>1, <3>4, <4>1, <4>3, NotGiven
      <4> QED BY <1>2, <3>1, <4>2, <4>3
    <3> QED BY <2>3, <3>3, <3>4 DEF Owned
  <2> QED BY <1>3, <2>5, <2>6
<1>4. CASE TakeFree(i, new)
  BY <1>3, <1>4 DEF TakeFree
<1>5. CASE TakeOwn(i, new)
  <2>1. nics[i].kname = new
    BY <1>5 DEF TakeOwn, Aliased, IsFirst
  <2> QED BY <1>3, <1>5, <2>1 DEF TakeOwn
<1>6. CASE TakeOver(i, new)
  <2>1. PICK j \in Aliased(new), t \in TempName(new) :
          /\ ~(i \in Same(nics, nics[j]) /\ nics[j].kname = nics[i].kname)
          /\ nics' = [nics EXCEPT ![j].kname = t, ![i].tname = new]
          /\ transactions' = transactions \o << <<new, t>>, <<nics[i].kname, new>> >>
    BY <1>6 DEF TakeOver
  <2>2. j # i /\ j \in DOMAIN nics /\ nics[j].tname = None /\ nics[j].kname = new
    BY <2>1 DEF Same, WithMac, WithPci, Aliased
  <2>3. ~IsEth(t) /\ \A h \in DOMAIN nics : nics[h].kname # t
    BY DEF TempName, Side, IsEth
  <2>4. /\ DOMAIN nics' = DOMAIN nics
        /\ nics'[i].kname = nics[i].kname /\ nics'[i].tname = new
        /\ nics'[j].kname = t /\ nics'[j].tname = None
        /\ \A h \in DOMAIN nics \ {i, j} : nics'[h] = nics[h]
    <3>1. /\ nics'[i] = [nics[i] EXCEPT !.tname = new] /\ nics'[j] = [nics[j] EXCEPT !.kname = t]
          /\ DOMAIN nics' = DOMAIN nics
          /\ \A h \in DOMAIN nics \ {i, j} : nics'[h] = nics[h]
      BY <2>1, <2>2
    <3>2. nics[i] \in Nic /\ nics[j] \in Nic
      BY <1>1, <2>2
    <3> QED BY <2>2, <3>1, <3>2 DEF Nic
  <2>5. \A h \in DOMAIN nics \ {j} : nics'[h].kname = nics[h].kname
    BY <2>4
  <2>6. KnamesOwn'
    BY <2>3, <2>4, <2>5 DEF KnamesOwn
  <2>7. /\ DOMAIN transactions' = 1 .. n + 2
        /\ transactions'[n + 1] = <<new, t>> /\ transactions'[n + 2] = <<nics[i].kname, new>>
        /\ \A p \in 1 .. n : transactions'[p] = transactions[p]
    BY <1>1, <1>2, <2>1
  <2>8. \A p \in 1 .. n + 2 : p \in 1 .. n \/ p = n + 1 \/ p = n + 2
    BY <1>2
  <2>9. ASSUME NEW p \in 1 .. n PROVE \E h \in DOMAIN nics' : Own(h, p)'
    <3>1. PICK h \in DOMAIN nics : Own(h, p)
      BY <1>2 DEF Owned
    <3>2. h # j
      BY <1>1, <2>2, <3>1 DEF Own
    <3> QED BY <2>2, <2>4, <2>7, <3>1, <3>2 DEF Own
  <2>10. Own(j, n + 1)' /\ Own(i, n + 2)'
    <3>1. new = Eth(j - 1)
      BY <1>1, <2>2 DEF KnamesOwn
    <3> QED BY <1>1, <2>3, <2>4, <2>7, <3>1 DEF Own
  <2>11. \A p \in DOMAIN transactions' : \E h \in DOMAIN nics' : Own(h, p)'
    BY <2>2, <2>4, <2>7, <2>8, <2>9, <2>10
  <2>12. ASSUME NEW p \in DOMAIN transactions', NEW q \in DOMAIN transactions', q < p,
                transactions'[q][2] = transactions'[p][1]
         PROVE  ~IsEth(transactions'[p][1])
    <3>1. CASE p \in 1 .. n
      <4>1. q \in 1 .. n
        BY <1>2, <2>7, <2>12, <3>1
      <4> QED BY <1>2, <2>7, <2>12, <3>1, <4>1 DEF Owned
    <3>2. CASE p = n + 1
      <4>1. q \in 1 .. n
        BY <1>2, <2>7, <2>12, <3>2
      <4>2. transactions[q][2] # nics[j].kname
        BY <1>1, <1>2, <2>2, <4>1, NotGiven
      <4> QED BY <2>2, <2>7, <2>12, <3>2, <4>1, <4>2
    <3>3. CASE p = n + 2 /\ q = n + 1
      BY <2>3, <2>7, <2>12, <3>3
    <3>4. CASE p = n + 2 /\ q \in 1 .. n
      BY <1>2, <2>7, <2>12, <3>4, NotGiven
    <3> QED BY <1>2, <2>7, <2>8, <2>12, <3>1, <3>2, <3>3, <3>4
  <2> QED BY <2>6, <2>11, <2>12 DEF Owned
<1> QED BY <1>4, <1>5, <1>6 DEF RenameNic

(* The names of the nics, and the transactions, stay. *)
LEMMA OwnedStays ==
  ASSUME Owned, KnamesOwn, transactions' = transactions, DOMAIN nics' = DOMAIN nics,
         \A j \in DOMAIN nics :
           /\ nics'[j].kname = nics[j].kname
           /\ nics[j].tname # None => nics'[j].tname = nics[j].tname
  PROVE  Owned' /\ KnamesOwn'
<1>1. KnamesOwn'
  BY DEF KnamesOwn
<1>2. \A p \in DOMAIN transactions, j \in DOMAIN nics : Own(j, p) => Own(j, p)'
  BY DEF Own
<1>3. \A p \in DOMAIN transactions' : \E j \in DOMAIN nics' : Own(j, p)'
  BY <1>2 DEF Owned
<1> QED BY <1>1, <1>3 DEF Owned

LEMMA OwnedSteps ==
  ASSUME Inv, Owned, KnamesOwn, [Next]_vars, pc # "sanitise"
  PROVE  Owned' /\ KnamesOwn'
<1>1. CASE nics' = nics /\ transactions' = transactions
  BY <1>1, OwnedStays
<1>2. CASE \/ StaticRule
           \/ \E i \in work : Dynamic(i) \/ ReplaceOnFunction(i) \/ NumberNew(i)
  <2>1. Accepted /\ (Skip \/ \E i \in DOMAIN nics, new \in Name : nics[i].tname = None /\ Call(i, new, pc))
    BY <1>2, LoopIsVisit
  <2>2. CASE Skip
    BY <1>1, <2>2 DEF Skip
  <2>3. ASSUME NEW i \in DOMAIN nics, NEW new \in Name, nics[i].tname = None, Call(i, new, pc)
        PROVE  Owned' /\ KnamesOwn'
    BY <1>1, <2>1, <2>3, OwnedGrows DEF Call
  <2> QED BY <2>1, <2>2, <2>3
<1>3. CASE MultinicDone
  BY <1>3, OrdersEffect, OwnedStays DEF MultinicDone, InPlace
<1>4. ASSUME NEW i \in work, NumberKept(i) PROVE Owned' /\ KnamesOwn'
  <2>1. /\ i \in DOMAIN nics /\ nics[i].tname = None /\ KeepsKname(i)
        /\ nics' = [nics EXCEPT ![i].tname = nics[i].kname] /\ transactions' = transactions
    BY <1>4 DEF NumberKept, NextToNumber, Inv, TypeOK, Accepted, PcOK, WorkUnnamed
  <2>2. DOMAIN nics' = DOMAIN nics /\ \A j \in DOMAIN nics \ {i} : nics'[j] = nics[j]
    BY <2>1
  <2>3. nics'[i].kname = nics[i].kname
    <3>1. nics[i] \in Nic /\ nics'[i] = [nics[i] EXCEPT !.tname = nics[i].kname]
      BY <2>1 DEF Inv, TypeOK
    <3> QED BY <3>1 DEF Nic
  <2> QED BY <2>1, <2>2, <2>3, OwnedStays
<1>5. CASE UNCHANGED vars
  BY <1>1, <1>5 DEF vars
<1>6. CASE StaticDone \/ DynamicDone \/ NumberDone \/ \E fn \in fns : VisitFunction(fn)
  BY <1>1, <1>6 DEF StaticDone, DynamicDone, NumberDone, VisitFunction
<1> QED BY <1>2, <1>3, <1>4, <1>5, <1>6, StepOfPass

-----------------------------------------------------------------------------
(* The file of the dynamic rules.  DynamicProofs has the facts about it,   *)
(* and about the lists picked from lists.                                  *)

DP == INSTANCE DynamicProofs WITH old <- oldnics, Lists <- {}, Files <- {}, MaxList <- 0

LEMMA SameThose ==
  /\ \A s, I : Those(s, I) = DP!Those(s, I)
  /\ \A s, I : Dyn!Those(s, I) = DP!Those(s, I)
  /\ \A I, n : Nth(I, n) = DP!Nth(I, n)
  /\ \A I : Cardinality(I) = DP!Cardinality(I) /\ IsFiniteSet(I) = DP!IsFiniteSet(I)
<1>1. \A I : Cardinality(I) = DP!Cardinality(I)
  BY DEF Cardinality, DP!Cardinality, IsFiniteSet, DP!IsFiniteSet
<1>2. \A I : Cardinality(I) = Dyn!Cardinality(I)
  BY DEF Cardinality, Dyn!Cardinality, IsFiniteSet, Dyn!IsFiniteSet
<1>3. \A I, n : Nth(I, n) = DP!Nth(I, n)
  BY <1>1 DEF Nth, DP!Nth
<1>4. \A I, n : Nth(I, n) = Dyn!Nth(I, n)
  BY <1>2 DEF Nth, Dyn!Nth
<1>5. \A I : IsFiniteSet(I) = DP!IsFiniteSet(I)
  BY DEF IsFiniteSet, DP!IsFiniteSet
<1>6. \A s, I : Those(s, I) = DP!Those(s, I)
  BY <1>1, <1>3 DEF Those, DP!Those
<1>7. \A s, I : Those(s, I) = Dyn!Those(s, I)
  BY <1>2, <1>4 DEF Those, Dyn!Those
<1> QED BY <1>1, <1>3, <1>5, <1>6, <1>7

(* A list picked from a list, each position once. *)
LEMMA Picked ==
  ASSUME NEW X, NEW s \in Seq(X), NEW I, I \subseteq DOMAIN s
  PROVE  /\ Those(s, I) \in Seq(X)
         /\ \A n \in DOMAIN Those(s, I) : Nth(I, n) \in I /\ Those(s, I)[n] = s[Nth(I, n)]
         /\ \A m, n \in DOMAIN Those(s, I) : Nth(I, m) = Nth(I, n) => m = n
<1>1. /\ DP!Those(s, I) \in Seq(X)
      /\ DOMAIN DP!Those(s, I) = 1 .. DP!Cardinality(I)
      /\ \A n \in DOMAIN DP!Those(s, I) : DP!Nth(I, n) \in I /\ DP!Those(s, I)[n] = s[DP!Nth(I, n)]
      /\ DP!IsFiniteSet(I)
  BY DP!ThoseAre
<1>2. I \subseteq Nat
  <2>1. DOMAIN s = 1 .. Len(s)
    OBVIOUS
  <2> QED BY <2>1
<1>3. \A m, n \in 1 .. DP!Cardinality(I) : DP!Nth(I, m) = DP!Nth(I, n) => m = n
  BY <1>1, <1>2, DP!NthOf
<1> QED BY <1>1, <1>3, SameThose

(* Lists of valid triples only are loaded, and saved, whole. *)
AllLists(s) == \A i \in DOMAIN s : s[i].form = "list"

LEMMA WholeLists ==
  /\ Dyn!FileItem \subseteq Dyn!Item
  /\ \A s \in Seq(Dyn!FileItem) :
       AllLists(s) => Dyn!Parsed(s) \in Seq(Dyn!Item) /\ Dyn!EntriesOf(Dyn!Parsed(s)) = Dyn!EntriesOf(s)
  /\ \A s \in Seq(Dyn!Item) : AllLists(s) => Dyn!Validated(s) = s /\ Dyn!Serialisable(s)
<1>1. Dyn!FileItem = DP!FileItem /\ Dyn!Item = DP!Item
  BY DEF Dyn!FileItem, DP!FileItem, Dyn!Item, DP!Item
<1>2. \A s : Dyn!EntriesOf(s) = DP!EntriesOf(s) /\ AllLists(s) = DP!AllLists(s)
  BY DEF Dyn!EntriesOf, DP!EntriesOf, AllLists, DP!AllLists
<1>3. \A s : Dyn!Parsed(s) = DP!Parsed(s)
  BY SameThose DEF Dyn!Parsed, DP!Parsed, Dyn!OfForm, DP!OfForm, Dyn!As, DP!As
<1>4. \A s : Dyn!Validated(s) = DP!Validated(s) /\ Dyn!Serialisable(s) = DP!Serialisable(s)
  BY SameThose DEF Dyn!Validated, DP!Validated, Dyn!Validates, DP!Validates,
                   Dyn!Serialisable, DP!Serialisable
<1>5. \A s \in Seq(DP!FileItem) :
        DP!AllLists(s) => DP!Parsed(s) \in Seq(DP!Item) /\ DP!EntriesOf(DP!Parsed(s)) = DP!EntriesOf(s)
  BY DP!ParsedAre
<1>6. \A s \in Seq(DP!Item) : DP!AllLists(s) => DP!Validated(s) = s /\ DP!Serialisable(s)
  BY DP!ValidatedAll
<1>7. Dyn!FileItem \subseteq Dyn!Item
  BY DEF Dyn!FileItem, Dyn!Item
<1> QED BY <1>1, <1>2, <1>3, <1>4, <1>5, <1>6, <1>7

-----------------------------------------------------------------------------
(* The machine and its nics. *)

(* The kernel has named the links eth0, eth1, ... in some order.           *)
Listed ==
  /\ \A a \in DOMAIN machine : \E n \in 0 .. Cardinality(DOMAIN machine) - 1 : name[a] = Eth(n)
  /\ \A a, b \in DOMAIN machine : name[a] = name[b] => a = b

(* The nics rename() is given are those of the machine. *)
Placed ==
  /\ DOMAIN nics = 1 .. Cardinality(DOMAIN machine)
  /\ \A i \in DOMAIN nics : nics[i].mac \in DOMAIN machine /\ nics[i].pci = machine[nics[i].mac]
  /\ \A i, j \in DOMAIN nics : nics[i].mac = nics[j].mac => i = j
  /\ \A a \in DOMAIN machine : \E i \in DOMAIN nics : nics[i].mac = a

(* The links have the names the kernel gave them. *)
NotYetNamed == \A i \in DOMAIN nics : name[nics[i].mac] = Eth(i - 1)

Fresh == pc = "sanitise" => \A i \in DOMAIN nics : nics[i].kname = Eth(i - 1) /\ nics[i].tname = None

LEMMA MachineIs ==
  ASSUME machine \in Machines \cup {<<>>}
  PROVE  /\ DOMAIN machine \subseteq Mac /\ \A a \in DOMAIN machine : machine[a] \in Pci
         /\ IsFiniteSet(DOMAIN machine) /\ Cardinality(DOMAIN machine) \in Nat
<1>1. DOMAIN machine \subseteq Mac /\ \A a \in DOMAIN machine : machine[a] \in Pci
  <2>1. CASE machine = <<>>
    <3>1. DOMAIN machine = {}
      BY <2>1
    <3> QED BY <3>1
  <2> QED BY <2>1, BootCycleAssumption
<1> QED BY <1>1, BootCycleAssumption, FS_Subset, FS_CardinalityType

(* Every one of the first names is some link's.                            *)
LEMMA EveryName ==
  ASSUME machine \in Machines \cup {<<>>}, Listed
  PROVE  \A n \in 0 .. Cardinality(DOMAIN machine) - 1 : \E a \in DOMAIN machine : name[a] = Eth(n)
<1> DEFINE S == DOMAIN machine
           T == 1 .. Cardinality(S)
           f == [a \in S |-> name[a].num + 1]
<1>1. IsFiniteSet(S) /\ Cardinality(S) \in Nat
  BY MachineIs
<1>2. IsFiniteSet(T) /\ Cardinality(T) = Cardinality(S)
  <2>1. IsFiniteSet(T) /\ Cardinality(T) = IF 1 > Cardinality(S) THEN 0 ELSE Cardinality(S) - 1 + 1
    BY <1>1, FS_Interval
  <2> QED BY <1>1, <2>1
<1>3. ASSUME NEW a \in S PROVE name[a].num + 1 \in T /\ name[a] = Eth(name[a].num)
  <2>1. PICK n \in 0 .. Cardinality(S) - 1 : name[a] = Eth(n)
    BY DEF Listed
  <2>2. name[a].num = n
    BY <2>1 DEF Eth
  <2> QED BY <1>1, <2>1, <2>2
<1>4. f \in Injection(S, T)
  <2>1. f \in [S -> T]
    BY <1>3
  <2>2. ASSUME NEW a \in S, NEW b \in S, f[a] = f[b] PROVE a = b
    <3>1. name[a].num + 1 = name[b].num + 1 /\ name[a].num + 1 \in T /\ name[b].num + 1 \in T
      BY <1>3, <2>2
    <3>2. \E n \in Nat : name[a].num = n
      <4>1. PICK n \in 0 .. Cardinality(S) - 1 : name[a] = Eth(n)
        BY DEF Listed
      <4> QED BY <1>1, <4>1 DEF Eth
    <3>3. \E n \in Nat : name[b].num = n
      <4>1. PICK n \in 0 .. Cardinality(S) - 1 : name[b] = Eth(n)
        BY DEF Listed
      <4> QED BY <1>1, <4>1 DEF Eth
    <3>4. name[a].num = name[b].num
      BY <3>1, <3>2, <3>3
    <3> QED BY <1>3, <3>4 DEF Listed
  <2> QED BY <2>1, <2>2 DEF Injection, IsInjective
<1>5. f \in Surjection(S, T)
  <2> HIDE DEF f, T, S
  <2> QED BY <1>1, <1>2, <1>4, FS_Injection
<1>6. ASSUME NEW n \in 0 .. Cardinality(S) - 1 PROVE \E a \in S : name[a] = Eth(n)
  <2>1. n + 1 \in T
    BY <1>1
  <2>2. PICK a \in S : f[a] = n + 1
    BY <1>5, <2>1 DEF Surjection
  <2>3. PICK m \in 0 .. Cardinality(S) - 1 : name[a] = Eth(m)
    BY DEF Listed
  <2>4. name[a].num = m
    BY <2>3 DEF Eth
  <2>5. m = n
    BY <1>1, <2>2, <2>4
  <2> QED BY <2>3, <2>5
<1> QED BY <1>6

LEMMA CurrentNics ==
  ASSUME machine \in Machines \cup {<<>>}, Listed
  PROVE  /\ CurState \in Seq(Nic)
         /\ DOMAIN CurState = 1 .. Cardinality(DOMAIN machine)
         /\ \A i \in DOMAIN CurState :
              /\ CurState[i].mac \in DOMAIN machine /\ CurState[i].pci = machine[CurState[i].mac]
              /\ CurState[i].kname = Eth(i - 1) /\ CurState[i].tname = None
              /\ name[CurState[i].mac] = Eth(i - 1)
<1> DEFINE C == Cardinality(DOMAIN machine)
           M(i) == CHOOSE m \in DOMAIN machine : name[m] = Eth(i - 1)
<1>1. C \in Nat
  BY MachineIs
<1>2. ASSUME NEW i \in 1 .. C PROVE M(i) \in DOMAIN machine /\ name[M(i)] = Eth(i - 1)
  <2>1. i - 1 \in 0 .. C - 1
    BY <1>1
  <2>2. \E m \in DOMAIN machine : name[m] = Eth(i - 1)
    BY <2>1, EveryName
  <2> QED BY <2>2
<1>3. CurState = [i \in 1 .. C |-> [mac |-> M(i), pci |-> machine[M(i)], order |-> i,
                                    kname |-> Eth(i - 1), tname |-> None]]
  BY DEF CurState
<1> HIDE DEF M, C
<1>4. ASSUME NEW i \in 1 .. C PROVE CurState[i] \in Nic
  <2>1. i \in Nat /\ Eth(i - 1) \in Name
    BY <1>1 DEF Eth, Name
  <2>2. M(i) \in Mac /\ machine[M(i)] \in Pci
    BY <1>2, MachineIs
  <2> QED BY <1>3, <2>1, <2>2 DEF Nic
<1>5. CurState \in Seq(Nic) /\ DOMAIN CurState = 1 .. C
  <2>1. CurState = [i \in 1 .. C |-> CurState[i]]
    BY <1>3
  <2> QED BY <1>1, <1>4, <2>1
<1> QED BY <1>2, <1>3, <1>5 DEF C

-----------------------------------------------------------------------------
(* One call of rename() during a boot. *)

(* What a boot remembers: the names of its nics, pairwise distinct and as  *)
(* the static rules have it, and older nics; no nic twice.                 *)
Fit(l, o) ==
  /\ l \in Seq(Entry) /\ o \in Seq(Entry)
  /\ \A i \in DOMAIN l : IsEth(l[i].tname)
  /\ \A i \in DOMAIN o : IsEth(o[i].tname)
  /\ ~NamesClash(l) /\ ~MacsClash(l) /\ ~MacsClash(o)
  /\ \A i \in DOMAIN l, j \in DOMAIN o : l[i].mac # o[j].mac
  /\ Obeyed(l)

(* The call, at any of its steps. *)
Passing ==
  /\ MemoryInv /\ Numbers
  /\ PlaceKept /\ StaysPut
  /\ Owned /\ KnamesOwn
  /\ Placed /\ Fresh
  /\ error \in {"none", "AssertionError"}

LEMMA StartsPassing ==
  ASSUME Called, Placed, Fresh
  PROVE  Passing
<1>1. KnamesOwn
  <2>1. \A i, j \in DOMAIN nics : Eth(i - 1) = Eth(j - 1) => i = j
    <3>1. ASSUME NEW i \in DOMAIN nics, NEW j \in DOMAIN nics, Eth(i - 1) = Eth(j - 1) PROVE i = j
      <4>1. i - 1 = j - 1 /\ i \in Nat /\ j \in Nat
        BY <3>1 DEF Eth, Called
      <4> QED BY <4>1
    <3> QED BY <3>1
  <2> QED BY <2>1 DEF KnamesOwn, Fresh, Called
<1>2. Owned
  BY DEF Owned, Called
<1>3. PlaceKept /\ StaysPut
  BY DEF PlaceKept, StaysPut, Called, Later
<1> QED BY <1>1, <1>2, <1>3, CalledMemory, CalledNumbers DEF Passing, Called

(* The checks of rename() find nothing. *)
LEMMA NotRejected ==
  ASSUME Passing, static \in UserRules, Fit(last, old)
  PROVE  ~Reject
<1> SUFFICES ASSUME pc = "sanitise" PROVE Sanitised
  <2>1. Sanitised => ~BadKname /\ ~BadCurrent
    BY DEF Sanitised, CurrentFine, BadKname, BadCurrent
  <2> QED BY <2>1 DEF Reject, Sanitised, CurrentFine
<1>1. ~BadStatic
  BY BootCycleAssumption DEF BadStatic
<1>2. ~BadLast
  BY BootCycleAssumption DEF BadLast, Fit
<1>3. ~BadOld
  BY BootCycleAssumption DEF BadOld, Fit, IsEth, StartsEth
<1>4. \A i \in DOMAIN nics : IsCurKname(nics[i].kname) /\ nics[i].tname = None
  <2>1. \A i \in DOMAIN nics : nics[i].kname = Eth(i - 1) /\ nics[i].tname = None
    BY DEF Passing, Fresh
  <2>2. \A n : Eth(n).kind = "eth"
    BY DEF Eth
  <2> QED BY <2>1, <2>2 DEF IsCurKname
<1>5. Faulty = {}
  BY <1>4 DEF Faulty, Considered
<1>6. ~CurClash
  BY DEF CurClash, Considered, Passing, KnamesOwn, Placed
<1> QED BY <1>1, <1>2, <1>3, <1>5, <1>6 DEF Sanitised, CurrentFine

(* Nothing is filtered out. *)
LEMMA AllConsidered ==
  ASSUME Passing, Accept
  PROVE  nics' = nics
<1>1. Considered = DOMAIN nics
  <2>1. \A i \in DOMAIN nics : nics[i].kname = Eth(i - 1)
    BY DEF Accept, Passing, Fresh
  <2>2. \A n : Eth(n).kind = "eth"
    BY DEF Eth
  <2> QED BY <2>1, <2>2 DEF Considered, IsIbft
<1>2. nics = [i \in DOMAIN nics |-> nics[i]]
  BY DEF Passing, MemoryInv, Inv, TypeOK
<1> QED BY <1>1, <1>2 DEF Accept

LEMMA PassingSteps ==
  ASSUME Passing, static \in UserRules, Fit(last, old), Next,
         UNCHANGED <<machine, name>>
  PROVE  /\ Passing' /\ static' = static /\ last' = last /\ old' = old
         /\ \A i \in DOMAIN nics' : nics'[i].mac = nics[i].mac
         /\ DOMAIN nics' = DOMAIN nics
<1>0. Inv /\ Provenance /\ Counted /\ MemoryInv /\ [Next]_vars
  BY DEF Passing, MemoryInv
<1>1. ~Reject
  BY NotRejected
<1>2. MemoryInv'
  BY <1>0, NextMemory
<1>3. Inv'
  BY <1>2 DEF MemoryInv
<1>4. Numbers' /\ PlaceKept' /\ StaysPut'
  BY <1>0, <1>1, <1>3, NumbersSteps, PlaceKeptSteps, SettledSteps DEF Passing
<1>5. CASE pc = "sanitise"
  <2>1. Accept /\ nics' = nics
    BY <1>0, <1>1, <1>5, StepOfPass, AllConsidered
  <2>2. UNCHANGED <<static, last, old, transactions, error, nics>> /\ pc' # "sanitise"
    BY <2>1 DEF Accept, inputs
  <2>3. Owned' /\ KnamesOwn'
    BY <2>2 DEF Passing, Owned, KnamesOwn, Own
  <2>4. Placed' /\ Fresh'
    BY <2>2 DEF Passing, Placed, Fresh
  <2> QED BY <1>2, <1>4, <2>2, <2>3, <2>4 DEF Passing
<1>6. CASE pc # "sanitise"
  <2>1. InPlace /\ UNCHANGED inputs
    BY <1>0, <1>6, StepInPlace
  <2>2. Owned' /\ KnamesOwn'
    BY <1>0, <1>6, OwnedSteps DEF Passing
  <2>3. Placed'
    BY <2>1 DEF Passing, Placed, InPlace
  <2>4. pc' # "sanitise"
    <3>1. CASE StaticRule \/ \E i \in work : Dynamic(i) \/ ReplaceOnFunction(i) \/ NumberNew(i)
      BY <1>0, <3>1, LoopIsVisit
    <3>2. CASE ~(StaticRule \/ \E i \in work : Dynamic(i) \/ ReplaceOnFunction(i) \/ NumberNew(i))
      BY <1>0, <1>6, <3>2, StepOfPass DEF StaticDone, DynamicDone, NumberDone, VisitFunction,
         MultinicDone, NumberKept, NextToNumber
    <3> QED BY <3>1, <3>2
  <2>5. error' \in {"none", "AssertionError"}
    <3>1. CASE StaticRule \/ \E i \in work : Dynamic(i) \/ ReplaceOnFunction(i) \/ NumberNew(i)
      <4>1. \/ Skip
            \/ \E i \in DOMAIN nics, new \in Name : nics[i].tname = None /\ Call(i, new, pc)
        BY <1>0, <3>1, LoopIsVisit
      <4> QED BY <4>1 DEF Skip, Call, Raise, Passing
    <3>2. CASE ~(StaticRule \/ \E i \in work : Dynamic(i) \/ ReplaceOnFunction(i) \/ NumberNew(i))
      <4>1. error' = error
        BY <1>0, <1>6, <3>2, StepOfPass DEF StaticDone, DynamicDone, NumberDone, VisitFunction,
           MultinicDone, NumberKept
      <4> QED BY <4>1 DEF Passing
    <3> QED BY <3>1, <3>2
  <2> QED BY <1>2, <1>4, <2>1, <2>2, <2>3, <2>4, <2>5 DEF Passing, InPlace, inputs, Fresh
<1> QED BY <1>5, <1>6

LEMMA StartsPassingNext == Called' /\ Placed' /\ Fresh' => Passing'
<1>1. Called /\ Placed /\ Fresh => Passing
  BY StartsPassing
<1> QED BY <1>1, PTL

LEMMA PassingStays ==
  ASSUME Passing, UNCHANGED <<vars, machine>>
  PROVE  Passing'
<1>0. Inv /\ Provenance /\ Counted /\ MemoryInv /\ [Next]_vars
  BY DEF Passing, MemoryInv
<1>1. UNCHANGED <<static, last, old, nics, transactions, pc, error, machine>>
  BY DEF vars
<1>2. ~Reject
  BY <1>1 DEF Reject, Raise
<1>3. MemoryInv'
  BY <1>0, NextMemory
<1>4. Inv'
  BY <1>3 DEF MemoryInv
<1>5. Numbers' /\ PlaceKept' /\ StaysPut'
  BY <1>0, <1>2, <1>4, NumbersSteps, PlaceKeptSteps, SettledSteps DEF Passing
<1>6. Owned' /\ KnamesOwn'
  BY <1>1, OwnedStays DEF Passing
<1>7. Placed' /\ Fresh' /\ error' \in {"none", "AssertionError"}
  BY <1>1 DEF Passing, Placed, Fresh
<1> QED BY <1>3, <1>5, <1>6, <1>7 DEF Passing

-----------------------------------------------------------------------------
(* The invariant of the boots. *)

Typed ==
  /\ static \in UserRules
  /\ phase \in {"off", "load", "rename", "apply", "save", "up"} /\ boots \in 0 .. MaxBoot
  /\ machine \in Machines \cup {<<>>}
  /\ name \in [DOMAIN machine -> Name] /\ todo \in Seq(Name \X Name)
  /\ phase # "save" => saving = FALSE
  /\ saving => kept = Dyn!Nothing

Before == {"off", "load"}

Idle ==
  /\ last = <<>> /\ old = <<>> /\ nics = <<>> /\ transactions = <<>>
  /\ pc = "done" /\ error = "none" /\ k = 1 /\ fns = {} /\ work = {} /\ nextethnum = 0
  /\ lastboot = <<>> /\ oldnics = <<>>

ListsFit(l, o) ==
  /\ l \in Seq(Dyn!FileItem) /\ o \in Seq(Dyn!FileItem)
  /\ AllLists(l) /\ AllLists(o)
  /\ Fit(Dyn!EntriesOf(l), Dyn!EntriesOf(o))

(* The file holds nothing, or what one boot remembered: the last one, if   *)
(* its save was completed.                                                 *)
FileFits ==
  \/ file \in {Dyn!Absent, Dyn!Blank, Dyn!Corrupt} /\ kept = Dyn!Nothing
  \/ /\ file = Dyn!Rules(file.lastboot, file.old)
     /\ ListsFit(file.lastboot, file.old)
     /\ kept \in {Dyn!Nothing, Dyn!Rules(Dyn!EntriesOf(file.lastboot), Dyn!EntriesOf(file.old))}

Recalls == kept # Dyn!Nothing /\ result = "True" => last = kept.lastboot /\ old = kept.old

(* While the renames are carried out: what is left to do, and the names so *)
(* far, each the first one or one some call of the nic's own has set.      *)
Ran(q) ==
  \/ q + Len(todo) <= Len(transactions)
  \/ q + Len(todo) = Len(transactions) + 1 /\ step = "up"
Carried ==
  /\ Len(todo) <= Len(transactions)
  /\ \A p \in 1 .. Len(todo) : todo[p] = transactions[Len(transactions) - Len(todo) + p]
  /\ \A i \in DOMAIN nics :
       \/ name[nics[i].mac] = Eth(i - 1)
       \/ \E q \in DOMAIN transactions :
            Ran(q) /\ Own(i, q) /\ name[nics[i].mac] = transactions[q][2]

BootInv ==
  /\ Typed /\ FileFits
  /\ phase \in Before => Idle
  /\ phase = "load" => Listed
  /\ phase \notin Before => Passing
  /\ phase \in {"rename", "apply"} => Fit(last, old) /\ Recalls
  /\ phase = "rename" => NotYetNamed
  /\ phase = "apply" => pc = "done" /\ Carried
  /\ phase = "save" => ListsFit(lastboot, oldnics)

LEMMA FileStays ==
  ASSUME FileFits, UNCHANGED <<file, kept, static>>
  PROVE  FileFits'
<1> DEFINE l == Dyn!EntriesOf(file.lastboot)
           o == Dyn!EntriesOf(file.old)
<1>0. l' = l /\ o' = o
  BY DEF Dyn!EntriesOf
<1> HIDE DEF l, o
<1>1. ASSUME ListsFit(file.lastboot, file.old) PROVE ListsFit(file.lastboot, file.old)'
  <2>1. Fit(l, o)
    BY <1>1 DEF ListsFit, l, o
  <2>2. Obeyed(l)'
    BY <1>0, <2>1 DEF Fit, Obeyed, Same, WithMac, WithPci
  <2>3. NamesClash(l)' = NamesClash(l) /\ MacsClash(l)' = MacsClash(l) /\ MacsClash(o)' = MacsClash(o)
    BY <1>0 DEF NamesClash, MacsClash
  <2>4. Fit(l, o)'
    BY <1>0, <2>1, <2>2, <2>3 DEF Fit
  <2> QED BY <1>1, <2>4 DEF ListsFit, AllLists, l, o
<1> QED BY <1>1 DEF FileFits, Dyn!EntriesOf, Dyn!Rules, Dyn!Absent, Dyn!Blank, Dyn!Corrupt, Dyn!Nothing

LEMMA NothingFits == Fit(<<>>, <<>>)
<1>1. <<>> \in Seq(Entry) /\ DOMAIN <<>> = {}
  OBVIOUS
<1> QED BY <1>1 DEF Fit, NamesClash, MacsClash, Obeyed, Same, WithMac

(* What is loaded fits, and is what the last boot remembered if its save   *)
(* was completed and the file could be read.                               *)
LEMMA Loaded ==
  ASSUME FileFits, lastboot = <<>>, oldnics = <<>>, Dyn!Load
  PROVE  /\ Fit(Dyn!EntriesOf(lastboot'), Dyn!EntriesOf(oldnics'))
         /\ kept # Dyn!Nothing /\ result' = "True" =>
              Dyn!EntriesOf(lastboot') = kept.lastboot /\ Dyn!EntriesOf(oldnics') = kept.old
         /\ UNCHANGED <<file, kept, saving>>
<1>1. CASE Dyn!LoadFail \/ Dyn!LoadBlank
  <2>1. lastboot' = <<>> /\ oldnics' = <<>> /\ UNCHANGED <<file, kept, saving>>
        /\ (result' = "False" \/ file.state # "rules")
    BY <1>1 DEF Dyn!LoadFail, Dyn!LoadBlank, Dyn!object
  <2>2. Dyn!EntriesOf(<<>>) = <<>>
    BY DEF Dyn!EntriesOf
  <2>3. kept = Dyn!Nothing \/ result' # "True"
    BY <2>1 DEF FileFits, Dyn!Rules
  <2> QED BY <2>1, <2>2, <2>3, NothingFits
<1>2. CASE Dyn!LoadRules
  <2>1. /\ file.state = "rules" /\ UNCHANGED <<file, kept, saving>>
        /\ lastboot' = <<>> \o Dyn!Parsed(file.lastboot)
        /\ oldnics' = <<>> \o Dyn!Parsed(file.old)
    BY <1>2 DEF Dyn!LoadRules
  <2>2. /\ ListsFit(file.lastboot, file.old)
        /\ kept \in {Dyn!Nothing, Dyn!Rules(Dyn!EntriesOf(file.lastboot), Dyn!EntriesOf(file.old))}
    BY <2>1 DEF FileFits, Dyn!Absent, Dyn!Blank, Dyn!Corrupt
  <2> DEFINE l == file.lastboot
             o == file.old
  <2>3. /\ Dyn!Parsed(l) \in Seq(Dyn!Item) /\ Dyn!EntriesOf(Dyn!Parsed(l)) = Dyn!EntriesOf(l)
        /\ Dyn!Parsed(o) \in Seq(Dyn!Item) /\ Dyn!EntriesOf(Dyn!Parsed(o)) = Dyn!EntriesOf(o)
    BY <2>2, WholeLists DEF ListsFit
  <2>4. lastboot' = Dyn!Parsed(l) /\ oldnics' = Dyn!Parsed(o)
    BY <2>1, <2>3
  <2>5. kept # Dyn!Nothing => kept.lastboot = Dyn!EntriesOf(l) /\ kept.old = Dyn!EntriesOf(o)
    BY <2>2 DEF Dyn!Rules
  <2> QED BY <2>1, <2>2, <2>3, <2>4, <2>5 DEF ListsFit
<1> QED BY <1>1, <1>2 DEF Dyn!Load

LEMMA FitStays ==
  ASSUME Fit(last, old), UNCHANGED <<static, last, old>>
  PROVE  Fit(last, old)'
BY DEF Fit, NamesClash, MacsClash, Obeyed, Same, WithMac, WithPci

LEMMA PowerOnInv ==
  ASSUME BootInv, NEW m \in Machines, PowerOn(m)
  PROVE  BootInv'
<1>1. /\ phase = "off" /\ phase' = "load" /\ boots < MaxBoot /\ boots' = boots + 1 /\ machine' = m
      /\ name' \in [DOMAIN m -> {Eth(n) : n \in 0 .. Cardinality(DOMAIN m) - 1}]
      /\ \A a, b \in DOMAIN m : name'[a] = name'[b] => a = b
      /\ UNCHANGED <<vars, todo, file, lastboot, oldnics, saving, kept>>
  BY DEF PowerOn, dynvars
<1>2. FileFits'
  BY <1>1, FileStays DEF BootInv, vars
<1>3. Idle'
  BY <1>1 DEF BootInv, Idle, Before, vars
<1>4. Listed'
  BY <1>1 DEF Listed
<1>5. Typed'
  <2>1. Cardinality(DOMAIN m) \in Nat
    BY BootCycleAssumption, FS_Subset, FS_CardinalityType
  <2>2. \A n \in 0 .. Cardinality(DOMAIN m) - 1 : Eth(n) \in Name
    BY <2>1 DEF Eth, Name
  <2>3. name' \in [DOMAIN machine' -> Name]
    BY <1>1, <2>2
  <2>4. boots' \in 0 .. MaxBoot
    BY <1>1, BootCycleAssumption DEF BootInv, Typed
  <2> QED BY <1>1, <2>3, <2>4 DEF BootInv, Typed, vars, Dyn!Nothing
<1> QED BY <1>1, <1>2, <1>3, <1>4, <1>5 DEF BootInv, Before

LEMMA LoadBootInv ==
  ASSUME BootInv, Load
  PROVE  BootInv'
<1>1. /\ phase = "load" /\ phase' = "rename" /\ Dyn!Load
      /\ last' = Dyn!EntriesOf(lastboot') /\ old' = Dyn!EntriesOf(oldnics')
      /\ nics' = CurState /\ pc' = "sanitise"
      /\ UNCHANGED <<static, transactions, error, k, fns, work, nextethnum, machine, boots, name, todo>>
  BY DEF Load, ipvars
<1>2. Idle /\ Listed /\ FileFits /\ Typed
  BY <1>1 DEF BootInv, Before
<1>3. Fit(last', old')
      /\ (kept # Dyn!Nothing /\ result' = "True" => last' = kept.lastboot /\ old' = kept.old)
      /\ UNCHANGED <<file, kept, saving>>
  BY <1>1, <1>2, Loaded DEF Idle
<1>4. FileFits'
  BY <1>1, <1>2, <1>3, FileStays
<1>5. Typed'
  BY <1>1, <1>2, <1>3 DEF Typed, Dyn!Nothing
<1>6. Fit(last, old)' /\ Recalls'
  BY <1>1, <1>3 DEF Fit, NamesClash, MacsClash, Obeyed, Same, WithMac, WithPci, Recalls, Dyn!Nothing
<1>7. /\ nics' \in Seq(Nic) /\ DOMAIN nics' = 1 .. Cardinality(DOMAIN machine)
      /\ \A i \in DOMAIN nics' :
           /\ nics'[i].mac \in DOMAIN machine /\ nics'[i].pci = machine[nics'[i].mac]
           /\ nics'[i].kname = Eth(i - 1) /\ nics'[i].tname = None
           /\ name[nics'[i].mac] = Eth(i - 1)
  BY <1>1, <1>2, CurrentNics DEF Typed
<1>8. Called'
  <2>1. static \in Seq(Entry)
    BY <1>2, BootCycleAssumption DEF Typed
  <2> QED BY <1>1, <1>2, <1>3, <1>7, <2>1 DEF Called, Idle, Fit
<1>9. Placed'
  <2>1. Cardinality(DOMAIN machine) \in Nat
    BY <1>2, MachineIs DEF Typed
  <2>2. ASSUME NEW i \in DOMAIN nics', NEW j \in DOMAIN nics', nics'[i].mac = nics'[j].mac PROVE i = j
    <3>1. Eth(i - 1) = Eth(j - 1)
      BY <1>7, <2>2
    <3>2. i - 1 = j - 1 /\ i \in Nat /\ j \in Nat
      BY <1>7, <2>1, <3>1 DEF Eth
    <3> QED BY <3>2
  <2>3. ASSUME NEW a \in DOMAIN machine PROVE \E i \in DOMAIN nics' : nics'[i].mac = a
    <3>1. PICK n \in 0 .. Cardinality(DOMAIN machine) - 1 : name[a] = Eth(n)
      BY <1>2 DEF Listed
    <3>2. n + 1 \in DOMAIN nics' /\ (n + 1) - 1 = n
      BY <1>7, <2>1
    <3>3. name[nics'[n + 1].mac] = Eth(n) /\ nics'[n + 1].mac \in DOMAIN machine
      BY <1>7, <3>2
    <3>4. nics'[n + 1].mac = a
      BY <1>2, <3>1, <3>3 DEF Listed
    <3> QED BY <3>2, <3>4
  <2> QED BY <1>1, <1>7, <2>2, <2>3 DEF Placed
<1>10. Fresh' /\ NotYetNamed'
  BY <1>1, <1>7 DEF Fresh, NotYetNamed
<1>11. Passing'
  BY <1>8, <1>9, <1>10, StartsPassingNext
<1> QED BY <1>1, <1>4, <1>5, <1>6, <1>10, <1>11 DEF BootInv, Before

LEMMA DecideInv ==
  ASSUME BootInv, Decide
  PROVE  BootInv'
<1>1. /\ phase = "rename" /\ Next
      /\ UNCHANGED <<machine, boots, phase, name, todo, file, lastboot, oldnics, saving, result, kept>>
  BY DEF Decide, ipvars, dynvars
<1>2. Passing /\ Typed /\ FileFits /\ Fit(last, old) /\ Recalls /\ NotYetNamed
  BY <1>1 DEF BootInv, Before
<1>3. /\ Passing' /\ static' = static /\ last' = last /\ old' = old
      /\ \A i \in DOMAIN nics' : nics'[i].mac = nics[i].mac
      /\ DOMAIN nics' = DOMAIN nics
  <2>1. static \in UserRules
    BY <1>2 DEF Typed
  <2>2. UNCHANGED <<machine, name>>
    BY <1>1
  <2> QED BY <1>1, <1>2, <2>1, <2>2, PassingSteps
<1>4. FileFits' /\ Fit(last, old)' /\ Recalls'
  BY <1>1, <1>2, <1>3, FileStays, FitStays DEF Recalls, Dyn!Nothing
<1>5. Typed' /\ NotYetNamed'
  BY <1>1, <1>2, <1>3 DEF Typed, NotYetNamed, Dyn!Nothing
<1> QED BY <1>1, <1>3, <1>4, <1>5 DEF BootInv, Before

LEMMA ApplyInv ==
  ASSUME BootInv, Apply
  PROVE  BootInv'
<1>1. /\ phase = "rename" /\ phase' = "apply" /\ pc = "done" /\ todo' = transactions
      /\ UNCHANGED <<vars, machine, boots, name, file, lastboot, oldnics, saving, result, kept>>
  BY DEF Apply, dynvars
<1>2. Passing /\ Typed /\ FileFits /\ Fit(last, old) /\ Recalls /\ NotYetNamed
  BY <1>1 DEF BootInv, Before
<1>3. Passing'
  BY <1>1, <1>2, PassingStays
<1>4. UNCHANGED <<static, last, old, nics, transactions, pc>>
  BY <1>1 DEF vars
<1>5. FileFits' /\ Fit(last, old)' /\ Recalls'
  BY <1>1, <1>2, <1>4, FileStays, FitStays DEF Recalls, Dyn!Nothing
<1>6. transactions \in Seq(Name \X Name)
  BY <1>2 DEF Passing, MemoryInv, Inv, TypeOK
<1>7. Carried'
  <2>1. Len(transactions) \in Nat /\ \A p \in 1 .. Len(transactions) : Len(transactions) - Len(transactions) + p = p
    BY <1>6
  <2> QED BY <1>1, <1>2, <1>4, <2>1 DEF Carried, NotYetNamed
<1>8. Typed'
  BY <1>1, <1>2, <1>4, <1>6 DEF Typed, Dyn!Nothing
<1> QED BY <1>1, <1>3, <1>4, <1>5, <1>7, <1>8 DEF BootInv, Before

-----------------------------------------------------------------------------
(* The renames are carried out. *)

(* The link a command finds under its source is the one the transaction    *)
(* was made for: nobody was given that name but the transaction's own nic, *)
(* and nobody else began with it.                                          *)
LEMMA OwnerIsFound ==
  ASSUME Passing, Carried, pc = "done", todo \in Seq(Name \X Name), todo # <<>>, step # "up",
         NEW g \in DOMAIN nics, name[nics[g].mac] = todo[1][1]
  PROVE  \E p \in DOMAIN transactions :
           p + Len(todo) = Len(transactions) + 1 /\ todo[1] = transactions[p] /\ Own(g, p)
<1>0. /\ Owned /\ KnamesOwn /\ TnamesEth /\ transactions \in Seq(Name \X Name)
      /\ \A i \in DOMAIN nics : i \in Nat
  BY DEF Passing, MemoryInv, Inv, TypeOK, PcOK, Accepted
<1>1. /\ Len(todo) \in Nat /\ Len(todo) # 0 /\ Len(transactions) \in Nat
      /\ DOMAIN transactions = 1 .. Len(transactions) /\ Len(todo) <= Len(transactions)
  BY <1>0 DEF Carried
<1>2. PICK p \in DOMAIN transactions : p + Len(todo) = Len(transactions) + 1
  <2> DEFINE p == Len(transactions) - Len(todo) + 1
  <2>1. p \in DOMAIN transactions /\ p + Len(todo) = Len(transactions) + 1
    BY <1>1
  <2> HIDE DEF p
  <2> QED BY <2>1
<1>3. p \in Nat /\ todo[1] = transactions[p]
  <2>1. todo[1] = transactions[Len(transactions) - Len(todo) + 1]
    BY <1>1 DEF Carried
  <2>2. p = Len(transactions) - Len(todo) + 1
    BY <1>1, <1>2
  <2> QED BY <1>1, <2>1, <2>2
<1>4. PICK h \in DOMAIN nics : Own(h, p)
  BY <1>0, <1>2 DEF Owned
<1>5. \A n : IsEth(Eth(n))
  BY DEF IsEth, Eth
<1>6. CASE IsEth(transactions[p][1])
  <2>1. transactions[p][1] = Eth(h - 1)
    BY <1>0, <1>4, <1>6 DEF Own, KnamesOwn
  <2>2. ASSUME NEW q \in DOMAIN transactions, Ran(q), name[nics[g].mac] = transactions[q][2] PROVE FALSE
    <3>1. q < p
      BY <1>1, <1>2, <2>2 DEF Ran
    <3>2. transactions[q][2] = transactions[p][1]
      BY <1>3, <2>2
    <3> QED BY <1>0, <1>2, <1>6, <3>1, <3>2 DEF Owned
  <2>3. name[nics[g].mac] = Eth(g - 1)
    BY <2>2 DEF Carried
  <2>4. g - 1 = h - 1
    BY <1>3, <2>1, <2>3 DEF Eth
  <2>5. g = h
    BY <1>0, <2>4
  <2> QED BY <1>2, <1>3, <1>4, <2>5
<1>7. CASE ~IsEth(transactions[p][1])
  <2>1. nics[h].kname = transactions[p][1]
    BY <1>4, <1>5, <1>7 DEF Own
  <2>2. PICK q \in DOMAIN transactions : Own(g, q) /\ transactions[q][2] = transactions[p][1]
    BY <1>3, <1>5, <1>7 DEF Carried
  <2>3. nics[g].kname = transactions[p][1]
    BY <1>0, <1>7, <2>2 DEF Own, TnamesEth
  <2>4. g = h
    BY <1>0, <2>1, <2>3 DEF KnamesOwn
  <2> QED BY <1>2, <1>3, <1>4, <2>4
<1> QED BY <1>6, <1>7

(* One command: a link gets a name of its own nic, or none gets a name.    *)
GivesName(g, p) ==
  /\ g \in DOMAIN nics /\ p \in DOMAIN transactions /\ Own(g, p)
  /\ p + Len(todo) = Len(transactions) + 1
  /\ nics[g].mac \in DOMAIN name
  /\ name' = [name EXCEPT ![nics[g].mac] = transactions[p][2]]
  /\ \/ step' = "up" /\ todo' = todo
     \/ todo' = Tail(todo)

LEMMA Commands ==
  ASSUME Passing, Carried, pc = "done", Typed, Ip!IpNext
  PROVE  /\ todo # <<>>
         /\ \/ name' = name /\ todo' = todo /\ step # "up"
            \/ name' = name /\ todo' = Tail(todo)
            \/ \E g, p : GivesName(g, p)
<1>0. DOMAIN name = DOMAIN machine /\ todo \in Seq(Name \X Name)
  BY DEF Typed
<1>1. ASSUME NEW l \in DOMAIN name, Ip!Show(l) \/ Ip!Down(l)
      PROVE  todo # <<>> /\ name' = name /\ todo' = todo /\ step # "up"
  BY <1>1 DEF Ip!Show, Ip!Down, Ip!Running, Ip!links
<1>2. ASSUME NEW l \in DOMAIN name, Ip!Up(l)
      PROVE  todo # <<>> /\ name' = name /\ todo' = Tail(todo)
  BY <1>2 DEF Ip!Up, Ip!Running, Ip!Return
<1>3. ASSUME Ip!GiveUp
      PROVE  todo # <<>> /\ name' = name /\ todo' = Tail(todo)
  BY <1>3 DEF Ip!GiveUp, Ip!links, Ip!Return
<1>4. ASSUME NEW l \in DOMAIN name, Ip!Rename(l)
      PROVE  todo # <<>> /\ \E g, p : GivesName(g, p)
  <2>1. /\ todo # <<>> /\ step = "rename" /\ name[l] = todo[1][1]
        /\ name' = [name EXCEPT ![l] = todo[1][2]]
        /\ (step' = "up" /\ todo' = todo) \/ todo' = Tail(todo)
    BY <1>4 DEF Ip!Rename, Ip!Running, Ip!Called, Ip!Src, Ip!Dst, Ip!Return
  <2>2. PICK g \in DOMAIN nics : nics[g].mac = l
    BY <1>0 DEF Passing, Placed
  <2>3. PICK p \in DOMAIN transactions :
          p + Len(todo) = Len(transactions) + 1 /\ todo[1] = transactions[p] /\ Own(g, p)
    BY <1>0, <2>1, <2>2, OwnerIsFound
  <2> QED BY <2>1, <2>2, <2>3 DEF GivesName
<1> QED BY <1>1, <1>2, <1>3, <1>4 DEF Ip!IpNext

LEMMA CarriedSteps ==
  ASSUME Passing, Carried, pc = "done", Typed, Ip!IpNext, UNCHANGED <<nics, transactions>>
  PROVE  Carried' /\ name' \in [DOMAIN machine -> Name] /\ todo' \in Seq(Name \X Name)
<1>0. /\ todo \in Seq(Name \X Name) /\ todo # <<>> /\ name \in [DOMAIN machine -> Name]
      /\ transactions \in Seq(Name \X Name)
  BY Commands DEF Typed, Passing, MemoryInv, Inv, TypeOK
<1>1. PICK n \in Nat : n = Len(transactions) /\ DOMAIN transactions = 1 .. n
  BY <1>0
<1>2. PICK m \in Nat : m = Len(todo) /\ m # 0
  BY <1>0
<1>3. \A i, q : Own(i, q)' = Own(i, q)
  BY DEF Own
<1>4. ASSUME todo' = Tail(todo)
      PROVE  /\ todo' \in Seq(Name \X Name) /\ Len(todo') = m - 1 /\ Len(todo') <= n
             /\ \A p \in 1 .. Len(todo') : todo'[p] = transactions[n - Len(todo') + p]
             /\ \A q \in DOMAIN transactions : Ran(q) => Ran(q)'
             /\ \A q \in DOMAIN transactions : q + m = n + 1 => Ran(q)'
  <2>1. todo' \in Seq(Name \X Name) /\ Len(todo') = m - 1
        /\ \A p \in 1 .. m - 1 : todo'[p] = todo[p + 1]
    BY <1>0, <1>2, <1>4
  <2>2. m <= n
    BY <1>1, <1>2 DEF Carried
  <2>3. ASSUME NEW p \in 1 .. m - 1 PROVE todo'[p] = transactions[n - (m - 1) + p]
    <3>1. p + 1 \in 1 .. m /\ n - m + (p + 1) = n - (m - 1) + p
      BY <1>1, <1>2
    <3>2. todo[p + 1] = transactions[n - m + (p + 1)]
      BY <1>1, <1>2, <3>1 DEF Carried
    <3> QED BY <2>1, <3>1, <3>2
  <2>4. \A q \in DOMAIN transactions : Ran(q) => Ran(q)'
    BY <1>1, <1>2, <2>1 DEF Ran
  <2>5. \A q \in DOMAIN transactions : q + m = n + 1 => Ran(q)'
    BY <1>1, <1>2, <2>1 DEF Ran
  <2>6. Len(todo') = m - 1 /\ n - Len(todo') = n - (m - 1) /\ m - 1 <= n
    BY <1>1, <1>2, <2>1, <2>2
  <2>7. \A p \in 1 .. Len(todo') : todo'[p] = transactions[n - Len(todo') + p]
    BY <2>3, <2>6
  <2> QED BY <2>1, <2>4, <2>5, <2>6, <2>7
<1>5. CASE name' = name /\ todo' = todo /\ step # "up"
  <2>1. \A q \in DOMAIN transactions : Ran(q) => Ran(q)'
    BY <1>5 DEF Ran
  <2> QED BY <1>0, <1>3, <1>5, <2>1 DEF Carried
<1>6. CASE name' = name /\ todo' = Tail(todo)
  BY <1>0, <1>1, <1>3, <1>4, <1>6 DEF Carried
<1>7. ASSUME NEW g, NEW p, GivesName(g, p)
      PROVE  Carried' /\ name' \in [DOMAIN machine -> Name] /\ todo' \in Seq(Name \X Name)
  <2>1. transactions[p][2] \in Name
    BY <1>0, <1>7 DEF GivesName
  <2>2. name' \in [DOMAIN machine -> Name] /\ name'[nics[g].mac] = transactions[p][2]
        /\ \A i \in DOMAIN nics \ {g} : name'[nics[i].mac] = name[nics[i].mac]
    BY <1>0, <1>7, <2>1 DEF GivesName, Passing, Placed
  <2>3. /\ todo' \in Seq(Name \X Name) /\ Len(todo') <= n
        /\ \A r \in 1 .. Len(todo') : todo'[r] = transactions[n - Len(todo') + r]
        /\ \A q \in DOMAIN transactions : Ran(q) => Ran(q)'
        /\ Ran(p)'
    <3>1. CASE todo' = Tail(todo)
      BY <1>1, <1>2, <1>4, <1>7, <3>1 DEF GivesName
    <3>2. CASE step' = "up" /\ todo' = todo
      BY <1>0, <1>1, <1>2, <1>7, <3>2 DEF GivesName, Carried, Ran
    <3> QED BY <1>7, <3>1, <3>2 DEF GivesName
  <2>4. Own(g, p) /\ p \in DOMAIN transactions /\ g \in DOMAIN nics
    BY <1>7 DEF GivesName
  <2>5. \A i \in DOMAIN nics :
          \/ name'[nics[i].mac] = Eth(i - 1)
          \/ \E q \in DOMAIN transactions :
               Ran(q)' /\ Own(i, q) /\ name'[nics[i].mac] = transactions[q][2]
    BY <2>2, <2>3, <2>4 DEF Carried
  <2> QED BY <1>1, <1>3, <2>2, <2>3, <2>5 DEF Carried
<1> QED BY <1>0, <1>5, <1>6, <1>7, Commands

LEMMA RunCommandInv ==
  ASSUME BootInv, RunCommand
  PROVE  BootInv'
<1>1. /\ phase = "apply" /\ Ip!IpNext
      /\ UNCHANGED <<vars, machine, boots, phase, file, lastboot, oldnics, saving, result, kept>>
  BY DEF RunCommand, dynvars
<1>2. Passing /\ Typed /\ FileFits /\ Fit(last, old) /\ Recalls /\ pc = "done" /\ Carried
  BY <1>1 DEF BootInv, Before
<1>3. UNCHANGED <<static, last, old, nics, transactions, pc>>
  BY <1>1 DEF vars
<1>4. Passing'
  BY <1>1, <1>2, PassingStays
<1>5. FileFits' /\ Fit(last, old)' /\ Recalls'
  BY <1>1, <1>2, <1>3, FileStays, FitStays DEF Recalls, Dyn!Nothing
<1>6. Carried' /\ name' \in [DOMAIN machine -> Name] /\ todo' \in Seq(Name \X Name)
  BY <1>1, <1>2, <1>3, CarriedSteps
<1>7. Typed'
  BY <1>1, <1>2, <1>3, <1>6 DEF Typed, Dyn!Nothing
<1> QED BY <1>1, <1>2, <1>3, <1>4, <1>5, <1>6, <1>7 DEF BootInv, Before

-----------------------------------------------------------------------------
(* What a boot remembers fits. *)

LEMMA SeenFits ==
  ASSUME Passing, Typed, pc = "done"
  PROVE  /\ Seen \in Seq(Dyn!FileItem) /\ AllLists(Seen)
         /\ Dyn!EntriesOf(Seen) \in Seq(Entry)
         /\ \A i \in DOMAIN Dyn!EntriesOf(Seen) :
              IsEth(Dyn!EntriesOf(Seen)[i].tname) /\ Dyn!EntriesOf(Seen)[i].mac \in DOMAIN machine
         /\ ~NamesClash(Dyn!EntriesOf(Seen)) /\ ~MacsClash(Dyn!EntriesOf(Seen))
         /\ Obeyed(Dyn!EntriesOf(Seen))
<1> DEFINE C == Cardinality(DOMAIN machine)
           E(i) == [mac |-> nics[i].mac, pci |-> nics[i].pci, tname |-> nics[i].tname]
           S == [i \in 1 .. C |-> E(i)]
<1>0. /\ DOMAIN nics = 1 .. C /\ C \in Nat
      /\ \A i \in DOMAIN nics : nics[i] \in Nic
      /\ Distinct /\ TnamesEth /\ AllInWork /\ Ruled
  BY MachineIs DEF Passing, Placed, Typed, MemoryInv, Inv, TypeOK, Accepted, PcOK, Numbers, Provenance
<1>1. ASSUME NEW i \in 1 .. C
      PROVE  /\ nics[i].tname # None /\ IsEth(nics[i].tname) /\ CurName(nics[i]) = nics[i].tname
             /\ E(i) \in Entry /\ E(i).mac = nics[i].mac /\ E(i).pci = nics[i].pci /\ E(i).tname = nics[i].tname
  <2>1. nics[i].tname # None /\ IsEth(nics[i].tname)
    BY <1>0 DEF AllInWork, TnamesEth
  <2>2. nics[i].mac \in Mac /\ nics[i].pci \in Pci /\ nics[i].tname \in Name
    <3>1. nics[i] \in Nic
      BY <1>0
    <3> QED BY <2>1, <3>1 DEF Nic
  <2> QED BY <2>1, <2>2 DEF CurName, Entry
<1>2. Seen = [i \in 1 .. C |-> [form |-> "list", entry |-> E(i)]]
  BY DEF Seen, Dyn!As
<1> HIDE DEF E, C
<1>3. Seen \in Seq(Dyn!FileItem) /\ AllLists(Seen) /\ Dyn!EntriesOf(Seen) = S
  <2>1. \A i \in 1 .. C : [form |-> "list", entry |-> E(i)] \in Dyn!FileItem
    BY <1>1 DEF Dyn!FileItem
  <2> QED BY <1>0, <1>2, <2>1 DEF AllLists, Dyn!EntriesOf
<1>4. S \in Seq(Entry) /\ DOMAIN S = 1 .. C
  BY <1>0, <1>1
<1>5. \A i \in 1 .. C : S[i].mac = nics[i].mac /\ S[i].pci = nics[i].pci /\ S[i].tname = nics[i].tname
  BY <1>1
<1> HIDE DEF S
<1>6. \A i \in DOMAIN S : IsEth(S[i].tname) /\ S[i].mac \in DOMAIN machine
  BY <1>0, <1>1, <1>4, <1>5 DEF Passing, Placed
<1>7. ~NamesClash(S) /\ ~MacsClash(S)
  <2>1. \A i, j \in 1 .. C : nics[i].tname = nics[j].tname => i = j
    BY <1>0, <1>1 DEF Distinct
  <2>2. \A i, j \in 1 .. C : nics[i].mac = nics[j].mac => i = j
    BY <1>0 DEF Passing, Placed
  <2> QED BY <1>4, <1>5, <2>1, <2>2 DEF NamesClash, MacsClash
<1>8. Obeyed(S)
  <2>1. ASSUME NEW r \in DOMAIN static, NEW l \in Same(S, static[r]) PROVE S[l].tname = static[r].tname
    <3>1. l \in 1 .. C /\ l \in Same(nics, static[r])
      BY <1>0, <1>4, <1>5, <2>1 DEF Same, WithMac, WithPci
    <3>2. nics[l].tname = static[r].tname
      BY <1>0, <3>1 DEF Ruled, Reached, Passes
    <3> QED BY <1>5, <3>1, <3>2
  <2> QED BY <2>1 DEF Obeyed
<1> QED BY <1>3, <1>4, <1>6, <1>7, <1>8

LEMMA RememberedFits ==
  ASSUME Fit(last, old)
  PROVE  /\ Remembered \in Seq(Entry) /\ ~MacsClash(Remembered)
         /\ \A i \in DOMAIN Remembered : IsEth(Remembered[i].tname)
<1>1. /\ last \in Seq(Entry) /\ old \in Seq(Entry) /\ Remembered = last \o old
  BY DEF Fit, Remembered
<1>2. PICK m \in Nat, n \in Nat : m = Len(last) /\ n = Len(old) /\ DOMAIN last = 1 .. m /\ DOMAIN old = 1 .. n
  BY <1>1
<1>3. /\ DOMAIN Remembered = 1 .. m + n
      /\ \A i \in 1 .. m : Remembered[i] = last[i]
      /\ \A i \in 1 .. m + n : i \notin 1 .. m => Remembered[i] = old[i - m] /\ i - m \in 1 .. n
  BY <1>1, <1>2
<1>4. ASSUME NEW i \in 1 .. m + n, NEW j \in 1 .. m + n, i # j PROVE Remembered[i].mac # Remembered[j].mac
  <2>1. CASE i \in 1 .. m /\ j \in 1 .. m
    BY <1>2, <1>3, <1>4, <2>1 DEF Fit, MacsClash
  <2>2. CASE i \notin 1 .. m /\ j \notin 1 .. m
    <3>1. i - m # j - m /\ i - m \in DOMAIN old /\ j - m \in DOMAIN old
      BY <1>2, <1>3, <1>4, <2>2
    <3>2. Remembered[i] = old[i - m] /\ Remembered[j] = old[j - m]
      BY <1>3, <2>2
    <3>3. \A a, b \in DOMAIN old : a # b => old[a].mac # old[b].mac
      BY DEF Fit, MacsClash
    <3> QED BY <3>1, <3>2, <3>3
  <2>3. \A a \in DOMAIN last, b \in DOMAIN old : last[a].mac # old[b].mac
    BY DEF Fit
  <2>4. CASE i \in 1 .. m /\ j \notin 1 .. m
    <3>1. Remembered[i] = last[i] /\ Remembered[j] = old[j - m] /\ i \in DOMAIN last /\ j - m \in DOMAIN old
      BY <1>2, <1>3, <2>4
    <3> QED BY <2>3, <3>1
  <2>5. CASE i \notin 1 .. m /\ j \in 1 .. m
    <3>1. Remembered[i] = old[i - m] /\ Remembered[j] = last[j] /\ i - m \in DOMAIN old /\ j \in DOMAIN last
      BY <1>2, <1>3, <2>5
    <3> QED BY <2>3, <3>1
  <2> QED BY <2>1, <2>2, <2>4, <2>5
<1>5. ~MacsClash(Remembered)
  BY <1>3, <1>4 DEF MacsClash
<1>6. \A i \in DOMAIN Remembered : IsEth(Remembered[i].tname)
  BY <1>2, <1>3 DEF Fit
<1>7. Remembered \in Seq(Entry)
  BY <1>1
<1> QED BY <1>5, <1>6, <1>7

LEMMA GoneFits ==
  ASSUME Fit(last, old)
  PROVE  /\ Gone \in Seq(Dyn!FileItem) /\ AllLists(Gone)
         /\ Dyn!EntriesOf(Gone) \in Seq(Entry)
         /\ \A i \in DOMAIN Dyn!EntriesOf(Gone) :
              IsEth(Dyn!EntriesOf(Gone)[i].tname) /\ Dyn!EntriesOf(Gone)[i].mac \notin DOMAIN machine
         /\ ~MacsClash(Dyn!EntriesOf(Gone))
<1> DEFINE I == {i \in DOMAIN Remembered : Remembered[i].mac \notin DOMAIN machine}
           es == Those(Remembered, I)
<1>1. I \subseteq DOMAIN Remembered
  OBVIOUS
<1>2. \A i \in I : Remembered[i].mac \notin DOMAIN machine
  OBVIOUS
<1>3. Gone = [i \in DOMAIN es |-> [form |-> "list", entry |-> es[i]]]
  BY DEF Gone, Dyn!As
<1> HIDE DEF I
<1>4. /\ es \in Seq(Entry)
      /\ \A n \in DOMAIN es : Nth(I, n) \in I /\ es[n] = Remembered[Nth(I, n)]
      /\ \A m, n \in DOMAIN es : Nth(I, m) = Nth(I, n) => m = n
  BY <1>1, RememberedFits, Picked
<1> HIDE DEF es
<1>5. Gone \in Seq(Dyn!FileItem) /\ AllLists(Gone) /\ Dyn!EntriesOf(Gone) = es
  <2>1. DOMAIN es = 1 .. Len(es) /\ Len(es) \in Nat /\ \A i \in DOMAIN es : es[i] \in Entry
    BY <1>4
  <2>2. \A i \in DOMAIN es : [form |-> "list", entry |-> es[i]] \in Dyn!FileItem
    BY <2>1 DEF Dyn!FileItem
  <2>3. es = [i \in DOMAIN es |-> es[i]]
    BY <1>4
  <2>4. Dyn!EntriesOf(Gone) = [i \in DOMAIN es |-> es[i]]
    BY <1>3 DEF Dyn!EntriesOf
  <2>5. Gone \in Seq(Dyn!FileItem) /\ AllLists(Gone)
    BY <1>3, <2>1, <2>2 DEF AllLists
  <2> QED BY <2>3, <2>4, <2>5
<1>6. \A n \in DOMAIN es : IsEth(es[n].tname) /\ es[n].mac \notin DOMAIN machine
  BY <1>1, <1>2, <1>4, RememberedFits
<1>7. ~MacsClash(es)
  <2>1. ~MacsClash(Remembered)
    BY RememberedFits
  <2> QED BY <1>1, <1>4, <2>1 DEF MacsClash
<1> QED BY <1>4, <1>5, <1>6, <1>7

LEMMA RememberInv ==
  ASSUME BootInv, Remember
  PROVE  BootInv'
<1>1. /\ phase = "apply" /\ phase' = "save" /\ lastboot' = Seen /\ oldnics' = Gone
      /\ UNCHANGED <<vars, machine, boots, name, todo, file, saving, kept>>
  BY DEF Remember, ipvars, Dyn!Assign
<1>2. Passing /\ Typed /\ FileFits /\ Fit(last, old) /\ pc = "done"
  BY <1>1 DEF BootInv, Before
<1>3. static' = static
  BY <1>1 DEF vars
<1>4. Passing' /\ FileFits'
  BY <1>1, <1>2, <1>3, PassingStays, FileStays
<1>5. Typed'
  BY <1>1, <1>2, <1>3 DEF Typed, Dyn!Nothing
<1> DEFINE S == Dyn!EntriesOf(Seen)
           G == Dyn!EntriesOf(Gone)
<1>6. Fit(S, G)
  BY <1>2, SeenFits, GoneFits DEF Fit
<1>7. ListsFit(lastboot, oldnics)'
  <2> DEFINE l == Dyn!EntriesOf(lastboot)
             o == Dyn!EntriesOf(oldnics)
  <2>1. l' = S /\ o' = G
    BY <1>1 DEF Dyn!EntriesOf
  <2> HIDE DEF l, o, S, G
  <2>2. Fit(l, o)'
    BY <1>3, <1>6, <2>1 DEF Fit, NamesClash, MacsClash, Obeyed, Same, WithMac, WithPci
  <2>3. /\ lastboot' \in Seq(Dyn!FileItem) /\ AllLists(lastboot)'
        /\ oldnics' \in Seq(Dyn!FileItem) /\ AllLists(oldnics)'
    <3>1. /\ Seen \in Seq(Dyn!FileItem) /\ AllLists(Seen)
          /\ Gone \in Seq(Dyn!FileItem) /\ AllLists(Gone)
      BY <1>2, SeenFits, GoneFits
    <3> QED BY <1>1, <3>1 DEF AllLists
  <2> QED BY <2>2, <2>3 DEF ListsFit, l, o
<1> QED BY <1>1, <1>4, <1>5, <1>7 DEF BootInv, Before

-----------------------------------------------------------------------------
(* The save, and the end of a boot. *)

LEMMA SaveBootInv ==
  ASSUME BootInv, Save
  PROVE  BootInv'
<1>1. /\ phase = "save"
      /\ UNCHANGED <<vars, machine, boots, name, todo>>
      /\ \/ Dyn!SaveOpen /\ phase' = phase
         \/ (Dyn!SaveOpenFails \/ Dyn!SaveWrite \/ Dyn!SaveWriteFails) /\ phase' = "up"
  BY DEF Save, ipvars
<1>2. Passing /\ Typed /\ FileFits /\ ListsFit(lastboot, oldnics)
  BY <1>1 DEF BootInv, Before
<1>3. static' = static
  BY <1>1 DEF vars
<1>4. Passing'
  BY <1>1, <1>2, PassingStays
<1>5. CASE Dyn!SaveOpen /\ phase' = phase
  <2>1. file' = Dyn!Blank /\ kept' = Dyn!Nothing /\ lastboot' = lastboot /\ oldnics' = oldnics
    BY <1>5 DEF Dyn!SaveOpen, Dyn!object
  <2>2. FileFits'
    BY <2>1 DEF FileFits, Dyn!Blank, Dyn!Nothing
  <2>3. Typed'
    BY <1>1, <1>2, <1>3, <1>5, <2>1 DEF Typed, Dyn!Nothing
  <2>4. ListsFit(lastboot, oldnics)'
    <3> DEFINE l == Dyn!EntriesOf(lastboot)
               o == Dyn!EntriesOf(oldnics)
    <3>1. l' = l /\ o' = o
      BY <2>1 DEF Dyn!EntriesOf
    <3>2. Fit(l, o)
      BY <1>2 DEF ListsFit
    <3> HIDE DEF l, o
    <3>3. Fit(l, o)'
      BY <1>3, <3>1, <3>2 DEF Fit, NamesClash, MacsClash, Obeyed, Same, WithMac, WithPci
    <3> QED BY <1>2, <2>1, <3>3 DEF ListsFit, AllLists, l, o
  <2> QED BY <1>1, <1>4, <1>5, <2>2, <2>3, <2>4 DEF BootInv, Before
<1>6. CASE Dyn!SaveOpenFails /\ phase' = "up"
  <2>1. UNCHANGED <<file, kept>> /\ saving' = FALSE
    BY <1>6 DEF Dyn!SaveOpenFails
  <2>2. FileFits'
    BY <1>2, <1>3, <2>1, FileStays
  <2>3. Typed'
    BY <1>1, <1>2, <1>3, <1>6, <2>1 DEF Typed, Dyn!Nothing
  <2> QED BY <1>4, <1>6, <2>2, <2>3 DEF BootInv, Before
<1>7. CASE Dyn!SaveWrite /\ phase' = "up"
  <2>1. Dyn!Validated(lastboot) = lastboot /\ Dyn!Validated(oldnics) = oldnics
    <3>1. /\ lastboot \in Seq(Dyn!FileItem) /\ oldnics \in Seq(Dyn!FileItem)
          /\ AllLists(lastboot) /\ AllLists(oldnics)
      BY <1>2 DEF ListsFit
    <3>2. lastboot \in Seq(Dyn!Item) /\ oldnics \in Seq(Dyn!Item)
      BY <3>1, WholeLists
    <3> QED BY <3>1, <3>2, WholeLists
  <2>2. /\ file' = Dyn!Rules(lastboot, oldnics) /\ saving' = FALSE
        /\ kept' = Dyn!Rules(Dyn!EntriesOf(lastboot), Dyn!EntriesOf(oldnics))
    BY <1>7, <2>1 DEF Dyn!SaveWrite
  <2>3. file'.lastboot = lastboot /\ file'.old = oldnics
    BY <2>2 DEF Dyn!Rules
  <2>4. ListsFit(file.lastboot, file.old)'
    <3> DEFINE l == Dyn!EntriesOf(file.lastboot)
               o == Dyn!EntriesOf(file.old)
    <3>1. l' = Dyn!EntriesOf(lastboot) /\ o' = Dyn!EntriesOf(oldnics)
      BY <2>3 DEF Dyn!EntriesOf
    <3>2. Fit(Dyn!EntriesOf(lastboot), Dyn!EntriesOf(oldnics))
      BY <1>2 DEF ListsFit
    <3> HIDE DEF l, o
    <3>3. Fit(l, o)'
      BY <1>3, <3>1, <3>2 DEF Fit, NamesClash, MacsClash, Obeyed, Same, WithMac, WithPci
    <3> QED BY <1>2, <2>3, <3>3 DEF ListsFit, AllLists, l, o
  <2>5. FileFits'
    BY <2>2, <2>3, <2>4 DEF FileFits, Dyn!Rules, Dyn!EntriesOf, Dyn!Nothing
  <2>6. Typed'
    BY <1>1, <1>2, <1>3, <1>7, <2>2 DEF Typed
  <2> QED BY <1>4, <1>7, <2>5, <2>6 DEF BootInv, Before
<1>8. CASE Dyn!SaveWriteFails /\ phase' = "up"
  <2>1. file' \in {Dyn!Blank, Dyn!Corrupt} /\ kept' = Dyn!Nothing /\ saving' = FALSE
    BY <1>2, <1>8 DEF Dyn!SaveWriteFails, Typed
  <2>2. FileFits'
    BY <2>1 DEF FileFits, Dyn!Blank, Dyn!Corrupt, Dyn!Nothing
  <2>3. Typed'
    BY <1>1, <1>2, <1>3, <1>8, <2>1 DEF Typed
  <2> QED BY <1>4, <1>8, <2>2, <2>3 DEF BootInv, Before
<1> QED BY <1>1, <1>5, <1>6, <1>7, <1>8

LEMMA StopInv ==
  ASSUME BootInv, Stop
  PROVE  BootInv'
<1>1. /\ Dyn!Restart /\ machine' = <<>> /\ phase' = "off" /\ name' = <<>> /\ todo' = <<>>
      /\ UNCHANGED <<static, boots>>
  BY DEF Stop
<1>2. Typed /\ FileFits
  BY DEF BootInv
<1>3. /\ file' \in IF saving THEN {Dyn!Blank, Dyn!Corrupt} ELSE {file}
      /\ lastboot' = <<>> /\ oldnics' = <<>> /\ saving' = FALSE /\ kept' = kept
  BY <1>1 DEF Dyn!Restart
<1>4. Idle'
  BY <1>3 DEF Stop, Idle
<1>5. FileFits'
  <2>1. CASE saving
    <3>1. file' \in {Dyn!Blank, Dyn!Corrupt} /\ kept' = Dyn!Nothing
      BY <1>2, <1>3, <2>1 DEF Typed
    <3> QED BY <3>1 DEF FileFits, Dyn!Blank, Dyn!Corrupt, Dyn!Nothing
  <2>2. CASE ~saving
    BY <1>1, <1>2, <1>3, <2>2, FileStays
  <2> QED BY <2>1, <2>2
<1>6. Typed'
  <2>1. name' \in [DOMAIN machine' -> Name]
    BY <1>1
  <2>2. todo' \in Seq(Name \X Name)
    BY <1>1
  <2> QED BY <1>1, <1>2, <1>3, <2>1, <2>2 DEF Typed
<1> QED BY <1>1, <1>4, <1>5, <1>6 DEF BootInv, Before

LEMMA BootInit == InitBoot => BootInv
<1> SUFFICES ASSUME InitBoot PROVE BootInv
  OBVIOUS
<1>1. /\ phase = "off" /\ machine = <<>> /\ name = <<>> /\ todo = <<>> /\ boots = 0 /\ static \in UserRules
      /\ file = Dyn!Absent /\ kept = Dyn!Nothing /\ saving = FALSE /\ lastboot = <<>> /\ oldnics = <<>>
  BY DEF InitBoot, Off, Ip!IpInit, Dyn!Init
<1>2. Idle
  BY <1>1 DEF InitBoot, Off, Idle
<1>3. Typed
  <2>1. name \in [DOMAIN machine -> Name] /\ todo \in Seq(Name \X Name)
    BY <1>1
  <2> QED BY <1>1, <2>1, BootCycleAssumption DEF Typed
<1>4. FileFits
  BY <1>1 DEF FileFits
<1> QED BY <1>1, <1>2, <1>3, <1>4 DEF BootInv, Before

LEMMA BootStutter == ASSUME BootInv, UNCHANGED allvars PROVE BootInv'
<1>1. UNCHANGED <<vars, machine, boots, phase, name, todo, step, file, lastboot, oldnics, saving,
                  result, kept>>
  BY DEF allvars, ipvars, dynvars
<1>2. UNCHANGED <<static, last, old, nics, transactions, pc, error, k, fns, work, nextethnum>>
  BY <1>1 DEF vars
<1>3. FileFits' /\ Typed'
  BY <1>1, <1>2, FileStays DEF BootInv, Typed, Dyn!Nothing
<1>4. phase \in Before => Idle'
  BY <1>1, <1>2 DEF BootInv, Idle
<1>5. phase = "load" => Listed'
  BY <1>1 DEF BootInv, Listed
<1>6. phase \notin Before => Passing'
  BY <1>1, PassingStays DEF BootInv
<1>7. phase \in {"rename", "apply"} => Fit(last, old)' /\ Recalls'
  BY <1>1, <1>2, FitStays DEF BootInv, Recalls, Dyn!Nothing
<1>8. phase = "rename" => NotYetNamed'
  BY <1>1, <1>2 DEF BootInv, NotYetNamed
<1>9. phase = "apply" => pc' = "done" /\ Carried'
  BY <1>1, <1>2 DEF BootInv, Carried, Ran, Own
<1>10. ASSUME phase = "save" PROVE ListsFit(lastboot, oldnics)'
  <2> DEFINE l == Dyn!EntriesOf(lastboot)
             o == Dyn!EntriesOf(oldnics)
  <2>1. l' = l /\ o' = o
    BY <1>1 DEF Dyn!EntriesOf
  <2>2. Fit(l, o) /\ ListsFit(lastboot, oldnics)
    BY <1>10 DEF BootInv, ListsFit
  <2> HIDE DEF l, o
  <2>3. Fit(l, o)'
    BY <1>2, <2>1, <2>2 DEF Fit, NamesClash, MacsClash, Obeyed, Same, WithMac, WithPci
  <2> QED BY <1>1, <2>2, <2>3 DEF ListsFit, AllLists, l, o
<1> QED BY <1>1, <1>3, <1>4, <1>5, <1>6, <1>7, <1>8, <1>9, <1>10 DEF BootInv, Before

LEMMA BootSteps == BootInv /\ [NextBoot]_allvars => BootInv'
BY PowerOnInv, LoadBootInv, DecideInv, ApplyInv, RunCommandInv, RememberInv, SaveBootInv, StopInv,
   BootStutter DEF NextBoot

LEMMA AlwaysBootInv == BootSpec => []BootInv
BY BootInit, BootSteps, PTL DEF BootSpec

-----------------------------------------------------------------------------
(* Theorems *)

(* No nic is remembered twice, so that a list is no longer than the MACs   *)
(* are many.                                                               *)
LEMMA ListIsShort ==
  ASSUME NEW es \in Seq(Entry), ~MacsClash(es)
  PROVE  Len(es) <= Cardinality(Mac)
<1> DEFINE n == Len(es)
           T == 1 .. n
           f == [i \in T |-> es[i].mac]
<1>1. n \in Nat /\ DOMAIN es = T
  OBVIOUS
<1>2. \A i \in T : es[i].mac \in Mac
  <2>1. \A i \in T : es[i] \in Entry
    OBVIOUS
  <2> QED BY <2>1 DEF Entry
<1>3. f \in Injection(T, Mac)
  <2>1. f \in [T -> Mac]
    BY <1>2
  <2>2. \A i, j \in T : f[i] = f[j] => i = j
    BY <1>1 DEF MacsClash
  <2> QED BY <2>1, <2>2 DEF Injection, IsInjective
<1>4. Cardinality(T) = n
  <2> HIDE DEF n
  <2>1. 1 \in Int /\ n \in Int /\ (n = 0 \/ (n >= 1 /\ n - 1 + 1 = n))
    BY <1>1
  <2>2. Cardinality(1 .. n) = IF 1 > n THEN 0 ELSE n - 1 + 1
    BY <2>1, FS_Interval
  <2> QED BY <2>1, <2>2
<1> HIDE DEF f, T, n
<1>5. Cardinality(T) <= Cardinality(Mac)
  BY <1>3, BootCycleAssumption, FS_Injection
<1> QED BY <1>4, <1>5 DEF n

(* rename() never rejects what the boots before it remembered: whatever    *)
(* failed, wherever a boot crashed, however often the hardware changed,    *)
(* the file holds the nics of one boot, under distinct names, or nothing.  *)
THEOREM MemoryIsAccepted == BootSpec => []MemoryAccepted
<1>1. BootInv => MemoryAccepted
  <2> SUFFICES ASSUME BootInv PROVE BootTypeOK /\ error \in {"none", "AssertionError"}
    BY DEF MemoryAccepted
  <2>0. Typed /\ FileFits
    BY DEF BootInv
  <2>1. TypeOK /\ error \in {"none", "AssertionError"}
    <3>1. CASE phase \in Before
      <4>1. Idle
        BY <3>1 DEF BootInv
      <4>2. static \in Seq(Entry) /\ Len(static) \in Nat
        BY <2>0, BootCycleAssumption DEF Typed
      <4>3. DOMAIN <<>> = {} /\ <<>> \in Seq(Entry) /\ <<>> \in Seq(Name \X Name) /\ <<>> \in [{} -> Nic]
        OBVIOUS
      <4>4. 1 \in 1 .. Len(static) + 1
        BY <4>2
      <4> QED BY <4>1, <4>2, <4>3, <4>4 DEF Idle, TypeOK
    <3>2. CASE phase \notin Before
      BY <3>2 DEF BootInv, Passing, MemoryInv, Inv
    <3> QED BY <3>1, <3>2
  <2>2. ASSUME file.state = "rules" \/ kept # Dyn!Nothing
        PROVE  /\ Len(file.lastboot) <= Cardinality(Mac) /\ Len(file.old) <= Cardinality(Mac)
               /\ kept # Dyn!Nothing =>
                    Len(kept.lastboot) <= Cardinality(Mac) /\ Len(kept.old) <= Cardinality(Mac)
    <3> DEFINE l == Dyn!EntriesOf(file.lastboot)
               o == Dyn!EntriesOf(file.old)
    <3>1. /\ ListsFit(file.lastboot, file.old)
          /\ kept \in {Dyn!Nothing, Dyn!Rules(l, o)}
      BY <2>0, <2>2 DEF FileFits, Dyn!Absent, Dyn!Blank, Dyn!Corrupt
    <3>2. Len(l) = Len(file.lastboot) /\ Len(o) = Len(file.old)
      BY <3>1 DEF ListsFit, Dyn!EntriesOf
    <3>3. Fit(l, o)
      BY <3>1 DEF ListsFit
    <3>4. kept # Dyn!Nothing => kept.lastboot = l /\ kept.old = o
      BY <3>1 DEF Dyn!Rules
    <3> HIDE DEF l, o
    <3>5. Len(l) <= Cardinality(Mac) /\ Len(o) <= Cardinality(Mac)
      BY <3>3, ListIsShort DEF Fit
    <3> QED BY <3>2, <3>4, <3>5
  <2>3. kept.state = "rules" => kept # Dyn!Nothing
    BY DEF Dyn!Nothing
  <2> QED BY <2>0, <2>1, <2>2, <2>3 DEF BootTypeOK, Typed
<1> QED BY <1>1, AlwaysBootInv, PTL

(* If the last save was completed and the file is read, a machine whose    *)
(* hardware did not change keeps every name, and rename() ends without an  *)
(* exception.                                                              *)
THEOREM NamesAreStable == BootSpec => []StableNames
<1>1. BootInv => StableNames
  <2> SUFFICES ASSUME BootInv, SameMachine, phase = "rename"
               PROVE  /\ pc # "raised"
                      /\ pc = "done" =>
                           \A l \in DOMAIN kept.lastboot : \A i \in Same(nics, kept.lastboot[l]) :
                             nics[i].tname = kept.lastboot[l].tname
    BY DEF StableNames
  <2>1. Passing /\ Fit(last, old) /\ last = kept.lastboot
    BY DEF BootInv, Before, Recalls, SameMachine, Recalled
  <2>2. LastFits
    BY <2>1 DEF LastFits, Fit
  <2>3. NoneMoved
    <3>1. ASSUME NEW i \in DOMAIN nics PROVE Same(last, nics[i]) # {}
      <4>1. nics[i].mac \in DOMAIN machine /\ nics[i].pci = machine[nics[i].mac]
        BY <2>1 DEF Passing, Placed
      <4>2. <<nics[i].mac, nics[i].pci>> \in {<<last[l].mac, last[l].pci>> : l \in DOMAIN last}
        BY <2>1, <4>1 DEF SameMachine
      <4>3. PICK l \in DOMAIN last : last[l].mac = nics[i].mac /\ last[l].pci = nics[i].pci
        BY <4>2
      <4> QED BY <4>3 DEF Same, WithMac, WithPci
    <3> QED BY <3>1 DEF NoneMoved
  <2>4. CASE pc = "sanitise"
    BY <2>4
  <2>5. CASE pc # "sanitise"
    <3>1. Settled
      BY <2>1, <2>2, <2>3, <2>5 DEF Passing, StaysPut
    <3>2. ASSUME pc = "done", NEW l \in DOMAIN last, NEW i \in Same(nics, last[l])
          PROVE  nics[i].tname = last[l].tname
      <4>1. i \in DOMAIN nics /\ l \in Same(last, nics[i])
        BY <3>2 DEF Same, WithMac, WithPci
      <4> QED BY <3>1, <3>2, <4>1 DEF Settled
    <3> QED BY <2>1, <3>1, <3>2 DEF Settled
  <2> QED BY <2>4, <2>5
<1> QED BY <1>1, AlwaysBootInv, PTL

(* Changing one nic leaves the others alone: if the last boot is recalled, *)
(* a nic that stayed in its slot keeps its name, unless a static rule or   *)
(* an older nic remembered under that very name interferes.                *)
THEOREM OthersKeepTheirs == BootSpec => []OthersKeepNames
<1>1. BootInv => OthersKeepNames
  <2> SUFFICES ASSUME BootInv, phase = "rename", pc = "done", Recalled,
                      NEW l \in DOMAIN kept.lastboot, NEW i \in DOMAIN nics,
                      i \in Same(nics, kept.lastboot[l])
               PROVE  LET e == kept.lastboot[l] IN
                      \/ nics[i].tname = e.tname
                      \/ \E r \in DOMAIN static : static[r].mac = e.mac \/ static[r].tname = e.tname
                      \/ \E o \in DOMAIN kept.old : kept.old[o].tname = e.tname
    BY DEF OthersKeepNames, Decided
  <2>1. PlaceKept /\ last = kept.lastboot /\ old = kept.old
    BY DEF BootInv, Before, Recalls, Recalled, Passing
  <2>2. l \in Same(last, nics[i])
    BY <2>1 DEF Same, WithMac, WithPci
  <2>3. nics[i].tname = last[l].tname \/ Contested(l)
    BY <2>1, <2>2 DEF PlaceKept, Later
  <2> QED BY <2>1, <2>3 DEF Contested
<1> QED BY <1>1, AlwaysBootInv, PTL

(* Whatever failed before, no link is ever given a name that was decided   *)
(* for another nic.                                                        *)
THEOREM NoneIsMisnamed == BootSpec => NeverMisnamed
<1>1. ASSUME BootInv, [NextBoot]_allvars, phase = "apply", phase' = "apply",
             NEW i \in DOMAIN nics, NEW j \in DOMAIN nics,
             name'[nics[i].mac] = nics[j].tname, name'[nics[i].mac] # name[nics[i].mac]
      PROVE  i = j
  <2>0. Passing /\ Typed /\ Carried /\ pc = "done"
    BY <1>1 DEF BootInv, Before
  <2>1. Ip!IpNext
    <3>1. ~UNCHANGED allvars
      BY <1>1 DEF allvars, ipvars
    <3> QED BY <1>1, <3>1 DEF NextBoot, PowerOn, Load, Decide, Apply, RunCommand, Remember, Save, Stop
  <2>2. PICK g, p : GivesName(g, p)
    BY <1>1, <2>0, <2>1, Commands
  <2>3. Inv /\ Accepted /\ Distinct /\ TnamesEth /\ transactions \in Seq(Name \X Name)
    BY <2>0 DEF Passing, MemoryInv, Inv, TypeOK, PcOK, Accepted
  <2>4. nics[i].mac = nics[g].mac /\ nics[i].mac \in DOMAIN name
    <3>1. nics[i].mac \in DOMAIN name /\ name \in [DOMAIN machine -> Name]
      BY <2>0 DEF Passing, Placed, Typed
    <3> QED BY <1>1, <2>2, <3>1 DEF GivesName
  <2>5. i = g /\ Own(i, p) /\ p \in DOMAIN transactions
    BY <2>0, <2>2, <2>4 DEF GivesName, Passing, Placed
  <2>6. nics[j].tname = transactions[p][2] /\ transactions[p][2] \in Name
    <3>1. name \in [DOMAIN machine -> Name]
      BY <2>0 DEF Typed
    <3> QED BY <1>1, <2>2, <2>3, <2>4, <2>5, <3>1 DEF GivesName
  <2>7. nics[j].tname # None /\ IsEth(nics[j].tname)
    BY <2>3, <2>6, RenameAssumption DEF TnamesEth
  <2>8. nics[i].tname = nics[j].tname
    BY <2>5, <2>6, <2>7 DEF Own
  <2> QED BY <2>3, <2>7, <2>8 DEF Distinct, CurName
<1>2. BootInv /\ [NextBoot]_allvars =>
        [phase = "apply" /\ phase' = "apply" =>
           \A i, j \in DOMAIN nics :
             LET mac == nics[i].mac IN
             name'[mac] = nics[j].tname /\ name'[mac] # name[mac] => i = j]_allvars
  BY <1>1
<1> QED BY <1>2, AlwaysBootInv, PTL DEF BootSpec, NeverMisnamed

=============================================================================
