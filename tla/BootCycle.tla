------------------------------ MODULE BootCycle ------------------------------
(***************************************************************************)
(* The renaming of a machine's nics over its boots.  At every boot the     *)
(* program that uses the library (external; it is not part of the          *)
(* repository) loads the dynamic rules (DynamicRules), lists the nics the  *)
(* kernel found, asks for the renames (Rename), carries them out (IpLink)  *)
(* and saves what the next boot is to remember (DynamicRules):             *)
(*   lastboot   the nics of this boot and the names they got               *)
(*   old        the remembered nics "which have disappeared in the         *)
(*              meantime"                                                  *)
(* Between two boots anything may happen to the hardware; the program may  *)
(* crash at any point; the kernel finds the nics in any order.             *)
(***************************************************************************)
EXTENDS Rename, Sublists

CONSTANTS
  Machines,   \* the hardware: functions from the MACs that are plugged to their slots
  UserRules,  \* the static rules, one list for each user
  MaxFail,    \* bound: ip commands that fail in one boot
  MaxBoot     \* bound: boots

(* The user's rules are such that rename() accepts them, and no entry that *)
(* was loaded from a file has a kname.                                     *)
ASSUME BootCycleAssumption ==
  /\ IsFiniteSet(Mac) /\ MaxFail \in Nat /\ MaxBoot \in Nat
  /\ \A m \in Machines : DOMAIN m \subseteq Mac /\ \A a \in DOMAIN m : m[a] \in Pci
  /\ UserRules \subseteq Seq(Entry) /\ Knamed = {}
  /\ \A rs \in UserRules :
       /\ \A r \in DOMAIN rs : StartsEth(rs[r].tname)
       /\ ~NamesClash(rs) /\ ~MacsClash(rs)

VARIABLES
  machine,                                        \* the hardware now
  boots,                                          \* boots so far
  phase,                                          \* "off", "load", "rename", "apply", "save" or "up"
  name, up, todo, step, isup, failed, refused,    \* of IpLink
  file, lastboot, oldnics, saving, result, kept   \* of DynamicRules

Ip  == INSTANCE IpLink
Dyn == INSTANCE DynamicRules WITH old <- oldnics, Lists <- {}, Files <- {}, MaxList <- 0

dynvars == <<file, lastboot, oldnics, saving, result, kept>>
ipvars  == <<name, up, todo, step, isup, failed, refused>>
allvars == <<vars, machine, boots, phase, ipvars, dynvars>>

-----------------------------------------------------------------------------

(* The nics the kernel lists, in the order of its names for them.          *)
CurState ==
  [i \in 1 .. Cardinality(DOMAIN machine) |->
     LET mac == CHOOSE m \in DOMAIN machine : name[m] = Eth(i - 1)
     IN [mac |-> mac, pci |-> machine[mac], order |-> i, kname |-> Eth(i - 1), tname |-> None]]

PowerOn(m) ==
  /\ phase = "off" /\ boots < MaxBoot
  /\ machine' = m
  /\ boots' = boots + 1
  /\ name' \in [DOMAIN m -> {Eth(n) : n \in 0 .. Cardinality(DOMAIN m) - 1}]
  /\ \A a, b \in DOMAIN m : name'[a] = name'[b] => a = b
  /\ up' = [a \in DOMAIN m |-> FALSE]
  /\ phase' = "load"
  /\ UNCHANGED <<vars, todo, step, isup, failed, refused, dynvars>>

(* The rules are loaded, or there are none; rename() is called.            *)
Load ==
  /\ phase = "load"
  /\ Dyn!Load
  /\ last' = Dyn!EntriesOf(lastboot')
  /\ old' = Dyn!EntriesOf(oldnics')
  /\ nics' = CurState
  /\ pc' = "sanitise"
  /\ phase' = "rename"
  /\ UNCHANGED <<static, transactions, error, k, fns, work, nextethnum, machine, boots, ipvars>>

Decide == phase = "rename" /\ Next /\ UNCHANGED <<machine, boots, phase, ipvars, dynvars>>

Apply ==
  /\ phase = "rename" /\ pc = "done"
  /\ todo' = transactions
  /\ phase' = "apply"
  /\ UNCHANGED <<vars, machine, boots, name, up, step, isup, failed, refused, dynvars>>

RunCommand == phase = "apply" /\ Ip!IpNext /\ UNCHANGED <<vars, machine, boots, phase, dynvars>>

(* What the next boot is to remember. *)
Seen == [i \in 1 .. Cardinality(DOMAIN machine) |->
           Dyn!As("list", [mac |-> nics[i].mac, pci |-> nics[i].pci, tname |-> nics[i].tname])]

Gone == LET es == Those(Remembered, {i \in DOMAIN Remembered : Remembered[i].mac \notin DOMAIN machine})
        IN [i \in DOMAIN es |-> Dyn!As("list", es[i])]

Remember ==
  /\ phase = "apply" /\ todo = <<>>
  /\ Dyn!Assign(Seen, Gone)
  /\ phase' = "save"
  /\ UNCHANGED <<vars, machine, boots, ipvars>>

Save ==
  /\ phase = "save"
  /\ \/ Dyn!SaveOpen /\ UNCHANGED phase
     \/ (Dyn!SaveOpenFails \/ Dyn!SaveWrite \/ Dyn!SaveWriteFails) /\ phase' = "up"
  /\ UNCHANGED <<vars, machine, boots, ipvars>>

(* No program runs: nothing but the file is left.                          *)
Off ==
  /\ last = <<>> /\ old = <<>> /\ nics = <<>> /\ transactions = <<>>
  /\ pc = "done" /\ error = "none" /\ k = 1 /\ fns = {} /\ work = {} /\ nextethnum = 0
  /\ machine = <<>> /\ phase = "off"
  /\ name = <<>> /\ up = <<>> /\ Ip!IpInit

(* The program crashes, ends with an exception of rename(), or has ended;  *)
(* the machine goes down.                                                  *)
Stop ==
  /\ phase # "off"
  /\ Dyn!Restart
  /\ last' = <<>> /\ old' = <<>> /\ nics' = <<>> /\ transactions' = <<>>
  /\ pc' = "done" /\ error' = "none" /\ k' = 1 /\ fns' = {} /\ work' = {} /\ nextethnum' = 0
  /\ machine' = <<>> /\ phase' = "off"
  /\ name' = <<>> /\ up' = <<>> /\ todo' = <<>> /\ step' = "show" /\ isup' = FALSE
  /\ failed' = <<>> /\ refused' = FALSE
  /\ UNCHANGED <<static, boots>>

InitBoot == static \in UserRules /\ Off /\ boots = 0 /\ Dyn!Init

NextBoot ==
  \/ \E m \in Machines : PowerOn(m)
  \/ Load \/ Decide \/ Apply \/ RunCommand \/ Remember \/ Save \/ Stop

BootSpec == InitBoot /\ [][NextBoot]_allvars

-----------------------------------------------------------------------------
(* Properties *)

Decided == phase = "rename" /\ pc = "done"

(* Types of the variables this module adds to those of its components. *)
BootTypeOK ==
  /\ TypeOK
  /\ phase \in {"off", "load", "rename", "apply", "save", "up"} /\ boots \in 0 .. MaxBoot
  /\ machine \in Machines \cup {<<>>}
  /\ name \in [DOMAIN machine -> Name]
  /\ \A x \in {file, kept} :
       x.state = "rules" => Len(x.lastboot) <= Cardinality(Mac) /\ Len(x.old) <= Cardinality(Mac)

(* rename() never rejects what the boots before it remembered: no two nics *)
(* of one boot ever got the same name, and no failure or crash on the way  *)
(* puts two boots together.                                                *)
MemoryAccepted == BootTypeOK /\ error \in {"none", "AssertionError"}

(* The last save was completed, and what it saved could be read.           *)
Recalled == kept # Dyn!Nothing /\ result = "True"

(* Then a machine whose hardware did not change keeps every name, in       *)
(* whatever order the kernel finds the nics, whatever older nics are       *)
(* remembered, whatever failed last time.                                  *)
SameMachine ==
  Recalled /\
    {<<kept.lastboot[l].mac, kept.lastboot[l].pci>> : l \in DOMAIN kept.lastboot}
      = {<<a, machine[a]>> : a \in DOMAIN machine}
StableNames ==
  SameMachine /\ phase = "rename" =>
    /\ pc # "raised"
    /\ pc = "done" =>
         \A l \in DOMAIN kept.lastboot : \A i \in Same(nics, kept.lastboot[l]) :
           nics[i].tname = kept.lastboot[l].tname

(* Changing one nic leaves the others alone: if the last boot is recalled, *)
(* a nic that stayed in its slot keeps its name, unless a static rule or   *)
(* an older nic remembered under that very name interferes.                *)
OthersKeepNames ==
  Decided /\ Recalled =>
    \A l \in DOMAIN kept.lastboot, i \in DOMAIN nics :
      LET e == kept.lastboot[l] IN
      i \in Same(nics, e) =>
        \/ nics[i].tname = e.tname
        \/ \E r \in DOMAIN static : static[r].mac = e.mac \/ static[r].tname = e.tname
        \/ \E o \in DOMAIN kept.old : kept.old[o].tname = e.tname

(* Whatever failed before, no link is ever given a name that was decided   *)
(* for another nic: a command whose source was not vacated as planned is   *)
(* refused or skipped, it never hits the wrong link.                       *)
NeverMisnamed ==
  [][phase = "apply" /\ phase' = "apply" =>
       \A i, j \in DOMAIN nics :
         LET mac == nics[i].mac IN
         name'[mac] = nics[j].tname /\ name'[mac] # name[mac] => i = j]_allvars

=============================================================================
