-------------------------- MODULE DriverMultiVersion --------------------------
(***************************************************************************)
(* xcp/dmv.py: one driver whose variants lie beside each other under       *)
(* /lib/modules/<kernel>/dmv/<driver>/<variant>, and the links in          *)
(* /lib/modules/<kernel>/updates that select one.                          *)
(*                                                                         *)
(* create_dmv_symlink() goes through the kernels and the modules of the    *)
(* variant: it removes a left-over temporary link, makes one, renames it   *)
(* over the link of the module, and tells weak-modules.  Then the index    *)
(* and the initrd of the running kernel are made anew.  The program may    *)
(* crash between any two of these.  parse_dmv_list() merges what the       *)
(* info.json of every kernel and variant and the links and loaded modules  *)
(* tell.                                                                   *)
(***************************************************************************)
EXTENDS Naturals, FiniteSets, Sequences

CONSTANTS
  Kernel, Module, Variant,
  Trees,      \* what may be installed: the modules of each variant for each kernel
  None,       \* no link, no variant
  MaxSwitch   \* bound: calls of create_dmv_symlink()

ASSUME DmvAssumption ==
  /\ Trees \subseteq [Kernel -> [Variant -> SUBSET Module]]
  /\ IsFiniteSet(Kernel) /\ IsFiniteSet(Module) /\ IsFiniteSet(Variant)
  /\ None \notin Variant /\ MaxSwitch \in Nat

VARIABLES
  tree,           \* what is installed
  dracut,         \* dracut is: this is no install image
  links, tmps,    \* the variant each link, or temporary link, points to
  index, initrd,  \* what depmod and dracut last found (external)
  running,        \* the kernel, and the variant
  loaded,         \*   each of its modules is of (external)
  runtime, drivers, exit_code,                     \* of the manager
  pc, want, kernels, kernel, files, file, created, \* of create_dmv_symlink()
  result,         \* what it returned: "True", "False" or "raised"
  switches,       \* calls of it so far
  done            \* history: the variant and the kernel of the last call, if it succeeded

installed == <<tree, dracut>>
system    == <<links, tmps, index, initrd>>
machine   == <<running, loaded>>
manager   == <<runtime, drivers, exit_code>>
locals    == <<want, kernels, kernel, files, file, created>>
vars      == <<installed, system, machine, manager, pc, locals, result, switches, done>>

(* The driver of the list, as long as nothing was read about it.           *)
Unlisted == [variants |-> {}, selected |-> None, active |-> None, told |-> FALSE]

Init ==
  /\ tree \in Trees /\ dracut \in BOOLEAN
  /\ links = [k \in Kernel |-> [m \in Module |-> None]]
  /\ tmps = links /\ index = links /\ initrd = links
  /\ running \in Kernel /\ loaded = [m \in Module |-> None]
  /\ runtime \in BOOLEAN /\ drivers = Unlisted /\ exit_code = 0
  /\ pc = "idle" /\ want = None /\ kernels = {} /\ kernel = running /\ files = {} /\ file = None
  /\ created = FALSE /\ result = "none" /\ switches = 0 /\ done = None

-----------------------------------------------------------------------------
(* create_dmv_symlink() *)

Begin(v) ==
  /\ pc = "idle" /\ switches < MaxSwitch
  /\ switches' = switches + 1
  /\ want' = v /\ created' = FALSE /\ done' = None /\ result' = "none"
  /\ kernels' = Kernel /\ files' = {}
  /\ pc' = "next"
  /\ UNCHANGED <<installed, system, machine, manager, kernel, file>>

(* os.listdir() and glob.glob() return what they find in any order.        *)
NextKernel(k) ==
  /\ pc = "next" /\ files = {} /\ k \in kernels
  /\ kernels' = kernels \ {k} /\ kernel' = k
  /\ files' = tree[k][want]
  /\ UNCHANGED <<installed, system, machine, manager, pc, want, file, created, result, switches, done>>

(* Fault: the link that is to be replaced is removed first.                *)
UnlinkBoth(m) ==
  /\ pc = "next" /\ m \in files
  /\ files' = files \ {m} /\ file' = m
  /\ tmps' = [tmps EXCEPT ![kernel][m] = None]
  /\ links' = [links EXCEPT ![kernel][m] = None]
  /\ pc' = "symlink"
  /\ UNCHANGED <<installed, index, initrd, machine, manager, want, kernels, kernel, created,
                 result, switches, done>>

Unlink(m) ==
  /\ pc = "next" /\ m \in files
  /\ files' = files \ {m} /\ file' = m
  /\ tmps' = [tmps EXCEPT ![kernel][m] = None]
  /\ pc' = "symlink"
  /\ UNCHANGED <<installed, links, index, initrd, machine, manager, want, kernels, kernel, created,
                 result, switches, done>>

(* Fault: a link that is there counts as made. *)
SymlinkUnlessThere ==
  /\ pc = "symlink"
  /\ tmps' = [tmps EXCEPT ![kernel][file] = IF links[kernel][file] = None THEN want ELSE links[kernel][file]]
  /\ pc' = "rename"
  /\ UNCHANGED <<installed, links, index, initrd, machine, manager, locals, result, switches, done>>

Symlink ==
  /\ pc = "symlink"
  /\ tmps' = [tmps EXCEPT ![kernel][file] = want]
  /\ pc' = "rename"
  /\ UNCHANGED <<installed, links, index, initrd, machine, manager, locals, result, switches, done>>

RenameLink ==
  /\ pc = "rename"
  /\ links' = [links EXCEPT ![kernel][file] = tmps[kernel][file]]
  /\ tmps' = [tmps EXCEPT ![kernel][file] = None]
  /\ created' = TRUE
  /\ pc' = IF dracut THEN "weak-modules" ELSE "next"
  /\ UNCHANGED <<installed, index, initrd, machine, manager, want, kernels, kernel, files, file,
                 result, switches, done>>

WeakModules ==
  /\ pc = "weak-modules"
  /\ pc' = "next"
  /\ UNCHANGED <<installed, system, machine, manager, locals, result, switches, done>>

AllVisited == pc = "next" /\ kernels = {} /\ files = {}

NothingCreated ==
  /\ AllVisited /\ ~created
  /\ exit_code' = 2                \* ENOENT
  /\ result' = "False" /\ pc' = "idle"
  /\ UNCHANGED <<installed, system, machine, runtime, drivers, locals, switches, done>>

Succeed == result' = "True" /\ done' = <<want, running>> /\ pc' = "idle"

(* Both are for the running kernel alone.                                  *)
Depmod ==
  /\ AllVisited /\ created
  /\ index' = [index EXCEPT ![running] = links[running]]
  /\ \/ dracut /\ pc' = "dracut" /\ UNCHANGED <<result, done>>
     \/ ~dracut /\ Succeed
  /\ UNCHANGED <<installed, links, tmps, initrd, machine, manager, locals, switches>>

(* Fault: the initrd is made of the links of another kernel.               *)
DracutOfLast ==
  /\ pc = "dracut"
  /\ initrd' = [initrd EXCEPT ![running] = index[kernel]]
  /\ Succeed
  /\ UNCHANGED <<installed, links, tmps, index, machine, manager, locals, switches>>

Dracut ==
  /\ pc = "dracut"
  /\ initrd' = [initrd EXCEPT ![running] = index[running]]
  /\ Succeed
  /\ UNCHANGED <<installed, links, tmps, index, machine, manager, locals, switches>>

(* "check=True": a command that fails ends the call.                       *)
CommandFails ==
  /\ pc \in {"weak-modules", "dracut"} \/ (AllVisited /\ created)
  /\ result' = "raised" /\ pc' = "idle"
  /\ UNCHANGED <<installed, system, machine, manager, locals, switches, done>>

-----------------------------------------------------------------------------
(* parse_dmv_list(), parse_dmv_file() *)

(* What is found at the first of the modules, in the order ms, that are    *)
(* keys of an info.json; it names the modules that lie beside it.          *)
FirstOf(ms, keys, at) ==
  LET there == {i \in DOMAIN ms : ms[i] \in keys /\ at[ms[i]] # None}
  IN IF there = {} THEN None ELSE at[ms[CHOOSE i \in there : \A j \in there : i <= j]]

(* A link leads to the directory of a variant, whose info.json tells which.*)
variant_selected(k, v, ms)   == FirstOf(ms, tree[k][v], links[k])
get_active_variant(k, v, ms) == FirstOf(ms, tree[k][v], loaded)

(* Fault: the variant is taken from the info.json that is read, not from    *)
(* that at the end of the link.                                            *)
InfoOwn(k, v, ms, look) ==
  [variants |-> {v},
   selected |-> IF look /\ variant_selected(k, v, ms) # None THEN v ELSE None,
   active   |-> IF look THEN get_active_variant(k, v, ms) ELSE None,
   told     |-> look]

(* What one info.json tells; a manager that is not for a runtime, and      *)
(* parse_dmv_file(), do not look at links and modules.                     *)
Info(k, v, ms, look) ==
  [variants |-> {v},
   selected |-> IF look THEN variant_selected(k, v, ms) ELSE None,
   active   |-> IF look THEN get_active_variant(k, v, ms) ELSE None,
   told     |-> look]

Either(old, new) == IF old # None THEN old ELSE new

Merge(old, new) ==
  [variants |-> old.variants \cup new.variants,
   selected |-> Either(old.selected, new.selected),
   active   |-> Either(old.active, new.active),
   told     |-> old.told /\ new.told]

process_dmv_data(old, new) == IF old.variants = {} THEN new ELSE Merge(old, new)

Orders(S) == {s \in [1 .. Cardinality(S) -> S] : \A x \in S : \E i \in DOMAIN s : s[i] = x}

(* The directories of variants, in any order, but those of one kernel in a *)
(* row; and the orders of the keys, which come with the variants.          *)
InARow(s) ==
  \A i, j, l \in DOMAIN s : i < j /\ j < l /\ s[i][1] = s[l][1] => s[j][1] = s[i][1]
Walks ==
  {[n \in DOMAIN s |-> [kernel |-> s[n][1], variant |-> s[n][2]]] :
     s \in {t \in Orders(Kernel \X Variant) : InARow(t)}}
KeyOrders == [Variant -> Orders(Module)]

(* The list after each directory; those without an info.json are passed.   *)
Listed(walk, ms) ==
  LET list[n \in 0 .. Len(walk)] ==
        IF n = 0 THEN drivers
        ELSE LET k == walk[n].kernel
                 v == walk[n].variant
             IN IF tree[k][v] = {} THEN list[n - 1]
                ELSE process_dmv_data(list[n - 1], Info(k, v, ms[v], runtime))
  IN list

(* It merges into what the manager read before.  Where only some of the    *)
(* info.json it merges tell the selection, it raises a KeyError.           *)
ParseList(walk, ms) ==
  /\ pc = "idle"
  /\ runtime /\ drivers.variants # {} => drivers.told
  /\ drivers' = Listed(walk, ms)[Len(walk)]
  /\ UNCHANGED <<installed, system, machine, runtime, exit_code, pc, locals, result, switches, done>>

ParseFile(k, v) ==
  /\ pc = "idle" /\ tree[k][v] # {}
  /\ runtime => drivers.variants = {}
  /\ drivers' = process_dmv_data(drivers, Info(k, v, <<>>, FALSE))
  /\ UNCHANGED <<installed, system, machine, runtime, exit_code, pc, locals, result, switches, done>>

(* The KeyError comes after the variant was added.                         *)
ParseRaises(k, v) ==
  /\ pc = "idle" /\ tree[k][v] # {}
  /\ runtime /\ drivers.variants # {}
  /\ drivers' = [drivers EXCEPT !.variants = @ \cup {v}]
  /\ UNCHANGED <<installed, system, machine, runtime, exit_code, pc, locals, result, switches, done>>

-----------------------------------------------------------------------------
(* Programs end, crash and begin; modules are loaded (external) *)

NewManager ==
  /\ pc' = "idle" /\ runtime' \in BOOLEAN /\ drivers' = Unlisted /\ exit_code' = 0
  /\ result' = "none"
  /\ want' = None /\ kernels' = {} /\ kernel' = running' /\ files' = {} /\ file' = None
  /\ created' = FALSE

Restart ==
  /\ UNCHANGED <<installed, system, machine, switches, done>>
  /\ NewManager

Boot(k) ==
  /\ dracut
  /\ running' = k /\ loaded' = initrd[k]
  /\ NewManager
  /\ UNCHANGED <<installed, system, switches, done>>

Modprobe(m) ==
  /\ loaded[m] = None
  /\ loaded' = [loaded EXCEPT ![m] = index[running][m]]
  /\ UNCHANGED <<installed, system, running, manager, pc, locals, result, switches, done>>

Next ==
  \/ \E v \in Variant : Begin(v)
  \/ \E k \in Kernel : NextKernel(k) \/ Boot(k)
  \/ \E m \in Module : Unlink(m) \/ Modprobe(m)
  \/ Symlink \/ RenameLink \/ WeakModules \/ NothingCreated \/ Depmod \/ Dracut \/ CommandFails
  \/ pc = "idle" /\ \E walk \in Walks, ms \in KeyOrders : ParseList(walk, ms)
  \/ \E k \in Kernel, v \in Variant : ParseFile(k, v) \/ ParseRaises(k, v)
  \/ Restart

Spec == Init /\ [][Next]_vars

-----------------------------------------------------------------------------
(* Properties *)

Linked == [Kernel -> [Module -> Variant \cup {None}]]

(* Types of the variables. *)
TypeOK ==
  /\ tree \in Trees /\ dracut \in BOOLEAN
  /\ links \in Linked /\ tmps \in Linked /\ index \in Linked /\ initrd \in Linked
  /\ running \in Kernel /\ loaded \in [Module -> Variant \cup {None}]
  /\ runtime \in BOOLEAN /\ exit_code \in {0, 2}
  /\ pc \in {"idle", "next", "symlink", "rename", "weak-modules", "dracut"}
  /\ want \in Variant \cup {None} /\ kernels \subseteq Kernel /\ files \subseteq Module
  /\ result \in {"none", "True", "False", "raised"} /\ switches \in 0 .. MaxSwitch
  /\ done = None \/ done \in Variant \X Kernel

(* A call that returns True has switched every module of the variant, for  *)
(* every kernel that has it, whatever crashed or failed calls left behind; *)
(* one that returns False found nothing to switch.                         *)
AllLinked ==
  /\ TypeOK
  /\ done # None => \A k \in Kernel : \A m \in tree[k][done[1]] : links[k][m] = done[1]
  /\ result = "False" => \A k \in Kernel : tree[k][want] = {}

(* The variants some link leads to. *)
LinkedTo == {links[k][m] : k \in Kernel, m \in Module} \ {None}

(* "Check and return which driver is selected": a manager that reads the   *)
(* list for the first time finds every variant that is there for some      *)
(* kernel, and reports one that is selected if there is one, in whatever   *)
(* order it finds kernels, variants and modules.  After a successful switch*)
(* that is the variant that was asked for, or else the one to which a      *)
(* module is still linked that the variant asked for does not have.        *)
SelectedIsWanted ==
  [][drivers = Unlisted /\ drivers'.told =>
       /\ drivers'.variants = {v \in Variant : \E k \in Kernel : tree[k][v] # {}}
       /\ IF LinkedTo = {} THEN drivers'.selected = None ELSE drivers'.selected \in LinkedTo
       /\ done # None /\ drivers'.selected # done[1] =>
            /\ drivers'.selected # None
            /\ \E k \in Kernel, m \in Module :
                 m \notin tree[k][done[1]] /\ links[k][m] = drivers'.selected]_vars

(* A module that has a link has one for ever: at no moment of a switch, and *)
(* after no crash, would the kernel fall back to the driver it came with.  *)
NeverUnlinked ==
  [][\A k \in Kernel, m \in Module : links[k][m] # None => links'[k][m] # None]_vars

(* After a successful switch the modules that are loaded, when the same    *)
(* kernel boots or one by one later, are those of the variant.             *)
LoadsWanted ==
  [][done # None /\ running' = done[2] =>
       \A m \in tree[running'][done[1]] :
         Boot(running') \/ loaded'[m] # loaded[m] => loaded'[m] = done[1]]_vars

=============================================================================
