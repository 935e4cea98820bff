----------------------------- MODULE DriverProofs -----------------------------
(***************************************************************************)
(* Proofs about DriverMultiVersion: a switch that succeeds has switched    *)
(* every module for every kernel, no link ever vanishes, and what is       *)
(* loaded afterwards is of the variant asked for, for any kernels, modules *)
(* and variants, and any number of switches, crashes and boots.  A list    *)
(* that is made then says so, in whatever order directories and keys come, *)
(* unless a module that variant lacks is still linked to another.          *)
(***************************************************************************)
EXTENDS DriverMultiVersion, FiniteSetTheorems, WellFoundedInduction, TLAPS

-----------------------------------------------------------------------------
(* The inductive invariant *)

(* The modules of the kernel at hand that are still to be linked. *)
Left == files \cup IF pc \in {"symlink", "rename"} THEN {file} ELSE {}

(* Where create_dmv_symlink() stands: what lies behind it is linked, and   *)
(* nothing was there as long as nothing was created.                       *)
AtHand ==
  pc # "idle" =>
    /\ want \in Variant /\ done = None /\ result = "none"
    /\ Left # {} => kernel \in Kernel \ kernels /\ Left \subseteq tree[kernel][want]
    /\ pc = "rename" => tmps[kernel][file] = want
    /\ \A k \in Kernel \ kernels : \A m \in tree[k][want] :
         (k = kernel /\ m \in Left) \/ (created /\ links[k][m] = want)
    /\ pc = "weak-modules" => created
    /\ pc = "dracut" => /\ kernels = {} /\ files = {}
                        /\ dracut /\ index[running] = links[running]

(* What the last call left when it succeeded; its kernel has the index and *)
(* the initrd of the links.                                                *)
Done ==
  done # None =>
    /\ \A k \in Kernel : \A m \in tree[k][done[1]] : links[k][m] = done[1]
    /\ index[done[2]] = links[done[2]]
    /\ dracut => initrd[done[2]] = links[done[2]]

NothingThere == result = "False" => \A k \in Kernel : tree[k][want] = {}

IInv == TypeOK /\ AtHand /\ Done /\ NothingThere

(* What a step leaves alone that keeps the call and its outcome. *)
Switch == <<tree, dracut, links, tmps, index, initrd, running, want, kernels, kernel, files,
            file, created, result, switches, done, pc>>

-----------------------------------------------------------------------------

LEMMA InitInv == Init => IInv
<1> SUFFICES ASSUME Init PROVE IInv
  OBVIOUS
<1>1. links \in Linked /\ loaded \in [Module -> Variant \cup {None}]
  BY DEF Init, Linked
<1>2. TypeOK
  BY <1>1, DmvAssumption DEF Init, TypeOK
<1> QED BY <1>2 DEF Init, IInv, AtHand, Done, NothingThere

(* What is installed for a kernel are modules. *)
LEMMA Installed ==
  ASSUME TypeOK, NEW k \in Kernel, NEW v \in Variant
  PROVE  tree[k][v] \subseteq Module
BY DmvAssumption DEF TypeOK

(* Reading the list and loading modules touch nothing of this. *)
LEMMA KeptInv ==
  ASSUME IInv, UNCHANGED Switch, exit_code' = exit_code, runtime' = runtime,
         loaded' \in [Module -> Variant \cup {None}]
  PROVE  IInv'
<1>1. TypeOK'
  BY DEF Switch, IInv, TypeOK
<1>2. AtHand'
  BY DEF Switch, IInv, AtHand, Left
<1> QED BY <1>1, <1>2 DEF Switch, IInv, Done, NothingThere

LEMMA BeginInv == ASSUME IInv, NEW v \in Variant, Begin(v) PROVE IInv'
<1> USE DEF Begin, installed, system, machine, manager
<1>1. switches' \in 0 .. MaxSwitch
  BY DmvAssumption DEF IInv, TypeOK
<1>2. TypeOK'
  BY <1>1 DEF IInv, TypeOK
<1>3. AtHand' /\ Done' /\ NothingThere'
  BY DEF AtHand, Left, Done, NothingThere
<1> QED BY <1>2, <1>3 DEF IInv

LEMMA NextKernelInv == ASSUME IInv, NEW k \in Kernel, NextKernel(k) PROVE IInv'
<1> USE DEF NextKernel, installed, system, machine, manager
<1>1. want \in Variant /\ Left = {} /\ Left' = tree[k][want]
  BY DEF IInv, AtHand, Left
<1>2. TypeOK'
  BY <1>1, Installed DEF IInv, TypeOK
<1>3. AtHand'
  BY <1>1 DEF IInv, AtHand
<1> QED BY <1>2, <1>3 DEF IInv, Done, NothingThere, AtHand

LEMMA UnlinkInv == ASSUME IInv, NEW m \in Module, Unlink(m) PROVE IInv'
<1> USE DEF Unlink, installed, machine, manager
<1>1. want \in Variant /\ Left = files /\ Left' = files /\ Left' = Left
  BY DEF IInv, AtHand, Left
<1>2. tmps' \in Linked
  BY DEF IInv, TypeOK, Linked
<1>3. TypeOK'
  BY <1>2 DEF IInv, TypeOK
<1>4. AtHand'
  BY <1>1 DEF IInv, AtHand
<1> QED BY <1>3, <1>4 DEF IInv, Done, NothingThere, AtHand

LEMMA SymlinkInv == ASSUME IInv, Symlink PROVE IInv'
<1> USE DEF Symlink, installed, machine, manager, locals
<1>1. want \in Variant /\ Left' = Left /\ file \in Left
  BY DEF IInv, AtHand, Left
<1>2. kernel \in Kernel \ kernels /\ file \in Module
  BY <1>1, Installed DEF IInv, AtHand
<1>3. tmps' \in Linked /\ tmps'[kernel][file] = want
  BY <1>1, <1>2 DEF IInv, TypeOK, Linked
<1>4. TypeOK'
  BY <1>3 DEF IInv, TypeOK
<1>5. AtHand'
  BY <1>1, <1>3 DEF IInv, AtHand
<1> QED BY <1>4, <1>5 DEF IInv, Done, NothingThere, AtHand

(* The link that is renamed over the old one leads to the variant. *)
LEMMA Renamed ==
  ASSUME IInv, RenameLink
  PROVE  /\ want \in Variant /\ kernel \in Kernel \ kernels /\ file \in Module
         /\ links' \in Linked /\ links'[kernel][file] = want
         /\ \A k \in Kernel, m \in Module :
              links'[k][m] = links[k][m] \/ (links'[k][m] = want /\ k = kernel /\ m = file)
<1> USE DEF RenameLink
<1>1. want \in Variant /\ file \in Left /\ tmps[kernel][file] = want
  BY DEF IInv, AtHand, Left
<1>2. kernel \in Kernel \ kernels /\ file \in Module
  BY <1>1, Installed DEF IInv, AtHand
<1> QED BY <1>1, <1>2 DEF IInv, TypeOK, Linked

LEMMA RenameLinkInv == ASSUME IInv, RenameLink PROVE IInv'
<1> USE DEF RenameLink, installed, machine, manager
<1>1. tmps' \in Linked
  BY Renamed DEF IInv, TypeOK, Linked
<1>2. TypeOK'
  BY <1>1, Renamed DEF IInv, TypeOK
<1>3. Left' \subseteq Left /\ Left \subseteq Left' \cup {file}
  BY DEF Left
<1>4. ASSUME NEW k \in Kernel \ kernels, NEW m \in tree[k][want]
      PROVE  (k = kernel /\ m \in Left') \/ links'[k][m] = want
  <2>1. m \in Module
    BY Installed, Renamed DEF IInv
  <2>2. (k = kernel /\ m \in Left) \/ links[k][m] = want
    BY <1>4 DEF IInv, AtHand
  <2> QED BY <1>3, <2>1, <2>2, Renamed
<1>5. AtHand'
  BY <1>3, <1>4, Renamed DEF IInv, AtHand
<1>6. done' = None /\ result' = "none"
  BY DEF IInv, AtHand
<1> QED BY <1>2, <1>5, <1>6 DEF IInv, Done, NothingThere

LEMMA WeakModulesInv == ASSUME IInv, WeakModules PROVE IInv'
<1> USE DEF WeakModules, installed, system, machine, manager, locals
<1>1. TypeOK'
  BY DEF IInv, TypeOK
<1>2. Left' = Left
  BY DEF Left
<1>3. AtHand'
  BY <1>2 DEF IInv, AtHand
<1> QED BY <1>1, <1>3 DEF IInv, Done, NothingThere

LEMMA NothingCreatedInv == ASSUME IInv, NothingCreated PROVE IInv'
<1> USE DEF NothingCreated, AllVisited, installed, system, machine, locals
<1>1. TypeOK'
  BY DEF IInv, TypeOK
<1>2. Left = {} /\ AtHand'
  BY DEF Left, AtHand
<1>3. ASSUME NEW k \in Kernel PROVE tree[k][want] = {}
  BY <1>2 DEF IInv, AtHand
<1> QED BY <1>1, <1>2, <1>3 DEF IInv, Done, NothingThere

(* When all is visited and something was created, all is linked. *)
LEMMA AllIsLinked ==
  ASSUME IInv, pc \in {"next", "dracut"}, kernels = {}, files = {}
  PROVE  want \in Variant /\ \A k \in Kernel : \A m \in tree[k][want] : links[k][m] = want
<1>1. Left = {} /\ want \in Variant
  BY DEF Left, IInv, AtHand
<1> QED BY <1>1 DEF IInv, AtHand

LEMMA DepmodInv == ASSUME IInv, Depmod PROVE IInv'
<1> USE DEF Depmod, Succeed, AllVisited, installed, machine, manager, locals
<1>1. want \in Variant /\ \A k \in Kernel : \A m \in tree[k][want] : links[k][m] = want
  BY AllIsLinked
<1>2. index' \in Linked /\ index'[running] = links[running] /\ running \in Kernel
  BY DEF IInv, TypeOK, Linked
<1>3. TypeOK'
  BY <1>1, <1>2 DEF IInv, TypeOK
<1>4. done' = None \/ (~dracut /\ done'[1] = want /\ done'[2] = running)
  BY DEF IInv, AtHand
<1>5. Done' /\ NothingThere'
  BY <1>1, <1>2, <1>4 DEF IInv, AtHand, Done, NothingThere
<1>6. Left = {} /\ Left' = {}
  BY DEF Left
<1>7. AtHand'
  BY <1>2, <1>6 DEF IInv, AtHand
<1> QED BY <1>3, <1>5, <1>7 DEF IInv

LEMMA DracutInv == ASSUME IInv, Dracut PROVE IInv'
<1> USE DEF Dracut, Succeed, installed, machine, manager, locals
<1>1. kernels = {} /\ files = {} /\ index[running] = links[running]
  BY DEF IInv, AtHand
<1>2. want \in Variant /\ \A k \in Kernel : \A m \in tree[k][want] : links[k][m] = want
  BY <1>1, AllIsLinked
<1>3. initrd' \in Linked /\ initrd'[running] = links[running] /\ running \in Kernel
  BY <1>1 DEF IInv, TypeOK, Linked
<1>4. TypeOK'
  BY <1>2, <1>3 DEF IInv, TypeOK
<1>5. done'[1] = want /\ done'[2] = running /\ result' = "True"
  OBVIOUS
<1>6. Done' /\ NothingThere'
  BY <1>1, <1>2, <1>3, <1>5 DEF Done, NothingThere
<1>7. AtHand'
  BY DEF AtHand
<1> QED BY <1>4, <1>6, <1>7 DEF IInv

LEMMA CommandFailsInv == ASSUME IInv, CommandFails PROVE IInv'
<1> USE DEF CommandFails, installed, system, machine, manager, locals
<1>1. TypeOK' /\ AtHand'
  BY DEF IInv, TypeOK, AtHand
<1> QED BY <1>1 DEF IInv, Done, NothingThere

LEMMA RestartInv ==
  ASSUME IInv, NewManager, UNCHANGED <<installed, system, switches, done>>, running' \in Kernel,
         loaded' \in [Module -> Variant \cup {None}]
  PROVE  IInv'
<1> USE DEF NewManager, installed, system
<1>1. TypeOK'
  BY DEF IInv, TypeOK
<1> QED BY <1>1 DEF IInv, AtHand, Done, NothingThere

-----------------------------------------------------------------------------

LEMMA NextInv == IInv /\ [Next]_vars => IInv'
<1> SUFFICES ASSUME IInv, [Next]_vars PROVE IInv'
  OBVIOUS
<1> USE DEF installed, system, machine, manager, locals, Switch
<1>0. /\ loaded \in [Module -> Variant \cup {None}]
      /\ initrd \in Linked /\ index \in Linked /\ running \in Kernel
  BY DEF IInv, TypeOK
<1>1. CASE UNCHANGED vars
  BY <1>0, <1>1, KeptInv DEF vars
<1>2. CASE \E v \in Variant : Begin(v)
  BY <1>2, BeginInv
<1>3. CASE \E k \in Kernel : NextKernel(k)
  BY <1>3, NextKernelInv
<1>4. CASE \E m \in Module : Unlink(m)
  BY <1>4, UnlinkInv
<1>5. CASE Symlink \/ RenameLink \/ WeakModules
  BY <1>5, SymlinkInv, RenameLinkInv, WeakModulesInv
<1>6. CASE NothingCreated \/ Depmod \/ Dracut \/ CommandFails
  BY <1>6, NothingCreatedInv, DepmodInv, DracutInv, CommandFailsInv
<1>7. CASE \E k \in Kernel : Boot(k)
  <2>1. PICK k \in Kernel : Boot(k)
    BY <1>7
  <2>2. loaded' \in [Module -> Variant \cup {None}]
    BY <1>0, <2>1 DEF Boot, Linked
  <2> QED BY <2>1, <2>2, RestartInv DEF Boot
<1>8. CASE Restart
  BY <1>0, <1>8, RestartInv DEF Restart
<1>9. CASE \E m \in Module : Modprobe(m)
  <2>1. loaded' \in [Module -> Variant \cup {None}]
    BY <1>0, <1>9 DEF Modprobe, Linked
  <2> QED BY <1>9, <2>1, KeptInv DEF Modprobe
<1>10. CASE \E walk \in Walks, ms \in KeyOrders : ParseList(walk, ms)
  <2>1. UNCHANGED Switch /\ exit_code' = exit_code /\ runtime' = runtime /\ loaded' = loaded
    BY <1>10 DEF ParseList
  <2> QED BY <1>0, <2>1, KeptInv
<1>11. CASE \E k \in Kernel, v \in Variant : ParseFile(k, v) \/ ParseRaises(k, v)
  <2>1. UNCHANGED Switch /\ exit_code' = exit_code /\ runtime' = runtime /\ loaded' = loaded
    BY <1>11 DEF ParseFile, ParseRaises
  <2> QED BY <1>0, <2>1, KeptInv
<1> QED BY <1>1, <1>2, <1>3, <1>4, <1>5, <1>6, <1>7, <1>8, <1>9, <1>10, <1>11 DEF Next

LEMMA Invariance == Spec => []IInv
BY InitInv, NextInv, PTL DEF Spec

(* A call of create_dmv_symlink() that returns True has switched every     *)
(* module of the variant for every kernel, whatever crashes left behind;   *)
(* one that returns False found nothing to switch.                         *)
THEOREM SwitchesAll == Spec => []AllLinked
<1>1. IInv => AllLinked
  BY DEF IInv, AllLinked, Done, NothingThere
<1> QED BY <1>1, Invariance, PTL

(* No step of a switch, and no crash within one, takes away a link.        *)
THEOREM LinksStay == Spec => NeverUnlinked
<1> DEFINE Stays == \A k \in Kernel, m \in Module : links[k][m] # None => links'[k][m] # None
<1>1. ASSUME IInv, [Next]_vars PROVE [Stays]_vars
  <2>1. CASE RenameLink
    BY <1>1, <2>1, Renamed, DmvAssumption
  <2>2. CASE ~RenameLink
    <3>1. CASE UNCHANGED vars
      BY <3>1
    <3>2. CASE Next
      <4>1. UNCHANGED links
        BY <2>2, <3>2
        DEF Next, Begin, NextKernel, Boot, Unlink, Modprobe, Symlink, WeakModules, NothingCreated,
            Depmod, Dracut, CommandFails, ParseList, ParseFile, ParseRaises, Restart, system
      <4> QED BY <4>1
    <3> QED BY <1>1, <3>1, <3>2
  <2> QED BY <2>1, <2>2
<1> QED BY <1>1, Invariance, PTL DEF Spec, NeverUnlinked

(* After a switch that succeeded, the kernel it was made under loads       *)
(* modules of the variant asked for, at its next boot and one by one.      *)
THEOREM LoadsTheVariant == Spec => LoadsWanted
<1> DEFINE Loads == done # None /\ running' = done[2] =>
                      \A m \in tree[running'][done[1]] :
                        Boot(running') \/ loaded'[m] # loaded[m] => loaded'[m] = done[1]
<1>1. ASSUME IInv, [Next]_vars PROVE [Loads]_vars
  <2> SUFFICES ASSUME Next, done # None, running' = done[2],
                      NEW m \in tree[running'][done[1]],
                      Boot(running') \/ loaded'[m] # loaded[m]
               PROVE  loaded'[m] = done[1]
    BY <1>1
  <2>1. /\ done[1] \in Variant /\ done[2] \in Kernel
        /\ links[done[2]][m] = done[1] /\ index[done[2]] = links[done[2]]
        /\ dracut => initrd[done[2]] = links[done[2]]
    BY <1>1 DEF IInv, TypeOK, Done
  <2>2. m \in Module
    BY <1>1, <2>1, Installed DEF IInv
  <2>3. CASE Boot(running')
    <3>1. loaded' = initrd[running'] /\ dracut
      BY <2>3 DEF Boot
    <3> QED BY <2>1, <3>1
  <2>4. ASSUME NEW k \in Kernel, Boot(k) PROVE loaded'[m] = done[1]
    <3>1. k = done[2] /\ loaded' = initrd[k] /\ dracut
      BY <2>4 DEF Boot
    <3> QED BY <2>1, <3>1
  <2>5. ASSUME NEW n \in Module, Modprobe(n), loaded'[m] # loaded[m] PROVE loaded'[m] = done[1]
    <3>1. running = done[2] /\ loaded \in [Module -> Variant \cup {None}]
      BY <1>1, <2>5 DEF Modprobe, IInv, TypeOK
    <3>2. loaded' = [loaded EXCEPT ![n] = index[running][n]]
      BY <2>5 DEF Modprobe
    <3>3. n = m
      BY <2>2, <2>5, <3>1, <3>2
    <3> QED BY <2>1, <2>2, <3>1, <3>2, <3>3
  <2>6. \/ \E k \in Kernel : Boot(k)
        \/ \E n \in Module : Modprobe(n)
        \/ UNCHANGED loaded
    BY DEF Next, Begin, NextKernel, Unlink, Symlink, RenameLink, WeakModules, NothingCreated,
           Depmod, Dracut, CommandFails, ParseList, ParseFile, ParseRaises, Restart, machine
  <2> QED BY <2>3, <2>4, <2>5, <2>6
<1> QED BY <1>1, Invariance, PTL DEF Spec, LoadsWanted

-----------------------------------------------------------------------------
(* Reading the list *)

(* A set of numbers has a least one. *)
LEMMA LeastNat ==
  ASSUME NEW S \in SUBSET Nat, S # {}
  PROVE  \E m \in S : \A n \in S : m <= n
<1> DEFINE Below == OpToRel(<, Nat)
<1>1. IsWellFoundedOn(Below, Nat)
  BY NatLessThanWellFounded
<1> HIDE DEF Below
<1>2. PICK m \in S : \A n \in S : ~(<<n, m>> \in Below)
  BY <1>1, WFMin
<1>3. \A n \in S : ~(n < m)
  BY <1>2 DEF Below, OpToRel
<1> QED BY <1>3

(* The list after a directory, if old was the list before it. *)
Adding(old, dir, ms) ==
  IF tree[dir.kernel][dir.variant] = {} THEN old
  ELSE process_dmv_data(old, Info(dir.kernel, dir.variant, ms[dir.variant], runtime))

(* A function tells the lists of the first n directories. *)
Lists(f, walk, ms, n) ==
  f = [i \in 0 .. n |-> IF i = 0 THEN drivers ELSE Adding(f[i - 1], walk[i], ms)]

(* There is one for any number of directories. *)
LEMMA ListsExist ==
  ASSUME NEW walk, NEW ms, NEW n \in Nat
  PROVE  \E f : Lists(f, walk, ms, n)
<1> DEFINE Without == {i \in Nat : ~ \E f : Lists(f, walk, ms, i)}
<1>1. SUFFICES ASSUME Without # {} PROVE FALSE
  OBVIOUS
<1>2. PICK m \in Without : \A i \in Without : m <= i
  BY <1>1, LeastNat
<1>3. CASE m = 0
  <2> DEFINE f == [i \in 0 .. 0 |-> drivers]
  <2>1. Lists(f, walk, ms, 0)
    BY DEF Lists
  <2> QED BY <1>2, <1>3, <2>1
<1>4. CASE m # 0
  <2>1. m - 1 \in Nat /\ m - 1 \notin Without
    BY <1>2, <1>4
  <2>2. PICK f : Lists(f, walk, ms, m - 1)
    BY <2>1
  <2> DEFINE g == [i \in 0 .. m |-> IF i = m THEN Adding(f[m - 1], walk[m], ms) ELSE f[i]]
  <2>3. ASSUME NEW i \in 0 .. m
        PROVE  g[i] = IF i = 0 THEN drivers ELSE Adding(g[i - 1], walk[i], ms)
    <3>1. CASE i = m
      BY <1>2, <1>4, <3>1
    <3>2. CASE i # m
      <4>1. i \in 0 .. m - 1 /\ g[i] = f[i] /\ (i # 0 => g[i - 1] = f[i - 1])
        BY <1>2, <1>4, <3>2
      <4>2. f[i] = IF i = 0 THEN drivers ELSE Adding(f[i - 1], walk[i], ms)
        BY <2>2, <4>1 DEF Lists
      <4> QED BY <4>1, <4>2
    <3> QED BY <3>1, <3>2
  <2>4. g = [i \in 0 .. m |-> IF i = 0 THEN drivers ELSE Adding(g[i - 1], walk[i], ms)]
    BY <2>3
  <2> HIDE DEF g
  <2>5. Lists(g, walk, ms, m)
    BY <2>4 DEF Lists
  <2> QED BY <1>2, <2>5
<1> QED BY <1>3, <1>4

(* So Listed() is what its recursion says. *)
LEMMA ListedIs ==
  ASSUME NEW walk, Len(walk) \in Nat, NEW ms
  PROVE  Lists(Listed(walk, ms), walk, ms, Len(walk))
<1>1. Listed(walk, ms) = CHOOSE f : Lists(f, walk, ms, Len(walk))
  BY DEF Listed, Lists, Adding
<1>2. \E f : Lists(f, walk, ms, Len(walk))
  BY ListsExist
<1> QED BY <1>1, <1>2

(* An order of a finite set has all its elements. *)
LEMMA OrderHasAll ==
  ASSUME NEW S, IsFiniteSet(S), NEW s \in Orders(S)
  PROVE  /\ Cardinality(S) \in Nat /\ s \in [1 .. Cardinality(S) -> S]
         /\ \A x \in S : \E i \in 1 .. Cardinality(S) : s[i] = x
BY FS_CardinalityType DEF Orders

(* parse_dmv_list() comes by every directory. *)
LEMMA WalkHasAll ==
  ASSUME NEW walk \in Walks
  PROVE  /\ Len(walk) \in Nat
         /\ \A n \in 1 .. Len(walk) : walk[n].kernel \in Kernel /\ walk[n].variant \in Variant
         /\ \A k \in Kernel, v \in Variant : \E n \in 1 .. Len(walk) :
              walk[n].kernel = k /\ walk[n].variant = v
<1> DEFINE S == Kernel \X Variant
           N == Cardinality(S)
<1>1. IsFiniteSet(S)
  BY FS_Product, DmvAssumption
<1>2. PICK s \in Orders(S) :
        walk = [n \in DOMAIN s |-> [kernel |-> s[n][1], variant |-> s[n][2]]]
  BY DEF Walks
<1> HIDE DEF S
<1>3. N \in Nat /\ s \in [1 .. N -> S] /\ \A x \in S : \E i \in 1 .. N : s[i] = x
  BY <1>1, OrderHasAll
<1> HIDE DEF N
<1>4. walk = [n \in 1 .. N |-> [kernel |-> s[n][1], variant |-> s[n][2]]]
  BY <1>2, <1>3
<1>5. Len(walk) = N
  BY <1>3, <1>4
<1>6. ASSUME NEW n \in 1 .. N PROVE walk[n].kernel \in Kernel /\ walk[n].variant \in Variant
  BY <1>3, <1>4 DEF S
<1>7. ASSUME NEW k \in Kernel, NEW v \in Variant
      PROVE  \E n \in 1 .. N : walk[n].kernel = k /\ walk[n].variant = v
  <2>1. <<k, v>> \in S
    BY DEF S
  <2>2. PICK n \in 1 .. N : s[n] = <<k, v>>
    BY <1>3, <2>1
  <2> QED BY <1>4, <2>2
<1> QED BY <1>3, <1>5, <1>6, <1>7

(* What is found is None if there is nothing at any of the keys, and else  *)
(* what is there at one of them.                                           *)
IsFound(r, keys, at) ==
  \/ r = None /\ \A m \in keys : at[m] = None
  \/ r # None /\ \E m \in keys : at[m] = r

LEMMA FirstFound ==
  ASSUME NEW ms \in Orders(Module), NEW keys \in SUBSET Module, NEW at
  PROVE  IsFound(FirstOf(ms, keys, at), keys, at)
<1> DEFINE there == {i \in DOMAIN ms : ms[i] \in keys /\ at[ms[i]] # None}
           least == CHOOSE i \in there : \A j \in there : i <= j
<1>1. Cardinality(Module) \in Nat /\ ms \in [1 .. Cardinality(Module) -> Module]
      /\ \A m \in Module : \E i \in 1 .. Cardinality(Module) : ms[i] = m
  BY OrderHasAll, DmvAssumption
<1>2. CASE there = {}
  <2>1. ASSUME NEW m \in keys PROVE at[m] = None
    <3>1. PICK i \in 1 .. Cardinality(Module) : ms[i] = m
      BY <1>1
    <3> QED BY <1>1, <1>2, <3>1
  <2>2. FirstOf(ms, keys, at) = None
    BY <1>2 DEF FirstOf
  <2> QED BY <2>1, <2>2 DEF IsFound
<1>3. CASE there # {}
  <2>1. there \in SUBSET Nat
    BY <1>1
  <2>2. \E i \in there : \A j \in there : i <= j
    BY <1>3, <2>1, LeastNat
  <2>3. least \in there
    BY <2>2
  <2>4. FirstOf(ms, keys, at) = at[ms[least]]
    BY <1>3 DEF FirstOf
  <2>5. ms[least] \in keys /\ at[ms[least]] # None
    BY <2>3
  <2> QED BY <2>4, <2>5 DEF IsFound
<1> QED BY <1>2, <1>3

(* What becomes of the list at a directory of a variant; a manager for a   *)
(* runtime has something selected once it came by a key that is linked.    *)
AddsTo(old, new, dir) ==
  /\ new.variants = old.variants \cup
       IF tree[dir.kernel][dir.variant] = {} THEN {} ELSE {dir.variant}
  /\ (old.told => runtime) => (new.told => runtime)
  /\ (old.variants = {} => ~old.told) => (new.variants = {} => ~new.told)
  /\ (old.variants = {} => old.selected = None) => (new.variants = {} => new.selected = None)
  /\ old.selected \in LinkedTo \cup {None} => new.selected \in LinkedTo \cup {None}
  /\ old.variants # {} /\ old.selected # None => new.selected # None
  /\ runtime /\ new.selected = None =>
       \A m \in tree[dir.kernel][dir.variant] : links[dir.kernel][m] = None

LEMMA AddingTo ==
  ASSUME IInv, NEW ms \in KeyOrders, NEW dir, NEW old,
         dir.kernel \in Kernel, dir.variant \in Variant
  PROVE  AddsTo(old, Adding(old, dir, ms), dir)
<1> DEFINE k == dir.kernel
           v == dir.variant
           info == Info(k, v, ms[v], runtime)
           new == Adding(old, dir, ms)
           Bare == \A m \in tree[k][v] : links[k][m] = None
<1>1. CASE tree[k][v] = {}
  <2>1. new = old
    BY <1>1 DEF Adding
  <2> HIDE DEF new
  <2> QED BY <1>1, <2>1 DEF AddsTo, new
<1>2. CASE tree[k][v] # {}
  <2>1. new = process_dmv_data(old, info)
    BY <1>2 DEF Adding
  <2>2. info.variants = {v} /\ info.told = runtime
    BY DEF Info
  <2>3. info.selected \in LinkedTo \cup {None} /\ (runtime /\ info.selected = None => Bare)
    <3> DEFINE keys == tree[k][v]
               at == links[k]
               mods == ms[v]
               r == FirstOf(mods, keys, at)
    <3>1. keys \subseteq Module /\ mods \in Orders(Module)
      BY Installed DEF IInv, KeyOrders
    <3>2. info.selected = IF runtime THEN r ELSE None
      BY DEF Info, variant_selected
    <3>3. Bare <=> \A m \in keys : at[m] = None
      OBVIOUS
    <3>4. \A m \in keys : at[m] \in LinkedTo \cup {None}
      BY <3>1 DEF LinkedTo
    <3> HIDE DEF keys, at, mods, Bare
    <3>5. IsFound(r, keys, at)
      BY <3>1, FirstFound
    <3> HIDE DEF r, info
    <3> QED BY <3>2, <3>3, <3>4, <3>5 DEF IsFound
  <2>4. CASE old.variants = {}
    <3>1. new = info
      BY <2>1, <2>4 DEF process_dmv_data
    <3> HIDE DEF info, new
    <3>2. AddsTo(old, new, dir)
      BY <1>2, <2>2, <2>3, <2>4, <3>1 DEF AddsTo
    <3> QED BY <3>2 DEF new
  <2>5. CASE old.variants # {}
    <3>1. /\ new.variants = old.variants \cup {v}
          /\ new.told = (old.told /\ info.told)
          /\ new.selected = IF old.selected # None THEN old.selected ELSE info.selected
      BY <2>1, <2>2, <2>5 DEF process_dmv_data, Merge, Either
    <3> HIDE DEF info, new
    <3>2. runtime /\ new.selected = None => Bare
      BY <2>3, <3>1
    <3>3. old.selected \in LinkedTo \cup {None} => new.selected \in LinkedTo \cup {None}
      BY <2>3, <3>1
    <3>4. AddsTo(old, new, dir)
      BY <1>2, <2>2, <2>5, <3>1, <3>2, <3>3 DEF AddsTo
    <3> QED BY <3>4 DEF new
  <2> QED BY <2>4, <2>5
<1> QED BY <1>1, <1>2

(* The variants in the first n directories of a walk. *)
Found(walk, n) == {v \in Variant : \E i \in 1 .. n : walk[i].variant = v /\ tree[walk[i].kernel][v] # {}}

(* What a manager that has begun with nothing lists after n directories. *)
Reported(d, walk, n) ==
  /\ d.variants = Found(walk, n)
  /\ d.told => runtime
  /\ d.variants = {} => ~d.told /\ d.selected = None
  /\ d.selected \in LinkedTo \cup {None}
  /\ runtime /\ d.selected = None =>
       \A i \in 1 .. n : \A m \in tree[walk[i].kernel][walk[i].variant] :
         links[walk[i].kernel][m] = None

LEMMA ListReports ==
  ASSUME IInv, drivers = Unlisted, NEW walk \in Walks, NEW ms \in KeyOrders, NEW n \in 0 .. Len(walk)
  PROVE  Reported(Listed(walk, ms)[n], walk, n)
<1> DEFINE L == Listed(walk, ms)
           Wrong == {i \in 0 .. Len(walk) : ~Reported(L[i], walk, i)}
<1>1. /\ Len(walk) \in Nat
      /\ \A i \in 1 .. Len(walk) : walk[i].kernel \in Kernel /\ walk[i].variant \in Variant
  BY WalkHasAll
<1>2. Lists(L, walk, ms, Len(walk))
  BY <1>1, ListedIs
<1>3. SUFFICES ASSUME Wrong # {} PROVE FALSE
  OBVIOUS
<1>8. Wrong \in SUBSET Nat
  BY <1>1
<1>4. PICK m \in Wrong : \A i \in Wrong : m <= i
  BY <1>3, <1>8, LeastNat
<1> HIDE DEF L
<1>5. L[m] = IF m = 0 THEN drivers ELSE Adding(L[m - 1], walk[m], ms)
  BY <1>2, <1>4 DEF Lists
<1>6. CASE m = 0
  <2>1. Found(walk, 0) = {}
    BY DEF Found
  <2>2. Reported(Unlisted, walk, 0)
    BY <2>1 DEF Reported, Unlisted
  <2> QED BY <1>4, <1>5, <1>6, <2>2
<1>7. CASE m # 0
  <2> DEFINE old == L[m - 1]
             new == L[m]
             dir == walk[m]
  <2>1. m \in 1 .. Len(walk) /\ m - 1 \in 0 .. Len(walk) /\ m - 1 \notin Wrong
    BY <1>1, <1>4, <1>7
  <2>2. Reported(old, walk, m - 1)
    BY <2>1
  <2>3. AddsTo(old, new, dir)
    BY <1>1, <1>5, <1>7, <2>1, AddingTo
  <2>4. Found(walk, m) = Found(walk, m - 1) \cup
              IF tree[dir.kernel][dir.variant] = {} THEN {} ELSE {dir.variant}
    <3>1. dir.variant \in Variant /\ 1 .. m = 1 .. m - 1 \cup {m}
      BY <1>1, <2>1
    <3> QED BY <3>1 DEF Found
  <2> HIDE DEF old, new, dir
  <2>5. 1 .. m = 1 .. m - 1 \cup {m} /\ dir = walk[m]
    BY <1>1, <2>1 DEF dir
  <2>6. (new.told => runtime) /\ (new.variants = {} => ~new.told /\ new.selected = None)
    BY <2>2, <2>3 DEF Reported, AddsTo
  <2>7. new.selected \in LinkedTo \cup {None}
    BY <2>2, <2>3 DEF Reported, AddsTo
  <2>8. ASSUME runtime, new.selected = None, NEW i \in 1 .. m,
               NEW x \in tree[walk[i].kernel][walk[i].variant]
        PROVE  links[walk[i].kernel][x] = None
    <3>1. CASE i = m
      BY <2>3, <2>5, <2>8, <3>1 DEF AddsTo
    <3>2. CASE i # m
      <4>1. i \in 1 .. m - 1 /\ old.selected = None
        BY <2>2, <2>3, <2>5, <2>8, <3>2 DEF AddsTo, Reported
      <4> QED BY <2>2, <2>8, <4>1 DEF Reported
    <3> QED BY <3>1, <3>2
  <2>9. new.variants = Found(walk, m)
    BY <2>2, <2>3, <2>4 DEF Reported, AddsTo
  <2>10. Reported(new, walk, m)
    BY <2>6, <2>7, <2>8, <2>9 DEF Reported
  <2> QED BY <1>4, <2>10 DEF new
<1> QED BY <1>6, <1>7

(* Links lead to what is there, and a call that created something, or      *)
(* succeeded, was for a variant that is there.                             *)
Lead ==
  /\ \A k \in Kernel, m \in Module : links[k][m] # None => m \in tree[k][links[k][m]]
  /\ pc # "idle" /\ created => \E k \in Kernel : tree[k][want] # {}
  /\ pc = "dracut" => created
  /\ done # None => \E k \in Kernel : tree[k][done[1]] # {}

LEMMA InitLead == Init => Lead
BY DEF Init, Lead

LEMMA NextLead == IInv /\ Lead /\ [Next]_vars => Lead'
<1> SUFFICES ASSUME IInv, Lead, [Next]_vars PROVE Lead'
  OBVIOUS
<1> USE DEF installed, system, machine, manager, locals
<1>1. CASE RenameLink
  <2>1. file \in tree[kernel][want] /\ kernel \in Kernel /\ tree' = tree /\ done' = done
        /\ want' = want /\ pc' # "dracut"
    BY <1>1, Renamed DEF RenameLink, IInv, AtHand, Left
  <2>2. ASSUME NEW k \in Kernel, NEW m \in Module, links'[k][m] # None
        PROVE  m \in tree[k][links'[k][m]]
    BY <1>1, <2>1, <2>2, Renamed DEF Lead
  <2> QED BY <2>1, <2>2 DEF Lead
<1>2. CASE ~RenameLink
  <2>1. UNCHANGED <<links, tree>>
    BY <1>2
    DEF Next, vars, Begin, NextKernel, Boot, Unlink, Modprobe, Symlink, WeakModules, NothingCreated,
        Depmod, Dracut, CommandFails, ParseList, ParseFile, ParseRaises, Restart
  <2>2. \/ pc' = "idle"
        \/ created' = FALSE /\ pc' # "dracut"
        \/ UNCHANGED <<want, created>> /\ pc # "idle" /\ (pc' = "dracut" => created)
    BY <1>2
    DEF Lead, Next, vars, Begin, NextKernel, Boot, Unlink, Modprobe, Symlink, WeakModules,
        NothingCreated, Depmod, Dracut, CommandFails, ParseList, ParseFile, ParseRaises, Restart,
        NewManager, AllVisited, Succeed
  <2>3. done' = done \/ done' = None \/ (done'[1] = want /\ created /\ pc # "idle")
    <3>1. CASE Depmod
      BY <3>1 DEF Depmod, AllVisited, Succeed
    <3>2. CASE Dracut
      BY <3>2 DEF Lead, Dracut, Succeed
    <3>3. CASE ~Depmod /\ ~Dracut
      <4>1. done' = done \/ done' = None
        BY <1>2, <3>3
        DEF Next, vars, Begin, NextKernel, Boot, Unlink, Modprobe, Symlink, WeakModules,
            NothingCreated, CommandFails, ParseList, ParseFile, ParseRaises, Restart
      <4> QED BY <4>1
    <3> QED BY <3>1, <3>2, <3>3
  <2>4. (\A k \in Kernel, m \in Module : links[k][m] # None => m \in tree[k][links[k][m]])'
    BY <2>1 DEF Lead
  <2>5. (pc # "idle" /\ created => \E k \in Kernel : tree[k][want] # {})'
    BY <2>1, <2>2 DEF Lead
  <2>6. (done # None => \E k \in Kernel : tree[k][done[1]] # {})'
    BY <2>1, <2>3 DEF Lead
  <2> QED BY <2>2, <2>4, <2>5, <2>6 DEF Lead
<1> QED BY <1>1, <1>2

LEMMA LeadInvariance == Spec => [](IInv /\ Lead)
BY InitInv, NextInv, InitLead, NextLead, PTL DEF Spec

(* A manager that reads the list for the first time finds every variant    *)
(* that is there, and reports as selected one some link leads to, in       *)
(* whatever order it comes by kernels, variants and modules; after a       *)
(* switch that succeeded, the one asked for, or one to which a module that *)
(* variant lacks is still linked.                                          *)
THEOREM ReportsTheWanted == Spec => SelectedIsWanted
<1> DEFINE There == {v \in Variant : \E k \in Kernel : tree[k][v] # {}}
           Selects == IF LinkedTo = {} THEN drivers'.selected = None
                      ELSE drivers'.selected \in LinkedTo
           Stale == done # None /\ drivers'.selected # done[1] =>
                      /\ drivers'.selected # None
                      /\ \E k \in Kernel, m \in Module :
                           m \notin tree[k][done[1]] /\ links[k][m] = drivers'.selected
           Told == drivers = Unlisted /\ drivers'.told =>
                     drivers'.variants = There /\ Selects /\ Stale
<1>1. ASSUME IInv, Lead, [Next]_vars PROVE [Told]_vars
  <2> SUFFICES ASSUME Next, drivers = Unlisted, drivers'.told
               PROVE  drivers'.variants = There /\ Selects /\ Stale
    BY <1>1
  <2>1. ~Unlisted.told /\ Unlisted.variants = {}
    BY DEF Unlisted
  <2>2. drivers' # Unlisted
    BY <2>1
  <2>3. ASSUME NEW k \in Kernel, NEW v \in Variant, ParseFile(k, v) PROVE FALSE
    <3>1. drivers' = Info(k, v, <<>>, FALSE)
      BY <2>1, <2>3 DEF ParseFile, process_dmv_data
    <3> QED BY <3>1 DEF Info
  <2>4. ASSUME NEW k \in Kernel, NEW v \in Variant, ParseRaises(k, v) PROVE FALSE
    BY <2>1, <2>4 DEF ParseRaises
  <2>5. PICK walk \in Walks, ms \in KeyOrders : ParseList(walk, ms)
    BY <2>2, <2>3, <2>4
    DEF Next, Begin, NextKernel, Boot, Unlink, Modprobe, Symlink, RenameLink, WeakModules,
        NothingCreated, Depmod, Dracut, CommandFails, Restart, NewManager, manager
  <2>6. /\ Len(walk) \in Nat
        /\ \A n \in 1 .. Len(walk) : walk[n].kernel \in Kernel /\ walk[n].variant \in Variant
        /\ \A k \in Kernel, v \in Variant : \E n \in 1 .. Len(walk) :
             walk[n].kernel = k /\ walk[n].variant = v
    BY WalkHasAll
  <2>7. Reported(drivers', walk, Len(walk))
    <3>1. drivers' = Listed(walk, ms)[Len(walk)]
      BY <2>5 DEF ParseList
    <3>2. Len(walk) \in 0 .. Len(walk)
      BY <2>6
    <3> QED BY <1>1, <3>1, <3>2, ListReports
  <2>8. Found(walk, Len(walk)) = There
    <3>1. ASSUME NEW v \in Variant, NEW k \in Kernel, tree[k][v] # {} PROVE v \in Found(walk, Len(walk))
      <4>1. PICK n \in 1 .. Len(walk) : walk[n].kernel = k /\ walk[n].variant = v
        BY <2>6
      <4> QED BY <3>1, <4>1 DEF Found
    <3>2. ASSUME NEW v \in Found(walk, Len(walk)) PROVE \E k \in Kernel : tree[k][v] # {}
      BY <2>6 DEF Found
    <3>3. Found(walk, Len(walk)) \subseteq Variant
      BY DEF Found
    <3> QED BY <3>1, <3>2, <3>3
  <2>9. runtime /\ drivers'.selected \in LinkedTo \cup {None} /\ drivers'.variants = There
    BY <2>7, <2>8 DEF Reported
  <2>10. Selects
    <3>1. ASSUME NEW k \in Kernel, NEW m \in Module, links[k][m] # None
          PROVE  drivers'.selected # None
      <4>1. links[k][m] \in Variant /\ m \in tree[k][links[k][m]]
        BY <1>1, <3>1 DEF IInv, TypeOK, Linked, Lead
      <4>2. PICK n \in 1 .. Len(walk) : walk[n].kernel = k /\ walk[n].variant = links[k][m]
        BY <2>6, <4>1
      <4> QED BY <2>7, <2>9, <3>1, <4>1, <4>2 DEF Reported
    <3> QED BY <2>9, <3>1 DEF LinkedTo
  <2>11. ASSUME done # None, drivers'.selected # done[1]
         PROVE  /\ drivers'.selected # None
                /\ \E k \in Kernel, m \in Module :
                     m \notin tree[k][done[1]] /\ links[k][m] = drivers'.selected
    <3>1. done[1] \in Variant /\ done[1] # None
      BY <1>1, <2>11, DmvAssumption DEF IInv, TypeOK
    <3>2. PICK k \in Kernel : tree[k][done[1]] # {}
      BY <1>1, <2>11 DEF Lead
    <3>3. PICK m \in tree[k][done[1]] : m \in Module
      BY <1>1, <3>1, <3>2, Installed DEF IInv
    <3>4. links[k][m] = done[1]
      BY <1>1, <2>11 DEF IInv, Done
    <3>5. links[k][m] \in LinkedTo
      BY <3>1, <3>3, <3>4 DEF LinkedTo
    <3>6. drivers'.selected \in LinkedTo
      BY <2>10, <3>5
    <3>7. PICK l \in Kernel, n \in Module : links[l][n] = drivers'.selected
      BY <3>6 DEF LinkedTo
    <3>8. n \notin tree[l][done[1]]
      BY <1>1, <2>11, <3>7 DEF IInv, Done
    <3> QED BY <3>6, <3>7, <3>8 DEF LinkedTo
  <2> QED BY <2>9, <2>10, <2>11
<1> QED BY <1>1, LeadInvariance, PTL DEF Spec, SelectedIsWanted

=============================================================================
