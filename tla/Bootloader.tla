------------------------------ MODULE Bootloader ------------------------------
(***************************************************************************)
(* xcp/bootloader.py: Bootloader, the boot menu as an object with labels   *)
(* and as a file without: readGrub2() makes labels of titles, writeGrub2() *)
(* makes an index of the default label.  commit() writes a temporary file  *)
(* and renames it; setNextBoot() has an index written to grub's            *)
(* environment at once and makes the menu entry clear it once it boots.    *)
(* The last section is the machine (external): grub at boot, and programs  *)
(* that end or crash between any two steps.                                *)
(***************************************************************************)
EXTENDS Naturals, SequencesExt, Sublists

CONSTANTS
  Disks,     \* what grub.cfg may be at first
  Kernels,   \* links to kernels
  Version,   \* of each the version in its name, "old" without one: not
             \* every kernel has a version of its own
  Others,    \* titles create_label() does not know
  Added,     \* the entries a program may append, with their labels
  None,
  MaxMenu,   \* bound: entries of a menu
  MaxAdded   \* bound: versions added to a title

(* What titles create_label() knows, in the order in which it looks for    *)
(* them; "slash" and "slashserial" are those of fallback entries.          *)
Known   == {"brand", "serial", "safe", "upgrade", "slash", "slashserial"}
Slashed == {"slash", "slashserial"}

(* A title: what it says, and the versions newDefault() has added to it.   *)
(* Of a title with a version added only the " / " is still recognised.     *)
Title  == [says : Known \cup Others, added : Seq({Version[k] : k \in Kernels})]
EntryT == [title : Title, kernel : Kernels, clears : BOOLEAN]
Labels == {<<"label", n>> : n \in 1 .. MaxMenu} \cup {<<s>> : s \in Known}

(* A menu has a line for the default, an index or a string, or none; the   *)
(* lines before its first entry read the environment, and may look for an  *)
(* override in it.                                                         *)
ConfigT(d) ==
  /\ d.entries \in Seq(EntryT) /\ Len(d.entries) <= MaxMenu
  /\ d.default \in Nat \cup {None} /\ d.named \in Labels \cup {None}
  /\ d.default # None => d.named = None
  /\ d.load \in {"none", "env", "override"}

(* The objects that come of reading such menus and appending entries.      *)
ObjectT ==
  [menu : UNION {[L -> EntryT] : L \in SUBSET Labels}, order : Seq(Labels),
   default : Labels \cup {None}, load : {"none", "env", "override"}, block : BOOLEAN]

(* Programs append entries under the labels they will be read with.        *)
ASSUME BootloaderAssumption ==
  /\ MaxMenu \in Nat /\ MaxAdded \in Nat
  /\ None \notin Title /\ None \notin Nat /\ None \notin Labels /\ None \notin ObjectT
  /\ Others \cap Known = {}
  /\ \A d \in Disks : ConfigT(d)
  /\ \A a \in Added :
       /\ a.entry \in EntryT /\ a.entry.title.says \in Known \ Slashed
       /\ a.entry.title.added = <<>> /\ a.label = <<a.entry.title.says>>

VARIABLES
  disk,   \* grub.cfg: entries, default: an index, named: or a string, load
  env,    \* override_entry in grubenv; None if unset
  tmp,    \* a temporary file with its contents, or None
  obj,    \* the Bootloader: menu, order, default, load, block: it has an
          \* env_block; or None
  pc,     \* "idle"; "rename", "default": a commit() of the program, of
          \* newDefault(), has written its file
  raised, \* what the last call raised
  wanted, \* history: the title setNextBoot() was called for; None once the
          \* menu is changed again or the machine has booted
  armed,  \* history: and the menu has been committed since
  past,   \* history: the kernels newDefault() has replaced
  twins,  \* history: grub.cfg has had two entries with one label
  mixed   \* history: grub.cfg had a backup of another kernel than its title
          \* says, or newDefault() replaced a kernel that had a backup

file    == <<disk, env, tmp>>
told    == <<past, twins, mixed>>
history == <<wanted, armed, told>>
menuvars == <<file, obj, pc, raised, history>>

-----------------------------------------------------------------------------
(* readGrub2() *)

Numbered(title) == title.says \in Others \/ (title.says \notin Slashed /\ title.added # <<>>)

(* create_label(), by the n-th time it numbers one: a program reads once.  *)
Label(title, n) == IF Numbered(title) THEN <<"label", n>> ELSE <<title.says>>

LabelsOf(es) ==
  [i \in DOMAIN es |-> Label(es[i].title, Cardinality({j \in 1..i : Numbered(es[j].title)}))]

(* Menus like tests/data/grub.cfg tell their entries apart; with a copy of *)
(* a fallback entry they no longer do.                                     *)
Apart(es) == IsInjective(LabelsOf(es))

(* The entry a menu boots by default, the first one if no line says so.    *)
Place(d)      == IF d.default = None THEN 0 ELSE d.default
BadDefault(d) == d.named = None /\ Place(d) >= Len(d.entries)

(* Of two entries with one label the later one is in the menu, twice in    *)
(* the order.  The first entry's lines get those that look for an override *)
(* unless they read the environment already.                               *)
Parsed(d) ==
  LET order == LabelsOf(d.entries) IN
  [menu    |-> [l \in Range(order) |->
                  d.entries[SelectLastInSeq(order, LAMBDA x : x = l)]],
   order   |-> order,
   default |-> IF d.named # None THEN d.named ELSE order[Place(d) + 1],
   load    |-> IF d.entries = <<>> THEN "none" ELSE IF d.load = "none" THEN "override" ELSE d.load,
   block   |-> TRUE]

(* The kernel of the default, None without one. *)
DefaultKernel(o) == IF o.default \in DOMAIN o.menu THEN o.menu[o.default].kernel ELSE None

(* There may be no entry at the default's index, nor at 0.                *)
Read ==
  /\ pc = "idle" /\ obj = None
  /\ \/ ~BadDefault(disk) /\ obj' = Parsed(disk) /\ raised' = "none"
     \/ BadDefault(disk) /\ raised' = "IndexError" /\ UNCHANGED obj
  /\ wanted' = IF armed THEN wanted ELSE None
  /\ UNCHANGED <<file, pc, armed, told>>

(* The constructor: a menu from scratch, without an environment. *)
New ==
  /\ pc = "idle" /\ obj = None
  /\ obj' = [menu |-> <<>>, order |-> <<>>, default |-> None, load |-> "none", block |-> FALSE]
  /\ wanted' = None /\ armed' = FALSE /\ past' = {}
  /\ UNCHANGED <<file, pc, raised, twins, mixed>>

-----------------------------------------------------------------------------
(* append(), remove() *)

HasObject == pc = "idle" /\ obj # None

AppendEntry(l, e) ==
  /\ HasObject /\ Len(obj.order) < MaxMenu
  /\ l \notin DOMAIN obj.menu
  /\ obj' = [obj EXCEPT !.menu = [x \in DOMAIN @ \cup {l} |-> IF x = l THEN e ELSE @[x]],
                        !.order = Append(@, l)]
  /\ UNCHANGED <<file, pc, raised, history>>

RemoveEntry(l) ==
  /\ HasObject /\ l \in DOMAIN obj.menu
  /\ obj' = [obj EXCEPT !.menu = [x \in DOMAIN @ \ {l} |-> @[x]],
                        !.order = RemoveFirst(@, l)]
  /\ wanted' = None /\ armed' = FALSE /\ past' = past \ {obj.menu[l].kernel}
  /\ UNCHANGED <<file, pc, raised, twins, mixed>>

-----------------------------------------------------------------------------
(* writeGrub2() and commit() *)

IndexOf(l, order) == SelectInSeq(order, LAMBDA x : x = l)

(* Fault: the default is counted from one. *)
WrittenFromOne(o) ==
  [entries |-> [i \in DOMAIN o.order |-> o.menu[o.order[i]]],
   default |-> IF o.default \in Range(o.order) THEN IndexOf(o.default, o.order) ELSE None,
   named   |-> IF o.default \in Range(o.order) THEN None ELSE o.default,
   load    |-> IF o.order = <<>> THEN "none" ELSE o.load]

(* A default that is no label is written as a string.  The first entry is  *)
(* preceded by the lines that were read or added before it.                *)
Written(o) ==
  [entries |-> [i \in DOMAIN o.order |-> o.menu[o.order[i]]],
   default |-> IF o.default \in Range(o.order) THEN IndexOf(o.default, o.order) - 1 ELSE None,
   named   |-> IF o.default \in Range(o.order) THEN None ELSE o.default,
   load    |-> IF o.order = <<>> THEN "none" ELSE o.load]

(* remove() may leave a label of the order without an entry: KeyError.     *)
Commit ==
  /\ HasObject
  /\ \/ /\ Range(obj.order) \subseteq DOMAIN obj.menu
        /\ tmp' = Written(obj) /\ pc' = "rename" /\ raised' = "none"
     \/ /\ ~(Range(obj.order) \subseteq DOMAIN obj.menu)
        /\ raised' = "KeyError" /\ UNCHANGED <<tmp, pc>>
  /\ UNCHANGED <<disk, env, obj, history>>

RenameFile ==
  /\ pc # "idle"
  /\ disk' = tmp /\ tmp' = None
  /\ pc' = "idle"
  /\ armed' = (wanted # None)
  /\ twins' = (twins \/ ~Apart(tmp.entries))
  /\ IF pc = "default"
     THEN LET old == DefaultKernel(Parsed(disk)) IN
          /\ past' = past \cup {old}
          /\ mixed' = (mixed \/ \E e \in Range(disk.entries) : e.title.added # <<>> /\ e.kernel = old)
     ELSE UNCHANGED <<past, mixed>>
  /\ UNCHANGED <<env, obj, raised, wanted>>

-----------------------------------------------------------------------------
(* setNextBoot() *)

(* Fault: the entry does not clear the variable. *)
SetNextBootKeeps(l) ==
  /\ HasObject /\ obj.block /\ l \in DOMAIN obj.menu
  /\ env' = IndexOf(l, obj.order) - 1 /\ armed' = FALSE
  /\ wanted' = IF obj.load = "override" THEN obj.menu[l].title ELSE None
  /\ UNCHANGED <<disk, tmp, obj, pc, raised, told>>

(* grub-editenv may fail. *)
SetNextBoot(l) ==
  /\ HasObject /\ obj.block /\ l \in DOMAIN obj.menu
  /\ obj' = [obj EXCEPT !.menu[l].clears = TRUE]
  /\ \/ /\ env' = IndexOf(l, obj.order) - 1 /\ armed' = FALSE
        /\ wanted' = IF obj.load = "override" THEN obj.menu[l].title ELSE None
     \/ UNCHANGED <<env, wanted, armed>>
  /\ UNCHANGED <<disk, tmp, pc, raised, told>>

-----------------------------------------------------------------------------
(* newDefault() *)

(* The labels of the entries that boot a kernel, in order, each once. *)
Using(o, k) ==
  Those(o.order, {i \in DOMAIN o.order : o.menu[o.order[i]].kernel = k /\ \A j \in 1 .. i - 1 : o.order[j] # o.order[i]})

(* Fault: the backup is the entry itself, not a copy. *)
ReplacedShared(o, old, new) ==
  LET copies == {l \o <<Version[old]>> : l \in Range(Using(o, old))}
  IN [o EXCEPT
       !.menu = [l \in DOMAIN o.menu \cup copies |->
                   IF l \in copies THEN [o.menu[Front(l)] EXCEPT !.title.added = Append(@, Version[old]), !.kernel = new]
                   ELSE IF o.menu[l].kernel = old THEN [o.menu[l] EXCEPT !.kernel = new]
                   ELSE o.menu[l]],
       !.order = @ \o [i \in DOMAIN Using(o, old) |-> Using(o, old)[i] \o <<Version[old]>>]]

(* The entries that boot the old kernel get the new one; what they were is *)
(* appended, under titles and labels with the version.                     *)
Replaced(o, old, new) ==
  LET copies == {l \o <<Version[old]>> : l \in Range(Using(o, old))}
  IN [o EXCEPT
       !.menu = [l \in DOMAIN o.menu \cup copies |->
                   IF l \in copies THEN [o.menu[Front(l)] EXCEPT !.title.added = Append(@, Version[old])]
                   ELSE IF o.menu[l].kernel = old THEN [o.menu[l] EXCEPT !.kernel = new]
                   ELSE o.menu[l]],
       !.order = @ \o [i \in DOMAIN Using(o, old) |-> Using(o, old)[i] \o <<Version[old]>>]]

InBounds(o, old) ==
  /\ Len(o.order) + Len(Using(o, old)) <= MaxMenu
  /\ \A l \in Range(Using(o, old)) : Len(o.menu[l].title.added) < MaxAdded

(* An object of its own is read, changed and committed; its other ends:   *)
(* the default is no label, a link does not exist, nothing is to be done. *)
NewDefault(new) ==
  LET o == Parsed(disk)
      old == DefaultKernel(o)
  IN /\ pc = "idle" /\ obj = None
     /\ \/ /\ ~BadDefault(disk) /\ old # None
           /\ \/ /\ old # new /\ InBounds(o, old)
                 /\ tmp' = Written(Replaced(o, old, new)) /\ pc' = "default" /\ raised' = "none"
              \/ old # new /\ raised' = "RuntimeError" /\ UNCHANGED <<tmp, pc>>
              \/ old = new /\ raised' = "none" /\ UNCHANGED <<tmp, pc>>
        \/ ~BadDefault(disk) /\ old = None /\ raised' = "KeyError" /\ UNCHANGED <<tmp, pc>>
        \/ BadDefault(disk) /\ raised' = "IndexError" /\ UNCHANGED <<tmp, pc>>
     /\ UNCHANGED <<disk, env, obj, history>>

-----------------------------------------------------------------------------
(* The machine *)

(* The program ends, or crashes in commit(): the temporary file is left,   *)
(* and nobody reads it.                                                    *)
Exit ==
  /\ pc # "idle" \/ obj # None
  /\ obj' = None /\ pc' = "idle" /\ tmp' = None /\ raised' = "none"
  /\ wanted' = IF armed THEN wanted ELSE None
  /\ UNCHANGED <<disk, env, armed, told>>

(* grub boots the override, if it looks for one, or the default; the first *)
(* entry if there is none at the index or under the string.                *)
Chosen ==
  LET n == IF disk.load = "override" /\ env # None THEN env
           ELSE IF disk.named = None THEN Place(disk) ELSE 0
  IN IF n < Len(disk.entries) THEN n ELSE 0

Boot ==
  /\ pc = "idle" /\ obj = None /\ disk.entries # <<>>
  /\ env' = IF disk.entries[Chosen + 1].clears THEN None ELSE env
  /\ wanted' = None /\ armed' = FALSE /\ raised' = "none"
  /\ UNCHANGED <<disk, tmp, obj, pc, told>>

(* The last version in a title is that of the kernel the entry boots.      *)
Tells(e) == e.title.added # <<>> => Last(e.title.added) = Version[e.kernel]

MenuInit ==
  /\ disk \in Disks /\ env = None /\ tmp = None
  /\ obj = None /\ pc = "idle" /\ raised = "none"
  /\ wanted = None /\ armed = FALSE /\ past = {}
  /\ twins = ~Apart(disk.entries)
  /\ mixed = \E e \in Range(disk.entries) : ~Tells(e)

MenuNext ==
  \/ Read \/ New \/ Commit \/ RenameFile \/ Exit \/ Boot
  \/ \E a \in Added : AppendEntry(a.label, a.entry)
  \/ obj # None /\ \E l \in DOMAIN obj.menu : RemoveEntry(l) \/ SetNextBoot(l)
  \/ \E k \in Kernels : NewDefault(k)

MenuSpec == MenuInit /\ [][MenuNext]_menuvars

-----------------------------------------------------------------------------
(* Properties *)

(* Types of the variables. *)
MenuTypes ==
  /\ ConfigT(disk) /\ (tmp # None => ConfigT(tmp))
  /\ env \in Nat \cup {None}
  /\ obj # None => \A l \in DOMAIN obj.menu : obj.menu[l] \in EntryT
  /\ pc \in {"idle", "rename", "default"} /\ (pc = "idle" => tmp = None)
  /\ raised \in {"none", "IndexError", "KeyError", "RuntimeError"}
  /\ wanted \in Title \cup {None} /\ armed \in BOOLEAN /\ past \subseteq Kernels
  /\ twins \in BOOLEAN /\ mixed \in BOOLEAN

(* setNextBoot() and commit() done, the next boot is of the wanted entry,  *)
(* and of it only the next one: whatever was appended, newDefault()ed and  *)
(* committed, and whatever crashed, in between.  That is, for menus that   *)
(* look for an override when they have been read, as all do that readGrub2 *)
(* added the lines to (wanted), and until a menu has two entries with one  *)
(* label, as newDefault() may make of a fallback entry.                    *)
OverrideOnce ==
  armed /\ ~twins =>
    /\ disk.load = "override" /\ env # None /\ env < Len(disk.entries)
    /\ disk.entries[env + 1].title = wanted /\ disk.entries[env + 1].clears

(* The kernels newDefault() replaced can still be booted, each from an     *)
(* entry that says so, until a program removes it or entries share labels. *)
(* And a title with versions added tells which kernel the entry boots, but *)
(* for what newDefault() does when the kernel it replaces has a backup: it *)
(* changes the backup as well.                                             *)
BackupKept ==
  /\ MenuTypes
  /\ ~twins => \A k \in past : \E e \in Range(disk.entries) :
                 e.kernel = k /\ Version[k] \in Range(e.title.added)
  /\ ~mixed => \A e \in Range(disk.entries) : Tells(e)

(* No commit() of a menu that was read, and no newDefault(), makes another *)
(* entry the default, though indexes and labels are made anew each time,   *)
(* unless entries share labels.  A default that a program removes becomes  *)
(* a string.                                                               *)
DefaultStays ==
  [][(pc = "default" \/ (pc = "rename" /\ obj.block)) /\ pc' = "idle" /\ obj' = obj
       /\ ~twins /\ disk.named = None /\ disk'.named = None =>
       /\ Place(disk') < Len(disk'.entries)
       /\ disk'.entries[Place(disk') + 1].title = disk.entries[Place(disk) + 1].title]_menuvars

=============================================================================
