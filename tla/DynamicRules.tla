----------------------------- MODULE DynamicRules -----------------------------
(***************************************************************************)
(* xcp/net/ifrename/dynamic.py: DynamicRules, the file that remembers the  *)
(* nics of the last boot and the older ones, and its load and save.        *)
(*                                                                         *)
(* What the two lists of a DynamicRules object may hold differs from what  *)
(* its file may hold.  An item is an entry (mac, pci, tname) in one of     *)
(* these forms:                                                            *)
(*   "list"    a list of three strings, valid                              *)
(*   "typed"   a list of a MAC, a PCI and a string                         *)
(*   "macpci"  a MACPCI object, what load_and_parse() makes                *)
(*   "bad"     strings that are no MAC or no PCI address                   *)
(*   "noname"  a list whose tname is None, as iBFT nics have               *)
(***************************************************************************)
EXTENDS Sublists, Naturals, Sequences

CONSTANTS
  Entry,   \* the (mac, pci, tname) triples
  Lists,   \* the lists the program assigns
  Files,   \* what the file may be edited to
  MaxList  \* bound: items of a list the program loads more to

Item     == [form : {"list", "typed", "macpci", "bad", "noname"}, entry : Entry]
FileItem == [form : {"list", "bad"}, entry : Entry]   \* what JSON can hold
As(form, e) == [form |-> form, entry |-> e]

ASSUME DynamicAssumption ==
  /\ Lists \subseteq Seq(Item)
  /\ \A f \in Files : \/ f.state \in {"absent", "blank", "corrupt"} /\ f = [state |-> f.state]
                     \/ f \in [state : {"rules"}, lastboot : Seq(FileItem), old : Seq(FileItem)]

VARIABLES
  file,      \* what is on disk
  lastboot,  \* the two lists of the object
  old,
  saving,    \* save() has opened the file and not closed it yet
  result,    \* what the last load_and_parse() or save() returned or raised
  kept       \* history: the entries of the last completed save, while the
             \* file has not been opened for writing since

object == <<lastboot, old>>
vars   == <<file, lastboot, old, saving, result, kept>>

Absent       == [state |-> "absent"]
Blank        == [state |-> "blank"]    \* empty, or comments only
Corrupt      == [state |-> "corrupt"]  \* no JSON
Rules(l, o)  == [state |-> "rules", lastboot |-> l, old |-> o]
Nothing      == [state |-> "none"]

EntriesOf(s)   == [i \in DOMAIN s |-> s[i].entry]
OfForm(s, F)   == Those(s, {i \in DOMAIN s : s[i].form \in F})

-----------------------------------------------------------------------------
(* load_and_parse() *)

(* Entries that are no valid triple are skipped. *)
Parsed(s) == [i \in DOMAIN OfForm(s, {"list"}) |-> As("macpci", OfForm(s, {"list"})[i].entry)]

(* There is no file or it is no JSON; and any file may fail to be read.    *)
LoadFail ==
  /\ ~saving
  /\ result' = "False"
  /\ UNCHANGED <<file, object, saving, kept>>

LoadBlank ==
  /\ ~saving
  /\ file.state = "blank"
  /\ result' = "True"
  /\ UNCHANGED <<file, object, saving, kept>>

(* The lists are extended, never reset. *)
LoadRules ==
  /\ ~saving
  /\ file.state = "rules"
  /\ lastboot' = lastboot \o Parsed(file.lastboot)
  /\ old' = old \o Parsed(file.old)
  /\ result' = "True"
  /\ UNCHANGED <<file, saving, kept>>

Load == LoadFail \/ LoadBlank \/ LoadRules

-----------------------------------------------------------------------------
(* save() and write() *)

(* What validate() lets through: a MACPCI object cannot be subscripted. *)
Validates(x) == x.form \in {"list", "typed"}
Validated(s) == Those(s, {i \in DOMAIN s : Validates(s[i])})

(* json.dumps() knows no MAC and no PCI objects. *)
Serialisable(s) == \A i \in DOMAIN s : s[i].form # "typed"

(* Opening the file for writing empties it. *)
SaveOpen ==
  /\ ~saving
  /\ file' = Blank
  /\ saving' = TRUE
  /\ kept' = Nothing
  /\ UNCHANGED <<object, result>>

SaveOpenFails ==
  /\ ~saving
  /\ result' = "False"
  /\ UNCHANGED <<file, object, saving, kept>>

(* Fault: the older nics are written as the last boot's. *)
SaveWriteMixed ==
  LET l == Validated(lastboot)
      o == Validated(old)
  IN /\ saving
     /\ Serialisable(l) /\ Serialisable(o)
     /\ file' = Rules(l \o o, <<>>)
     /\ kept' = Rules(EntriesOf(l), EntriesOf(o))
     /\ saving' = FALSE
     /\ result' = "True"
     /\ UNCHANGED object

SaveWrite ==
  LET l == Validated(lastboot)
      o == Validated(old)
  IN /\ saving
     /\ Serialisable(l) /\ Serialisable(o)
     /\ file' = Rules(l, o)
     /\ kept' = Rules(EntriesOf(l), EntriesOf(o))
     /\ saving' = FALSE
     /\ result' = "True"
     /\ UNCHANGED object

(* json.dumps() raises TypeError, which is no IOError. *)
SaveUnserialisable ==
  /\ saving
  /\ ~(Serialisable(Validated(lastboot)) /\ Serialisable(Validated(old)))
  /\ saving' = FALSE
  /\ result' = "TypeError"
  /\ UNCHANGED <<file, object, kept>>

(* The disk is full: write() fails, or only the close() that flushes.      *)
SaveWriteFails ==
  /\ saving
  /\ Serialisable(Validated(lastboot)) /\ Serialisable(Validated(old))
  /\ file' \in {Blank, Corrupt}
  /\ saving' = FALSE
  /\ result' \in {"False", "IOError"}
  /\ UNCHANGED <<object, kept>>

Save == SaveOpen \/ SaveOpenFails \/ SaveWrite \/ SaveUnserialisable \/ SaveWriteFails

-----------------------------------------------------------------------------
(* Around the object *)

(* A crash or the end of the program: the object is gone; a file being     *)
(* written has some of its text.  The next program makes a new object.     *)
Restart ==
  /\ file' \in IF saving THEN {Blank, Corrupt} ELSE {file}
  /\ lastboot' = <<>> /\ old' = <<>>
  /\ saving' = FALSE
  /\ result' = "none"
  /\ UNCHANGED kept

(* The program assigns the lists. *)
Assign(l, o) ==
  /\ ~saving
  /\ lastboot' = l /\ old' = o
  /\ UNCHANGED <<file, saving, result, kept>>

(* Somebody edits the file by hand, against its header. *)
Edit(f) ==
  /\ ~saving
  /\ file' = f
  /\ kept' = Nothing
  /\ UNCHANGED <<object, saving, result>>

Init ==
  /\ file = Absent
  /\ lastboot = <<>> /\ old = <<>>
  /\ saving = FALSE
  /\ result = "none"
  /\ kept = Nothing

Next ==
  \/ LoadFail \/ LoadBlank
  \/ Len(lastboot) <= MaxList /\ Len(old) <= MaxList /\ LoadRules
  \/ SaveOpen \/ SaveOpenFails \/ SaveWrite \/ SaveUnserialisable \/ SaveWriteFails
  \/ Restart
  \/ \E l, o \in Lists : Assign(l, o)
  \/ \E f \in Files : Edit(f)

Spec == Init /\ [][Next]_vars

-----------------------------------------------------------------------------
(* Properties *)

(* Types of the variables; nothing but strings ever gets into the file.    *)
TypeOK ==
  /\ \/ file \in {Absent, Blank, Corrupt}
     \/ file \in [state : {"rules"}, lastboot : Seq(FileItem), old : Seq(FileItem)]
  /\ lastboot \in Seq(Item) /\ old \in Seq(Item)
  /\ saving \in BOOLEAN
  /\ result \in {"none", "True", "False", "TypeError", "IOError"}
  /\ kept = Nothing \/ kept \in [state : {"rules"}, lastboot : Seq(Entry), old : Seq(Entry)]

(* What a completed save() wrote is what a new object loads if it can read *)
(* the file, however many loads, failed opens and restarts come between,   *)
(* until the file is opened for writing again or edited.                   *)
LoadsWhatWasSaved ==
  /\ TypeOK
  /\ kept # Nothing =>
       /\ file.state = "rules"
       /\ EntriesOf(Parsed(file.lastboot)) = kept.lastboot
       /\ EntriesOf(Parsed(file.old)) = kept.old

=============================================================================
