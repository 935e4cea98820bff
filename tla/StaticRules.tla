------------------------------ MODULE StaticRules ------------------------------
(***************************************************************************)
(* xcp/net/ifrename/static.py: StaticRules, the file in which users give   *)
(* nics their names, and the rules made of it for the nics a machine has.  *)
(*                                                                         *)
(* A line is "eth<n>: method = value"; the method may be left out, the     *)
(* value may be in quotes.  The formulae of the object are an insertion    *)
(* ordered dictionary: a sequence with one formula for each target.        *)
(***************************************************************************)
EXTENDS Naturals, FiniteSets, SequencesExt, Sublists

CONSTANTS
  Target,  \* the n of eth<n>
  Value,   \* values, <<shape, ...>>: <<"mac", m>>, <<"pci", p, index>>,
           \* <<"ppn", x>>, <<"oldppn", x>>, or <<"text", t>>
  Files,   \* what the user may have written: sequences of lines
  Given,   \* formulae the program sets by itself, as the installer does
  States,  \* the nics machines have, in kernel order
  None,
  MaxGen   \* bound: generate()s by one object

Methods     == {"mac", "pci", "ppn", "label", "guess"}
LineType    == [target : Target, method : Methods \cup {"none", "other"}, value : Value, quoted : BOOLEAN]
FormulaType == [target : Target, method : Methods \ {"guess"}, value : Value]

(* As the keys of a dictionary. *)
OneEach(fs) == \A i, j \in DOMAIN fs : fs[i].target = fs[j].target => i = j

ASSUME StaticRulesAssumption ==
  /\ Target \subseteq Nat /\ MaxGen \in Nat
  /\ \A v \in Value : v[1] \in {"mac", "pci", "ppn", "oldppn", "text"}
  /\ \A v \in Value : v[1] = "oldppn" => <<"ppn", v[2]>> \in Value
  /\ <<"text", "guess">> \in Value => <<"text", "label">> \in Value
  /\ <<"ppn", None>> \notin Value /\ <<"text", None>> \notin Value
  /\ \A lines \in Files : lines \in Seq(LineType)
  /\ \A fs \in Given : fs \in Seq(FormulaType) /\ OneEach(fs)
  /\ \A nics \in States : nics \in Seq(Range(nics)) /\ \A nic \in Range(nics) : nic.mac \in Nat

VARIABLES
  file,      \* the lines of the file; None if there is no file
  formulae,
  rules,
  saving,    \* save() has emptied the file and not yet written it
  result,    \* of the last load_and_parse() or save()
  state,     \* history: the nics of the last generate()
  gens,      \* history: the generate()s of the object
  saved      \* history: the formulae when the file was last saved; None
             \* once the file is opened

vars == <<file, formulae, rules, saving, result, state, gens, saved>>

-----------------------------------------------------------------------------
(* Lines and formulae *)

Shape(v)         == v[1]
Matches(meth, v) == Shape(v) = meth \/ (meth = "ppn" /\ Shape(v) = "oldppn")

(* The first validator that matches, or "label". *)
Guessed(v) == IF Shape(v) = "text" THEN "label" ELSE IF Shape(v) = "oldppn" THEN "ppn" ELSE Shape(v)

(* A line without a method asks for a guess; unknown methods and values    *)
(* that are not valid for theirs are passed over.                          *)
Accepted(l) ==
  \/ l.method \in {"none", "guess", "label"}
  \/ l.method \in {"mac", "pci", "ppn"} /\ Matches(l.method, l.value)

(* A quoted value "guess" is read as "label". *)
ValueOf(l) == IF l.quoted /\ l.value = <<"text", "guess">> THEN <<"text", "label">> ELSE l.value

MethodOf(l) == IF l.method \in {"none", "guess"} THEN Guessed(ValueOf(l)) ELSE l.method

(* Old-style ppns are translated, where the method is ppn. *)
Translated(meth, v) == IF meth = "ppn" /\ Shape(v) = "oldppn" THEN <<"ppn", v[2]>> ELSE v

Formula(l) ==
  [target |-> l.target, method |-> MethodOf(l), value |-> Translated(MethodOf(l), ValueOf(l))]

(* Fault: the first line of a target stays. *)
InsertFirst(fs, f) == IF \E i \in DOMAIN fs : fs[i].target = f.target THEN fs ELSE Append(fs, f)

(* A later formula takes the place of an earlier one with its target. *)
Insert(fs, f) ==
  IF \E i \in DOMAIN fs : fs[i].target = f.target
  THEN [i \in DOMAIN fs |-> IF fs[i].target = f.target THEN f ELSE fs[i]]
  ELSE Append(fs, f)

Parsed(fs, lines) ==
  LET read[n \in 0 .. Len(lines)] ==
        IF n = 0 THEN fs
        ELSE IF Accepted(lines[n]) THEN Insert(read[n - 1], Formula(lines[n])) ELSE read[n - 1]
  IN read[Len(lines)]

(* There is no file, or reading it fails. *)
LoadFails ==
  /\ ~saving
  /\ result' = "False"
  /\ UNCHANGED <<file, formulae, rules, saving, state, gens, saved>>

Load ==
  /\ ~saving /\ file # None
  /\ formulae' = Parsed(formulae, file)
  /\ result' = "True"
  /\ UNCHANGED <<file, rules, saving, state, gens, saved>>

-----------------------------------------------------------------------------
(* generate() *)

Quirks(nics) ==
  \E i, j \in DOMAIN nics : i # j /\ nics[i].ppn # None /\ nics[i].ppn = nics[j].ppn

(* The first of the nics at the places I. *)
First(nics, I) == IF I = {} THEN {} ELSE {nics[CHOOSE i \in I : \A j \in I : i <= j]}

(* Fault: indexes count in kernel order. *)
AtIndexByOrder(nics, p, index) ==
  {nics[i] : i \in {j \in DOMAIN nics :
     nics[j].pci = p /\ Cardinality({l \in 1 .. j - 1 : nics[l].pci = p}) = index}}

(* pci_sbdfi_to_nic(): the nic of a function that has this many others     *)
(* before it when they are sorted by MAC; those with one MAC stay in order.*)
Before(nics, p, j) ==
  {l \in DOMAIN nics :
     nics[l].pci = p /\ (nics[l].mac < nics[j].mac \/ (nics[l].mac = nics[j].mac /\ l < j))}
AtIndex(nics, p, index) ==
  {nics[i] : i \in {j \in DOMAIN nics :
     nics[j].pci = p /\ Cardinality(Before(nics, p, j)) = index}}

(* The nic a formula is about, if there is one. *)
Picked(f, nics) ==
  CASE f.method = "mac"   -> First(nics, {i \in DOMAIN nics : <<"mac", nics[i].mac>> = f.value})
    [] f.method = "ppn"   -> IF Quirks(nics) THEN {}
                             ELSE First(nics, {i \in DOMAIN nics : <<"ppn", nics[i].ppn>> = f.value})
    [] f.method = "pci"   -> IF Shape(f.value) = "pci" THEN AtIndex(nics, f.value[2], f.value[3]) ELSE {}
    [] f.method = "label" -> First(nics, {i \in DOMAIN nics : <<"text", nics[i].label>> = f.value})

RuleOf(f, nic) == [mac |-> nic.mac, pci |-> nic.pci, tname |-> f.target]

(* The rules one call makes, in the order of the formulae. *)
PickedBy(fs, nics) == {i \in DOMAIN fs : Picked(fs[i], nics) # {}}
Made(fs, nics) ==
  LET made == Those(fs, PickedBy(fs, nics))
  IN [i \in DOMAIN made |-> RuleOf(made[i], CHOOSE n \in Picked(made[i], nics) : TRUE)]

(* They are appended to those of earlier calls. *)
Generate(nics) ==
  /\ ~saving
  /\ rules' = rules \o Made(formulae, nics)
  /\ state' = nics
  /\ gens' = gens + 1
  /\ UNCHANGED <<file, formulae, saving, result, saved>>

-----------------------------------------------------------------------------
(* write() and save() *)

(* Fault: the method is left out, the reader will guess. *)
LineOfUnsaid(f) == [target |-> f.target, method |-> "none", value |-> f.value, quoted |-> TRUE]

(* What write() lets through, and the line it makes of it. *)
Writable(f) == f.method \in {"mac", "pci", "ppn"} => Matches(f.method, f.value)
LineOf(f)   == [target |-> f.target, method |-> f.method, value |-> f.value, quoted |-> TRUE]

(* In the order of the numbers of the targets. *)
Written(fs) ==
  LET kept == {i \in DOMAIN fs : Writable(fs[i])}
      keys == {fs[i].target : i \in kept}
  IN [n \in 1 .. Cardinality(keys) |-> LineOf(fs[CHOOSE i \in kept : fs[i].target = Nth(keys, n)])]

SaveOpen ==
  /\ ~saving
  /\ file' = <<>> /\ saving' = TRUE /\ saved' = None
  /\ UNCHANGED <<formulae, rules, result, state, gens>>

SaveOpenFails ==
  /\ ~saving
  /\ result' = "False"
  /\ UNCHANGED <<file, formulae, rules, saving, state, gens, saved>>

SaveWrite ==
  /\ saving
  /\ file' = Written(formulae) /\ saving' = FALSE
  /\ saved' = formulae
  /\ result' = "True"
  /\ UNCHANGED <<formulae, rules, state, gens>>

(* The write fails: some lines may have got into the file; that the last   *)
(* of them may be cut is left out.                                         *)
SaveFails ==
  /\ saving
  /\ \E n \in 0 .. Len(Written(formulae)) : file' = SubSeq(Written(formulae), 1, n)
  /\ saving' = FALSE
  /\ result' \in {"False", "IOError"}
  /\ UNCHANGED <<formulae, rules, state, gens, saved>>

-----------------------------------------------------------------------------
(* Around the object *)

(* A new program, also after a crash in save(). *)
Restart ==
  /\ IF saving THEN \E n \in 0 .. Len(Written(formulae)) : file' = SubSeq(Written(formulae), 1, n)
     ELSE UNCHANGED file
  /\ formulae' = <<>> /\ rules' = <<>> /\ saving' = FALSE /\ result' = "none"
  /\ state' = <<>> /\ gens' = 0
  /\ UNCHANGED saved

Assign(fs) ==
  /\ ~saving
  /\ formulae' = fs
  /\ UNCHANGED <<file, rules, saving, result, state, gens, saved>>

Init ==
  /\ file \in Files \cup {None} /\ formulae = <<>> /\ rules = <<>> /\ saving = FALSE /\ result = "none"
  /\ state = <<>> /\ gens = 0 /\ saved = None

Next ==
  \/ LoadFails \/ Load \/ SaveOpen \/ SaveOpenFails \/ SaveWrite \/ SaveFails \/ Restart
  \/ gens < MaxGen /\ \E nics \in States : Generate(nics)
  \/ \E fs \in Given : Assign(fs)

Spec == Init /\ [][Next]_vars

-----------------------------------------------------------------------------
(* Properties *)

Targets(fs) == {fs[i].target : i \in DOMAIN fs}

(* Types of the variables; the formulae have distinct targets, as the keys *)
(* of a dictionary have.                                                   *)
TypeOK ==
  /\ file = None \/ file \in Seq(LineType)
  /\ formulae \in Seq(FormulaType) /\ Cardinality(Targets(formulae)) = Len(formulae)
  /\ \A i \in DOMAIN rules : rules[i].tname \in Target
  /\ saving \in BOOLEAN /\ result \in {"none", "True", "False", "IOError"}
  /\ state \in States \cup {<<>>} /\ gens \in 0 .. MaxGen
  /\ saved = None \/ saved \in Seq(FormulaType)

(* Of all lines for a target the last one counts, whatever unusable ones   *)
(* follow: seen when a new object reads the file.                          *)
Reads == formulae = <<>> /\ Load
LastLineWins ==
  [][Reads =>
       \A i \in DOMAIN formulae' :
         \E n \in DOMAIN file :
           /\ Formula(file[n]) = formulae'[i]
           /\ \A m \in n + 1 .. Len(file) : file[m].target = file[n].target => ~Accepted(file[m])]_vars

(* What was saved is what a new object loads, up to the order of the       *)
(* formulae and the style of ppns, whether the formulae came from a file   *)
(* or from the program; but those write() refuses, and a label "guess",    *)
(* are not kept.                                                           *)
Kept(fs) == {[f EXCEPT !.value = Translated(f.method, f.value)] : f \in {g \in Range(fs) : Writable(g)}}
SavedIsLoaded ==
  /\ TypeOK
  /\ saved # None =>
       LET again == Parsed(<<>>, file) IN
       /\ {f \in Kept(saved) : f.value # <<"text", "guess">>} \subseteq Range(again)
       /\ Targets(again) = {f.target : f \in Kept(saved)}

(* Of the first generate() of an object no two rules are for one name;     *)
(* and if the nics can be told apart, each by its MAC and, if it has one,  *)
(* its label, the rules are the same in whatever order the kernel lists    *)
(* them: names by index follow the MACs, a ppn two nics have names neither.*)
(* (A label two nics have names the one that is listed first.)             *)
ToldApart(nics) ==
  \A i, j \in DOMAIN nics :
    i # j => nics[i].mac # nics[j].mac /\ (nics[i].label = nics[j].label => nics[i].label = None)
Relisted(nics, p) == [i \in DOMAIN nics |-> nics[p[i]]]
ByMac(f, g, rs) ==
  \A r, s \in Range(rs) :
    /\ f.method = "pci" /\ g.method = "pci" /\ Shape(f.value) = "pci" /\ Shape(g.value) = "pci"
    /\ f.value[2] = g.value[2] /\ f.value[3] < g.value[3]
    /\ r.tname = f.target /\ s.tname = g.target
    => r.mac < s.mac
OrderFree ==
  [][gens' = 1 /\ gens = 0 =>
       /\ \A i, j \in DOMAIN rules' : rules'[i].tname = rules'[j].tname => i = j
       /\ ToldApart(state') =>
            /\ \A p \in Bijection(DOMAIN state', DOMAIN state') :
                 rules' = Made(formulae, Relisted(state', p))
            /\ \A f, g \in Range(formulae) : ByMac(f, g, rules')]_vars

=============================================================================
