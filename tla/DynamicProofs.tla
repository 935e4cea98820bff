---------------------------- MODULE DynamicProofs ----------------------------
(***************************************************************************)
(* Proofs about DynamicRules: what a completed save() wrote is what a new  *)
(* object loads.  The proof rests on what Those() of Sublists picks from a *)
(* list, which the first lemmas say.                                       *)
(***************************************************************************)
EXTENDS DynamicRules, FiniteSetTheorems, TLAPS

-----------------------------------------------------------------------------
(* Sublists *)

(* How many elements of I are below i. *)
Below(I, i) == Cardinality({j \in I : j < i})

(* A larger element of I has more elements below it.                       *)
LEMMA BelowGrows ==
  ASSUME NEW I, IsFiniteSet(I), I \subseteq Nat, NEW a \in I, NEW b \in I, a < b
  PROVE  Below(I, a) < Below(I, b)
<1> DEFINE A == {j \in I : j < a}
           B == {j \in I : j < b}
<1>1. A \subseteq B /\ B \subseteq I /\ a \in B /\ a \notin A
  <2>1. a \in Nat /\ b \in Nat /\ \A j \in I : j \in Nat
    OBVIOUS
  <2>2. ASSUME NEW j \in I, j < a PROVE j < b
    BY <2>1, <2>2
  <2>3. a \in B
    OBVIOUS
  <2>4. ~(a < a)
    BY <2>1
  <2> QED BY <2>2, <2>3, <2>4
<1> HIDE DEF A, B
<1>2. IsFiniteSet(B) /\ IsFiniteSet(A) /\ Cardinality(A) <= Cardinality(B)
      /\ (Cardinality(B) = Cardinality(A) => B = A)
  BY <1>1, FS_Subset
<1>3. Cardinality(A) \in Nat /\ Cardinality(B) \in Nat
  BY <1>2, FS_CardinalityType
<1>4. Cardinality(A) < Cardinality(B)
  BY <1>1, <1>2, <1>3
<1> QED BY <1>4 DEF Below, A, B

(* Every number up to the size of I is one more than the elements of I     *)
(* below some one element.                                                 *)
LEMMA BelowOnto ==
  ASSUME NEW I, IsFiniteSet(I), I \subseteq Nat
  PROVE  /\ \A i \in I : Below(I, i) + 1 \in 1 .. Cardinality(I)
         /\ \A i, j \in I : Below(I, i) = Below(I, j) => i = j
         /\ \A n \in 1 .. Cardinality(I) : \E i \in I : Below(I, i) = n - 1
<1>0. Cardinality(I) \in Nat
  BY FS_CardinalityType
<1>1. ASSUME NEW i \in I
      PROVE  Below(I, i) \in Nat /\ Below(I, i) + 1 \in 1 .. Cardinality(I)
  <2> DEFINE A == {j \in I : j < i}
  <2>1. A \subseteq I /\ A # I
    BY i \in Nat
  <2> HIDE DEF A
  <2>2. IsFiniteSet(A) /\ Cardinality(A) <= Cardinality(I) /\ Cardinality(A) # Cardinality(I)
    BY <2>1, FS_Subset
  <2>3. Cardinality(A) \in Nat
    BY <2>2, FS_CardinalityType
  <2>4. Cardinality(A) + 1 \in 1 .. Cardinality(I)
    BY <1>0, <2>2, <2>3
  <2> QED BY <2>3, <2>4 DEF Below, A
<1>2. ASSUME NEW i \in I, NEW j \in I, Below(I, i) = Below(I, j) PROVE i = j
  <2>1. i \in Nat /\ j \in Nat /\ Below(I, i) \in Nat /\ Below(I, j) \in Nat
    BY <1>1
  <2>2. CASE i < j
    <3>1. Below(I, i) < Below(I, j)
      BY <2>2, BelowGrows
    <3> QED BY <1>2, <2>1, <3>1
  <2>3. CASE j < i
    <3>1. Below(I, j) < Below(I, i)
      BY <2>3, BelowGrows
    <3> QED BY <1>2, <2>1, <3>1
  <2> QED BY <2>1, <2>2, <2>3
<1> DEFINE r == [i \in I |-> Below(I, i) + 1]
           T == 1 .. Cardinality(I)
<1>3. r \in Injection(I, T)
  <2>1. r \in [I -> T]
    BY <1>1
  <2>2. ASSUME NEW i \in I, NEW j \in I, r[i] = r[j] PROVE i = j
    <3>1. Below(I, i) + 1 = Below(I, j) + 1 /\ Below(I, i) \in Nat /\ Below(I, j) \in Nat
      BY <1>1, <2>2
    <3> QED BY <1>2, <3>1
  <2> QED BY <2>1, <2>2 DEF Injection, IsInjective
<1>4. IsFiniteSet(T) /\ Cardinality(T) = Cardinality(I)
  BY <1>0, FS_Interval
<1>5. r \in Surjection(I, T)
  <2> HIDE DEF r, T
  <2> QED BY <1>3, <1>4, FS_Injection
<1>6. ASSUME NEW n \in 1 .. Cardinality(I) PROVE \E i \in I : Below(I, i) = n - 1
  <2>1. PICK i \in I : r[i] = n
    BY <1>5 DEF Surjection
  <2>2. Below(I, i) + 1 = n /\ Below(I, i) \in Nat /\ n \in Nat
    BY <1>0, <1>1, <2>1
  <2> QED BY <2>2
<1> QED BY <1>1, <1>2, <1>6

(* Nth(I, n) is an element of I, no two are the same, and all are one.     *)
LEMMA NthOf ==
  ASSUME NEW I, IsFiniteSet(I), I \subseteq Nat
  PROVE  /\ \A n \in 1 .. Cardinality(I) : Nth(I, n) \in I /\ Below(I, Nth(I, n)) = n - 1
         /\ \A m, n \in 1 .. Cardinality(I) : Nth(I, m) = Nth(I, n) => m = n
         /\ \A i \in I : \E n \in 1 .. Cardinality(I) : Nth(I, n) = i
<1>0. Cardinality(I) \in Nat
  BY FS_CardinalityType
<1>1. ASSUME NEW n \in 1 .. Cardinality(I)
      PROVE  Nth(I, n) \in I /\ Below(I, Nth(I, n)) = n - 1
  <2> DEFINE P(i) == Below(I, i) = n - 1
  <2>1. \E i \in I : P(i)
    BY BelowOnto
  <2> HIDE DEF P
  <2>2. (CHOOSE i \in I : P(i)) \in I /\ P(CHOOSE i \in I : P(i))
    BY <2>1
  <2>3. Nth(I, n) = CHOOSE i \in I : P(i)
    BY DEF Nth, Below, P
  <2> QED BY <2>2, <2>3 DEF P
<1>2. ASSUME NEW m \in 1 .. Cardinality(I), NEW n \in 1 .. Cardinality(I), Nth(I, m) = Nth(I, n)
      PROVE  m = n
  <2>1. m - 1 = n - 1 /\ m \in Nat /\ n \in Nat
    BY <1>0, <1>1, <1>2
  <2> QED BY <2>1
<1>3. ASSUME NEW i \in I PROVE \E n \in 1 .. Cardinality(I) : Nth(I, n) = i
  <2> DEFINE n == Below(I, i) + 1
  <2>1. n \in 1 .. Cardinality(I)
    BY BelowOnto
  <2>3. Below(I, i) \in Nat
    BY FS_Subset, FS_CardinalityType DEF Below
  <2>2. Below(I, Nth(I, n)) = n - 1 /\ Nth(I, n) \in I
    BY <1>1, <2>1
  <2>4. n - 1 = Below(I, i)
    BY <2>3
  <2>5. \A j \in I : Below(I, j) = Below(I, i) => j = i
    BY BelowOnto
  <2>6. Nth(I, n) = i
    <3> HIDE DEF n
    <3> QED BY <2>2, <2>4, <2>5
  <2> QED BY <2>1, <2>6
<1> QED BY <1>1, <1>2, <1>3

(* The same of an interval. *)
LEMMA UpTo ==
  ASSUME NEW n \in Nat
  PROVE  /\ IsFiniteSet(1 .. n) /\ Cardinality(1 .. n) = n /\ 1 .. n \subseteq Nat
         /\ n # 0 => IsFiniteSet(1 .. n - 1) /\ Cardinality(1 .. n - 1) = n - 1
<1>1. IsFiniteSet(1 .. n) /\ Cardinality(1 .. n) = IF 1 > n THEN 0 ELSE n - 1 + 1
  BY FS_Interval
<1>2. 1 .. n \subseteq Nat
  OBVIOUS
<1>3. ASSUME n # 0
      PROVE  IsFiniteSet(1 .. n - 1) /\ Cardinality(1 .. n - 1) = n - 1
  <2>1. n - 1 \in Int /\ n - 1 >= 0
    BY <1>3
  <2>2. /\ IsFiniteSet(1 .. n - 1)
        /\ Cardinality(1 .. n - 1) = IF 1 > n - 1 THEN 0 ELSE (n - 1) - 1 + 1
    BY <2>1, FS_Interval
  <2> QED BY <2>1, <2>2
<1> QED BY <1>1, <1>2, <1>3

(* Those() picks from the list, each position once.                        *)
LEMMA ThoseAre ==
  ASSUME NEW X, NEW s \in Seq(X), NEW I, I \subseteq DOMAIN s
  PROVE  /\ Those(s, I) \in Seq(X)
         /\ DOMAIN Those(s, I) = 1 .. Cardinality(I) /\ Len(Those(s, I)) = Cardinality(I)
         /\ IsFiniteSet(I) /\ Cardinality(I) \in Nat
         /\ \A n \in DOMAIN Those(s, I) : Nth(I, n) \in I /\ Those(s, I)[n] = s[Nth(I, n)]
<1>1. IsFiniteSet(I) /\ I \subseteq Nat
  <2>1. Len(s) \in Nat /\ DOMAIN s = 1 .. Len(s)
    OBVIOUS
  <2>2. IsFiniteSet(DOMAIN s) /\ DOMAIN s \subseteq Nat
    BY <2>1, UpTo
  <2>3. I \in SUBSET DOMAIN s
    OBVIOUS
  <2> QED BY <2>2, <2>3, FS_Subset
<1>2. Cardinality(I) \in Nat
  BY <1>1, FS_CardinalityType
<1>3. \A n \in 1 .. Cardinality(I) : Nth(I, n) \in I
  BY <1>1, NthOf
<1>4. \A n \in 1 .. Cardinality(I) : s[Nth(I, n)] \in X
  BY <1>3
<1> QED BY <1>1, <1>2, <1>3, <1>4 DEF Those

(* A list picked whole is the list.                                        *)
LEMMA ThoseAll ==
  ASSUME NEW X, NEW s \in Seq(X)
  PROVE  Those(s, DOMAIN s) = s
<1> DEFINE N == Len(s)
           I == 1 .. N
<1>1. N \in Nat /\ DOMAIN s = I /\ s = [i \in I |-> s[i]]
  OBVIOUS
<1> HIDE DEF N
<1>2. IsFiniteSet(I) /\ Cardinality(I) = N /\ I \subseteq Nat
  BY <1>1, UpTo
<1>3. ASSUME NEW n \in I PROVE Nth(I, n) = n
  <2>1. n \in Nat /\ n - 1 \in Nat /\ n - 1 <= N /\ n # 0
    BY <1>1
  <2>2. {j \in I : j < n} = 1 .. n - 1
    BY <1>1, <2>1
  <2>3. Below(I, n) = n - 1
    BY <2>1, <2>2, UpTo DEF Below
  <2>4. Nth(I, n) \in I /\ Below(I, Nth(I, n)) = n - 1
    BY <1>2, NthOf
  <2>5. \A j \in I : Below(I, j) = Below(I, n) => j = n
    BY <1>2, BelowOnto
  <2> QED BY <2>3, <2>4, <2>5
<1>4. Those(s, I) = [n \in I |-> s[n]]
  BY <1>2, <1>3 DEF Those
<1> QED BY <1>1, <1>4

-----------------------------------------------------------------------------
(* The file *)

(* What the file holds of a completed save() is whole: no entry of it will *)
(* be skipped; and save() is not at work on it.                            *)
AllLists(s) == \A i \in DOMAIN s : s[i].form = "list"
Stored ==
  kept # Nothing =>
    /\ ~saving
    /\ file.state = "rules"
    /\ AllLists(file.lastboot) /\ EntriesOf(file.lastboot) = kept.lastboot
    /\ AllLists(file.old) /\ EntriesOf(file.old) = kept.old

RulesFile == [state : {"rules"}, lastboot : Seq(FileItem), old : Seq(FileItem)]
DynamicInv == TypeOK /\ Stored

LEMMA FileItems == FileItem \subseteq Item
BY DEF FileItem, Item

LEMMA EntriesType ==
  ASSUME NEW s \in Seq(Item) PROVE EntriesOf(s) \in Seq(Entry)
<1>1. \A i \in 1 .. Len(s) : s[i].entry \in Entry
  <2>1. \A i \in 1 .. Len(s) : s[i] \in Item
    OBVIOUS
  <2> QED BY <2>1 DEF Item
<1>2. DOMAIN s = 1 .. Len(s) /\ Len(s) \in Nat
  OBVIOUS
<1> QED BY <1>1, <1>2 DEF EntriesOf

(* A file's list is parsed to MACPCI objects; one without bad entries to   *)
(* all of its entries.                                                     *)
LEMMA ParsedAre ==
  ASSUME NEW s \in Seq(FileItem)
  PROVE  /\ Parsed(s) \in Seq(Item)
         /\ AllLists(s) => EntriesOf(Parsed(s)) = EntriesOf(s)
<1> DEFINE I == {i \in DOMAIN s : s[i].form \in {"list"}}
           t == OfForm(s, {"list"})
<1>1. t = Those(s, I) /\ I \subseteq DOMAIN s
  BY DEF OfForm
<1>2. t \in Seq(FileItem)
  BY <1>1, ThoseAre
<1> HIDE DEF t, I
<1>3. Parsed(s) = [i \in DOMAIN t |-> As("macpci", t[i].entry)]
  BY DEF Parsed, t
<1>4. \A i \in 1 .. Len(t) : As("macpci", t[i].entry) \in Item
  <2>1. \A i \in 1 .. Len(t) : t[i] \in FileItem
    BY <1>2
  <2>2. \A i \in 1 .. Len(t) : t[i].entry \in Entry
    BY <2>1 DEF FileItem
  <2> QED BY <2>2 DEF As, Item
<1>5. DOMAIN t = 1 .. Len(t) /\ Len(t) \in Nat
  BY <1>2
<1>6. Parsed(s) \in Seq(Item)
  BY <1>3, <1>4, <1>5
<1>7. ASSUME AllLists(s) PROVE EntriesOf(Parsed(s)) = EntriesOf(s)
  <2>1. I = DOMAIN s
    BY <1>7 DEF I, AllLists
  <2>2. t = s
    BY <1>1, <2>1, ThoseAll
  <2> QED BY <1>3, <2>2 DEF EntriesOf, As
<1> QED BY <1>6, <1>7

(* What write() dumps are lists only.                                      *)
LEMMA ValidatedAre ==
  ASSUME NEW s \in Seq(Item), Serialisable(Validated(s))
  PROVE  Validated(s) \in Seq(FileItem) /\ AllLists(Validated(s))
<1> DEFINE I == {i \in DOMAIN s : Validates(s[i])}
           t == Validated(s)
<1>1. t = Those(s, I) /\ I \subseteq DOMAIN s
  BY DEF Validated
<1>2. t \in Seq(Item) /\ \A n \in DOMAIN t : \E i \in I : t[n] = s[i]
  <2>1. t \in Seq(Item) /\ \A n \in DOMAIN t : Nth(I, n) \in I /\ t[n] = s[Nth(I, n)]
    <3> HIDE DEF I, t
    <3> QED BY <1>1, ThoseAre
  <2> HIDE DEF t, I
  <2> QED BY <2>1
<1>3. \A n \in DOMAIN t : Validates(t[n])
  BY <1>2
<1> HIDE DEF t, I
<1>4. \A n \in DOMAIN t : t[n].form = "list" /\ t[n] \in Item
  BY <1>2, <1>3 DEF Validates, Serialisable, t
<1>5. \A n \in DOMAIN t : t[n] \in FileItem
  BY <1>4 DEF Item, FileItem
<1> QED BY <1>2, <1>4, <1>5 DEF AllLists, t

(* A list of valid lists is dumped whole. *)
LEMMA ValidatedAll ==
  ASSUME NEW s \in Seq(Item), AllLists(s)
  PROVE  Validated(s) = s /\ Serialisable(s)
<1>1. {i \in DOMAIN s : Validates(s[i])} = DOMAIN s
  BY DEF Validates, AllLists
<1>2. Validated(s) = s
  BY <1>1, ThoseAll DEF Validated
<1> QED BY <1>2 DEF Serialisable, AllLists

LEMMA DynamicInit == Init => DynamicInv
<1> SUFFICES ASSUME Init PROVE DynamicInv
  OBVIOUS
<1>1. <<>> \in Seq(Item)
  OBVIOUS
<1>2. TypeOK
  BY <1>1 DEF Init, TypeOK
<1> QED BY <1>2 DEF Init, DynamicInv, Stored

LEMMA LoadInv == ASSUME DynamicInv, Load PROVE DynamicInv'
<1>1. CASE LoadFail \/ LoadBlank
  <2>1. UNCHANGED <<file, lastboot, old, saving, kept>> /\ result' \in {"True", "False"}
    BY <1>1 DEF LoadFail, LoadBlank, object
  <2> QED BY <2>1 DEF DynamicInv, TypeOK, Stored, AllLists, EntriesOf
<1>2. CASE LoadRules
  <2>1. file \in RulesFile
    BY <1>2 DEF LoadRules, DynamicInv, TypeOK, RulesFile, Absent, Blank, Corrupt
  <2>2. file.lastboot \in Seq(FileItem) /\ file.old \in Seq(FileItem)
    BY <2>1 DEF RulesFile
  <2>3. lastboot' \in Seq(Item) /\ old' \in Seq(Item)
    BY <1>2, <2>2, ParsedAre DEF LoadRules, DynamicInv, TypeOK
  <2>4. UNCHANGED <<file, saving, kept>> /\ result' = "True"
    BY <1>2 DEF LoadRules
  <2> QED BY <2>3, <2>4 DEF DynamicInv, TypeOK, Stored, AllLists, EntriesOf
<1> QED BY <1>1, <1>2 DEF Load

LEMMA SaveInv == ASSUME DynamicInv, Save PROVE DynamicInv'
<1>1. CASE SaveOpen
  BY <1>1 DEF SaveOpen, DynamicInv, TypeOK, Stored, object
<1>2. CASE SaveOpenFails
  <2>1. UNCHANGED <<file, lastboot, old, saving, kept>> /\ result' = "False"
    BY <1>2 DEF SaveOpenFails, object
  <2> QED BY <2>1 DEF DynamicInv, TypeOK, Stored, AllLists, EntriesOf
<1>3. CASE SaveWrite
  <2> DEFINE l == Validated(lastboot)
             o == Validated(old)
  <2>1. l \in Seq(FileItem) /\ AllLists(l) /\ o \in Seq(FileItem) /\ AllLists(o)
    BY <1>3, ValidatedAre DEF SaveWrite, DynamicInv, TypeOK
  <2>2. /\ file' = Rules(l, o) /\ kept' = Rules(EntriesOf(l), EntriesOf(o))
        /\ saving' = FALSE /\ result' = "True" /\ UNCHANGED <<lastboot, old>>
    BY <1>3 DEF SaveWrite, object
  <2> HIDE DEF l, o
  <2>3. EntriesOf(l) \in Seq(Entry) /\ EntriesOf(o) \in Seq(Entry)
    <3>1. l \in Seq(Item) /\ o \in Seq(Item)
      BY <2>1, FileItems
    <3> QED BY <3>1, EntriesType
  <2>4. TypeOK'
    BY <2>1, <2>2, <2>3 DEF DynamicInv, TypeOK, Rules
  <2>5. Stored'
    BY <2>1, <2>2 DEF Stored, Rules, AllLists, EntriesOf
  <2> QED BY <2>4, <2>5 DEF DynamicInv
<1>4. CASE SaveUnserialisable
  <2>1. /\ UNCHANGED <<file, lastboot, old, kept>> /\ result' = "TypeError" /\ saving
        /\ saving' = FALSE
    BY <1>4 DEF SaveUnserialisable, object
  <2> QED BY <2>1 DEF DynamicInv, TypeOK, Stored
<1>5. CASE SaveWriteFails
  <2>1. /\ UNCHANGED <<lastboot, old, kept>> /\ result' \in {"False", "IOError"} /\ saving
        /\ saving' = FALSE /\ file' \in {Blank, Corrupt}
    BY <1>5 DEF SaveWriteFails, object
  <2> QED BY <2>1 DEF DynamicInv, TypeOK, Stored
<1> QED BY <1>1, <1>2, <1>3, <1>4, <1>5 DEF Save

LEMMA AroundInv ==
  ASSUME DynamicInv,
         Restart \/ (\E l, o \in Lists : Assign(l, o)) \/ (\E f \in Files : Edit(f))
  PROVE  DynamicInv'
<1>1. CASE Restart
  <2>0. <<>> \in Seq(Item)
    OBVIOUS
  <2>1. TypeOK'
    BY <1>1, <2>0 DEF Restart, DynamicInv, TypeOK
  <2>2. kept # Nothing => file' = file
    BY <1>1 DEF Restart, DynamicInv, Stored
  <2> QED BY <1>1, <2>1, <2>2 DEF Restart, DynamicInv, Stored, AllLists, EntriesOf
<1>2. ASSUME NEW l \in Lists, NEW o \in Lists, Assign(l, o) PROVE DynamicInv'
  <2>1. l \in Seq(Item) /\ o \in Seq(Item)
    BY DynamicAssumption
  <2> QED BY <1>2, <2>1 DEF Assign, DynamicInv, TypeOK, Stored, AllLists, EntriesOf
<1>3. ASSUME NEW f \in Files, Edit(f) PROVE DynamicInv'
  <2>1. f \in {Absent, Blank, Corrupt} \/ f \in RulesFile
    BY DynamicAssumption DEF Absent, Blank, Corrupt, RulesFile
  <2>2. TypeOK'
    BY <1>3, <2>1 DEF Edit, DynamicInv, TypeOK, RulesFile, object
  <2> QED BY <1>3, <2>2 DEF Edit, DynamicInv, Stored
<1> QED BY <1>1, <1>2, <1>3

(* What a completed save() wrote is what a new object loads, until the     *)
(* file is opened for writing again or edited: through loads, failed       *)
(* saves, crashes and restarts, for any lists, valid or not.               *)
THEOREM SavesAreLoaded == Spec => []LoadsWhatWasSaved
<1>1. Init => DynamicInv
  BY DynamicInit
<1>2. DynamicInv /\ [Next]_vars => DynamicInv'
  <2> SUFFICES ASSUME DynamicInv, [Next]_vars PROVE DynamicInv'
    OBVIOUS
  <2>1. CASE UNCHANGED vars
    BY <2>1 DEF vars, object, DynamicInv, TypeOK, Stored, AllLists, EntriesOf
  <2>2. CASE Next
    BY <2>2, LoadInv, SaveInv, AroundInv DEF Next, Load, Save
  <2> QED BY <2>1, <2>2
<1>3. DynamicInv => LoadsWhatWasSaved
  <2> SUFFICES ASSUME DynamicInv, kept # Nothing
               PROVE  /\ EntriesOf(Parsed(file.lastboot)) = kept.lastboot
                      /\ EntriesOf(Parsed(file.old)) = kept.old
    BY DEF DynamicInv, LoadsWhatWasSaved, Stored
  <2>1. file.state = "rules"
    BY DEF DynamicInv, Stored
  <2>2. file.lastboot \in Seq(FileItem) /\ file.old \in Seq(FileItem)
    BY <2>1 DEF DynamicInv, TypeOK, Absent, Blank, Corrupt
  <2> QED BY <2>2, ParsedAre DEF DynamicInv, Stored
<1> QED BY <1>1, <1>2, <1>3, PTL DEF Spec

=============================================================================
