----------------------------- MODULE StaticProofs -----------------------------
(***************************************************************************)
(* Proofs about StaticRules, for files and formulae of any length and any  *)
(* nics: of the lines for a name the last usable one counts, what was      *)
(* saved is what a new object loads, and the rules that are made of it do  *)
(* not depend on the order in which the kernel lists nics it tells apart.  *)
(***************************************************************************)
EXTENDS StaticRules, FiniteSetTheorems, WellFoundedInduction, TLAPS

-----------------------------------------------------------------------------
(* A set of numbers has a least one. *)
LEMMA LeastNat ==
  ASSUME NEW S \in SUBSET Nat, S # {}
  PROVE  \E m \in S : \A n \in S : m <= n
<1> DEFINE R == {p \in Nat \X Nat : p[1] < p[2]}
<1>1. IsWellFoundedOn(R, Nat)
  BY NatLessThanWellFounded DEF OpToRel
<1> HIDE DEF R
<1>2. PICK m \in S : \A n \in S : ~(<<n, m>> \in R)
  BY <1>1, WFMin
<1>3. \A n \in S : ~(n < m)
  BY <1>2 DEF R
<1> QED BY <1>3

-----------------------------------------------------------------------------
(* Formulae *)

(* What makes formulae those of an object. *)
Keyed(fs) == fs \in Seq(FormulaType) /\ OneEach(fs)

(* A usable line makes a formula, for its target. *)
LEMMA FormulaOfLine ==
  ASSUME NEW l \in LineType, Accepted(l)
  PROVE  Formula(l) \in FormulaType /\ Formula(l).target = l.target
<1>1. /\ l.target \in Target /\ l.method \in Methods \cup {"none", "other"} /\ l.value \in Value
  BY DEF LineType
<1>2. ValueOf(l) \in Value
  BY <1>1, StaticRulesAssumption DEF ValueOf
<1>3. MethodOf(l) \in Methods \ {"guess"}
  <2>1. Guessed(ValueOf(l)) \in Methods \ {"guess"}
    BY <1>2, StaticRulesAssumption DEF Guessed, Shape, Methods
  <2>2. l.method \in {"none", "guess"} \/ l.method \in Methods \ {"guess"}
    BY DEF Accepted, Methods
  <2> QED BY <2>1, <2>2 DEF MethodOf
<1>4. Translated(MethodOf(l), ValueOf(l)) \in Value
  BY <1>2, StaticRulesAssumption DEF Translated, Shape
<1> QED BY <1>1, <1>3, <1>4 DEF Formula, FormulaType

(* Inserting keeps one formula for each target. *)
LEMMA InsertKeyed ==
  ASSUME NEW fs, Keyed(fs), NEW f \in FormulaType
  PROVE  Keyed(Insert(fs, f))
<1>1. fs \in Seq(FormulaType) /\ OneEach(fs)
  BY DEF Keyed
<1>2. CASE \E i \in DOMAIN fs : fs[i].target = f.target
  <2>1. Insert(fs, f) = [i \in DOMAIN fs |-> IF fs[i].target = f.target THEN f ELSE fs[i]]
    BY <1>2 DEF Insert
  <2>2. Insert(fs, f) \in Seq(FormulaType)
    BY <1>1, <2>1
  <2>3. \A i \in DOMAIN fs : Insert(fs, f)[i].target = fs[i].target
    BY <2>1
  <2>4. DOMAIN Insert(fs, f) = DOMAIN fs
    BY <2>1
  <2>5. OneEach(Insert(fs, f))
    BY <1>1, <2>3, <2>4 DEF OneEach
  <2> QED BY <2>2, <2>5 DEF Keyed
<1>3. CASE ~ \E i \in DOMAIN fs : fs[i].target = f.target
  <2>1. Insert(fs, f) = Append(fs, f)
    BY <1>3 DEF Insert
  <2>2. Append(fs, f) \in Seq(FormulaType)
    BY <1>1
  <2>3. /\ DOMAIN Append(fs, f) = DOMAIN fs \cup {Len(fs) + 1}
        /\ \A i \in DOMAIN fs : Append(fs, f)[i] = fs[i]
        /\ Append(fs, f)[Len(fs) + 1] = f
    BY <1>1
  <2>4. OneEach(Append(fs, f))
    BY <1>1, <1>3, <2>3 DEF OneEach
  <2> QED BY <2>1, <2>2, <2>4 DEF Keyed
<1> QED BY <1>2, <1>3

(* There are as many targets as formulae. *)
LEMMA AsManyTargets ==
  ASSUME NEW fs, Keyed(fs)
  PROVE  Cardinality(Targets(fs)) = Len(fs)
<1> DEFINE D == DOMAIN fs
           t == [i \in D |-> fs[i].target]
           T == Targets(fs)
<1>1. D = 1 .. Len(fs) /\ Len(fs) \in Nat
  BY DEF Keyed
<1>2. IsFiniteSet(D) /\ Cardinality(D) = Len(fs)
  <2>1. 1 \in Int /\ Len(fs) \in Int
    BY <1>1
  <2>2. /\ IsFiniteSet(1 .. Len(fs))
        /\ Cardinality(1 .. Len(fs)) = IF 1 > Len(fs) THEN 0 ELSE Len(fs) - 1 + 1
    BY <2>1, FS_Interval
  <2> QED BY <1>1, <2>2
<1>3. t \in Bijection(D, T)
  <2>1. t \in [D -> T] /\ \A x \in T : \E i \in D : t[i] = x
    BY DEF Targets
  <2>2. \A i, j \in D : t[i] = t[j] => i = j
    BY DEF Keyed, OneEach
  <2> QED BY <2>1, <2>2 DEF Bijection, Injection, Surjection, IsInjective
<1>4. Cardinality(T) = Cardinality(D)
  <2> HIDE DEF t, T, D
  <2>1. ExistsBijection(D, T)
    BY <1>3 DEF ExistsBijection
  <2> QED BY <1>2, <2>1, FS_Bijection
<1> QED BY <1>2, <1>4

-----------------------------------------------------------------------------
(* Reading lines *)

(* What is read of a line onto the formulae so far. *)
Reading(fs, l) == IF Accepted(l) THEN Insert(fs, Formula(l)) ELSE fs

(* f tells the formulae after each of the first n lines. *)
ReadSoFar(f, fs, lines, n) ==
  f = [i \in 0 .. n |-> IF i = 0 THEN fs ELSE Reading(f[i - 1], lines[i])]

(* There is such a function for any number of lines. *)
LEMMA CanBeRead ==
  ASSUME NEW fs, NEW lines, NEW n \in Nat
  PROVE  \E f : ReadSoFar(f, fs, lines, n)
<1> DEFINE Without == {i \in Nat : ~ \E f : ReadSoFar(f, fs, lines, i)}
<1>1. SUFFICES ASSUME Without # {} PROVE FALSE
  OBVIOUS
<1>2. PICK m \in Without : \A i \in Without : m <= i
  BY <1>1, LeastNat
<1>3. CASE m = 0
  <2> DEFINE f == [i \in 0 .. 0 |-> fs]
  <2>1. ReadSoFar(f, fs, lines, 0)
    BY DEF ReadSoFar
  <2> QED BY <1>2, <1>3, <2>1
<1>4. CASE m # 0
  <2>1. m - 1 \in Nat /\ m - 1 \notin Without
    BY <1>2, <1>4
  <2>2. PICK f : ReadSoFar(f, fs, lines, m - 1)
    BY <2>1
  <2> DEFINE g == [i \in 0 .. m |-> IF i = m THEN Reading(f[m - 1], lines[m]) ELSE f[i]]
  <2>3. ASSUME NEW i \in 0 .. m
        PROVE  g[i] = IF i = 0 THEN fs ELSE Reading(g[i - 1], lines[i])
    <3>1. CASE i = m
      BY <1>2, <1>4, <3>1
    <3>2. CASE i # m
      <4>1. i \in 0 .. m - 1 /\ g[i] = f[i] /\ (i # 0 => g[i - 1] = f[i - 1])
        BY <1>2, <1>4, <3>2
      <4>2. f[i] = IF i = 0 THEN fs ELSE Reading(f[i - 1], lines[i])
        BY <2>2, <4>1 DEF ReadSoFar
      <4> QED BY <4>1, <4>2
    <3> QED BY <3>1, <3>2
  <2>4. g = [i \in 0 .. m |-> IF i = 0 THEN fs ELSE Reading(g[i - 1], lines[i])]
    BY <2>3
  <2> HIDE DEF g
  <2>5. ReadSoFar(g, fs, lines, m)
    BY <2>4 DEF ReadSoFar
  <2> QED BY <1>2, <2>5
<1> QED BY <1>3, <1>4

(* So Parsed() is what its recursion says. *)
LEMMA ParsedIs ==
  ASSUME NEW fs, NEW lines, Len(lines) \in Nat
  PROVE  \E f : ReadSoFar(f, fs, lines, Len(lines)) /\ Parsed(fs, lines) = f[Len(lines)]
<1> DEFINE f == CHOOSE g : ReadSoFar(g, fs, lines, Len(lines))
<1>1. Parsed(fs, lines) = f[Len(lines)]
  BY DEF Parsed, ReadSoFar, Reading
<1>2. ReadSoFar(f, fs, lines, Len(lines))
  BY CanBeRead
<1> QED BY <1>1, <1>2

(* What reading the lines one by one keeps. *)
LEMMA ParsedKeyed ==
  ASSUME NEW fs, Keyed(fs), NEW lines \in Seq(LineType)
  PROVE  Keyed(Parsed(fs, lines))
<1>1. Len(lines) \in Nat /\ \A i \in 1 .. Len(lines) : lines[i] \in LineType
  OBVIOUS
<1>2. PICK f : ReadSoFar(f, fs, lines, Len(lines)) /\ Parsed(fs, lines) = f[Len(lines)]
  BY <1>1, ParsedIs
<1> DEFINE Wrong == {i \in 0 .. Len(lines) : ~Keyed(f[i])}
<1>3. SUFFICES ASSUME Wrong # {} PROVE FALSE
  BY <1>1, <1>2
<1>4. Wrong \in SUBSET Nat
  BY <1>1
<1>5. PICK m \in Wrong : \A i \in Wrong : m <= i
  BY <1>3, <1>4, LeastNat
<1>6. f[m] = IF m = 0 THEN fs ELSE Reading(f[m - 1], lines[m])
  BY <1>2, <1>5 DEF ReadSoFar
<1>7. CASE m = 0
  BY <1>5, <1>6, <1>7
<1>8. CASE m # 0
  <2>1. m \in 1 .. Len(lines) /\ m - 1 \in 0 .. Len(lines) /\ m - 1 \notin Wrong
    BY <1>1, <1>5, <1>8
  <2>2. Keyed(f[m - 1])
    BY <2>1
  <2>3. Accepted(lines[m]) => Keyed(Insert(f[m - 1], Formula(lines[m])))
    BY <1>1, <2>1, <2>2, FormulaOfLine, InsertKeyed
  <2>4. Keyed(f[m])
    BY <1>6, <1>8, <2>2, <2>3 DEF Reading
  <2> QED BY <1>5, <2>4
<1> QED BY <1>7, <1>8

(* Every formula is that of the last usable line for its target. *)
FromLast(fs, lines, n) ==
  \A i \in DOMAIN fs : \E m \in 1 .. n :
    /\ Formula(lines[m]) = fs[i]
    /\ \A l \in m + 1 .. n : lines[l].target = lines[m].target => ~Accepted(lines[l])

LEMMA ReadFromLast ==
  ASSUME NEW fs, NEW lines \in Seq(LineType), NEW n \in 1 .. Len(lines),
         FromLast(fs, lines, n - 1)
  PROVE  FromLast(Reading(fs, lines[n]), lines, n)
<1> DEFINE l == lines[n]
<1>0. n \in Nat /\ \A m \in 1 .. n : lines[m] \in LineType /\ Formula(lines[m]).target = lines[m].target
  BY DEF Formula
<1>1. CASE ~Accepted(l)
  <2>1. Reading(fs, l) = fs
    BY <1>1 DEF Reading
  <2>2. ASSUME NEW i \in DOMAIN fs
        PROVE  \E m \in 1 .. n :
                 /\ Formula(lines[m]) = fs[i]
                 /\ \A k \in m + 1 .. n : lines[k].target = lines[m].target => ~Accepted(lines[k])
    <3>1. PICK m \in 1 .. n - 1 :
                 /\ Formula(lines[m]) = fs[i]
                 /\ \A k \in m + 1 .. n - 1 : lines[k].target = lines[m].target => ~Accepted(lines[k])
      BY DEF FromLast
    <3>2. m \in 1 .. n /\ \A k \in m + 1 .. n : k \in m + 1 .. n - 1 \/ k = n
      BY <1>0
    <3> QED BY <1>1, <3>1, <3>2
  <2> QED BY <2>1, <2>2 DEF FromLast
<1>2. CASE Accepted(l)
  <2> DEFINE new == Insert(fs, Formula(l))
  <2>1. Reading(fs, l) = new
    BY <1>2 DEF Reading
  <2>2. ASSUME NEW i \in DOMAIN new
        PROVE  new[i] = Formula(l) \/ (i \in DOMAIN fs /\ new[i] = fs[i] /\ fs[i].target # l.target)
    <3>1. Formula(l).target = l.target
      BY <1>0
    <3>2. CASE \E j \in DOMAIN fs : fs[j].target = Formula(l).target
      BY <3>1, <3>2 DEF Insert
    <3>3. CASE ~ \E j \in DOMAIN fs : fs[j].target = Formula(l).target
      <4>1. new = Append(fs, Formula(l))
        BY <3>3 DEF Insert
      <4> QED BY <3>1, <3>3, <4>1
    <3> QED BY <3>2, <3>3
  <2> HIDE DEF new
  <2>3. ASSUME NEW i \in DOMAIN new
        PROVE  \E m \in 1 .. n :
                 /\ Formula(lines[m]) = new[i]
                 /\ \A k \in m + 1 .. n : lines[k].target = lines[m].target => ~Accepted(lines[k])
    <3>1. CASE new[i] = Formula(l)
      <4>1. n \in 1 .. n /\ n + 1 .. n = {}
        BY <1>0
      <4> QED BY <3>1, <4>1
    <3>2. CASE i \in DOMAIN fs /\ new[i] = fs[i] /\ fs[i].target # l.target
      <4>1. PICK m \in 1 .. n - 1 :
                 /\ Formula(lines[m]) = fs[i]
                 /\ \A k \in m + 1 .. n - 1 : lines[k].target = lines[m].target => ~Accepted(lines[k])
        BY <3>2 DEF FromLast
      <4>2. m \in 1 .. n /\ \A k \in m + 1 .. n : k \in m + 1 .. n - 1 \/ k = n
        BY <1>0
      <4>3. lines[m].target # l.target
        BY <1>0, <3>2, <4>1, <4>2
      <4> QED BY <3>2, <4>1, <4>2, <4>3
    <3> QED BY <2>2, <3>1, <3>2
  <2> QED BY <2>1, <2>3 DEF FromLast
<1> QED BY <1>1, <1>2

LEMMA ParsedFromLast ==
  ASSUME NEW lines \in Seq(LineType)
  PROVE  FromLast(Parsed(<<>>, lines), lines, Len(lines))
<1>1. Len(lines) \in Nat /\ \A i \in 1 .. Len(lines) : lines[i] \in LineType
  OBVIOUS
<1>2. PICK f : ReadSoFar(f, <<>>, lines, Len(lines)) /\ Parsed(<<>>, lines) = f[Len(lines)]
  BY <1>1, ParsedIs
<1> DEFINE Wrong == {i \in 0 .. Len(lines) : ~FromLast(f[i], lines, i)}
<1>3. SUFFICES ASSUME Wrong # {} PROVE FALSE
  BY <1>1, <1>2
<1>4. Wrong \in SUBSET Nat
  BY <1>1
<1>5. PICK m \in Wrong : \A i \in Wrong : m <= i
  BY <1>3, <1>4, LeastNat
<1>6. f[m] = IF m = 0 THEN <<>> ELSE Reading(f[m - 1], lines[m])
  BY <1>2, <1>5 DEF ReadSoFar
<1>7. CASE m = 0
  <2>1. f[m] = <<>>
    BY <1>6, <1>7
  <2> QED BY <1>5, <2>1 DEF FromLast
<1>8. CASE m # 0
  <2>1. m \in 1 .. Len(lines) /\ m - 1 \in 0 .. Len(lines) /\ m - 1 \notin Wrong
    BY <1>1, <1>5, <1>8
  <2>2. FromLast(f[m - 1], lines, m - 1)
    BY <2>1
  <2>3. FromLast(f[m], lines, m)
    BY <1>6, <1>8, <2>1, <2>2, ReadFromLast
  <2> QED BY <1>5, <2>3
<1> QED BY <1>7, <1>8

-----------------------------------------------------------------------------
(* Lists picked from lists: DynamicProofs has the facts. *)

Picking == INSTANCE DynamicProofs WITH
  Entry <- {}, Lists <- {}, Files <- {}, MaxList <- 0,
  file <- 0, lastboot <- 0, old <- 0, saving <- 0, result <- 0, kept <- 0

LEMMA SamePicking ==
  /\ \A I : Cardinality(I) = Picking!Cardinality(I) /\ IsFiniteSet(I) = Picking!IsFiniteSet(I)
  /\ \A I, n : Nth(I, n) = Picking!Nth(I, n)
  /\ \A s, I : Those(s, I) = Picking!Those(s, I)
<1>1. \A I : Cardinality(I) = Picking!Cardinality(I)
  BY DEF Cardinality, Picking!Cardinality, IsFiniteSet, Picking!IsFiniteSet
<1>2. \A I : IsFiniteSet(I) = Picking!IsFiniteSet(I)
  BY DEF IsFiniteSet, Picking!IsFiniteSet
<1>3. \A I, n : Nth(I, n) = Picking!Nth(I, n)
  BY <1>1 DEF Nth, Picking!Nth
<1>4. \A s, I : Those(s, I) = Picking!Those(s, I)
  BY <1>1, <1>3 DEF Those, Picking!Those
<1> QED BY <1>1, <1>2, <1>3, <1>4

LEMMA NthIs ==
  ASSUME NEW I, IsFiniteSet(I), I \subseteq Nat
  PROVE  /\ Cardinality(I) \in Nat
         /\ \A n \in 1 .. Cardinality(I) : Nth(I, n) \in I
         /\ \A m, n \in 1 .. Cardinality(I) : Nth(I, m) = Nth(I, n) => m = n
         /\ \A i \in I : \E n \in 1 .. Cardinality(I) : Nth(I, n) = i
<1>1. Picking!IsFiniteSet(I)
  BY SamePicking
<1>2. /\ \A n \in 1 .. Picking!Cardinality(I) : Picking!Nth(I, n) \in I
      /\ \A m, n \in 1 .. Picking!Cardinality(I) : Picking!Nth(I, m) = Picking!Nth(I, n) => m = n
      /\ \A i \in I : \E n \in 1 .. Picking!Cardinality(I) : Picking!Nth(I, n) = i
  BY <1>1, Picking!NthOf
<1>3. Cardinality(I) \in Nat
  BY FS_CardinalityType
<1> QED BY <1>2, <1>3, SamePicking

LEMMA ThoseIs ==
  ASSUME NEW X, NEW s \in Seq(X), NEW I, I \subseteq DOMAIN s
  PROVE  /\ Those(s, I) \in Seq(X) /\ DOMAIN Those(s, I) = 1 .. Cardinality(I)
         /\ IsFiniteSet(I) /\ I \subseteq Nat
         /\ \A n \in DOMAIN Those(s, I) : Nth(I, n) \in I /\ Those(s, I)[n] = s[Nth(I, n)]
<1>1. /\ Picking!Those(s, I) \in Seq(X)
      /\ DOMAIN Picking!Those(s, I) = 1 .. Picking!Cardinality(I)
      /\ Picking!IsFiniteSet(I)
      /\ \A n \in DOMAIN Picking!Those(s, I) :
           Picking!Nth(I, n) \in I /\ Picking!Those(s, I)[n] = s[Picking!Nth(I, n)]
  BY Picking!ThoseAre
<1>2. I \subseteq Nat
  <2>1. DOMAIN s = 1 .. Len(s)
    OBVIOUS
  <2> QED BY <2>1
<1> QED BY <1>1, <1>2, SamePicking

-----------------------------------------------------------------------------
(* Writing, and reading again *)

(* What is read of the line that is written for a formula. *)
Again(f) == Formula(LineOf(f))

LEMMA LineIsRead ==
  ASSUME NEW f \in FormulaType, Writable(f)
  PROVE  /\ LineOf(f) \in LineType /\ Accepted(LineOf(f)) /\ LineOf(f).target = f.target
         /\ Again(f).target = f.target
         /\ f.value # <<"text", "guess">> =>
              Again(f) = [f EXCEPT !.value = Translated(f.method, f.value)]
<1>1. /\ f.target \in Target /\ f.method \in {"mac", "pci", "ppn", "label"} /\ f.value \in Value
      /\ f = [target |-> f.target, method |-> f.method, value |-> f.value]
  BY DEF FormulaType, Methods
<1>2. LineOf(f) = [target |-> f.target, method |-> f.method, value |-> f.value, quoted |-> TRUE]
  BY DEF LineOf
<1>3. LineOf(f) \in LineType
  BY <1>1, <1>2 DEF LineType, Methods
<1>4. Accepted(LineOf(f))
  BY <1>1, <1>2 DEF Accepted, Writable
<1>5. Again(f).target = f.target
  BY <1>2 DEF Again, Formula
<1>6. ASSUME f.value # <<"text", "guess">>
      PROVE  Again(f) = [f EXCEPT !.value = Translated(f.method, f.value)]
  <2>1. ValueOf(LineOf(f)) = f.value
    BY <1>2, <1>6 DEF ValueOf
  <2>2. MethodOf(LineOf(f)) = f.method
    BY <1>1, <1>2 DEF MethodOf
  <2>3. Again(f) = [target |-> f.target, method |-> f.method, value |-> Translated(f.method, f.value)]
    BY <1>2, <2>1, <2>2 DEF Again, Formula
  <2> QED BY <1>1, <2>3
<1> QED BY <1>2, <1>3, <1>4, <1>5, <1>6

(* The lines of write(): one for each formula it lets through, and none    *)
(* else.                                                                   *)
LEMMA WrittenAre ==
  ASSUME NEW fs, Keyed(fs)
  PROVE  /\ Written(fs) \in Seq(LineType)
         /\ \A n \in 1 .. Len(Written(fs)) : Accepted(Written(fs)[n])
         /\ \A m, n \in 1 .. Len(Written(fs)) : Written(fs)[m].target = Written(fs)[n].target => m = n
         /\ \A n \in 1 .. Len(Written(fs)) : \E i \in DOMAIN fs : Writable(fs[i]) /\ Written(fs)[n] = LineOf(fs[i])
         /\ \A i \in DOMAIN fs : Writable(fs[i]) => \E n \in 1 .. Len(Written(fs)) : Written(fs)[n] = LineOf(fs[i])
<1> DEFINE kept == {i \in DOMAIN fs : Writable(fs[i])}
           keys == {fs[i].target : i \in kept}
           N == Cardinality(keys)
           at(n) == CHOOSE i \in kept : fs[i].target = Nth(keys, n)
           w == Written(fs)
<1>1. DOMAIN fs = 1 .. Len(fs) /\ Len(fs) \in Nat /\ \A i \in DOMAIN fs : fs[i] \in FormulaType
  BY DEF Keyed
<1>2. w = [n \in 1 .. N |-> LineOf(fs[at(n)])]
  BY DEF Written
<1>3. IsFiniteSet(keys) /\ keys \subseteq Nat
  <2>1. IsFiniteSet(DOMAIN fs)
    BY <1>1, FS_Interval
  <2>2. IsFiniteSet(kept)
    BY <2>1, FS_Subset
  <2> DEFINE t == [i \in kept |-> fs[i].target]
  <2>3. t \in Surjection(kept, keys)
    BY DEF Surjection
  <2>4. keys \subseteq Nat
    BY <1>1, StaticRulesAssumption DEF FormulaType
  <2> HIDE DEF t, kept, keys
  <2> QED BY <2>2, <2>3, <2>4, FS_Surjection
<1> HIDE DEF w
<1>4. /\ N \in Nat /\ \A n \in 1 .. N : Nth(keys, n) \in keys
      /\ \A m, n \in 1 .. N : Nth(keys, m) = Nth(keys, n) => m = n
      /\ \A k \in keys : \E n \in 1 .. N : Nth(keys, n) = k
  <2> HIDE DEF keys
  <2> QED BY <1>3, NthIs
<1>5. ASSUME NEW n \in 1 .. N PROVE at(n) \in kept /\ fs[at(n)].target = Nth(keys, n)
  <2>1. \A x \in keys : \E i \in kept : fs[i].target = x
    OBVIOUS
  <2> HIDE DEF keys
  <2>2. \E i \in kept : fs[i].target = Nth(keys, n)
    BY <1>4, <2>1
  <2> QED BY <2>2
<1> HIDE DEF at, N
<1>6. Len(w) = N /\ DOMAIN w = 1 .. N /\ \A n \in 1 .. N : w[n] = LineOf(fs[at(n)])
  BY <1>2, <1>4
<1>7. ASSUME NEW n \in 1 .. N
      PROVE  w[n] \in LineType /\ Accepted(w[n]) /\ w[n].target = Nth(keys, n)
             /\ \E i \in DOMAIN fs : Writable(fs[i]) /\ w[n] = LineOf(fs[i])
  <2>1. at(n) \in DOMAIN fs /\ Writable(fs[at(n)]) /\ fs[at(n)].target = Nth(keys, n)
    BY <1>5
  <2> HIDE DEF keys, kept
  <2> QED BY <1>1, <1>6, <2>1, LineIsRead
<1>8. ASSUME NEW i \in DOMAIN fs, Writable(fs[i]) PROVE \E n \in 1 .. N : w[n] = LineOf(fs[i])
  <2>1. fs[i].target \in keys
    BY <1>8
  <2>2. PICK n \in 1 .. N : Nth(keys, n) = fs[i].target
    BY <1>4, <2>1
  <2>3. at(n) \in DOMAIN fs /\ fs[at(n)].target = fs[i].target
    BY <1>5, <2>2
  <2>4. at(n) = i
    BY <2>3 DEF Keyed, OneEach
  <2> QED BY <1>6, <2>4
<1>9. w \in Seq(LineType)
  <2>1. w \in [1 .. N -> LineType]
    <3>1. w = [n \in 1 .. N |-> w[n]]
      BY <1>2, <1>6
    <3>2. \A n \in 1 .. N : w[n] \in LineType
      BY <1>7
    <3> HIDE DEF kept, keys
    <3> QED BY <3>1, <3>2
  <2>2. N \in Nat
    BY <1>4
  <2> QED BY <2>1, <2>2
<1> HIDE DEF kept, keys
<1>10. ASSUME NEW m \in 1 .. N, NEW n \in 1 .. N, w[m].target = w[n].target
       PROVE  m = n
  <2>1. Nth(keys, m) = Nth(keys, n)
    BY <1>7, <1>10
  <2> QED BY <1>4, <2>1
<1>11. /\ w \in Seq(LineType)
       /\ \A n \in 1 .. Len(w) : Accepted(w[n])
       /\ \A m, n \in 1 .. Len(w) : w[m].target = w[n].target => m = n
       /\ \A n \in 1 .. Len(w) : \E i \in DOMAIN fs : Writable(fs[i]) /\ w[n] = LineOf(fs[i])
       /\ \A i \in DOMAIN fs : Writable(fs[i]) => \E n \in 1 .. Len(w) : w[n] = LineOf(fs[i])
  BY <1>6, <1>7, <1>8, <1>9, <1>10
<1> QED BY <1>11 DEF w

(* Usable lines with distinct targets are all read, in their order. *)
LEMMA DistinctAreRead ==
  ASSUME NEW lines \in Seq(LineType),
         \A n \in 1 .. Len(lines) : Accepted(lines[n]),
         \A m, n \in 1 .. Len(lines) : lines[m].target = lines[n].target => m = n
  PROVE  /\ DOMAIN Parsed(<<>>, lines) = 1 .. Len(lines)
         /\ \A n \in 1 .. Len(lines) : Parsed(<<>>, lines)[n] = Formula(lines[n])
<1> DEFINE All(fs, n) == fs = [i \in 1 .. n |-> Formula(lines[i])]
<1>1. Len(lines) \in Nat /\ \A i \in 1 .. Len(lines) : lines[i] \in LineType
  OBVIOUS
<1>2. PICK f : ReadSoFar(f, <<>>, lines, Len(lines)) /\ Parsed(<<>>, lines) = f[Len(lines)]
  BY <1>1, ParsedIs
<1> DEFINE Wrong == {i \in 0 .. Len(lines) : ~All(f[i], i)}
<1>3. SUFFICES ASSUME Wrong # {} PROVE FALSE
  BY <1>1, <1>2
<1>4. Wrong \in SUBSET Nat
  BY <1>1
<1>5. PICK m \in Wrong : \A i \in Wrong : m <= i
  BY <1>3, <1>4, LeastNat
<1>6. f[m] = IF m = 0 THEN <<>> ELSE Reading(f[m - 1], lines[m])
  BY <1>2, <1>5 DEF ReadSoFar
<1>7. CASE m = 0
  <2>1. f[m] = <<>> /\ <<>> = [i \in 1 .. 0 |-> Formula(lines[i])]
    BY <1>6, <1>7
  <2> QED BY <1>5, <1>7, <2>1
<1>8. CASE m # 0
  <2>1. m \in 1 .. Len(lines) /\ m - 1 \in 0 .. Len(lines) /\ m - 1 \notin Wrong
    BY <1>1, <1>5, <1>8
  <2> DEFINE old == f[m - 1]
             new == Formula(lines[m])
  <2>2. old = [i \in 1 .. m - 1 |-> Formula(lines[i])]
    BY <2>1
  <2>3. ASSUME NEW i \in DOMAIN old PROVE old[i].target # new.target
    <3>1. i \in 1 .. m - 1 /\ old[i] = Formula(lines[i])
      BY <2>2
    <3>2. i \in 1 .. Len(lines) /\ i # m
      BY <1>1, <2>1, <3>1
    <3> QED BY <2>1, <3>1, <3>2 DEF Formula
  <2> HIDE DEF old, new
  <2>4. f[m] = Append(old, new)
    BY <1>6, <1>8, <2>1, <2>3 DEF Reading, Insert, old, new
  <2>5. old \in Seq({Formula(lines[i]) : i \in 1 .. m - 1}) /\ Len(old) = m - 1
    BY <1>1, <2>1, <2>2
  <2>6. Append(old, new) = [i \in 1 .. m |-> Formula(lines[i])]
    <3>1. DOMAIN Append(old, new) = 1 .. m
      BY <1>1, <2>1, <2>5
    <3>2. ASSUME NEW i \in 1 .. m PROVE Append(old, new)[i] = Formula(lines[i])
      BY <1>1, <2>1, <2>2, <2>5 DEF new
    <3>4. PICK X : Append(old, new) \in Seq(X)
      <4> DEFINE Y == {Formula(lines[i]) : i \in 1 .. m - 1} \cup {new}
      <4>1. old \in Seq(Y) /\ new \in Y
        BY <2>5
      <4> HIDE DEF Y
      <4>2. Append(old, new) \in Seq(Y)
        BY <4>1
      <4> QED BY <4>2
    <3>5. ASSUME NEW s \in Seq(X) PROVE s = [i \in DOMAIN s |-> s[i]]
      OBVIOUS
    <3>3. Append(old, new) = [i \in DOMAIN Append(old, new) |-> Append(old, new)[i]]
      BY <3>4, <3>5, Zenon
    <3> QED BY <3>1, <3>2, <3>3
  <2> QED BY <1>5, <2>4, <2>6
<1> QED BY <1>7, <1>8

(* So what is written of formulae is what is read again. *)
LEMMA WrittenIsRead ==
  ASSUME NEW fs, Keyed(fs)
  PROVE  LET again == Parsed(<<>>, Written(fs)) IN
         /\ \A f \in Kept(fs) : f.value # <<"text", "guess">> => f \in Range(again)
         /\ Targets(again) = {f.target : f \in Kept(fs)}
<1> DEFINE w == Written(fs)
           again == Parsed(<<>>, w)
<1>1. /\ DOMAIN again = 1 .. Len(w)
      /\ \A n \in 1 .. Len(w) : again[n] = Formula(w[n])
  BY WrittenAre, DistinctAreRead
<1>2. \A n \in 1 .. Len(w) : \E i \in DOMAIN fs : Writable(fs[i]) /\ w[n] = LineOf(fs[i])
  BY WrittenAre
<1>3. \A i \in DOMAIN fs : Writable(fs[i]) => \E n \in 1 .. Len(w) : w[n] = LineOf(fs[i])
  BY WrittenAre
<1> HIDE DEF w
<1>4. \A i \in DOMAIN fs : fs[i] \in FormulaType
  BY DEF Keyed
<1>5. ASSUME NEW f \in Kept(fs), f.value # <<"text", "guess">> PROVE f \in Range(again)
  <2>1. PICK i \in DOMAIN fs : Writable(fs[i]) /\ f = [fs[i] EXCEPT !.value = Translated(fs[i].method, fs[i].value)]
    BY DEF Kept, Range
  <2>2. fs[i].value # <<"text", "guess">>
    <3>1. ASSUME fs[i].value = <<"text", "guess">> PROVE FALSE
      <4>1. Translated(fs[i].method, fs[i].value) = <<"text", "guess">>
        BY <3>1 DEF Translated, Shape
      <4> QED BY <1>4, <1>5, <2>1, <4>1 DEF FormulaType
    <3> QED BY <3>1
  <2>3. Again(fs[i]) = f
    BY <1>4, <2>1, <2>2, LineIsRead
  <2>4. PICK n \in 1 .. Len(w) : w[n] = LineOf(fs[i])
    BY <1>3, <2>1
  <2>5. again[n] = f
    BY <1>1, <2>3, <2>4 DEF Again
  <2> QED BY <1>1, <2>5 DEF Range
<1>6. \A i \in DOMAIN fs : Writable(fs[i]) =>
        Again(fs[i]).target = fs[i].target
        /\ [fs[i] EXCEPT !.value = Translated(fs[i].method, fs[i].value)].target = fs[i].target
  BY <1>4, LineIsRead DEF FormulaType
<1>7. ASSUME NEW t \in Targets(again) PROVE t \in {f.target : f \in Kept(fs)}
  <2>1. PICK n \in 1 .. Len(w) : t = again[n].target
    BY <1>1 DEF Targets
  <2>2. PICK i \in DOMAIN fs : Writable(fs[i]) /\ w[n] = LineOf(fs[i])
    BY <1>2
  <2>3. t = fs[i].target
    BY <1>1, <1>6, <2>1, <2>2 DEF Again
  <2>4. [fs[i] EXCEPT !.value = Translated(fs[i].method, fs[i].value)] \in Kept(fs)
    BY <2>2 DEF Kept, Range
  <2> QED BY <1>6, <2>2, <2>3, <2>4
<1>8. ASSUME NEW f \in Kept(fs) PROVE f.target \in Targets(again)
  <2>1. PICK i \in DOMAIN fs : Writable(fs[i]) /\ f = [fs[i] EXCEPT !.value = Translated(fs[i].method, fs[i].value)]
    BY DEF Kept, Range
  <2>2. PICK n \in 1 .. Len(w) : w[n] = LineOf(fs[i])
    BY <1>3, <2>1
  <2>3. again[n].target = f.target
    BY <1>1, <1>6, <2>1, <2>2 DEF Again
  <2> QED BY <1>1, <2>3 DEF Targets
<1> QED BY <1>5, <1>7, <1>8 DEF w

-----------------------------------------------------------------------------
(* Making rules *)

LEMMA NicsAre ==
  ASSUME NEW nics \in States
  PROVE  /\ nics \in Seq(Range(nics)) /\ DOMAIN nics = 1 .. Len(nics) /\ Len(nics) \in Nat
         /\ IsFiniteSet(DOMAIN nics)
         /\ \A i \in DOMAIN nics : nics[i].mac \in Nat /\ nics[i] \in Range(nics)
<1>1. nics \in Seq(Range(nics)) /\ \A nic \in Range(nics) : nic.mac \in Nat
  BY StaticRulesAssumption
<1>2. DOMAIN nics = 1 .. Len(nics) /\ Len(nics) \in Nat
  BY <1>1
<1>3. IsFiniteSet(1 .. Len(nics))
  BY <1>2, FS_Interval
<1> QED BY <1>1, <1>2, <1>3 DEF Range

LEMMA FirstIs ==
  ASSUME NEW nics \in States, NEW I \in SUBSET DOMAIN nics, NEW n \in First(nics, I)
  PROVE  \E i \in I : n = nics[i]
<1>1. I # {}
  BY DEF First
<1>2. I \in SUBSET Nat
  BY NicsAre
<1>3. \E i \in I : \A j \in I : i <= j
  BY <1>1, <1>2, LeastNat
<1> QED BY <1>1, <1>3 DEF First

(* A formula picks nics the machine has. *)
LEMMA PickedAre ==
  ASSUME NEW nics \in States, NEW f \in FormulaType, NEW n \in Picked(f, nics)
  PROVE  \E i \in DOMAIN nics : n = nics[i]
<1>1. f.method \in {"mac", "ppn", "pci", "label"}
  BY DEF FormulaType, Methods
<1>2. CASE f.method = "pci"
  BY <1>2 DEF Picked, AtIndex
<1>3. ASSUME f.method # "pci" PROVE \E I \in SUBSET DOMAIN nics : n \in First(nics, I)
  <2>1. CASE f.method = "mac"
    <3> DEFINE I == {i \in DOMAIN nics : <<"mac", nics[i].mac>> = f.value}
    <3>1. n \in First(nics, I)
      BY <2>1 DEF Picked
    <3>2. I \in SUBSET DOMAIN nics
      OBVIOUS
    <3> HIDE DEF I
    <3> QED BY <3>1, <3>2
  <2>2. CASE f.method = "ppn"
    <3> DEFINE I == {i \in DOMAIN nics : <<"ppn", nics[i].ppn>> = f.value}
    <3>1. n \in First(nics, I)
      BY <2>2 DEF Picked
    <3>2. I \in SUBSET DOMAIN nics
      OBVIOUS
    <3> HIDE DEF I
    <3> QED BY <3>1, <3>2
  <2>3. CASE f.method = "label"
    <3> DEFINE I == {i \in DOMAIN nics : <<"text", nics[i].label>> = f.value}
    <3>1. n \in First(nics, I)
      BY <2>3 DEF Picked
    <3>2. I \in SUBSET DOMAIN nics
      OBVIOUS
    <3> HIDE DEF I
    <3> QED BY <3>1, <3>2
  <2> QED BY <1>1, <1>3, <2>1, <2>2, <2>3
<1>4. CASE f.method # "pci"
  BY <1>3, <1>4, FirstIs
<1> QED BY <1>2, <1>4

(* The rules one generate() adds. *)
AllNics == UNION {Range(nics) : nics \in States}
Rule == [mac : {n.mac : n \in AllNics}, pci : {n.pci : n \in AllNics}, tname : Target]

LEMMA MadeAre ==
  ASSUME Keyed(formulae), NEW nics \in States
  PROVE  /\ Made(formulae, nics) \in Seq(Rule)
         /\ \A i \in DOMAIN Made(formulae, nics) : \E k \in DOMAIN formulae : \E n \in Picked(formulae[k], nics) :
              Made(formulae, nics)[i] = RuleOf(formulae[k], n)
         /\ \A i, j \in DOMAIN Made(formulae, nics) : Made(formulae, nics)[i].tname = Made(formulae, nics)[j].tname => i = j
<1> DEFINE I == PickedBy(formulae, nics)
           made == Those(formulae, I)
           new == Made(formulae, nics)
<1>0. formulae \in Seq(FormulaType) /\ \A k \in DOMAIN formulae : formulae[k] \in FormulaType
  BY DEF Keyed
<1>1. I \subseteq DOMAIN formulae /\ \A k \in I : Picked(formulae[k], nics) # {}
  BY DEF PickedBy
<1> HIDE DEF I
<1>2. /\ DOMAIN made = 1 .. Cardinality(I) /\ IsFiniteSet(I) /\ I \subseteq Nat
      /\ \A n \in DOMAIN made : Nth(I, n) \in I /\ made[n] = formulae[Nth(I, n)]
  BY <1>0, <1>1, ThoseIs
<1>3. Cardinality(I) \in Nat /\ \A m, n \in 1 .. Cardinality(I) : Nth(I, m) = Nth(I, n) => m = n
  BY <1>2, NthIs
<1>4. new = [i \in DOMAIN made |-> RuleOf(made[i], CHOOSE n \in Picked(made[i], nics) : TRUE)]
  BY DEF Made, I
<1> HIDE DEF made, new
<1>5. ASSUME NEW i \in 1 .. Cardinality(I)
      PROVE  /\ Nth(I, i) \in DOMAIN formulae /\ new[i].tname = formulae[Nth(I, i)].target
             /\ \E n \in Picked(formulae[Nth(I, i)], nics) : new[i] = RuleOf(formulae[Nth(I, i)], n)
  <2> DEFINE k == Nth(I, i)
             n == CHOOSE x \in Picked(formulae[k], nics) : TRUE
  <2>1. k \in I /\ made[i] = formulae[k] /\ k \in DOMAIN formulae
    BY <1>1, <1>2
  <2>2. n \in Picked(formulae[k], nics)
    BY <1>1, <2>1
  <2>3. new[i] = RuleOf(formulae[k], n)
    BY <1>2, <1>4, <2>1
  <2> HIDE DEF k, n
  <2>4. new[i].tname = formulae[k].target
    BY <2>3 DEF RuleOf
  <2> QED BY <2>1, <2>2, <2>3, <2>4 DEF k
<1>6. DOMAIN new = 1 .. Cardinality(I)
  BY <1>2, <1>4
<1>7. ASSUME NEW i \in 1 .. Cardinality(I) PROVE new[i] \in Rule
  <2>1. PICK n \in Picked(formulae[Nth(I, i)], nics) : new[i] = RuleOf(formulae[Nth(I, i)], n)
    BY <1>5
  <2>2. formulae[Nth(I, i)] \in FormulaType
    BY <1>0, <1>5
  <2>3. PICK j \in DOMAIN nics : n = nics[j]
    BY <2>1, <2>2, PickedAre
  <2>4. n \in AllNics
    BY <2>3, NicsAre DEF AllNics
  <2> QED BY <2>1, <2>2, <2>4 DEF RuleOf, Rule, FormulaType
<1>8. new \in Seq(Rule)
  <2>1. new = [i \in 1 .. Cardinality(I) |-> new[i]]
    BY <1>4, <1>6
  <2>2. new \in [1 .. Cardinality(I) -> Rule]
    BY <1>7, <2>1
  <2> QED BY <1>3, <2>2
<1>9. ASSUME NEW i \in 1 .. Cardinality(I), NEW j \in 1 .. Cardinality(I), new[i].tname = new[j].tname
      PROVE  i = j
  <2>1. formulae[Nth(I, i)].target = formulae[Nth(I, j)].target
    BY <1>5, <1>9
  <2>2. Nth(I, i) = Nth(I, j)
    BY <1>5, <2>1 DEF Keyed, OneEach
  <2> QED BY <1>3, <2>2
<1> QED BY <1>5, <1>6, <1>8, <1>9 DEF new

(* The nic at a larger index of a function has a larger MAC. *)
LEMMA IndexesAreByMac ==
  ASSUME NEW nics \in States, ToldApart(nics), NEW p, NEW d, NEW e, d < e,
         NEW a \in AtIndex(nics, p, d), NEW b \in AtIndex(nics, p, e)
  PROVE  a.mac < b.mac
<1>1. PICK i \in DOMAIN nics : a = nics[i] /\ Cardinality(Before(nics, p, i)) = d
  BY DEF AtIndex
<1>2. PICK j \in DOMAIN nics : b = nics[j] /\ Cardinality(Before(nics, p, j)) = e
  BY DEF AtIndex
<1>3. a.mac \in Nat /\ b.mac \in Nat /\ \A l \in DOMAIN nics : nics[l].mac \in Nat /\ l \in Nat
  BY <1>1, <1>2, NicsAre
<1>4. ASSUME b.mac <= a.mac PROVE FALSE
  <2>1. Before(nics, p, j) \subseteq Before(nics, p, i)
    BY <1>1, <1>2, <1>3, <1>4 DEF Before, ToldApart
  <2>2. Before(nics, p, i) \in SUBSET DOMAIN nics
    BY DEF Before
  <2>3. IsFiniteSet(Before(nics, p, i))
    BY <2>2, NicsAre, FS_Subset
  <2>4. /\ Cardinality(Before(nics, p, j)) <= Cardinality(Before(nics, p, i))
        /\ IsFiniteSet(Before(nics, p, j))
    BY <2>1, <2>3, FS_Subset
  <2>5. d \in Nat /\ e \in Nat
    BY <1>1, <1>2, <2>3, <2>4, FS_CardinalityType
  <2> QED BY <1>1, <1>2, <2>4, <2>5
<1> QED BY <1>3, <1>4

LEMMA MadeByMac ==
  ASSUME Keyed(formulae), NEW nics \in States, ToldApart(nics),
         NEW f \in Range(formulae), NEW g \in Range(formulae)
  PROVE  ByMac(f, g, Made(formulae, nics))
<1>1. ASSUME NEW h \in Range(formulae), NEW r \in Range(Made(formulae, nics)), r.tname = h.target
      PROVE  \E n \in Picked(h, nics) : r = RuleOf(h, n)
  <2>1. PICK k \in DOMAIN formulae : h = formulae[k]
    BY DEF Range
  <2>2. PICK i \in DOMAIN Made(formulae, nics) : r = Made(formulae, nics)[i]
    BY DEF Range
  <2>3. PICK l \in DOMAIN formulae : \E n \in Picked(formulae[l], nics) : r = RuleOf(formulae[l], n)
    BY <2>2, MadeAre
  <2>4. formulae[l].target = formulae[k].target
    BY <1>1, <2>1, <2>3 DEF RuleOf
  <2>5. l = k
    BY <2>4 DEF Keyed, OneEach
  <2> QED BY <2>1, <2>3, <2>5
<1>2. SUFFICES ASSUME NEW r \in Range(Made(formulae, nics)), NEW s \in Range(Made(formulae, nics)),
                      f.method = "pci", g.method = "pci", Shape(f.value) = "pci", Shape(g.value) = "pci",
                      f.value[2] = g.value[2], f.value[3] < g.value[3],
                      r.tname = f.target, s.tname = g.target
               PROVE  r.mac < s.mac
  BY DEF ByMac
<1>3. PICK a \in Picked(f, nics) : r = RuleOf(f, a)
  BY <1>1, <1>2
<1>4. PICK b \in Picked(g, nics) : s = RuleOf(g, b)
  BY <1>1, <1>2
<1>5. a \in AtIndex(nics, f.value[2], f.value[3]) /\ b \in AtIndex(nics, f.value[2], g.value[3])
  BY <1>2, <1>3, <1>4 DEF Picked
<1>6. a.mac < b.mac
  BY <1>2, <1>5, IndexesAreByMac
<1> QED BY <1>3, <1>4, <1>6 DEF RuleOf

-----------------------------------------------------------------------------
(* The nics in another order *)

(* The first of the nics at one place. *)
LEMMA FirstOfOne ==
  ASSUME NEW nics, DOMAIN nics \subseteq Nat, NEW k \in DOMAIN nics
  PROVE  First(nics, {k}) = {nics[k]}
<1>1. k \in Nat
  OBVIOUS
<1>2. (CHOOSE i \in {k} : \A j \in {k} : i <= j) = k
  BY <1>1
<1> QED BY <1>2 DEF First

(* What a permutation of the places is. *)
LEMMA RelistedIs ==
  ASSUME NEW nics \in States, NEW p \in Bijection(DOMAIN nics, DOMAIN nics)
  PROVE  /\ DOMAIN Relisted(nics, p) = DOMAIN nics /\ DOMAIN nics \subseteq Nat
         /\ \A i \in DOMAIN nics : p[i] \in DOMAIN nics /\ Relisted(nics, p)[i] = nics[p[i]]
         /\ \A i, j \in DOMAIN nics : p[i] = p[j] => i = j
         /\ \A j \in DOMAIN nics : \E i \in DOMAIN nics : p[i] = j
         /\ ToldApart(nics) => ToldApart(Relisted(nics, p))
<1>1. p \in Injection(DOMAIN nics, DOMAIN nics) /\ p \in Surjection(DOMAIN nics, DOMAIN nics)
  BY DEF Bijection
<1>2. /\ p \in [DOMAIN nics -> DOMAIN nics]
      /\ \A i, j \in DOMAIN nics : p[i] = p[j] => i = j
      /\ \A j \in DOMAIN nics : \E i \in DOMAIN nics : p[i] = j
  BY <1>1 DEF Injection, Surjection, IsInjective
<1>3. DOMAIN Relisted(nics, p) = DOMAIN nics /\ \A i \in DOMAIN nics : Relisted(nics, p)[i] = nics[p[i]]
  BY DEF Relisted
<1>4. DOMAIN nics \subseteq Nat
  BY NicsAre
<1>5. ASSUME ToldApart(nics) PROVE ToldApart(Relisted(nics, p))
  BY <1>2, <1>3, <1>5 DEF ToldApart
<1> QED BY <1>2, <1>3, <1>4, <1>5

(* A test that one nic passes at most finds the same nic in any order. *)
LEMMA FirstRelisted ==
  ASSUME NEW nics \in States, NEW p \in Bijection(DOMAIN nics, DOMAIN nics),
         NEW I, I \subseteq DOMAIN nics, NEW J, J \subseteq DOMAIN nics,
         \A i \in DOMAIN nics : i \in J <=> p[i] \in I,
         \A i, j \in I : i = j
  PROVE  First(Relisted(nics, p), J) = First(nics, I)
<1> DEFINE other == Relisted(nics, p)
<1>1. DOMAIN other = DOMAIN nics /\ DOMAIN nics \subseteq Nat
  BY RelistedIs
<1>2. \A i \in DOMAIN nics : p[i] \in DOMAIN nics /\ other[i] = nics[p[i]]
  BY RelistedIs
<1>3. \A i, j \in DOMAIN nics : p[i] = p[j] => i = j
  BY RelistedIs
<1>4. \A j \in DOMAIN nics : \E i \in DOMAIN nics : p[i] = j
  BY RelistedIs
<1> HIDE DEF other
<1>5. CASE I = {}
  <2>1. J = {}
    BY <1>5
  <2> QED BY <1>5, <2>1 DEF First, other
<1>6. ASSUME NEW k \in I PROVE First(other, J) = First(nics, I)
  <2>1. I = {k} /\ k \in DOMAIN nics
    OBVIOUS
  <2>2. PICK i \in DOMAIN nics : p[i] = k
    BY <1>4, <2>1
  <2>3. J = {i}
    BY <1>3, <2>1, <2>2
  <2>4. First(nics, {k}) = {nics[k]}
    BY <1>1, <2>1, FirstOfOne
  <2>5. First(other, {i}) = {other[i]}
    BY <1>1, FirstOfOne
  <2> QED BY <1>2, <2>1, <2>2, <2>3, <2>4, <2>5
<1> QED BY <1>5, <1>6 DEF other

(* As many nics of a function have smaller MACs, in any order. *)
LEMMA AtIndexRelisted ==
  ASSUME NEW nics \in States, ToldApart(nics), NEW p \in Bijection(DOMAIN nics, DOMAIN nics),
         NEW fn, NEW index
  PROVE  AtIndex(Relisted(nics, p), fn, index) = AtIndex(nics, fn, index)
<1> DEFINE D == DOMAIN nics
           other == Relisted(nics, p)
<1>1. /\ DOMAIN other = D /\ D \subseteq Nat
      /\ \A i \in D : p[i] \in D /\ other[i] = nics[p[i]]
      /\ \A i, j \in D : p[i] = p[j] => i = j
  BY RelistedIs
<1>2. /\ \A j \in D : \E i \in D : p[i] = j
       /\ ToldApart(nics) /\ ToldApart(other)
  BY RelistedIs
<1>3. \A i \in D : nics[i].mac \in Nat /\ other[i].mac \in Nat
  BY <1>1, NicsAre
<1>4. IsFiniteSet(D)
  BY NicsAre
<1> HIDE DEF D, other
<1>5. ASSUME NEW j \in D
      PROVE  /\ Before(other, fn, j) = {l \in D : other[l].pci = fn /\ other[l].mac < other[j].mac}
             /\ Before(nics, fn, j) = {l \in D : nics[l].pci = fn /\ nics[l].mac < nics[j].mac}
  <2>1. \A l \in D : other[l].mac = other[j].mac => l = j
    BY <1>1, <1>2 DEF ToldApart
  <2>2. \A l \in D : nics[l].mac = nics[j].mac => l = j
    BY <1>2 DEF ToldApart, D
  <2>3. j \in Nat /\ ~(j < j)
    BY <1>1
  <2>4. Before(other, fn, j) = {l \in D : other[l].pci = fn /\ other[l].mac < other[j].mac}
    <3>1. DOMAIN other = D
      BY <1>1
    <3>2. \A l \in D : ~(other[l].mac = other[j].mac /\ l < j)
      BY <2>1, <2>3
    <3> QED BY <3>1, <3>2 DEF Before
  <2>5. Before(nics, fn, j) = {l \in D : nics[l].pci = fn /\ nics[l].mac < nics[j].mac}
    BY <2>2, <2>3 DEF Before, D
  <2> QED BY <2>4, <2>5
<1>6. ASSUME NEW j \in D
      PROVE  Cardinality(Before(other, fn, j)) = Cardinality(Before(nics, fn, p[j]))
  <2> DEFINE A == Before(other, fn, j)
             B == Before(nics, fn, p[j])
             q == [l \in A |-> p[l]]
  <2>1. p[j] \in D
    BY <1>1
  <2>2. A = {l \in D : other[l].pci = fn /\ other[l].mac < other[j].mac}
    BY <1>5
  <2>3. B = {l \in D : nics[l].pci = fn /\ nics[l].mac < nics[p[j]].mac}
    BY <1>5, <2>1
  <2> HIDE DEF A, B
  <2>4. A \subseteq D /\ B \subseteq D
    BY <2>2, <2>3
  <2>5. ASSUME NEW l \in D PROVE l \in A <=> p[l] \in B
    BY <1>1, <2>2, <2>3
  <2>6. q \in [A -> B] /\ \A l, m \in A : q[l] = q[m] => l = m
    BY <1>1, <2>5, <2>4
  <2>7. ASSUME NEW m \in B PROVE \E l \in A : q[l] = m
    <3>1. PICK l \in D : p[l] = m
      BY <1>2, <2>4
    <3> QED BY <2>5, <3>1
  <2>8. q \in Bijection(A, B)
    BY <2>6, <2>7 DEF Bijection, Injection, Surjection, IsInjective
  <2> HIDE DEF q
  <2>9. ExistsBijection(A, B)
    BY <2>8 DEF ExistsBijection
  <2>10. IsFiniteSet(A)
    BY <1>4, <2>4, FS_Subset
  <2>11. Cardinality(A) = Cardinality(B)
    BY <2>9, <2>10, FS_Bijection
  <2> QED BY <2>11 DEF A, B
<1>7. /\ AtIndex(other, fn, index)
         = {other[i] : i \in {j \in D : other[j].pci = fn /\ Cardinality(Before(other, fn, j)) = index}}
      /\ AtIndex(nics, fn, index)
         = {nics[i] : i \in {j \in D : nics[j].pci = fn /\ Cardinality(Before(nics, fn, j)) = index}}
  BY <1>1 DEF AtIndex, D
<1>8. ASSUME NEW n \in AtIndex(other, fn, index) PROVE n \in AtIndex(nics, fn, index)
  <2>1. PICK i \in D : n = other[i] /\ other[i].pci = fn /\ Cardinality(Before(other, fn, i)) = index
    BY <1>7, <1>8
  <2>2. p[i] \in D /\ n = nics[p[i]] /\ nics[p[i]].pci = fn /\ Cardinality(Before(nics, fn, p[i])) = index
    BY <1>1, <1>6, <2>1
  <2> QED BY <1>7, <2>2
<1>9. ASSUME NEW n \in AtIndex(nics, fn, index) PROVE n \in AtIndex(other, fn, index)
  <2>1. PICK k \in D : n = nics[k] /\ nics[k].pci = fn /\ Cardinality(Before(nics, fn, k)) = index
    BY <1>7, <1>9
  <2>2. PICK i \in D : p[i] = k
    BY <1>2, <2>1
  <2>3. n = other[i] /\ other[i].pci = fn /\ Cardinality(Before(other, fn, i)) = index
    BY <1>1, <1>6, <2>1, <2>2
  <2> QED BY <1>7, <2>3
<1>10. AtIndex(other, fn, index) = AtIndex(nics, fn, index)
  BY <1>8, <1>9
<1> QED BY <1>10 DEF other

LEMMA QuirksRelisted ==
  ASSUME NEW nics \in States, NEW p \in Bijection(DOMAIN nics, DOMAIN nics)
  PROVE  Quirks(Relisted(nics, p)) <=> Quirks(nics)
<1> DEFINE other == Relisted(nics, p)
<1>1. /\ DOMAIN other = DOMAIN nics
      /\ \A i \in DOMAIN nics : p[i] \in DOMAIN nics /\ other[i] = nics[p[i]]
      /\ \A i, j \in DOMAIN nics : p[i] = p[j] => i = j
  BY RelistedIs
<1>2. \A j \in DOMAIN nics : \E i \in DOMAIN nics : p[i] = j
  BY RelistedIs
<1> HIDE DEF other
<1>3. ASSUME Quirks(other) PROVE Quirks(nics)
  BY <1>1, <1>3 DEF Quirks
<1>4. ASSUME Quirks(nics) PROVE Quirks(other)
  <2>1. PICK k \in DOMAIN nics, l \in DOMAIN nics :
          k # l /\ nics[k].ppn # None /\ nics[k].ppn = nics[l].ppn
    BY <1>4 DEF Quirks
  <2>2. PICK i \in DOMAIN nics : p[i] = k
    BY <1>2
  <2>3. PICK j \in DOMAIN nics : p[j] = l
    BY <1>2
  <2>4. i # j /\ other[i].ppn # None /\ other[i].ppn = other[j].ppn
    BY <1>1, <2>1, <2>2, <2>3
  <2> QED BY <1>1, <2>4 DEF Quirks
<1> QED BY <1>3, <1>4 DEF other

(* A formula picks the same nic in any order. *)
LEMMA PickedRelisted ==
  ASSUME NEW nics \in States, ToldApart(nics), NEW p \in Bijection(DOMAIN nics, DOMAIN nics),
         NEW f \in FormulaType
  PROVE  Picked(f, Relisted(nics, p)) = Picked(f, nics)
<1> DEFINE other == Relisted(nics, p)
<1>1. /\ DOMAIN other = DOMAIN nics
      /\ \A i \in DOMAIN nics : p[i] \in DOMAIN nics /\ other[i] = nics[p[i]]
  BY RelistedIs
<1>2. f.method \in {"mac", "ppn", "pci", "label"} /\ f.value \in Value
  BY DEF FormulaType, Methods
<1> HIDE DEF other
<1>3. CASE f.method = "mac"
  <2> DEFINE I == {i \in DOMAIN nics : <<"mac", nics[i].mac>> = f.value}
             J == {i \in DOMAIN other : <<"mac", other[i].mac>> = f.value}
  <2>1. \A i \in DOMAIN nics : i \in J <=> p[i] \in I
    BY <1>1
  <2>2. \A i, j \in I : i = j
    <3>1. \A a, b : <<"mac", a>> = <<"mac", b>> => a = b
      OBVIOUS
    <3>2. \A i, j \in I : nics[i].mac = nics[j].mac
      BY <3>1
    <3> QED BY <3>2 DEF ToldApart
  <2>3. I \subseteq DOMAIN nics /\ J \subseteq DOMAIN nics
    BY <1>1
  <2>4. Picked(f, nics) = First(nics, I) /\ Picked(f, other) = First(other, J)
    BY <1>3 DEF Picked
  <2> HIDE DEF I, J
  <2> QED BY <2>1, <2>2, <2>3, <2>4, FirstRelisted DEF other
<1>4. CASE f.method = "ppn"
  <2> DEFINE I == {i \in DOMAIN nics : <<"ppn", nics[i].ppn>> = f.value}
             J == {i \in DOMAIN other : <<"ppn", other[i].ppn>> = f.value}
  <2>1. \A i \in DOMAIN nics : i \in J <=> p[i] \in I
    BY <1>1
  <2>2. ASSUME ~Quirks(nics), NEW i \in I, NEW j \in I PROVE i = j
    <3>1. \A a, b : <<"ppn", a>> = <<"ppn", b>> => a = b
      OBVIOUS
    <3>2. nics[i].ppn = nics[j].ppn
      BY <3>1
    <3>3. nics[i].ppn # None
      <4>1. <<"ppn", None>> \notin Value
        BY StaticRulesAssumption
      <4> QED BY <1>2, <4>1
    <3> QED BY <2>2, <3>2, <3>3 DEF Quirks
  <2>3. I \subseteq DOMAIN nics /\ J \subseteq DOMAIN nics
    BY <1>1
  <2>4. /\ Picked(f, nics) = IF Quirks(nics) THEN {} ELSE First(nics, I)
        /\ Picked(f, other) = IF Quirks(other) THEN {} ELSE First(other, J)
    BY <1>4 DEF Picked
  <2>5. Quirks(other) <=> Quirks(nics)
    BY QuirksRelisted DEF other
  <2> HIDE DEF I, J
  <2>6. CASE ~Quirks(nics)
    BY <2>1, <2>2, <2>3, <2>4, <2>5, <2>6, FirstRelisted DEF other
  <2> QED BY <2>4, <2>5, <2>6 DEF other
<1>5. CASE f.method = "pci"
  BY <1>5, AtIndexRelisted DEF Picked, other
<1>6. CASE f.method = "label"
  <2> DEFINE I == {i \in DOMAIN nics : <<"text", nics[i].label>> = f.value}
             J == {i \in DOMAIN other : <<"text", other[i].label>> = f.value}
  <2>1. \A i \in DOMAIN nics : i \in J <=> p[i] \in I
    BY <1>1
  <2>2. ASSUME NEW i \in I, NEW j \in I PROVE i = j
    <3>1. \A a, b : <<"text", a>> = <<"text", b>> => a = b
      OBVIOUS
    <3>2. nics[i].label = nics[j].label
      BY <3>1
    <3>3. nics[i].label # None
      <4>1. <<"text", None>> \notin Value
        BY StaticRulesAssumption
      <4> QED BY <1>2, <4>1
    <3> QED BY <3>2, <3>3 DEF ToldApart
  <2>3. I \subseteq DOMAIN nics /\ J \subseteq DOMAIN nics
    BY <1>1
  <2>4. Picked(f, nics) = First(nics, I) /\ Picked(f, other) = First(other, J)
    BY <1>6 DEF Picked
  <2> HIDE DEF I, J
  <2> QED BY <2>1, <2>2, <2>3, <2>4, FirstRelisted DEF other
<1> QED BY <1>2, <1>3, <1>4, <1>5, <1>6 DEF other

LEMMA MadeRelisted ==
  ASSUME Keyed(formulae), NEW nics \in States, ToldApart(nics),
         NEW p \in Bijection(DOMAIN nics, DOMAIN nics)
  PROVE  Made(formulae, Relisted(nics, p)) = Made(formulae, nics)
<1> DEFINE other == Relisted(nics, p)
           made == Those(formulae, PickedBy(formulae, nics))
<1>1. formulae \in Seq(FormulaType)
  BY DEF Keyed
<1>2. \A i \in DOMAIN formulae : Picked(formulae[i], other) = Picked(formulae[i], nics)
  BY <1>1, PickedRelisted
<1> HIDE DEF other
<1>3. PickedBy(formulae, other) = PickedBy(formulae, nics)
  BY <1>2 DEF PickedBy
<1>4. PickedBy(formulae, nics) \subseteq DOMAIN formulae
  BY DEF PickedBy
<1>5. \A n \in DOMAIN made : made[n] \in Range(formulae)
  BY <1>1, <1>4, ThoseIs DEF Range
<1>6. /\ Made(formulae, nics)
         = [i \in DOMAIN made |-> RuleOf(made[i], CHOOSE n \in Picked(made[i], nics) : TRUE)]
      /\ Made(formulae, other)
         = [i \in DOMAIN made |-> RuleOf(made[i], CHOOSE n \in Picked(made[i], other) : TRUE)]
  BY <1>3 DEF Made
<1> HIDE DEF made
<1>7. \A i \in DOMAIN made : Picked(made[i], other) = Picked(made[i], nics)
  BY <1>2, <1>5 DEF Range
<1>8. Made(formulae, other) = Made(formulae, nics)
  BY <1>6, <1>7
<1> QED BY <1>8 DEF other

-----------------------------------------------------------------------------
(* The invariant *)

(* Since save() has returned nothing but save() has touched the file.      *)
WellSaved == saved # None => Keyed(saved) /\ file = Written(saved) /\ ~saving
(* An object that has not generated has no rules.                          *)
Fresh     == gens = 0 => rules = <<>>

IInv == TypeOK /\ Keyed(formulae) /\ rules \in Seq(Rule) /\ WellSaved /\ Fresh

LEMMA InitInv ==
  ASSUME Init
  PROVE  IInv
<1>1. file = None \/ file \in Seq(LineType)
  BY StaticRulesAssumption DEF Init
<1>2. Keyed(formulae) /\ rules \in Seq(Rule)
  BY DEF Init, Keyed, OneEach
<1>3. Cardinality(Targets(formulae)) = Len(formulae)
  BY <1>2, AsManyTargets
<1>4. \A i \in DOMAIN rules : rules[i].tname \in Target
  BY DEF Init
<1>5. gens \in 0 .. MaxGen /\ state \in States \cup {<<>>}
  BY StaticRulesAssumption DEF Init
<1>6. TypeOK
  BY <1>1, <1>2, <1>3, <1>4, <1>5 DEF Init, TypeOK, Keyed
<1> QED BY <1>2, <1>6 DEF Init, IInv, WellSaved, Fresh

(* Steps that leave the formulae and the rules alone. *)
LEMMA FileOnly ==
  ASSUME IInv, UNCHANGED <<formulae, rules, state, gens>>,
         file' = None \/ file' \in Seq(LineType), saving' \in BOOLEAN,
         result' \in {"none", "True", "False", "IOError"},
         saved' # None => Keyed(saved') /\ file' = Written(saved') /\ ~saving'
  PROVE  IInv'
<1>1. Keyed(formulae') /\ rules' \in Seq(Rule) /\ Fresh'
  BY DEF IInv, Fresh
<1>2. Cardinality(Targets(formulae')) = Len(formulae')
  BY <1>1, AsManyTargets
<1>3. WellSaved'
  BY DEF WellSaved
<1>4. saved' = None \/ saved' \in Seq(FormulaType)
  BY DEF Keyed
<1>5. state' \in States \cup {<<>>} /\ gens' \in 0 .. MaxGen /\ \A i \in DOMAIN rules' : rules'[i].tname \in Target
  BY DEF IInv, TypeOK
<1>6. TypeOK'
  BY <1>1, <1>2, <1>4, <1>5 DEF TypeOK, Keyed
<1> QED BY <1>1, <1>3, <1>6 DEF IInv, Keyed

(* The beginning of what write() makes. *)
LEMMA PartWritten ==
  ASSUME NEW fs, Keyed(fs), NEW n \in 0 .. Len(Written(fs))
  PROVE  SubSeq(Written(fs), 1, n) \in Seq(LineType)
<1>1. Written(fs) \in Seq(LineType)
  BY WrittenAre
<1> HIDE DEF Keyed
<1> QED BY <1>1

(* Each step keeps the invariant. *)
LEMMA NextInv ==
  ASSUME IInv, [Next]_vars
  PROVE  IInv'
<1>0. /\ TypeOK /\ Keyed(formulae) /\ rules \in Seq(Rule) /\ WellSaved /\ Fresh
      /\ file = None \/ file \in Seq(LineType)
  BY DEF IInv, TypeOK
<1>1. CASE LoadFails
  <2>1. saved' # None => Keyed(saved') /\ file' = Written(saved') /\ ~saving'
    BY <1>0, <1>1 DEF LoadFails, WellSaved
  <2> QED BY <1>0, <1>1, <2>1, FileOnly DEF LoadFails, TypeOK
<1>2. CASE Load
  <2>1. file \in Seq(LineType)
    BY <1>0, <1>2 DEF Load
  <2>2. Keyed(formulae')
    BY <1>0, <1>2, <2>1, ParsedKeyed DEF Load
  <2>3. Cardinality(Targets(formulae')) = Len(formulae')
    BY <2>2, AsManyTargets
  <2>4. TypeOK'
    BY <1>0, <1>2, <2>2, <2>3 DEF Load, TypeOK, Keyed
  <2>5. WellSaved' /\ Fresh' /\ rules' \in Seq(Rule)
    BY <1>0, <1>2 DEF Load, WellSaved, Fresh
  <2> QED BY <2>2, <2>4, <2>5 DEF IInv, Keyed
<1>3. CASE SaveOpen
  BY <1>3, FileOnly DEF SaveOpen, IInv, TypeOK
<1>4. CASE SaveOpenFails
  <2>1. saved' # None => Keyed(saved') /\ file' = Written(saved') /\ ~saving'
    BY <1>0, <1>4 DEF SaveOpenFails, WellSaved
  <2> QED BY <1>0, <1>4, <2>1, FileOnly DEF SaveOpenFails, TypeOK
<1>5. CASE SaveWrite
  <2>1. file' \in Seq(LineType)
    BY <1>0, <1>5, WrittenAre DEF SaveWrite
  <2>2. saved' # None => Keyed(saved') /\ file' = Written(saved') /\ ~saving'
    BY <1>0, <1>5 DEF SaveWrite
  <2> QED BY <1>5, <2>1, <2>2, FileOnly DEF SaveWrite
<1>6. CASE SaveFails
  <2>1. file' \in Seq(LineType)
    BY <1>0, <1>6, PartWritten DEF SaveFails
  <2>2. saved' = None
    BY <1>0, <1>6 DEF SaveFails, WellSaved
  <2> QED BY <1>6, <2>1, <2>2, FileOnly DEF SaveFails
<1>7. CASE Restart
  <2>1. file' = None \/ file' \in Seq(LineType)
    <3>1. CASE saving
      BY <1>0, <1>7, <3>1, PartWritten DEF Restart
    <3>2. CASE ~saving
      BY <1>0, <1>7, <3>2 DEF Restart
    <3> QED BY <3>1, <3>2
  <2>2. Keyed(formulae') /\ rules' \in Seq(Rule) /\ Fresh'
    BY <1>7 DEF Restart, Keyed, OneEach, Fresh
  <2>3. Cardinality(Targets(formulae')) = Len(formulae')
    BY <2>2, AsManyTargets
  <2>4. \A i \in DOMAIN rules' : rules'[i].tname \in Target
    BY <1>7 DEF Restart
  <2>5. gens' \in 0 .. MaxGen /\ state' \in States \cup {<<>>}
    BY <1>7, StaticRulesAssumption DEF Restart
  <2>6. saved' = None \/ saved' \in Seq(FormulaType)
    BY <1>0, <1>7 DEF Restart, TypeOK
  <2>7. TypeOK'
    BY <1>7, <2>1, <2>2, <2>3, <2>4, <2>5, <2>6 DEF Restart, TypeOK, Keyed
  <2>8. WellSaved'
    BY <1>0, <1>7 DEF Restart, WellSaved
  <2> QED BY <2>2, <2>7, <2>8 DEF IInv, Keyed
<1>8. ASSUME gens < MaxGen, NEW nics \in States, Generate(nics) PROVE IInv'
  <2>1. rules' = rules \o Made(formulae, nics) /\ Made(formulae, nics) \in Seq(Rule)
    BY <1>0, <1>8, MadeAre DEF Generate
  <2>2. rules' \in Seq(Rule)
    BY <1>0, <2>1
  <2>3. ASSUME NEW i \in DOMAIN rules' PROVE rules'[i].tname \in Target
    <3>1. rules'[i] \in Rule
      BY <2>2
    <3> QED BY <3>1 DEF Rule
  <2>4. gens' \in 0 .. MaxGen /\ gens' # 0
    BY <1>0, <1>8, StaticRulesAssumption DEF Generate, TypeOK
  <2>5. Keyed(formulae') /\ Cardinality(Targets(formulae')) = Len(formulae')
    BY <1>0, <1>8, AsManyTargets DEF Generate
  <2>6. TypeOK'
    BY <1>0, <1>8, <2>3, <2>4, <2>5 DEF Generate, TypeOK
  <2>7. WellSaved' /\ Fresh'
    BY <1>0, <1>8, <2>4 DEF Generate, WellSaved, Fresh
  <2> QED BY <2>2, <2>5, <2>6, <2>7 DEF IInv, Keyed
<1>9. ASSUME NEW fs \in Given, Assign(fs) PROVE IInv'
  <2>1. Keyed(formulae')
    BY <1>9, StaticRulesAssumption DEF Assign, Keyed
  <2>2. Cardinality(Targets(formulae')) = Len(formulae')
    BY <2>1, AsManyTargets
  <2>3. TypeOK'
    BY <1>0, <1>9, <2>1, <2>2 DEF Assign, TypeOK, Keyed
  <2>4. WellSaved' /\ Fresh' /\ rules' \in Seq(Rule)
    BY <1>0, <1>9 DEF Assign, WellSaved, Fresh
  <2> QED BY <2>1, <2>3, <2>4 DEF IInv, Keyed
<1>10. CASE UNCHANGED vars
  <2>1. saved' # None => Keyed(saved') /\ file' = Written(saved') /\ ~saving'
    BY <1>0, <1>10 DEF vars, WellSaved
  <2> QED BY <1>0, <1>10, <2>1, FileOnly DEF vars, TypeOK
<1> QED BY <1>1, <1>2, <1>3, <1>4, <1>5, <1>6, <1>7, <1>8, <1>9, <1>10 DEF Next

(* The invariant holds of every reachable state. *)
THEOREM Invariant == Spec => []IInv
BY InitInv, NextInv, PTL DEF Spec

-----------------------------------------------------------------------------
(* The properties *)

(* Whatever save() has written, a new object loads: every formula that     *)
(* write() lets through comes back under its name, with its method and its *)
(* value; only a label "guess" is read as "label".                         *)
THEOREM SavedIsReadAgain == Spec => []SavedIsLoaded
<1>1. ASSUME IInv PROVE SavedIsLoaded
  <2>1. TypeOK /\ WellSaved
    BY <1>1 DEF IInv
  <2>2. ASSUME saved # None
        PROVE  LET again == Parsed(<<>>, file) IN
               /\ {f \in Kept(saved) : f.value # <<"text", "guess">>} \subseteq Range(again)
               /\ Targets(again) = {f.target : f \in Kept(saved)}
    BY <2>1, <2>2, WrittenIsRead DEF WellSaved
  <2> QED BY <2>1, <2>2 DEF SavedIsLoaded
<1> QED BY <1>1, Invariant, PTL

(* load_and_parse() of a new object: the formula for a name is that of the *)
(* last usable line for it, and the unusable lines after it change nothing. *)
THEOREM LastOneCounts == Spec => LastLineWins
<1> DEFINE A == Reads =>
                  \A i \in DOMAIN formulae' :
                    \E n \in DOMAIN file :
                      /\ Formula(file[n]) = formulae'[i]
                      /\ \A m \in n + 1 .. Len(file) : file[m].target = file[n].target => ~Accepted(file[m])
<1>1. ASSUME IInv PROVE A
  <2>1. SUFFICES ASSUME Reads, NEW i \in DOMAIN formulae'
                 PROVE  \E n \in DOMAIN file :
                          /\ Formula(file[n]) = formulae'[i]
                          /\ \A m \in n + 1 .. Len(file) : file[m].target = file[n].target => ~Accepted(file[m])
    OBVIOUS
  <2>2. file \in Seq(LineType) /\ formulae' = Parsed(<<>>, file)
    BY <1>1, <2>1 DEF IInv, TypeOK, Reads, Load
  <2>3. FromLast(formulae', file, Len(file))
    BY <2>2, ParsedFromLast
  <2> QED BY <2>2, <2>3 DEF FromLast
<1>2. ASSUME IInv, [Next]_vars PROVE [A]_vars
  BY <1>1, <1>2
<1>3. Spec => [][A]_vars
  <2> HIDE DEF A
  <2> QED BY <1>2, Invariant, PTL DEF Spec
<1> QED BY <1>3 DEF LastLineWins

(* The first generate() of an object makes one rule for a name at most;    *)
(* and of nics with MACs and labels of their own it makes the same rules,  *)
(* whatever their order, in which indexes on a PCI function go by MAC.     *)
THEOREM RulesAreOrderFree == Spec => OrderFree
<1> DEFINE A == gens' = 1 /\ gens = 0 =>
                  /\ \A i, j \in DOMAIN rules' : rules'[i].tname = rules'[j].tname => i = j
                  /\ ToldApart(state') =>
                       /\ \A p \in Bijection(DOMAIN state', DOMAIN state') :
                            rules' = Made(formulae, Relisted(state', p))
                       /\ \A f, g \in Range(formulae) : ByMac(f, g, rules')
<1>1. ASSUME IInv, Next, gens' = 1, gens = 0
      PROVE  /\ \A i, j \in DOMAIN rules' : rules'[i].tname = rules'[j].tname => i = j
             /\ ToldApart(state') =>
                  /\ \A p \in Bijection(DOMAIN state', DOMAIN state') :
                       rules' = Made(formulae, Relisted(state', p))
                  /\ \A f, g \in Range(formulae) : ByMac(f, g, rules')
  <2>1. PICK nics \in States : Generate(nics)
    BY <1>1 DEF Next, LoadFails, Load, SaveOpen, SaveOpenFails, SaveWrite, SaveFails, Restart, Assign
  <2>2. Keyed(formulae) /\ rules = <<>>
    BY <1>1 DEF IInv, Fresh
  <2>3. rules' = <<>> \o Made(formulae, nics) /\ Made(formulae, nics) \in Seq(Rule) /\ state' = nics
    BY <2>1, <2>2, MadeAre DEF Generate
  <2>4. rules' = Made(formulae, nics)
    BY <2>3
  <2>5. \A i, j \in DOMAIN rules' : rules'[i].tname = rules'[j].tname => i = j
    BY <2>2, <2>4, MadeAre
  <2>6. ASSUME ToldApart(nics), NEW p \in Bijection(DOMAIN nics, DOMAIN nics)
        PROVE  rules' = Made(formulae, Relisted(nics, p))
    BY <2>2, <2>4, <2>6, MadeRelisted
  <2>7. ASSUME ToldApart(nics), NEW f \in Range(formulae), NEW g \in Range(formulae)
        PROVE  ByMac(f, g, rules')
    BY <2>2, <2>4, <2>7, MadeByMac
  <2> QED BY <2>3, <2>5, <2>6, <2>7
<1>2. ASSUME IInv, [Next]_vars PROVE [A]_vars
  BY <1>1, <1>2
<1>3. Spec => [][A]_vars
  <2> HIDE DEF A
  <2> QED BY <1>2, Invariant, PTL DEF Spec
<1> QED BY <1>3 DEF OrderFree

=============================================================================
