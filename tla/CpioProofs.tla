------------------------------ MODULE CpioProofs ------------------------------
(***************************************************************************)
(* Proofs about CpioFile, for any archives, members and number of calls:   *)
(* an iterator that is left alone goes through all members; what add()     *)
(* wrote completely is found by readers; files are extracted with their    *)
(* own data; and a first extractall() extracts everything.                 *)
(*                                                                         *)
(* Four inductive invariants are built on each other: IInv (types, and     *)
(* where iterators are), KInv (the archive is a chain of whole members,    *)
(* of which a crash spoils the last at most), EInv (what has been          *)
(* extracted) and AInv (how far a first extractall() has come).            *)
(***************************************************************************)
EXTENDS CpioFile, FiniteSetTheorems, SequenceTheorems, WellFoundedInduction, TLAPS

-----------------------------------------------------------------------------
(* Every nonempty set of numbers has a least one: what stands in for       *)
(* induction over the length of a list.                                    *)
LEMMA LeastNat ==
  ASSUME NEW S \in SUBSET Nat, S # {}
  PROVE  \E m \in S : \A n \in S : m <= n
<1> DEFINE R == {p \in Nat \X Nat : p[1] < p[2]}
<1>1. IsWellFoundedOn(R, Nat)
  BY NatLessThanWellFounded DEF OpToRel
<1> HIDE DEF R
<1>2. PICK m \in S : \A n \in S : ~(<<n, m>> \in R)
  BY <1>1, WFMin
<1>3. \A n \in S : ~(n < m)
  BY <1>2 DEF R
<1> QED BY <1>3


-----------------------------------------------------------------------------
(* Places() is well defined *)

(* What Places() finds from place i on, if f tells what it finds further on.*)
From(d, f, i) ==
  IF i > Len(d) THEN <<>>
  ELSE IF d[i].kind # "header" THEN <<>>
  ELSE <<i>> \o
       IF d[i].size = 0 THEN f[i + 1]
       ELSE IF i < Len(d) /\ d[i + 1].kind = "data" THEN f[i + 2] ELSE <<>>

Finds(d, f) == f = [i \in 1 .. Len(d) + 1 |-> From(d, f, i)]

LEMMA PlacesDef == ASSUME NEW d PROVE Places(d) = (CHOOSE f : Finds(d, f))[1]
BY DEF Places, Finds, From

(* There is such a function: it is made from the end of the archive on.    *)
LEMMA FindsExists ==
  ASSUME NEW L \in Nat, NEW d, Len(d) = L
  PROVE  \E f : Finds(d, f)
<1> DEFINE Part(n, g) == /\ DOMAIN g = (L + 1 - n) .. (L + 1)
                         /\ g = [i \in DOMAIN g |-> From(d, g, i)]
           Bad == {n \in 0 .. L : ~\E g : Part(n, g)}
<1>1. Bad = {}
  <2> SUFFICES ASSUME Bad # {} PROVE FALSE
    OBVIOUS
  <2>1. PICK n \in Bad : \A m \in Bad : n <= m
    <3>1. Bad \in SUBSET Nat
      OBVIOUS
    <3> HIDE DEF Bad
    <3> QED BY <3>1, LeastNat
  <2>2. CASE n = 0
    <3> DEFINE g == [i \in (L + 1) .. (L + 1) |-> <<>>]
    <3>1. Part(0, g)
      BY SMTT(30) DEF From
    <3> QED BY <2>1, <2>2, <3>1
  <2>3. CASE n # 0
    <3>1. n - 1 \in 0 .. L /\ n - 1 \notin Bad
      <4>1. n \in 0 .. L
        BY <2>1
      <4> HIDE DEF Bad
      <4> QED BY <2>1, <2>3, <4>1
    <3>2. PICK g : Part(n - 1, g)
      BY <3>1
    <3> DEFINE h == [i \in (L + 1 - n) .. (L + 1) |-> IF i \in DOMAIN g THEN g[i] ELSE From(d, g, i)]
    <3>3. DOMAIN g = (L + 2 - n) .. (L + 1) /\ \A i \in DOMAIN g : g[i] = From(d, g, i)
      BY <3>1, <3>2
    <3>4. ASSUME NEW i \in (L + 1 - n) .. (L + 1) PROVE From(d, h, i) = From(d, g, i)
      <4>1. i <= L => h[i + 1] = g[i + 1]
        BY <3>3, <2>1
      <4>2. i < L => h[i + 2] = g[i + 2]
        BY <3>3, <2>1
      <4>3. i \in Nat
        BY <2>1
      <4> HIDE DEF h
      <4> QED BY <4>1, <4>2, <4>3 DEF From
    <3>5. Part(n, h)
      <4>1. \A i \in (L + 1 - n) .. (L + 1) : h[i] = From(d, g, i)
        BY <3>3
      <4>2. h = [i \in DOMAIN h |-> From(d, h, i)]
        BY <3>4, <4>1
      <4> QED BY <4>2
    <3> QED BY <2>1, <3>5
  <2> QED BY <2>2, <2>3
<1>2. PICK g : Part(L, g)
  <2>1. L \in 0 .. L /\ L \notin Bad
    BY <1>1
  <2> HIDE DEF Part
  <2> QED BY <2>1
<1>3. Finds(d, g)
  BY <1>2 DEF Finds
<1> QED BY <1>3


(* What is found from a place on are places of the archive; what begins    *)
(* with a header is found.                                                 *)
Headers(d) == {i \in 1 .. Len(d) : d[i].kind = "header"}

LEMMA PlacesFound ==
  ASSUME NEW d, Len(d) \in Nat
  PROVE  /\ Places(d) \in Seq(Headers(d))
         /\ Len(d) > 0 /\ d[1].kind = "header" => Len(Places(d)) > 0
<1> DEFINE L == Len(d)
           H == Headers(d)
           f == CHOOSE g : Finds(d, g)
<1>1. Finds(d, f)
  BY FindsExists
<1>2. Places(d) = f[1]
  BY PlacesDef
<1> HIDE DEF f
<1>3. \A i \in 1 .. L + 1 : f[i] = From(d, f, i)
  BY <1>1 DEF Finds
<1>4. ASSUME NEW i \in 1 .. L + 1, \A j \in i + 1 .. L + 1 : f[j] \in Seq(H)
      PROVE  f[i] \in Seq(H)
  <2>1. CASE i = L + 1
    <3>1. f[i] = From(d, f, i)
      BY <1>3
    <3>2. f[i] = <<>>
      BY <2>1, <3>1 DEF From
    <3> QED BY <3>2
  <2>2. CASE i # L + 1
    <3>1. i \in 1 .. L /\ i <= L
      BY <2>2
    <3> DEFINE more == IF d[i].size = 0 THEN f[i + 1]
                       ELSE IF i < L /\ d[i + 1].kind = "data" THEN f[i + 2] ELSE <<>>
    <3>2. more \in Seq(H)
      <4>1. f[i + 1] \in Seq(H) /\ (i < L => f[i + 2] \in Seq(H))
        BY <1>4, <3>1
      <4>2. <<>> \in Seq(H)
        OBVIOUS
      <4> QED BY <4>1, <4>2
    <3>3. f[i] = From(d, f, i)
      BY <1>3
    <3>4. f[i] = IF d[i].kind # "header" THEN <<>> ELSE <<i>> \o more
      BY <3>1, <3>3 DEF From
    <3> HIDE DEF more
    <3>5. CASE d[i].kind # "header"
      BY <3>4, <3>5
    <3>6. CASE d[i].kind = "header"
      <4>1. <<i>> \in Seq(H)
        BY <3>1, <3>6 DEF Headers
      <4>2. <<i>> \o more \in Seq(H)
        BY <3>2, <4>1
      <4> QED BY <3>4, <3>6, <4>2
    <3> QED BY <3>5, <3>6
  <2> QED BY <2>1, <2>2
<1>5. ASSUME NEW i \in 1 .. L + 1 PROVE f[i] \in Seq(H)
  <2> DEFINE Bad == {n \in 0 .. L : f[L + 1 - n] \notin Seq(H)}
  <2>1. Bad = {}
    <3> SUFFICES ASSUME Bad # {} PROVE FALSE
      OBVIOUS
    <3>1. PICK n \in Bad : \A m \in Bad : n <= m
      <4>1. Bad \in SUBSET Nat
        OBVIOUS
      <4> HIDE DEF Bad
      <4> QED BY <4>1, LeastNat
    <3>2. n \in 0 .. L /\ L + 1 - n \in 1 .. L + 1
      BY <3>1
    <3>3. ASSUME NEW j \in (L + 1 - n) + 1 .. L + 1 PROVE f[j] \in Seq(H)
      <4>1. L + 1 - j \in 0 .. L /\ L + 1 - j < n /\ L + 1 - (L + 1 - j) = j
        BY <3>2
      <4>2. L + 1 - j \notin Bad
        <5> HIDE DEF Bad
        <5> QED BY <3>1, <3>2, <4>1
      <4> QED BY <4>1, <4>2
    <3>4. f[L + 1 - n] \in Seq(H)
      BY <1>4, <3>2, <3>3
    <3> QED BY <3>1, <3>4
  <2>2. L + 1 - i \in 0 .. L /\ L + 1 - (L + 1 - i) = i
    OBVIOUS
  <2> QED BY <2>1, <2>2
<1>6. ASSUME L > 0, d[1].kind = "header" PROVE Len(f[1]) > 0
  <2> DEFINE more == IF d[1].size = 0 THEN f[2]
                     ELSE IF 1 < L /\ d[2].kind = "data" THEN f[3] ELSE <<>>
  <2>1. more \in Seq(H)
    <3>1. f[2] \in Seq(H) /\ (1 < L => f[3] \in Seq(H)) /\ <<>> \in Seq(H)
      BY <1>5, <1>6
    <3> QED BY <3>1
  <2>2. f[1] = From(d, f, 1)
    BY <1>3
  <2>3. f[1] = <<1>> \o more
    BY <1>6, <2>2 DEF From
  <2> HIDE DEF more
  <2>4. Len(<<1>> \o more) = 1 + Len(more) /\ Len(more) \in Nat
    BY <2>1
  <2> QED BY <2>3, <2>4
<1>7. f[1] \in Seq(H)
  BY <1>5
<1> QED BY <1>2, <1>6, <1>7

-----------------------------------------------------------------------------
(* The inductive invariant *)

InfoT == [name : Seq(Nat), dir : BOOLEAN, ino : Nat, nlink : Nat, size : {0, 1}]
IterT == [index : Nat, last : Nat, done : BOOLEAN, alone : BOOLEAN]
JobT  == [phase : {"none", "files", "dirs", "done", "failed"}, base : Seq(Nat), path : Seq(Nat),
          index : Nat, dirs : SUBSET Nat, fresh : BOOLEAN]
FileT == [dir : BOOLEAN, data : Nat, attr : Nat]

(* An archive that is loaded has been read to its end; the first of n      *)
(* members is read when it is opened.                                      *)
Shaped(o) ==
  o = [stream |-> o.stream, read |-> o.read, first |-> o.first, loaded |-> o.loaded,
       pos |-> o.pos, inodes |-> o.inodes]

Sound(o, n) ==
  /\ Shaped(o)
  /\ o.read \in 0 .. n /\ o.first \in BOOLEAN /\ o.loaded \in BOOLEAN
  /\ o.first => o.read = 1 /\ o.loaded = FALSE
  /\ o.loaded => o.read = n

(* Where iterators are that read on from the archive. *)
Position(o) == IF o.first THEN 0 ELSE o.read

(* An iterator that is alone is where the archive is, until that is loaded.*)
Along(it, o, n) ==
  /\ it.index \in 0 .. n /\ it.last \in 0 .. n
  /\ o.loaded \/ it.index <= Position(o)
  /\ it.alone => /\ it.last = it.index
                 /\ it.done => it.index = n
                 /\ o.loaded \/ it.index = Position(o)

Archives ==
  /\ disk \in Seq(Cell) /\ pending \in Seq(Cell)
  /\ mode \in {"none", "w", "a", "r"} /\ at \in Nat \ {0}
  /\ todo \in Seq(DOMAIN Tree) /\ (todo # <<>> => mode \in {"w", "a"})
  /\ mode \in {"w", "a"} => at - 1 <= Len(disk)
  /\ members \in Seq(InfoT)
  /\ mode = "r" => members = Infos(disk)
  /\ mode # "r" => members = <<>> /\ its = <<>> /\ fs = <<>> /\ job = NoJob

Iterators == its \in Seq(IterT) /\ \A i \in DOMAIN its : Along(its[i], obj, N)

Extracting ==
  /\ \A p \in DOMAIN fs : fs[p] \in FileT
  /\ job \in JobT /\ job.dirs \subseteq 1 .. N

IInv == Archives /\ Sound(obj, N) /\ Iterators /\ Extracting

-----------------------------------------------------------------------------
(* What the operators on a CpioFile do to it *)

Kept(o, x) == /\ Sound(x, N) /\ (o.loaded => x.loaded)
              /\ x.loaded \/ Position(o) <= Position(x)

LEMMA PositionType == ASSUME NEW o, Sound(o, N) PROVE Position(o) \in Int /\ o.loaded \in BOOLEAN
BY DEF Sound, Position

LEMMA KeptSelf == ASSUME NEW o, Sound(o, N) PROVE Kept(o, o)
<1>1. Position(o) <= Position(o)
  BY PositionType
<1> QED BY <1>1 DEF Kept

LEMMA KeptTrans ==
  ASSUME NEW o, Sound(o, N), NEW x, Kept(o, x), NEW y, Kept(x, y)
  PROVE  Kept(o, y)
<1>1. Sound(x, N) /\ Sound(y, N)
  BY DEF Kept
<1>2. Position(o) \in Int /\ Position(x) \in Int /\ Position(y) \in Int
  BY <1>1, PositionType
<1>3. o.loaded \in BOOLEAN /\ x.loaded \in BOOLEAN /\ y.loaded \in BOOLEAN
  BY <1>1, PositionType
<1> QED BY <1>1, <1>2, <1>3 DEF Kept

(* Reading on to a member. *)
OnTo(o, k) == [o EXCEPT !.read = k, !.first = FALSE]

LEMMA ReadOn ==
  ASSUME NEW o, Shaped(o), NEW k, NEW w
  PROVE  [o EXCEPT !.read = k, !.first = w] =
           [stream |-> o.stream, read |-> k, first |-> w, loaded |-> o.loaded,
            pos |-> o.pos, inodes |-> o.inodes]
<1>1. [o EXCEPT !.read = k, !.first = w] = [[o EXCEPT !.read = k] EXCEPT !.first = w]
  OBVIOUS
<1> DEFINE x == [o EXCEPT !.read = k]
<1>2. /\ x.stream = o.stream /\ x.read = k /\ x.loaded = o.loaded /\ x.pos = o.pos
      /\ x.inodes = o.inodes /\ Shaped(x)
  BY DEF Shaped
<1> HIDE DEF x
<1>3. [x EXCEPT !.first = w] = [stream |-> o.stream, read |-> k, first |-> w, loaded |-> o.loaded,
                                pos |-> o.pos, inodes |-> o.inodes]
  BY <1>2 DEF Shaped
<1> QED BY <1>1, <1>3 DEF x

LEMMA Updated ==
  ASSUME NEW o, Shaped(o), NEW v
  PROVE  /\ [o EXCEPT !.first = v] =
              [stream |-> o.stream, read |-> o.read, first |-> v, loaded |-> o.loaded,
               pos |-> o.pos, inodes |-> o.inodes]
         /\ [o EXCEPT !.loaded = v] =
              [stream |-> o.stream, read |-> o.read, first |-> o.first, loaded |-> v,
               pos |-> o.pos, inodes |-> o.inodes]
         /\ [o EXCEPT !.pos = v] =
              [stream |-> o.stream, read |-> o.read, first |-> o.first, loaded |-> o.loaded,
               pos |-> v, inodes |-> o.inodes]
         /\ [o EXCEPT !.inodes = v] =
              [stream |-> o.stream, read |-> o.read, first |-> o.first, loaded |-> o.loaded,
               pos |-> o.pos, inodes |-> v]
<1>1. [o EXCEPT !.first = v] =
        [stream |-> o.stream, read |-> o.read, first |-> v, loaded |-> o.loaded,
         pos |-> o.pos, inodes |-> o.inodes]
  BY DEF Shaped
<1>2. [o EXCEPT !.loaded = v] =
        [stream |-> o.stream, read |-> o.read, first |-> o.first, loaded |-> v,
         pos |-> o.pos, inodes |-> o.inodes]
  BY DEF Shaped
<1>3. [o EXCEPT !.pos = v] =
        [stream |-> o.stream, read |-> o.read, first |-> o.first, loaded |-> o.loaded,
         pos |-> v, inodes |-> o.inodes]
  BY DEF Shaped
<1>4. [o EXCEPT !.inodes = v] =
        [stream |-> o.stream, read |-> o.read, first |-> o.first, loaded |-> o.loaded,
         pos |-> o.pos, inodes |-> v]
  BY DEF Shaped
<1> QED BY <1>1, <1>2, <1>3, <1>4

LEMMA AtKept ==
  ASSUME NEW o, Sound(o, N), NEW p
  PROVE  /\ Kept(o, At(o, p)) /\ Position(At(o, p)) = Position(o)
         /\ At(o, p).loaded = o.loaded /\ At(o, p).read = o.read /\ At(o, p).first = o.first
<1>1. Shaped(o)
  BY DEF Sound
<1>2. At(o, p) = [stream |-> o.stream, read |-> o.read, first |-> o.first, loaded |-> o.loaded,
                  pos |-> IF o.stream THEN p ELSE 0, inodes |-> o.inodes]
  BY <1>1, Updated DEF At
<1>3. /\ Sound(At(o, p), N) /\ Position(At(o, p)) = Position(o)
      /\ At(o, p).loaded = o.loaded /\ At(o, p).read = o.read /\ At(o, p).first = o.first
  BY <1>2 DEF Sound, Shaped, Position
<1> QED BY <1>3, PositionType DEF Kept

LEMMA OnToKept ==
  ASSUME N \in Nat, NEW o, Sound(o, N), NEW k \in 0 .. N, k = N \/ o.loaded = FALSE
  PROVE  /\ Sound(OnTo(o, k), N) /\ OnTo(o, k).loaded = o.loaded
         /\ OnTo(o, k).read = k /\ OnTo(o, k).first = FALSE
<1>1. OnTo(o, k) = [stream |-> o.stream, read |-> k, first |-> FALSE, loaded |-> o.loaded,
                    pos |-> o.pos, inodes |-> o.inodes]
  BY ReadOn, Zenon DEF Sound, OnTo
<1> QED BY <1>1 DEF Sound, Shaped

LEMMA AtMemberKept ==
  ASSUME N \in Nat, NEW o, Sound(o, N), o.loaded = FALSE, NEW k \in 1 .. N, Position(o) < k
  PROVE  /\ Kept(o, AtMember(o, k))
         /\ AtMember(o, k).loaded = FALSE /\ Position(AtMember(o, k)) = k
<1>0. k \in 0 .. N
  OBVIOUS
<1>1. Sound(OnTo(o, k), N) /\ OnTo(o, k).loaded = o.loaded /\ Position(OnTo(o, k)) = k
  BY <1>0, OnToKept, Zenon DEF Position
<1>2. AtMember(o, k) = At(OnTo(o, k), 2 * k)
  BY DEF AtMember, OnTo
<1>3. Sound(AtMember(o, k), N) /\ AtMember(o, k).loaded = FALSE /\ Position(AtMember(o, k)) = k
  BY <1>1, <1>2, AtKept DEF Kept
<1> QED BY <1>3, PositionType DEF Kept

LEMMA AtEndKept ==
  ASSUME N \in Nat, NEW o, Sound(o, N)
  PROVE  /\ Sound(AtEnd(o), N) /\ AtEnd(o).loaded = o.loaded
         /\ AtEnd(o).read = N /\ AtEnd(o).first = FALSE
<1>0. N \in 0 .. N
  OBVIOUS
<1>1. /\ Sound(OnTo(o, N), N) /\ OnTo(o, N).loaded = o.loaded
      /\ OnTo(o, N).read = N /\ OnTo(o, N).first = FALSE
  BY <1>0, OnToKept, Zenon
<1>2. AtEnd(o) = At(OnTo(o, N), 2 * (N + 1))
  BY DEF AtEnd, OnTo
<1> QED BY <1>1, <1>2, AtKept DEF Kept

LEMMA LoadKept ==
  ASSUME N \in Nat, NEW o, Sound(o, N)
  PROVE  Kept(o, Load(o)) /\ Load(o).loaded = TRUE /\ (o.loaded => Load(o) = o)
<1>1. CASE o.loaded
  BY <1>1, KeptSelf DEF Load, Sound
<1>2. CASE o.loaded = FALSE
  <2> DEFINE x == AtEnd(o)
  <2>1. Sound(x, N) /\ x.loaded = FALSE /\ x.read = N /\ x.first = FALSE
    BY <1>2, AtEndKept
  <2>2. Load(o) = [x EXCEPT !.loaded = TRUE]
    BY <1>2 DEF Load
  <2> HIDE DEF x
  <2>3. Load(o) = [stream |-> x.stream, read |-> N, first |-> FALSE, loaded |-> TRUE,
                   pos |-> x.pos, inodes |-> x.inodes]
    <3>1. Shaped(x) /\ x.read = N /\ x.first = FALSE
      BY <2>1 DEF Sound
    <3>2. [x EXCEPT !.loaded = TRUE] = [stream |-> x.stream, read |-> x.read, first |-> x.first,
                                        loaded |-> TRUE, pos |-> x.pos, inodes |-> x.inodes]
      BY <3>1, Updated, Zenon
    <3> QED BY <2>2, <3>1, <3>2
  <2>4. x.stream = Load(o).stream /\ x.pos = Load(o).pos /\ x.inodes = Load(o).inodes
    BY <2>3
  <2>5. Shaped(Load(o)) /\ Load(o).read = N /\ Load(o).first = FALSE /\ Load(o).loaded = TRUE
    BY <2>3 DEF Shaped
  <2>6. Sound(Load(o), N)
    <3>1. N \in 0 .. N /\ TRUE \in BOOLEAN /\ FALSE \in BOOLEAN
      OBVIOUS
    <3> QED BY <2>5, <3>1, Zenon DEF Sound
  <2> QED BY <1>2, <2>5, <2>6, Zenon DEF Kept
<1> QED BY <1>1, <1>2 DEF Sound

(* CpioIter.__next__() goes one member on, or to the end of what is loaded.*)
Moves(o, index, n) ==
  /\ Kept(o, n.obj) /\ n.k \in 0 .. N
  /\ o.loaded => n.obj = o /\ n.k = IF index < N THEN index + 1 ELSE 0
  /\ o.loaded = FALSE /\ n.k # 0 =>
       n.obj.loaded = FALSE /\ n.k = Position(o) + 1 /\ Position(n.obj) = n.k
  /\ o.loaded = FALSE /\ n.k = 0 => n.obj.loaded = TRUE /\ Position(o) = N

LEMMA StepKept ==
  ASSUME N \in Nat, NEW o, Sound(o, N), NEW index \in Nat
  PROVE  Moves(o, index, Step(o, index))
<1> USE DEF Moves
<1>1. CASE o.loaded
  <2>1. Step(o, index) = [obj |-> o, k |-> IF index < N THEN index + 1 ELSE 0]
    BY <1>1 DEF Step, Sound
  <2> QED BY <1>1, <2>1, KeptSelf
<1>2. CASE o.loaded = FALSE /\ o.first
  <2> DEFINE x == [o EXCEPT !.first = FALSE]
  <2>1. Step(o, index) = [obj |-> x, k |-> 1]
    BY <1>2 DEF Step, NextOf
  <2>2. x = [stream |-> o.stream, read |-> o.read, first |-> FALSE, loaded |-> o.loaded,
             pos |-> o.pos, inodes |-> o.inodes]
    BY Updated DEF Sound
  <2>3. Sound(x, N) /\ x.loaded = FALSE /\ Position(x) = 1 /\ Position(o) = 0 /\ 1 \in 0 .. N
    BY <1>2, <2>2 DEF Sound, Shaped, Position
  <2> HIDE DEF x
  <2>4. Kept(o, x)
    BY <1>2, <2>3 DEF Kept
  <2> QED BY <1>2, <2>1, <2>3, <2>4
<1>3. CASE o.loaded = FALSE /\ ~o.first /\ o.read < N
  <2> DEFINE x == AtMember(o, o.read + 1)
  <2>1. o.read + 1 \in 1 .. N /\ o.read + 1 # 0 /\ Position(o) = o.read /\ Position(o) < o.read + 1
    BY <1>3 DEF Sound, Position
  <2>2. Step(o, index) = [obj |-> x, k |-> o.read + 1]
    BY <1>3, <2>1 DEF Step, NextOf
  <2>3. Kept(o, x) /\ x.loaded = FALSE /\ Position(x) = o.read + 1
    BY <1>3, <2>1, AtMemberKept
  <2> HIDE DEF x
  <2> QED BY <1>3, <2>1, <2>2, <2>3
<1>4. CASE o.loaded = FALSE /\ ~o.first /\ ~(o.read < N)
  <2> DEFINE y == AtEnd(o)
  <2>1. Step(o, index) = [obj |-> Load(y), k |-> 0]
    BY <1>4 DEF Step, NextOf
  <2>2. Position(o) = N
    BY <1>4 DEF Sound, Position
  <2>3. Sound(y, N)
    BY AtEndKept
  <2> HIDE DEF y
  <2>4. Kept(y, Load(y)) /\ Load(y).loaded = TRUE
    BY <2>3, LoadKept
  <2>5. Step(o, index).obj = Load(y) /\ Step(o, index).k = 0 /\ 0 \in 0 .. N
    BY <2>1
  <2>6. Kept(o, Load(y)) /\ o.loaded = FALSE
    BY <1>4, <2>4 DEF Kept
  <2> QED BY <2>2, <2>4, <2>5, <2>6, Zenon
<1> QED BY <1>1, <1>2, <1>3, <1>4 DEF Sound

LEMMA LeastIsIn == ASSUME NEW S \in SUBSET Nat, S # {} PROVE Least(S) \in S
BY LeastNat DEF Least

LEMMA DatamemberKept ==
  ASSUME N \in Nat, NEW o, Sound(o, N), NEW k \in 1 .. N
  PROVE  Kept(o, Datamember(o, k).obj) /\ Datamember(o, k).k \in 1 .. N
<1> DEFINE found == WithData(Ahead(o), members[k].ino)
<1>1. found \subseteq 1 .. N
  BY DEF WithData, Ahead, Sound
<1>6. o.loaded = FALSE => \A j \in found : Position(o) < j
  BY DEF WithData, Ahead, Sound, Position
<1>2. found # {} => Least(found) \in found
  <2>1. found \in SUBSET Nat
    BY <1>1
  <2> HIDE DEF found
  <2> QED BY <2>1, LeastIsIn
<1>3. CASE members[k].size > 0
  BY <1>3, KeptSelf DEF Datamember
<1>4. CASE ~(members[k].size > 0) /\ found = {}
  BY <1>4, LoadKept DEF Datamember
<1>5. CASE ~(members[k].size > 0) /\ found # {}
  <2>1. Datamember(o, k) = [obj |-> IF o.loaded THEN o ELSE AtMember(o, Least(found)), k |-> Least(found)]
    BY <1>5 DEF Datamember
  <2> HIDE DEF found
  <2>2. o.loaded = FALSE => Kept(o, AtMember(o, Least(found)))
    BY <1>1, <1>6, <1>2, <1>5, AtMemberKept
  <2>3. Least(found) \in 1 .. N
    BY <1>1, <1>2, <1>5
  <2>4. o.loaded \in BOOLEAN /\ Kept(o, o)
    BY KeptSelf, PositionType
  <2> QED BY <2>1, <2>2, <2>3, <2>4
<1> QED BY <1>3, <1>4, <1>5

LEMMA CellTypes ==
  ASSUME NEW c \in Cell
  PROVE  /\ c.kind = "header" => Info(c) \in InfoT /\ c.size \in {0, 1}
         /\ c.kind = "data" => c.ino \in Nat
BY DEF Cell, Info, InfoT

LEMMA InfosTyped ==
  ASSUME NEW d \in Seq(Cell)
  PROVE  /\ Infos(d) \in Seq(InfoT) /\ Len(Infos(d)) = Len(Places(d))
         /\ \A k \in 1 .. Len(Infos(d)) : Data(d, k) \in Nat
         /\ Len(d) > 0 /\ d[1].kind = "header" => Len(Infos(d)) > 0
<1>1. /\ Places(d) \in Seq(Headers(d))
      /\ Len(d) > 0 /\ d[1].kind = "header" => Len(Places(d)) > 0
  BY PlacesFound
<1> DEFINE n == Len(Places(d))
           p == Places(d)
<1>2. n \in Nat /\ DOMAIN p = 1 .. n /\ \A k \in 1 .. n : p[k] \in Headers(d)
  BY <1>1
<1> HIDE DEF p, n
<1>3. ASSUME NEW k \in 1 .. n PROVE p[k] \in 1 .. Len(d) /\ d[p[k]] \in Cell /\ d[p[k]].kind = "header"
  BY <1>2 DEF Headers
<1>4. \A k \in 1 .. n : Info(d[p[k]]) \in InfoT
  BY <1>3, CellTypes
<1>5. Infos(d) = [k \in 1 .. n |-> Info(d[p[k]])]
  BY <1>2 DEF Infos, p
<1>6. Infos(d) \in Seq(InfoT) /\ Len(Infos(d)) = n
  BY <1>2, <1>4, <1>5
<1>7. ASSUME NEW k \in 1 .. n PROVE Data(d, k) \in Nat
  <2>1. Data(d, k) = IF d[p[k]].size = 0 \/ p[k] = Len(d) THEN Nothing
                     ELSE IF d[p[k] + 1].kind = "data" THEN d[p[k] + 1].ino ELSE Nothing
    BY DEF Data, p
  <2>2. p[k] # Len(d) => d[p[k] + 1] \in Cell
    BY <1>3
  <2> QED BY <2>1, <2>2, CellTypes DEF Nothing
<1> QED BY <1>1, <1>6, <1>7 DEF n

-----------------------------------------------------------------------------
(* Extraction of one member *)

Typed(f) == \A p \in DOMAIN f : f[p] \in FileT

(* What the members of an archive that is read are. *)
Readers == N \in Nat /\ \A k \in 1 .. N : members[k] \in InfoT /\ Data(disk, k) \in Nat

LEMMA PutTyped ==
  ASSUME NEW f, Typed(f), NEW p, NEW e \in FileT
  PROVE  Typed(Put(f, p, e))
BY DEF Typed, Put

LEMMA MakeDirsTyped ==
  ASSUME NEW f, Typed(f), NEW ps, NEW attr \in Nat
  PROVE  Typed(MakeDirs(f, ps, attr))
<1>1. [dir |-> TRUE, data |-> Nothing, attr |-> attr] \in FileT
  BY DEF FileT, Nothing
<1> QED BY <1>1 DEF Typed, MakeDirs

LEMMA AfterReadKept ==
  ASSUME NEW o, Sound(o, N), NEW k
  PROVE  Kept(o, AfterRead(o, k))
<1>1. Kept(o, o)
  BY KeptSelf
<1> QED BY <1>1, AtKept DEF AfterRead

LEMMA ExtractDataKept ==
  ASSUME Readers, NEW o, Sound(o, N), NEW f, Typed(f), NEW k \in 1 .. N, NEW p
  PROVE  /\ Kept(o, ExtractData(o, f, k, p).obj) /\ Typed(ExtractData(o, f, k, p).fs)
         /\ ExtractData(o, f, k, p).raised \in BOOLEAN
<1> DEFINE m == members[k]
           r == IF m.nlink = 1 THEN [obj |-> o, k |-> k] ELSE Datamember(o, k)
           known == [r.obj EXCEPT !.inodes = KnowInode(@, m.ino, m.name)]
           read == [obj |-> AfterRead(known, r.k), raised |-> FALSE,
                    fs |-> Put(f, p, [dir |-> FALSE, data |-> Data(disk, r.k), attr |-> m.ino])]
           passed == [obj |-> known, raised |-> TRUE,
                      fs |-> Put(f, p, [dir |-> FALSE, data |-> Nothing, attr |-> 0])]
<1>1. Kept(o, r.obj) /\ r.k \in 1 .. N
  BY DatamemberKept, KeptSelf DEF Readers
<1>2. ExtractData(o, f, k, p) = IF Readable(known, r.k) THEN read ELSE passed
  BY DEF ExtractData
<1>3. m.ino \in Nat /\ Data(disk, r.k) \in Nat
  BY <1>1 DEF Readers, InfoT
<1>4. Kept(o, known)
  <2>1. known = [stream |-> r.obj.stream, read |-> r.obj.read, first |-> r.obj.first,
                 loaded |-> r.obj.loaded, pos |-> r.obj.pos,
                 inodes |-> KnowInode(r.obj.inodes, m.ino, m.name)]
    BY <1>1, Updated DEF Kept, Sound
  <2> HIDE DEF r, m
  <2>2. Sound(known, N) /\ known.loaded = r.obj.loaded /\ Position(known) = Position(r.obj)
    BY <1>1, <2>1 DEF Kept, Sound, Shaped, Position
  <2> HIDE DEF known
  <2> QED BY <1>1, <2>2 DEF Kept
<1>5. Typed(read.fs) /\ Typed(passed.fs)
  <2>1. /\ [dir |-> FALSE, data |-> Data(disk, r.k), attr |-> m.ino] \in FileT
        /\ [dir |-> FALSE, data |-> Nothing, attr |-> 0] \in FileT
    BY <1>3 DEF FileT, Nothing
  <2> QED BY <2>1, PutTyped
<1>6. Kept(o, read.obj) /\ Kept(o, passed.obj)
  <2>1. Kept(known, AfterRead(known, r.k))
    BY <1>4, AfterReadKept DEF Kept
  <2> HIDE DEF known
  <2> QED BY <1>4, <2>1, KeptTrans
<1>7. read.raised \in BOOLEAN /\ passed.raised \in BOOLEAN
  OBVIOUS
<1> HIDE DEF read, passed
<1> QED BY <1>2, <1>5, <1>6, <1>7

LEMMA ExtractOfKept ==
  ASSUME Readers, NEW o, Sound(o, N), NEW f, Typed(f), NEW k \in 1 .. N, NEW base
  PROVE  /\ Kept(o, ExtractOf(o, f, k, base).obj) /\ Typed(ExtractOf(o, f, k, base).fs)
         /\ ExtractOf(o, f, k, base).raised \in BOOLEAN
<1> DEFINE p == base \o members[k].name
           g == MakeDirs(f, UpperDirs(p), members[k].ino)
           target == base \o o.inodes[members[k].ino]
<1>1. members[k].ino \in Nat
  BY DEF Readers, InfoT
<1>2. Typed(g)
  BY <1>1, MakeDirsTyped
<1>3. ExtractOf(o, f, k, base) = IF members[k].dir THEN ExtractDir(o, g, k, p)
                                 ELSE IF IsLinked(o, k) THEN ExtractLink(o, g, p, target)
                                 ELSE ExtractData(o, g, k, p)
  BY DEF ExtractOf
<1> HIDE DEF p, g, target
<1>4. Kept(o, o)
  BY KeptSelf
<1>5. /\ Kept(o, ExtractDir(o, g, k, p).obj) /\ Typed(ExtractDir(o, g, k, p).fs)
      /\ ExtractDir(o, g, k, p).raised \in BOOLEAN
  <2>1. [dir |-> TRUE, data |-> Nothing, attr |-> members[k].ino] \in FileT
    BY <1>1 DEF FileT, Nothing
  <2>2. Typed(Put(g, p, [dir |-> TRUE, data |-> Nothing, attr |-> members[k].ino]))
    BY <1>2, <2>1, PutTyped
  <2> QED BY <1>4, <2>2 DEF ExtractDir
<1>6. /\ Kept(o, ExtractLink(o, g, p, target).obj) /\ Typed(ExtractLink(o, g, p, target).fs)
      /\ ExtractLink(o, g, p, target).raised \in BOOLEAN
  <2>1. target \in DOMAIN g => Typed(Put(g, p, g[target]))
    <3>1. target \in DOMAIN g => g[target] \in FileT
      BY <1>2 DEF Typed
    <3> QED BY <1>2, <3>1, PutTyped
  <2> QED BY <1>2, <1>4, <2>1 DEF ExtractLink
<1>7. /\ Kept(o, ExtractData(o, g, k, p).obj) /\ Typed(ExtractData(o, g, k, p).fs)
      /\ ExtractData(o, g, k, p).raised \in BOOLEAN
  BY <1>2, ExtractDataKept
<1> QED BY <1>3, <1>5, <1>6, <1>7

-----------------------------------------------------------------------------
(* Steps of a writer *)

LEMMA NewSound == Sound(NewObject, 0)
BY DEF Sound, Shaped, NewObject

LEMMA NoJobTyped == NoJob \in JobT /\ NoJob.dirs = {}
<1>1. <<>> \in Seq(Nat) /\ {} \in SUBSET Nat
  OBVIOUS
<1> QED BY <1>1 DEF NoJob, JobT

LEMMA NoMembers == Len(<<>>) = 0 /\ Len(<<>>) \in Nat
OBVIOUS

LEMMA InitInv == Init => IInv
<1> SUFFICES ASSUME Init PROVE IInv
  OBVIOUS
<1>1. disk \in Seq(Cell) /\ pending \in Seq(Cell) /\ todo \in Seq(DOMAIN Tree)
  <2>1. Foreign \subseteq Seq(Cell) /\ <<>> \in Seq(Cell) /\ <<>> \in Seq(DOMAIN Tree)
    BY CpioAssumption
  <2> QED BY <2>1 DEF Init
<1>2. Archives
  BY <1>1 DEF Init, Archives
<1>3. N = 0
  BY NoMembers DEF Init, N
<1>4. Sound(obj, N)
  BY <1>3, NewSound DEF Init
<1>5. Iterators
  BY DEF Init, Iterators
<1>6. Extracting
  BY NoJobTyped DEF Init, Extracting
<1> QED BY <1>2, <1>4, <1>5, <1>6 DEF IInv

(* What a writer must see to: it has no iterators, jobs and members.       *)
LEMMA WriterKeeps ==
  ASSUME IInv, mode # "r", mode' \in {"none", "w", "a"}, UNCHANGED <<members, its, fs, job>>,
         Sound(obj', 0), disk' \in Seq(Cell), pending' \in Seq(Cell), at' \in Nat \ {0},
         todo' \in Seq(DOMAIN Tree), todo' # <<>> => mode' \in {"w", "a"},
         mode' \in {"w", "a"} => at' - 1 <= Len(disk')
  PROVE  IInv'
<1>1. members = <<>> /\ its = <<>> /\ fs = <<>> /\ job = NoJob
  BY DEF IInv, Archives
<1>2. Archives'
  BY <1>1 DEF Archives, IInv
<1>3. N' = 0
  BY <1>1, NoMembers DEF N
<1>4. Iterators' /\ Extracting'
  BY <1>1, NoJobTyped DEF IInv, Iterators, Extracting
<1> QED BY <1>2, <1>3, <1>4 DEF IInv

LEMMA WriterSound == ASSUME IInv, mode # "r" PROVE Sound(obj, 0)
<1>1. N = 0
  BY NoMembers DEF N, IInv, Archives
<1> QED BY <1>1 DEF IInv

LEMMA SubSeqTyped ==
  ASSUME NEW S, NEW s \in Seq(S), NEW a \in Nat \ {0}, NEW b \in Int, b <= Len(s)
  PROVE  SubSeq(s, a, b) \in Seq(S)
OBVIOUS

LEMMA AppendAtTyped == ASSUME NEW d \in Seq(Cell) PROVE AppendAt(d) \in Nat \ {0} /\ AppendAt(d) - 1 <= Len(d)
<1>1. Places(d) \in Seq(Headers(d))
  BY PlacesFound
<1>2. Places(d) # <<>> => Last(Places(d)) \in Headers(d)
  BY <1>1 DEF Last
<1> QED BY <1>2 DEF AppendAt, Headers

(* What add() writes are cells, and what is below a name are names. *)
LEMMA CellsTyped ==
  ASSUME NEW n \in DOMAIN Tree
  PROVE  /\ Cells(n) \in Seq(Cell) /\ <<Header(n, SizeOf(n)), Short>> \in Seq(Cell)
         /\ \A s \in SetToSeqs(Children(n)) : s \in Seq(DOMAIN Tree)
<1>1. /\ n \in Seq(Nat)
      /\ Tree[n] \in [dir : BOOLEAN, ino : Nat \ {0}, nlink : Nat \ {0}, size : {0, 1}]
  BY CpioAssumption
<1>2. SizeOf(n) \in {0, 1}
  BY <1>1 DEF SizeOf
<1>3. Header(n, SizeOf(n)) \in Cell
  <2> DEFINE z == SizeOf(n)
  <2> HIDE DEF z
  <2>1. Header(n, z) \in [kind : {"header"}, name : Seq(Nat), dir : BOOLEAN, ino : Nat, nlink : Nat, size : {0, 1}]
    BY <1>1, <1>2 DEF Header, z
  <2> QED BY <2>1 DEF Cell, z
<1>4. DataOf(n) \in Cell /\ Short \in Cell
  BY <1>1 DEF DataOf, Short, Cell
<1>5. ASSUME NEW s \in SetToSeqs(Children(n)) PROVE s \in Seq(DOMAIN Tree)
  <2>1. Children(n) \subseteq DOMAIN Tree
    BY DEF Children
  <2>2. IsFiniteSet(Children(n))
    BY <2>1, CpioAssumption, FS_Subset
  <2>3. Cardinality(Children(n)) \in Nat
    BY <2>2, FS_CardinalityType
  <2>4. s \in [1 .. Cardinality(Children(n)) -> Children(n)]
    BY <1>5 DEF SetToSeqs
  <2> HIDE DEF Children
  <2> QED BY <2>1, <2>3, <2>4
<1> HIDE DEF Header
<1> QED BY <1>3, <1>4, <1>5 DEF Cells

LEMMA OpensInv == ASSUME IInv, OpenWrite \/ OpenAppend PROVE IInv'
<1>1. /\ mode = "none" /\ mode' \in {"w", "a"} /\ pending' = <<>> /\ todo' = <<>>
      /\ obj' = NewObject /\ UNCHANGED <<members, its, fs, job>>
      /\ \/ disk' = <<>> /\ at' = 1
         \/ disk' = disk /\ at' = AppendAt(disk)
  BY DEF OpenWrite, OpenAppend
<1>2. disk' \in Seq(Cell) /\ at' \in Nat \ {0} /\ at' - 1 <= Len(disk')
  <2>1. disk \in Seq(Cell)
    BY DEF IInv, Archives
  <2>2. <<>> \in Seq(Cell) /\ Len(<<>>) = 0 /\ 1 \in Nat \ {0} /\ 1 - 1 <= 0
    OBVIOUS
  <2>3. AppendAt(disk) \in Nat \ {0} /\ AppendAt(disk) - 1 <= Len(disk)
    BY <2>1, AppendAtTyped
  <2>4. CASE disk' = <<>> /\ at' = 1
    BY <2>2, <2>4
  <2>5. CASE disk' = disk /\ at' = AppendAt(disk)
    BY <2>1, <2>3, <2>5
  <2> QED BY <1>1, <2>4, <2>5
<1>3. Sound(obj', 0) /\ pending' \in Seq(Cell) /\ todo' \in Seq(DOMAIN Tree)
  BY <1>1, NewSound
<1> QED BY <1>1, <1>2, <1>3, WriterKeeps

LEMMA AddInv == ASSUME IInv, NEW n \in DOMAIN Tree, Add(n) PROVE IInv'
<1>1. /\ mode \in {"w", "a"} /\ mode' = mode /\ todo' = <<n>>
      /\ UNCHANGED <<disk, at, pending, obj, members, its, fs, job>>
  BY DEF Add, fileVars, readVars
<1>2. todo' \in Seq(DOMAIN Tree)
  BY <1>1
<1> QED BY <1>1, <1>2, WriterSound, WriterKeeps DEF IInv, Archives

LEMMA KnowLinkSound == ASSUME IInv, mode # "r", NEW n, KnowLink(n) PROVE Sound(obj', 0)
<1>1. Sound(obj, 0)
  BY WriterSound
<1>2. CASE obj' = obj
  BY <1>1, <1>2
<1>3. CASE obj' # obj
  <2> DEFINE known == KnowInode(obj.inodes, Tree[n].ino, n)
  <2>1. obj' = [obj EXCEPT !.inodes = known]
    BY <1>3 DEF KnowLink
  <2> HIDE DEF known
  <2>2. obj' = [stream |-> obj.stream, read |-> obj.read, first |-> obj.first, loaded |-> obj.loaded,
                pos |-> obj.pos, inodes |-> known]
    BY <1>1, <2>1, Updated DEF Sound
  <2> QED BY <1>1, <2>2 DEF Sound, Shaped
<1> QED BY <1>2, <1>3

LEMMA AddingInv == ASSUME IInv, AddFile \/ SkipArchive \/ AddFails PROVE IInv'
<1>1. /\ todo # <<>> /\ mode \in {"w", "a"} /\ mode' = mode
      /\ UNCHANGED <<disk, at, members, its, fs, job>>
  BY DEF AddFile, SkipArchive, AddFails, fileVars, readVars, IInv, Archives
<1>2. Head(todo) \in DOMAIN Tree /\ Tail(todo) \in Seq(DOMAIN Tree) /\ pending \in Seq(Cell)
  BY <1>1 DEF IInv, Archives
<1>3. ASSUME Sound(obj', 0), pending' \in Seq(Cell), todo' \in Seq(DOMAIN Tree)
      PROVE  IInv'
  BY <1>1, <1>3, WriterKeeps DEF IInv, Archives
<1>4. CASE AddFile
  <2>1. pending' = pending \o Cells(Head(todo)) /\ KnowLink(Head(todo))
    BY <1>4 DEF AddFile
  <2>2. PICK s \in SetToSeqs(Children(Head(todo))) : todo' = s \o Tail(todo)
    BY <1>4 DEF AddFile
  <2>3. pending' \in Seq(Cell) /\ todo' \in Seq(DOMAIN Tree)
    BY <1>2, <2>1, <2>2, CellsTyped
  <2>4. Sound(obj', 0)
    BY <1>1, <2>1, KnowLinkSound
  <2> QED BY <1>3, <2>3, <2>4
<1>5. CASE SkipArchive
  <2>1. UNCHANGED <<obj, pending>> /\ todo' = Tail(todo)
    BY <1>5 DEF SkipArchive, fileVars, readVars
  <2>2. Sound(obj, 0)
    BY <1>1, WriterSound
  <2> QED BY <1>2, <1>3, <2>1, <2>2
<1>6. CASE AddFails
  <2>1. /\ pending' = pending \o <<Header(Head(todo), SizeOf(Head(todo))), Short>>
        /\ KnowLink(Head(todo)) /\ todo' = <<>>
    BY <1>6 DEF AddFails
  <2>2. pending' \in Seq(Cell) /\ todo' \in Seq(DOMAIN Tree)
    BY <1>2, <2>1, CellsTyped
  <2>3. Sound(obj', 0)
    BY <1>1, <2>1, KnowLinkSound
  <2> QED BY <1>3, <2>2, <2>3
<1> QED BY <1>4, <1>5, <1>6

LEMMA ClosedInv == ASSUME IInv, CloseWriter \/ Crash PROVE IInv'
<1>1. /\ mode \in {"w", "a"} /\ mode' = "none" /\ at' = 1 /\ pending' = <<>> /\ todo' = <<>>
      /\ obj' = NewObject /\ UNCHANGED <<members, its, fs, job>>
  BY DEF CloseWriter, Crash
<1> DEFINE old == SubSeq(disk, 1, at - 1)
<1>2. disk \in Seq(Cell) /\ pending \in Seq(Cell) /\ at \in Nat \ {0} /\ old \in Seq(Cell)
  BY <1>1, SubSeqTyped DEF IInv, Archives
<1>3. Trailer \in Cell /\ Junk \in Cell
  BY DEF Trailer, Junk, Cell
<1> HIDE DEF old
<1>4. disk' \in Seq(Cell)
  <2>1. CASE CloseWriter
    <3>1. disk' = old \o pending \o <<Trailer>>
      BY <2>1 DEF CloseWriter, old
    <3> QED BY <1>2, <1>3, <3>1
  <2>2. CASE Crash
    <3> DEFINE now(k) == old \o SubSeq(pending, 1, k)
    <3>1. PICK k \in 0 .. Len(pending) :
            \/ disk' = now(k) \o SubSeq(disk, at + k, Len(disk))
            \/ disk' = Append(now(k), Junk)
            \/ k < Len(pending) /\ \E c \in Cut(pending[k + 1]) : disk' = Append(now(k), c)
      BY <2>2 DEF Crash, old
    <3>2. now(k) \in Seq(Cell)
      <4>1. SubSeq(pending, 1, k) \in Seq(Cell)
        BY <1>2, SubSeqTyped
      <4> QED BY <1>2, <4>1
    <3>3. SubSeq(disk, at + k, Len(disk)) \in Seq(Cell)
      <4>1. at + k \in Nat \ {0} /\ Len(disk) \in Int
        BY <1>2
      <4> QED BY <1>2, <4>1, SubSeqTyped
    <3>4. ASSUME k < Len(pending), NEW c \in Cut(pending[k + 1]) PROVE c \in Cell
      <4> DEFINE e == pending[k + 1]
      <4>1. e \in Cell
        BY <1>2, <3>4
      <4> HIDE DEF e
      <4>2. <<0>> \in Seq(Nat)
        OBVIOUS
      <4>3. e.kind = "header" => [e EXCEPT !.name = <<0>>] \in Cell
        BY <4>1, <4>2 DEF Cell
      <4>4. c \in Cut(e)
        BY <3>4 DEF e
      <4> QED BY <1>3, <4>3, <4>4 DEF Cut
    <3> HIDE DEF now
    <3>5. CASE disk' = now(k) \o SubSeq(disk, at + k, Len(disk))
      BY <3>2, <3>3, <3>5
    <3>6. ASSUME NEW c \in Cell, disk' = Append(now(k), c) PROVE disk' \in Seq(Cell)
      BY <3>2, <3>6
    <3> QED BY <1>3, <3>1, <3>4, <3>5, <3>6
  <2> QED BY <2>1, <2>2
<1>5. Sound(obj', 0) /\ pending' \in Seq(Cell) /\ todo' \in Seq(DOMAIN Tree) /\ at' \in Nat \ {0}
  BY <1>1, NewSound
<1> QED BY <1>1, <1>4, <1>5, WriterKeeps

-----------------------------------------------------------------------------
(* Iterators that others leave alone *)

LEMMA SameAhead ==
  ASSUME N \in Nat, NEW o, Sound(o, N), o.loaded = FALSE, NEW x, Sound(x, N), x.loaded = FALSE,
         Ahead(o) = Ahead(x)
  PROVE  Position(o) = Position(x)
<1> DEFINE a == Position(o)
           b == Position(x)
<1>1. a \in 0 .. N /\ b \in 0 .. N
  BY DEF Sound, Position
<1>2. Ahead(o) = a + 1 .. N /\ Ahead(x) = b + 1 .. N
  BY DEF Sound, Ahead, Position
<1> HIDE DEF a, b
<1> DEFINE A == a + 1 .. N
           B == b + 1 .. N
<1>3. A = B
  BY <1>2
<1>4. /\ a < N => a + 1 \in A
      /\ b < N => b + 1 \in B
      /\ \A i \in A : a < i
      /\ \A i \in B : b < i
  BY <1>1
<1> HIDE DEF A, B
<1>5. a = b
  BY <1>1, <1>3, <1>4
<1> QED BY <1>5 DEF a, b

LEMMA AloneKept ==
  ASSUME N \in Nat, Sound(obj, N), NEW x, Kept(obj, x), NEW it \in IterT, Along(it, obj, N)
  PROVE  LET j == [it EXCEPT !.alone = Alone(it, x)] IN j \in IterT /\ Along(j, x, N)
<1> DEFINE j == [it EXCEPT !.alone = Alone(it, x)]
<1>1. Alone(it, x) \in BOOLEAN
  BY DEF Alone
<1>2. /\ j \in IterT /\ j.alone = Alone(it, x)
      /\ j.index = it.index /\ j.last = it.last /\ j.done = it.done
  BY <1>1 DEF IterT
<1> HIDE DEF j
<1>3. ASSUME Alone(it, x) PROVE Along(j, x, N)
  <2>1. it.alone /\ (x.loaded \/ Ahead(x) = Ahead(obj))
    BY <1>3 DEF Alone
  <2>2. /\ it.last = it.index /\ it.index \in 0 .. N /\ (it.done => it.index = N)
        /\ obj.loaded \/ it.index = Position(obj)
    BY <2>1 DEF Along
  <2>3. Sound(x, N) /\ x.loaded \in BOOLEAN /\ obj.loaded \in BOOLEAN /\ (obj.loaded => x.loaded)
    BY DEF Kept, Sound
  <2>4. CASE x.loaded
    BY <1>2, <2>2, <2>4 DEF Along
  <2>5. CASE x.loaded = FALSE
    <3>1. obj.loaded = FALSE /\ Ahead(x) = Ahead(obj)
      BY <2>1, <2>3, <2>5
    <3>2. Position(x) = Position(obj)
      BY <2>3, <2>5, <3>1, SameAhead
    <3> QED BY <1>2, <2>2, <3>1, <3>2 DEF Along
  <2> QED BY <2>3, <2>4, <2>5
<1>4. j.index \in 0 .. N /\ j.last \in 0 .. N /\ (x.loaded \/ j.index <= Position(x))
  <2>1. /\ it.index \in 0 .. N /\ it.last \in 0 .. N
        /\ obj.loaded \/ it.index <= Position(obj)
    BY DEF Along
  <2>2. /\ Position(obj) \in Int /\ obj.loaded \in BOOLEAN
        /\ Position(x) \in Int /\ x.loaded \in BOOLEAN
    BY PositionType DEF Kept
  <2>3. (obj.loaded => x.loaded) /\ (x.loaded \/ Position(obj) <= Position(x))
    BY DEF Kept
  <2>4. x.loaded \/ it.index <= Position(x)
    BY <2>1, <2>2, <2>3
  <2> QED BY <1>2, <2>1, <2>4
<1>5. Along(j, x, N)
  BY <1>2, <1>3, <1>4 DEF Along
<1> QED BY <1>2, <1>5 DEF j

(* The archive that is read stays as it is. *)
LEMMA ReadersInv == ASSUME IInv, mode = "r" PROVE Readers /\ members \in Seq(InfoT)
BY InfosTyped DEF IInv, Archives, Readers, N

LEMMA NotRead == ASSUME IInv PROVE N \in Nat
BY DEF IInv, Archives, N

LEMMA LeftAloneKept ==
  ASSUME IInv, LeftAlone, Kept(obj, obj'), members' = members
  PROVE  Iterators'
<1>1. N \in Nat /\ N' = N /\ Sound(obj, N)
  BY NotRead DEF N, IInv
<1>2. its \in Seq(IterT) /\ \A i \in DOMAIN its : its[i] \in IterT /\ Along(its[i], obj, N)
  BY DEF IInv, Iterators
<1> DEFINE x == obj'
           kept(i) == [its[i] EXCEPT !.alone = Alone(its[i], x)]
<1>3. its' = [i \in DOMAIN its |-> kept(i)] /\ Kept(obj, x)
  BY DEF LeftAlone
<1> HIDE DEF x
<1>4. \A i \in DOMAIN its : kept(i) \in IterT /\ Along(kept(i), x, N)
  BY <1>1, <1>2, <1>3, AloneKept
<1> HIDE DEF kept
<1>5. its' \in Seq(IterT) /\ \A i \in DOMAIN its' : Along(its'[i], x, N)
  BY <1>2, <1>3, <1>4
<1> QED BY <1>1, <1>5 DEF Iterators, x

(* What a step of a reader must see to. *)
LEMMA ReaderKeeps ==
  ASSUME IInv, mode = "r", mode' = "r", UNCHANGED <<disk, at, pending, members, todo>>,
         Kept(obj, obj'), Iterators', Extracting'
  PROVE  IInv'
<1>1. N' = N
  BY DEF N
<1>2. Archives'
  BY DEF IInv, Archives
<1> QED BY <1>1, <1>2 DEF IInv, Kept

LEMMA OpenReadInv == ASSUME IInv, NEW stream \in BOOLEAN, OpenRead(stream) PROVE IInv'
<1>1. /\ mode = "none" /\ mode' = "r" /\ members' = Infos(disk)
      /\ UNCHANGED <<disk, at, pending, its, fs, job, todo>>
  BY DEF OpenRead
<1>2. disk \in Seq(Cell) /\ its = <<>> /\ fs = <<>> /\ job = NoJob
  BY <1>1 DEF IInv, Archives
<1>3. /\ Infos(disk) \in Seq(InfoT)
      /\ Len(disk) > 0 /\ disk[1].kind = "header" => Len(Infos(disk)) > 0
  BY <1>2, InfosTyped
<1> DEFINE first == disk # <<>> /\ disk[1].kind = "header"
           n == Len(Infos(disk))
<1>4. n \in Nat /\ N' = n /\ first \in BOOLEAN /\ (first => n > 0)
  BY <1>1, <1>2, <1>3 DEF N
<1>5. obj' = At([stream |-> stream, read |-> IF first THEN 1 ELSE 0, first |-> first,
                 loaded |-> FALSE, pos |-> 0, inodes |-> NoInodes], 2)
  BY DEF OpenRead
<1> HIDE DEF first, n
<1>6. obj' = [stream |-> stream, read |-> IF first THEN 1 ELSE 0, first |-> first,
              loaded |-> FALSE, pos |-> IF stream THEN 2 ELSE 0, inodes |-> NoInodes]
  BY <1>5 DEF At
<1>7. Sound(obj', n)
  BY <1>4, <1>6 DEF Sound, Shaped
<1>8. Archives'
  <2>1. Infos(disk)' = Infos(disk)
    BY <1>1
  <2> QED BY <1>1, <1>2, <1>3, <2>1 DEF IInv, Archives
<1>9. Iterators' /\ Extracting'
  BY <1>1, <1>2, NoJobTyped DEF IInv, Iterators, Extracting
<1> QED BY <1>4, <1>7, <1>8, <1>9 DEF IInv

LEMMA CloseReaderInv == ASSUME IInv, CloseReader PROVE IInv'
<1>1. /\ mode = "r" /\ mode' = "none" /\ members' = <<>> /\ obj' = NewObject
      /\ its' = <<>> /\ fs' = <<>> /\ job' = NoJob /\ UNCHANGED <<disk, at, pending, todo>>
  BY DEF CloseReader, Free
<1>2. N' = 0
  BY <1>1, NoMembers DEF N
<1>3. Archives'
  <2>1. members' \in Seq(InfoT)
    BY <1>1
  <2> QED BY <1>1, <2>1 DEF IInv, Archives
<1>4. Iterators' /\ Extracting'
  <2>1. its' \in Seq(IterT) /\ DOMAIN its' = {} /\ DOMAIN fs' = {}
    BY <1>1
  <2> QED BY <1>1, <2>1, NoJobTyped DEF Iterators, Extracting
<1>5. Sound(obj', N')
  BY <1>1, <1>2, NewSound
<1> QED BY <1>3, <1>4, <1>5 DEF IInv

-----------------------------------------------------------------------------
(* Steps of a reader *)

LEMMA NewIteratorInv == ASSUME IInv, NewIterator PROVE IInv'
<1> DEFINE it == [index |-> 0, last |-> 0, done |-> FALSE, alone |-> Ahead(obj) = 1 .. N]
<1>1. /\ mode = "r" /\ mode' = mode /\ its' = Append(its, it)
      /\ UNCHANGED <<disk, at, pending, members, obj, fs, job, todo>>
  BY DEF NewIterator, Free, fileVars
<1>2. N \in Nat /\ N' = N /\ Sound(obj, N)
  BY <1>1, NotRead DEF N, IInv
<1>3. it \in IterT /\ Along(it, obj, N)
  <2>1. ASSUME Ahead(obj) = 1 .. N, obj.loaded = FALSE PROVE Position(obj) = 0
    <3> DEFINE a == Position(obj)
    <3>1. a \in 0 .. N /\ Ahead(obj) = a + 1 .. N
      BY <1>2, <2>1 DEF Sound, Ahead, Position
    <3> HIDE DEF a
    <3> DEFINE A == a + 1 .. N
               B == 1 .. N
    <3>2. A = B
      BY <2>1, <3>1
    <3>3. (N > 0 => 1 \in B) /\ \A i \in A : a < i
      BY <1>2, <3>1
    <3> HIDE DEF A, B
    <3>4. a = 0
      BY <1>2, <3>1, <3>2, <3>3
    <3> QED BY <3>4 DEF a
  <2>2. obj.loaded \in BOOLEAN /\ Position(obj) \in 0 .. N
    BY <1>2 DEF Sound, Position
  <2> DEFINE first == Ahead(obj) = 1 .. N
  <2>3. first \in BOOLEAN /\ it = [index |-> 0, last |-> 0, done |-> FALSE, alone |-> first]
    OBVIOUS
  <2>4. first => obj.loaded \/ Position(obj) = 0
    BY <2>1, <2>2
  <2> HIDE DEF first, it
  <2>5. it \in IterT
    BY <2>3 DEF IterT
  <2>6. Along(it, obj, N)
    BY <1>2, <2>2, <2>3, <2>4 DEF Along
  <2> QED BY <2>5, <2>6
<1> HIDE DEF it
<1>4. its \in Seq(IterT) /\ \A i \in DOMAIN its : Along(its[i], obj, N)
  BY DEF IInv, Iterators
<1>5. its' \in Seq(IterT) /\ \A i \in DOMAIN its' : Along(its'[i], obj, N)
  BY <1>1, <1>3, <1>4
<1>6. Iterators' /\ Extracting'
  BY <1>1, <1>2, <1>5 DEF IInv, Iterators, Extracting
<1>7. Kept(obj, obj')
  BY <1>1, <1>2, KeptSelf
<1> QED BY <1>1, <1>6, <1>7, ReaderKeeps

LEMMA ResumeInv == ASSUME IInv, NEW i \in DOMAIN its, Resume(i) PROVE IInv'
<1> DEFINE n == Step(obj, its[i].index)
           x == n.obj
           kept(j) == [its[j] EXCEPT !.alone = Alone(its[j], x)]
           moved == IF n.k = 0 THEN [its[i] EXCEPT !.done = TRUE]
                    ELSE [its[i] EXCEPT !.index = @ + 1, !.last = n.k]
<1>1. /\ mode = "r" /\ mode' = mode /\ obj' = x /\ its[i].done = FALSE
      /\ its' = [j \in DOMAIN its |-> IF j # i THEN kept(j) ELSE moved]
      /\ UNCHANGED <<disk, at, pending, members, fs, job, todo>>
  <2>1. its[i].done \in BOOLEAN
    <3>1. its[i] \in IterT
      BY DEF IInv, Iterators
    <3> QED BY <3>1 DEF IterT
  <2> QED BY <2>1 DEF Resume, Free, fileVars
<1>2. N \in Nat /\ N' = N /\ Sound(obj, N)
  BY <1>1, NotRead DEF N, IInv
<1>3. its \in Seq(IterT) /\ \A j \in DOMAIN its : its[j] \in IterT /\ Along(its[j], obj, N)
  BY DEF IInv, Iterators
<1>4. its[i].index \in Nat
  BY <1>3 DEF IterT
<1>5. /\ Kept(obj, x) /\ n.k \in 0 .. N
      /\ obj.loaded => x = obj /\ n.k = IF its[i].index < N THEN its[i].index + 1 ELSE 0
      /\ obj.loaded = FALSE /\ n.k # 0 => x.loaded = FALSE /\ n.k = Position(obj) + 1 /\ Position(x) = n.k
      /\ obj.loaded = FALSE /\ n.k = 0 => x.loaded = TRUE /\ Position(obj) = N
  <2> HIDE DEF kept, moved
  <2>1. Moves(obj, its[i].index, Step(obj, its[i].index))
    BY <1>2, <1>4, StepKept
  <2> QED BY <2>1 DEF Moves
<1> HIDE DEF n, x
<1>6. \A j \in DOMAIN its : kept(j) \in IterT /\ Along(kept(j), x, N)
  BY <1>2, <1>3, <1>5, AloneKept
<1>7. moved \in IterT /\ Along(moved, x, N)
  <2> DEFINE it == its[i]
  <2>1. it \in IterT /\ Along(it, obj, N)
    BY <1>3
  <2>2. obj.loaded \in BOOLEAN /\ x.loaded \in BOOLEAN
    BY <1>2, <1>5 DEF Sound, Kept
  <2>3. moved = IF n.k = 0 THEN [it EXCEPT !.done = TRUE]
                ELSE [it EXCEPT !.index = it.index + 1, !.last = n.k]
    OBVIOUS
  <2> HIDE DEF it, moved
  <2>4. CASE n.k = 0
    <3>1. /\ moved \in IterT /\ moved.index = it.index /\ moved.last = it.last
          /\ moved.alone = it.alone /\ moved.done = TRUE
      BY <2>1, <2>3, <2>4 DEF IterT
    <3>2. it.alone => it.last = it.index /\ it.index = N
      <4>1. CASE obj.loaded
        BY <1>5, <2>1, <2>4, <4>1, <1>2 DEF Along, it
      <4>2. CASE obj.loaded = FALSE
        BY <1>5, <2>1, <2>4, <4>2 DEF Along
      <4> QED BY <2>2, <4>1, <4>2
    <3>3. x.loaded
      BY <1>5, <2>2, <2>4 DEF Kept
    <3>4. it.index \in 0 .. N /\ it.last \in 0 .. N
      BY <2>1 DEF Along
    <3> QED BY <3>1, <3>2, <3>3, <3>4 DEF Along
  <2>5. CASE n.k # 0
    <3>1. /\ moved \in IterT /\ moved.index = it.index + 1 /\ moved.last = n.k
          /\ moved.alone = it.alone /\ moved.done = it.done
      <4> DEFINE up == [it EXCEPT !.index = it.index + 1]
      <4>1. moved = [up EXCEPT !.last = n.k]
        BY <2>3, <2>5
      <4>2. /\ up \in IterT /\ up.index = it.index + 1 /\ up.alone = it.alone /\ up.done = it.done
        BY <2>1 DEF IterT
      <4>3. n.k \in Nat
        BY <1>2, <1>5
      <4> HIDE DEF up
      <4> QED BY <4>1, <4>2, <4>3 DEF IterT
    <3>2. it.alone => n.k = it.index + 1 /\ (x.loaded \/ Position(x) = n.k)
      <4>1. CASE obj.loaded
        BY <1>5, <2>5, <4>1 DEF it
      <4>2. CASE obj.loaded = FALSE
        BY <1>5, <2>1, <2>5, <4>2 DEF Along
      <4> QED BY <2>2, <4>1, <4>2
    <3>3. it.done = FALSE
      BY <1>1 DEF it
    <3>4. it.index + 1 \in 0 .. N /\ (x.loaded \/ it.index + 1 <= Position(x))
      <4>1. CASE obj.loaded
        <5>1. it.index < N /\ x.loaded
          BY <1>5, <2>5, <4>1 DEF it
        <5> QED BY <1>2, <2>1, <5>1 DEF Along
      <4>2. CASE obj.loaded = FALSE
        <5>1. it.index <= Position(obj) /\ it.index \in 0 .. N
          BY <2>1, <4>2 DEF Along
        <5>2. n.k = Position(obj) + 1 /\ Position(x) = n.k /\ Position(obj) \in Int
          BY <1>2, <1>5, <2>5, <4>2, PositionType
        <5> QED BY <1>2, <1>5, <5>1, <5>2
      <4> QED BY <2>2, <4>1, <4>2
    <3> QED BY <1>2, <1>5, <3>1, <3>2, <3>3, <3>4 DEF Along
  <2> QED BY <2>4, <2>5
<1> HIDE DEF kept, moved
<1>8. its' \in Seq(IterT) /\ \A j \in DOMAIN its' : Along(its'[j], x, N)
  BY <1>1, <1>3, <1>6, <1>7
<1>9. Iterators' /\ Extracting'
  BY <1>1, <1>2, <1>8 DEF IInv, Iterators, Extracting
<1> QED BY <1>1, <1>5, <1>9, ReaderKeeps

(* Look-ups and extractions: what they do to the archive and to iterators. *)
LEMMA CallKeeps ==
  ASSUME IInv, mode = "r", mode' = "r", UNCHANGED <<disk, at, pending, members, todo>>,
         Kept(obj, obj'), LeftAlone \/ (UNCHANGED its /\ Position(obj') = Position(obj)),
         Typed(fs'), job' \in JobT, job'.dirs \subseteq 1 .. N
  PROVE  IInv'
<1>1. N' = N
  BY DEF N
<1>2. Extracting'
  BY <1>1 DEF Extracting, Typed
<1>3. Iterators'
  <2>1. CASE LeftAlone
    BY <2>1, LeftAloneKept
  <2>2. CASE UNCHANGED its /\ Position(obj') = Position(obj)
    BY <1>1, <2>2 DEF IInv, Iterators, Along, Kept
  <2> QED BY <2>1, <2>2
<1> QED BY <1>2, <1>3, ReaderKeeps

LEMMA CallTypes ==
  ASSUME IInv, mode = "r"
  PROVE  /\ Readers /\ N \in Nat /\ Sound(obj, N) /\ Kept(obj, obj) /\ Typed(fs)
         /\ job \in JobT /\ job.dirs \subseteq 1 .. N
         /\ Sound(Load(obj), N) /\ Kept(obj, Load(obj))
<1>1. /\ Readers /\ N \in Nat /\ Sound(obj, N) /\ Kept(obj, obj) /\ Typed(fs)
      /\ job \in JobT /\ job.dirs \subseteq 1 .. N
  BY ReadersInv, KeptSelf DEF IInv, Extracting, Typed, Readers
<1> QED BY <1>1, LoadKept DEF Kept

LEMMA ExtractedKept ==
  ASSUME IInv, mode = "r", NEW o, Kept(obj, o), NEW k \in 1 .. N, NEW base, Extracted(o, k, base)
  PROVE  Kept(obj, obj') /\ Typed(fs')
<1>1. obj' = ExtractOf(o, fs, k, base).obj /\ fs' = ExtractOf(o, fs, k, base).fs
  BY DEF Extracted
<1>2. Kept(o, ExtractOf(o, fs, k, base).obj) /\ Typed(ExtractOf(o, fs, k, base).fs)
  BY CallTypes, ExtractOfKept DEF Kept
<1> QED BY <1>1, <1>2, CallTypes, KeptTrans

LEMMA CallInv ==
  ASSUME IInv,
         \/ GetMembers
         \/ \E k \in 1 .. N : ExtractFile(k) \/ \E b \in Bases : Extract(k, b)
  PROVE  IInv'
<1> USE DEF fileVars
<1>1. mode = "r" /\ mode' = mode /\ UNCHANGED <<disk, at, pending, members, todo, job>>
  BY DEF GetMembers, ExtractFile, Extract, Call, Free
<1>2. CASE GetMembers
  BY <1>1, <1>2, CallTypes, CallKeeps DEF GetMembers
<1>3. ASSUME NEW k \in 1 .. N, ExtractFile(k) PROVE IInv'
  <2>1. UNCHANGED <<its, fs>> /\ (obj' = AfterRead(obj, k) \/ obj' = obj)
    BY <1>3 DEF ExtractFile
  <2>2. Kept(obj, obj') /\ Position(obj') = Position(obj)
    BY <1>1, <2>1, CallTypes, AtKept DEF AfterRead
  <2> QED BY <1>1, <2>1, <2>2, CallTypes, CallKeeps
<1>4. ASSUME NEW k \in 1 .. N, NEW b \in Bases, Extract(k, b) PROVE IInv'
  <2>1. LeftAlone /\ (Extracted(obj, k, b) \/ Extracted(Load(obj), k, b))
    BY <1>4 DEF Extract
  <2>2. Kept(obj, obj') /\ Typed(fs')
    BY <1>1, <2>1, CallTypes, ExtractedKept
  <2> QED BY <1>1, <2>1, <2>2, CallTypes, CallKeeps
<1> QED BY <1>2, <1>3, <1>4

LEMMA ExtractAllInv ==
  ASSUME IInv,
         \/ \E b \in Bases : ExtractAll(b)
         \/ ExtractAllMember \/ ExtractAllEnds
         \/ \E k \in 1 .. N : ExtractAllDir(k)
  PROVE  IInv'
<1> USE DEF fileVars
<1>1. mode = "r" /\ mode' = mode /\ UNCHANGED <<disk, at, pending, members, todo>>
  <2>1. mode' = mode /\ UNCHANGED <<disk, at, pending, members, todo>>
    BY Zenon DEF ExtractAll, ExtractAllMember, ExtractAllDir, ExtractAllEnds
  <2>2. mode = "r" \/ job.phase \in {"files", "dirs"}
    BY Zenon DEF ExtractAll, ExtractAllMember, ExtractAllDir, ExtractAllEnds, Call, Free
  <2>3. mode # "r" => job.phase = "none"
    BY DEF IInv, Archives, NoJob
  <2> QED BY <2>1, <2>2, <2>3
<1>2. /\ Readers /\ N \in Nat /\ Sound(obj, N) /\ Kept(obj, obj) /\ Typed(fs)
      /\ job \in JobT /\ job.dirs \subseteq 1 .. N
  BY <1>1, CallTypes
<1>3. ASSUME NEW b \in Bases, ExtractAll(b) PROVE IInv'
  <2>1. b \in Seq(Nat) /\ {} \in SUBSET Nat
    BY CpioAssumption
  <2>2. UNCHANGED <<obj, its, fs>> /\ job' \in JobT /\ job'.dirs = {}
    BY <1>3, <2>1 DEF ExtractAll, JobT
  <2> QED BY <1>1, <1>2, <2>2, CallKeeps
<1>4. CASE ExtractAllMember
  <2> DEFINE n == Step(obj, job.index)
  <2>1. Kept(obj, n.obj) /\ n.k \in 0 .. N
    <3>1. job.index \in Nat
      BY <1>2 DEF JobT
    <3>2. Moves(obj, job.index, Step(obj, job.index))
      BY <1>2, <3>1, StepKept
    <3> QED BY <3>2 DEF Moves
  <2>2. LeftAlone
    BY <1>4 DEF ExtractAllMember
  <2>3. CASE n.k = 0 /\ obj' = n.obj /\ job' = [job EXCEPT !.phase = "dirs"] /\ UNCHANGED fs
    <3>1. job' \in JobT /\ job'.dirs = job.dirs
      BY <1>2, <2>3 DEF JobT
    <3> HIDE DEF n
    <3> QED BY <1>1, <1>2, <2>1, <2>2, <2>3, <3>1, CallKeeps
  <2>4. CASE /\ n.k # 0 /\ obj' = n.obj
             /\ LET p == job.base \o members[n.k].name IN fs' = MakeDirs(fs, UpperDirs(p) \cup {p}, 0)
             /\ job' = [job EXCEPT !.index = @ + 1, !.dirs = @ \cup {n.k}]
    <3>1. job' \in JobT /\ job'.dirs = job.dirs \cup {n.k}
      <4> HIDE DEF n
      <4> DEFINE up == [job EXCEPT !.index = job.index + 1]
                 more == job.dirs \cup {n.k}
      <4>1. job' = [up EXCEPT !.dirs = more]
        BY <2>4
      <4>2. up \in JobT /\ up.dirs = job.dirs
        <5>1. job.index + 1 \in Nat
          BY <1>2 DEF JobT
        <5> QED BY <1>2, <5>1 DEF JobT
      <4>4. more \in SUBSET Nat
        <5>1. n.k \in Nat /\ job.dirs \subseteq Nat
          BY <1>2, <2>1 DEF JobT
        <5> QED BY <5>1
      <4> HIDE DEF up, more
      <4>3. job' \in JobT /\ job'.dirs = more
        BY <4>1, <4>2, <4>4 DEF JobT
      <4> QED BY <4>3 DEF more
    <3>2. Typed(fs')
      BY <1>2, <2>4, MakeDirsTyped
    <3> HIDE DEF n
    <3>3. job'.dirs \subseteq 1 .. N
      BY <1>2, <2>1, <2>4, <3>1
    <3> QED BY <1>1, <2>1, <2>2, <2>4, <3>1, <3>2, <3>3, CallKeeps
  <2>5. CASE /\ n.k # 0 /\ Extracted(n.obj, n.k, job.base)
             /\ job' = [job EXCEPT !.phase = "failed"] \/ job' = [job EXCEPT !.index = @ + 1]
    <3>1. job' \in JobT /\ job'.dirs = job.dirs
      BY <1>2, <2>5, SMTT(30) DEF JobT
    <3> HIDE DEF n
    <3>2. n.k \in 1 .. N
      BY <1>2, <2>1, <2>5
    <3>3. Kept(obj, obj') /\ Typed(fs')
      BY <1>1, <2>1, <2>5, <3>2, ExtractedKept
    <3> QED BY <1>1, <1>2, <2>2, <3>1, <3>3, CallKeeps
  <2>6. \/ n.k = 0 /\ obj' = n.obj /\ job' = [job EXCEPT !.phase = "dirs"] /\ UNCHANGED fs
        \/ /\ n.k # 0 /\ obj' = n.obj
           /\ LET p == job.base \o members[n.k].name IN fs' = MakeDirs(fs, UpperDirs(p) \cup {p}, 0)
           /\ job' = [job EXCEPT !.index = @ + 1, !.dirs = @ \cup {n.k}]
        \/ /\ n.k # 0 /\ Extracted(n.obj, n.k, job.base)
           /\ job' = [job EXCEPT !.phase = "failed"] \/ job' = [job EXCEPT !.index = @ + 1]
    BY <1>4 DEF ExtractAllMember
  <2> QED BY <2>3, <2>4, <2>5, <2>6
<1>5. ASSUME NEW k \in 1 .. N, ExtractAllDir(k) PROVE IInv'
  <2> DEFINE path == job.path \o members[k].name
  <2>1. path \in Seq(Nat)
    BY <1>2, SMTT(30) DEF Readers, JobT, InfoT
  <2>2. /\ UNCHANGED <<obj, its>>
        /\ fs' = IF path \in DOMAIN fs THEN [fs EXCEPT ![path].attr = members[k].ino] ELSE fs
        /\ job' = [job EXCEPT !.path = path, !.dirs = @ \ {k}]
    BY <1>5 DEF ExtractAllDir
  <2> HIDE DEF path
  <2>3. job' \in JobT /\ job'.dirs = job.dirs \ {k}
    BY <1>2, <2>1, <2>2 DEF JobT
  <2>4. Typed(fs')
    <3>1. members[k].ino \in Nat /\ \A p \in DOMAIN fs : fs[p] \in FileT
      BY <1>2 DEF Typed, Readers, InfoT
    <3>2. ASSUME NEW p \in DOMAIN fs, NEW a \in Nat PROVE [fs[p] EXCEPT !.attr = a] \in FileT
      BY <3>1 DEF FileT
    <3>3. ASSUME NEW p \in DOMAIN fs'
          PROVE  p \in DOMAIN fs /\ (fs'[p] = fs[p] \/ fs'[p] = [fs[p] EXCEPT !.attr = members[k].ino])
      BY <2>2
    <3> QED BY <3>1, <3>2, <3>3 DEF Typed
  <2>5. job'.dirs \subseteq 1 .. N
    BY <1>2, <2>3
  <2> QED BY <1>1, <1>2, <2>2, <2>3, <2>4, <2>5, CallKeeps
<1>6. CASE ExtractAllEnds
  <2>1. UNCHANGED <<obj, its, fs>> /\ job' \in JobT /\ job'.dirs = job.dirs
    BY <1>2, <1>6 DEF ExtractAllEnds, JobT
  <2> QED BY <1>1, <1>2, <2>1, CallKeeps
<1> QED BY <1>3, <1>4, <1>5, <1>6

-----------------------------------------------------------------------------

LEMMA NextInv == IInv /\ [Next]_vars => IInv'
<1> SUFFICES ASSUME IInv, [Next]_vars PROVE IInv'
  OBVIOUS
<1>1. CASE UNCHANGED vars
  <2>1. UNCHANGED <<disk, mode, at, pending, todo, obj, its, fs, job, members>>
    BY <1>1 DEF vars, fileVars, readVars
  <2>2. N' = N /\ Infos(disk)' = Infos(disk)
    BY <2>1 DEF N
  <2>3. Archives' /\ Extracting'
    BY <2>1, <2>2 DEF IInv, Archives, Extracting
  <2>4. Sound(obj, N)' /\ Iterators'
    BY <2>1, <2>2 DEF IInv, Iterators
  <2> QED BY <2>3, <2>4 DEF IInv
<1>2. CASE WriterNext
  BY <1>2, OpensInv, AddInv, AddingInv, ClosedInv DEF WriterNext
<1>3. CASE ReaderNext
  BY <1>3, OpenReadInv, NewIteratorInv, ResumeInv, CallInv, ExtractAllInv, CloseReaderInv DEF ReaderNext
<1> QED BY <1>1, <1>2, <1>3 DEF Next

LEMMA Invariance == Spec => []IInv
BY InitInv, NextInv, PTL DEF Spec

(* An iterator from which no look-up and no other iterator has taken       *)
(* members yields the first, the second, and so on to the last, of an      *)
(* archive of any length, however much of it is loaded meanwhile.          *)
THEOREM IteratorsAreComplete == Spec => []IteratesAll
<1>1. IInv => IteratesAll
  BY DEF IInv, Iterators, IteratesAll, Along
<1> QED BY <1>1, Invariance, PTL

(* Every cell, member, file and iterator has its type.                     *)
THEOREM CpioTypes == Spec => []TypeOK
<1>1. IInv => TypeOK
  <2> SUFFICES ASSUME IInv PROVE TypeOK
    OBVIOUS
  <2>1. obj.read \in 0 .. N
    BY DEF IInv, Sound
  <2>2. \A p \in DOMAIN fs : fs[p] \in [dir : BOOLEAN, data : Nat, attr : Nat]
    BY DEF IInv, Extracting, FileT
  <2>3. \A i \in DOMAIN its : its[i].index \in 0 .. N /\ its[i].last \in 0 .. N
    BY DEF IInv, Iterators, Along
  <2>4. job.phase \in {"none", "files", "dirs", "done", "failed"} /\ job.dirs \subseteq 1 .. N
    BY DEF IInv, Extracting, JobT
  <2>5. /\ disk \in Seq(Cell) /\ pending \in Seq(Cell)
        /\ mode \in {"none", "w", "a", "r"} /\ at \in Nat \ {0}
    BY DEF IInv, Archives
  <2> QED BY <2>1, <2>2, <2>3, <2>4, <2>5 DEF TypeOK
<1> QED BY <1>1, Invariance, PTL

-----------------------------------------------------------------------------
(* What Places() finds *)

(* A reader goes on at i; where it goes after a member, nowhere if its     *)
(* data are missing.                                                       *)
Go(d, i)     == i \in 1 .. Len(d) /\ d[i].kind = "header"
Follow(d, i) == IF d[i].size = 0 THEN i + 1
                ELSE IF i < Len(d) /\ d[i + 1].kind = "data" THEN i + 2 ELSE 0

(* ps are the places from i on. *)
Spelled(d, i, ps) ==
  /\ ps \in Seq(Nat)
  /\ \A j \in 1 .. Len(ps) : Go(d, ps[j])
  /\ \A j \in 1 .. Len(ps) - 1 : ps[j + 1] = Follow(d, ps[j])
  /\ IF ps = <<>> THEN ~Go(d, i) ELSE ps[1] = i /\ ~Go(d, Follow(d, ps[Len(ps)]))

LEMMA SpelledOn ==
  ASSUME NEW d, Len(d) \in Nat, NEW i \in 1 .. Len(d), Go(d, i), NEW ps, Spelled(d, Follow(d, i), ps)
  PROVE  Spelled(d, i, <<i>> \o ps)
<1> DEFINE qs == <<i>> \o ps
<1>1. ps \in Seq(Nat) /\ i \in Nat
  BY DEF Spelled
<1>2. qs \in Seq(Nat) /\ Len(qs) = Len(ps) + 1 /\ qs[1] = i /\ Len(ps) \in Nat
      /\ \A j \in 1 .. Len(ps) : qs[j + 1] = ps[j]
  BY <1>1
<1>3. \A j \in 2 .. Len(qs) : j - 1 \in 1 .. Len(ps) /\ qs[j] = ps[j - 1]
  <2> TAKE j \in 2 .. Len(qs)
  <2>1. j - 1 \in 1 .. Len(ps) /\ (j - 1) + 1 = j
    BY <1>2
  <2> QED BY <1>2, <2>1
<1> HIDE DEF qs
<1>4. \A j \in 1 .. Len(qs) : Go(d, qs[j])
  <2> TAKE j \in 1 .. Len(qs)
  <2>1. CASE j = 1
    BY <1>2, <2>1
  <2>2. CASE j # 1
    <3>1. j \in 2 .. Len(qs)
      BY <1>2, <2>2
    <3> QED BY <1>3, <3>1 DEF Spelled
  <2> QED BY <2>1, <2>2
<1>5. \A j \in 1 .. Len(qs) - 1 : qs[j + 1] = Follow(d, qs[j])
  <2> TAKE j \in 1 .. Len(qs) - 1
  <2>1. j \in 1 .. Len(ps) /\ qs[j + 1] = ps[j]
    BY <1>2
  <2>2. CASE j = 1
    <3>1. ps # <<>>
      BY <2>1, <2>2, <1>1
    <3> QED BY <2>1, <2>2, <3>1, <1>2 DEF Spelled
  <2>3. CASE j # 1
    <3>1. j \in 2 .. Len(qs) /\ j - 1 \in 1 .. Len(ps) - 1 /\ (j - 1) + 1 = j
      BY <2>1, <2>3, <1>2
    <3>2. qs[j] = ps[j - 1]
      BY <3>1, <1>3
    <3>3. ps[(j - 1) + 1] = Follow(d, ps[j - 1])
      BY <3>1 DEF Spelled
    <3> QED BY <2>1, <3>1, <3>2, <3>3
  <2> QED BY <2>2, <2>3
<1>6. ~Go(d, Follow(d, qs[Len(qs)]))
  <2>1. CASE ps = <<>>
    <3>1. Len(qs) = 1
      BY <1>2, <2>1
    <3> QED BY <1>2, <2>1, <3>1 DEF Spelled
  <2>2. CASE ps # <<>>
    <3>1. Len(qs) \in 2 .. Len(qs) /\ Len(qs) - 1 = Len(ps)
      BY <1>1, <1>2, <2>2
    <3>2. qs[Len(qs)] = ps[Len(ps)]
      BY <3>1, <1>3
    <3> QED BY <2>2, <3>2 DEF Spelled
  <2> QED BY <2>1, <2>2
<1>7. qs # <<>>
  BY <1>2
<1>8. Spelled(d, i, qs)
  BY <1>2, <1>4, <1>5, <1>6, <1>7 DEF Spelled
<1> QED BY <1>8 DEF qs

LEMMA PlacesSpelled == ASSUME NEW d, Len(d) \in Nat PROVE Spelled(d, 1, Places(d))
<1> DEFINE L == Len(d)
           f == CHOOSE g : Finds(d, g)
<1>1. Finds(d, f)
  BY FindsExists
<1>2. Places(d) = f[1]
  BY PlacesDef
<1> HIDE DEF f
<1>3. \A i \in 1 .. L + 1 : f[i] = From(d, f, i)
  BY <1>1 DEF Finds
<1>4. ASSUME NEW i, ~Go(d, i) PROVE Spelled(d, i, <<>>)
  <2>1. <<>> \in Seq(Nat) /\ Len(<<>>) = 0
    OBVIOUS
  <2> QED BY <1>4, <2>1 DEF Spelled
<1>5. ASSUME NEW i \in 1 .. L + 1, \A j \in i + 1 .. L + 1 : Spelled(d, j, f[j])
      PROVE  Spelled(d, i, f[i])
  <2>1. CASE ~Go(d, i)
    <3>0. i > L \/ (i <= L /\ d[i].kind # "header")
      BY <2>1 DEF Go
    <3>1. f[i] = From(d, f, i)
      BY <1>3
    <3>2. f[i] = <<>>
      BY <3>0, <3>1 DEF From
    <3> QED BY <1>4, <2>1, <3>2
  <2>2. CASE Go(d, i)
    <3>1. i \in 1 .. L /\ d[i].kind = "header"
      BY <2>2 DEF Go
    <3> DEFINE n    == Follow(d, i)
               more == IF n = 0 THEN <<>> ELSE f[n]
    <3>2. f[i] = <<i>> \o more
      <4>1. f[i] = <<i>> \o IF d[i].size = 0 THEN f[i + 1]
                   ELSE IF i < L /\ d[i + 1].kind = "data" THEN f[i + 2] ELSE <<>>
        <5>1. f[i] = From(d, f, i)
          BY <1>3
        <5>2. ~(i > L)
          BY <3>1
        <5> QED BY <3>1, <5>1, <5>2 DEF From
      <4>2. i + 1 # 0 /\ i + 2 # 0
        BY <3>1
      <4> QED BY <4>1, <4>2 DEF Follow
    <3>3. Spelled(d, n, more)
      <4>1. CASE n = 0
        <5>1. ~Go(d, n)
          BY <4>1 DEF Go
        <5> QED BY <4>1, <5>1, <1>4
      <4>2. CASE n # 0
        <5>1. n \in i + 1 .. L + 1
          BY <3>1, <4>2 DEF Follow
        <5> QED BY <4>2, <5>1, <1>5
      <4> QED BY <4>1, <4>2
    <3> HIDE DEF more
    <3> QED BY <2>2, <3>1, <3>2, <3>3, SpelledOn
  <2> QED BY <2>1, <2>2
<1>6. Spelled(d, 1, f[1])
  <2> DEFINE Bad == {n \in 0 .. L : ~Spelled(d, L + 1 - n, f[L + 1 - n])}
  <2>1. Bad = {}
    <3> SUFFICES ASSUME Bad # {} PROVE FALSE
      OBVIOUS
    <3>1. PICK n \in Bad : \A m \in Bad : n <= m
      <4>1. Bad \in SUBSET Nat
        OBVIOUS
      <4> HIDE DEF Bad
      <4> QED BY <4>1, LeastNat
    <3>2. n \in 0 .. L /\ L + 1 - n \in 1 .. L + 1
      BY <3>1
    <3>3. ASSUME NEW j \in (L + 1 - n) + 1 .. L + 1 PROVE Spelled(d, j, f[j])
      <4>1. L + 1 - j \in 0 .. L /\ L + 1 - j < n /\ L + 1 - (L + 1 - j) = j
        BY <3>2
      <4>2. L + 1 - j \notin Bad
        <5> HIDE DEF Bad
        <5> QED BY <3>1, <3>2, <4>1
      <4> QED BY <4>1, <4>2
    <3>4. Spelled(d, L + 1 - n, f[L + 1 - n])
      BY <1>5, <3>2, <3>3
    <3> QED BY <3>1, <3>4
  <2>2. L + 1 - L = 1 /\ L \in 0 .. L /\ L \notin Bad
    <3> HIDE DEF Bad
    <3> QED BY <2>1
  <2> QED BY <2>2
<1> QED BY <1>2, <1>6

(* No two lists are. *)
LEMMA SpelledWithin ==
  ASSUME NEW d, NEW i, NEW ps, Spelled(d, i, ps), NEW qs, Spelled(d, i, qs)
  PROVE  Len(ps) <= Len(qs) /\ \A j \in 1 .. Len(ps) : ps[j] = qs[j]
<1>0. ps \in Seq(Nat) /\ qs \in Seq(Nat) /\ Len(ps) \in Nat /\ Len(qs) \in Nat
  BY DEF Spelled
<1> DEFINE Bad == {j \in 1 .. Len(ps) : j > Len(qs) \/ ps[j] # qs[j]}
<1>1. Bad = {}
  <2> SUFFICES ASSUME Bad # {} PROVE FALSE
    OBVIOUS
  <2>1. PICK j \in Bad : \A k \in Bad : j <= k
    <3>1. Bad \in SUBSET Nat
      BY <1>0
    <3> HIDE DEF Bad
    <3> QED BY <3>1, LeastNat
  <2>2. j \in 1 .. Len(ps) /\ (j > Len(qs) \/ ps[j] # qs[j]) /\ Go(d, ps[j])
    BY <2>1 DEF Spelled
  <2>3. CASE j = 1
    <3>1. ps # <<>> /\ Go(d, i)
      BY <2>2, <2>3, <1>0 DEF Spelled
    <3>2. qs # <<>> /\ Len(qs) > 0
      BY <3>1, <1>0 DEF Spelled
    <3> QED BY <2>2, <2>3, <3>1, <3>2 DEF Spelled
  <2>4. CASE j # 1
    <3>1. j - 1 \in 1 .. Len(ps) - 1 /\ (j - 1) + 1 = j /\ j - 1 \in 1 .. Len(ps) /\ ~(j <= j - 1)
      BY <2>2, <2>4, <1>0
    <3>2. j - 1 \notin Bad
      <4> HIDE DEF Bad
      <4> QED BY <2>1, <3>1
    <3>3. j - 1 <= Len(qs) /\ ps[j - 1] = qs[j - 1]
      BY <3>1, <3>2, <1>0
    <3>4. ps[j] = Follow(d, qs[j - 1])
      <4>1. ps[(j - 1) + 1] = Follow(d, ps[j - 1])
        BY <3>1 DEF Spelled
      <4> QED BY <3>1, <3>3, <4>1
    <3>5. CASE j - 1 = Len(qs)
      <4>1. qs # <<>>
        BY <3>1, <3>5, <1>0
      <4> QED BY <2>2, <3>4, <3>5, <4>1 DEF Spelled
    <3>6. CASE j - 1 # Len(qs)
      <4>1. j - 1 \in 1 .. Len(qs) - 1 /\ j <= Len(qs)
        BY <3>1, <3>3, <3>6, <1>0, <2>2
      <4>2. qs[(j - 1) + 1] = Follow(d, qs[j - 1])
        BY <4>1 DEF Spelled
      <4> QED BY <2>2, <3>1, <3>4, <4>1, <4>2
    <3> QED BY <3>5, <3>6
  <2> QED BY <2>3, <2>4
<1>2. \A j \in 1 .. Len(ps) : j <= Len(qs) /\ ps[j] = qs[j]
  BY <1>1, <1>0
<1>3. Len(ps) <= Len(qs)
  <2>1. CASE Len(ps) = 0
    BY <1>0, <2>1
  <2>2. CASE Len(ps) # 0
    BY <1>0, <2>2, <1>2
  <2> QED BY <2>1, <2>2
<1> QED BY <1>2, <1>3

LEMMA PlacesAre ==
  ASSUME NEW d, Len(d) \in Nat, NEW ps, Spelled(d, 1, ps)
  PROVE  Places(d) = ps
<1> DEFINE qs == Places(d)
<1>1. Spelled(d, 1, qs)
  BY PlacesSpelled
<1> HIDE DEF qs
<1>2. ps \in Seq(Nat) /\ qs \in Seq(Nat)
  BY <1>1 DEF Spelled
<1>3. Len(ps) <= Len(qs) /\ \A j \in 1 .. Len(ps) : ps[j] = qs[j]
  BY <1>1, SpelledWithin
<1>4. Len(qs) <= Len(ps)
  BY <1>1, SpelledWithin
<1>5. Len(ps) = Len(qs)
  BY <1>2, <1>3, <1>4
<1>7. DOMAIN ps = DOMAIN qs
  BY <1>2, <1>5
<1>8. \A j \in DOMAIN ps : ps[j] = qs[j]
  BY <1>2, <1>3
<1>9. ps = [j \in DOMAIN ps |-> ps[j]] /\ qs = [j \in DOMAIN qs |-> qs[j]]
  BY <1>2
<1>6. ps = qs
  BY <1>7, <1>8, <1>9, SMTT(30)
<1> QED BY <1>6 DEF qs

-----------------------------------------------------------------------------
(* Whole members in a row *)

Whole(d, i) == Go(d, i) /\ Proper(d, i)

(* From its first cell on d has whole members, at all of qs but the last.  *)
Chain(d, qs) ==
  /\ qs \in Seq(Nat) /\ qs # <<>> /\ qs[1] = 1
  /\ \A j \in 1 .. Len(qs) - 1 : Whole(d, qs[j]) /\ qs[j + 1] = Follow(d, qs[j])

LEMMA HeaderIs ==
  ASSUME NEW n \in DOMAIN Tree, NEW size \in 0 .. Tree[n].size
  PROVE  LET c == Header(n, size) IN
         /\ c.kind = "header" /\ c.name = n /\ c.size = size /\ c.size \in {0, 1}
         /\ c.dir = Tree[n].dir /\ c.ino = Tree[n].ino /\ c.nlink = Tree[n].nlink
<1>1. Tree[n].size \in {0, 1}
  BY CpioAssumption
<1>2. size \in {0, 1}
  BY <1>1
<1> QED BY <1>2 DEF Header

LEMMA WholeIs ==
  ASSUME NEW d, Len(d) \in Nat, NEW i, Whole(d, i)
  PROVE  /\ i \in 1 .. Len(d) /\ d[i].kind = "header" /\ d[i].size \in {0, 1}
         /\ d[i].size = 0 => Follow(d, i) = i + 1
         /\ d[i].size = 1 => /\ Follow(d, i) = i + 2 /\ i + 1 <= Len(d)
                             /\ d[i + 1].kind = "data" /\ d[i + 1].ino = d[i].ino
         /\ Follow(d, i) \in i + 1 .. Len(d) + 1
<1>1. i \in 1 .. Len(d) /\ d[i].kind = "header"
  BY DEF Whole, Go
<1>2. PICK n \in DOMAIN Tree : \E size \in 0 .. Tree[n].size :
               d[i] = Header(n, size) /\ (size = 1 => i < Len(d) /\ d[i + 1] = DataOf(n))
  BY DEF Whole, Proper
<1>3. PICK size \in 0 .. Tree[n].size :
               d[i] = Header(n, size) /\ (size = 1 => i < Len(d) /\ d[i + 1] = DataOf(n))
  BY <1>2
<1>4. d[i].size = size /\ size \in {0, 1} /\ d[i].ino = Tree[n].ino
  BY <1>3, HeaderIs
<1>5. CASE size = 0
  BY <1>1, <1>4, <1>5 DEF Follow
<1>6. CASE size = 1
  <2>1. i < Len(d) /\ d[i + 1].kind = "data" /\ d[i + 1].ino = d[i].ino
    BY <1>3, <1>4, <1>6 DEF DataOf
  <2> QED BY <1>1, <1>4, <1>6, <2>1 DEF Follow
<1> QED BY <1>4, <1>5, <1>6

(* The same cells make the same member. *)
LEMMA WholeSame ==
  ASSUME NEW c, Len(c) \in Nat, NEW d, Len(d) \in Nat, NEW e \in Nat, e <= Len(c), e <= Len(d),
         \A i \in 1 .. e : d[i] = c[i], NEW i, Whole(c, i), Follow(c, i) <= e + 1
  PROVE  Whole(d, i) /\ Follow(d, i) = Follow(c, i) /\ i <= e
<1>1. /\ i \in 1 .. Len(c) /\ c[i].kind = "header" /\ c[i].size \in {0, 1}
      /\ c[i].size = 0 => Follow(c, i) = i + 1
      /\ c[i].size = 1 => Follow(c, i) = i + 2 /\ c[i + 1].kind = "data"
  BY WholeIs
<1>2. i \in 1 .. e /\ d[i] = c[i] /\ (c[i].size = 1 => i + 1 \in 1 .. e /\ d[i + 1] = c[i + 1])
  <2>1. CASE c[i].size = 0
    BY <1>1, <2>1
  <2>2. CASE c[i].size = 1
    BY <1>1, <2>2
  <2> QED BY <1>1, <2>1, <2>2
<1>3. i \in 1 .. Len(d) /\ (c[i].size = 1 => i < Len(d))
  BY <1>2
<1>4. Proper(d, i)
  <2>1. PICK n \in DOMAIN Tree : \E size \in 0 .. Tree[n].size :
          /\ c[i] = Header(n, size) /\ (Tree[n].nlink = 1 => size = Tree[n].size)
          /\ size = 1 => i < Len(c) /\ c[i + 1] = DataOf(n)
    BY DEF Whole, Proper
  <2>2. PICK size \in 0 .. Tree[n].size :
          /\ c[i] = Header(n, size) /\ (Tree[n].nlink = 1 => size = Tree[n].size)
          /\ size = 1 => i < Len(c) /\ c[i + 1] = DataOf(n)
    BY <2>1
  <2>3. c[i].size = size
    BY <2>2, HeaderIs
  <2>4. d[i] = Header(n, size) /\ (size = 1 => i < Len(d) /\ d[i + 1] = DataOf(n))
    BY <1>2, <1>3, <2>2, <2>3
  <2> QED BY <2>2, <2>4 DEF Proper
<1>5. Whole(d, i)
  BY <1>1, <1>2, <1>3, <1>4 DEF Whole, Go
<1>6. Follow(d, i) = Follow(c, i)
  BY <1>1, <1>2, <1>3 DEF Follow
<1> QED BY <1>2, <1>5, <1>6

LEMMA ChainGrows ==
  ASSUME NEW d, Len(d) \in Nat, NEW qs, Chain(d, qs), NEW m \in 1 .. Len(qs)
  PROVE  /\ Len(qs) \in Nat \ {0} /\ qs[m] \in 1 .. Len(d) + 1
         /\ \A j \in 1 .. m : qs[j] \in Nat \ {0} /\ qs[j] <= qs[m]
<1>1. qs \in Seq(Nat) /\ Len(qs) \in Nat \ {0} /\ \A j \in 1 .. Len(qs) : qs[j] \in Nat
  BY DEF Chain
<1>2. \A j \in 1 .. Len(qs) - 1 : qs[j] < qs[j + 1] /\ qs[j] >= 1 /\ qs[j + 1] <= Len(d) + 1
  <2> TAKE j \in 1 .. Len(qs) - 1
  <2>1. Whole(d, qs[j]) /\ qs[j + 1] = Follow(d, qs[j])
    BY DEF Chain
  <2> QED BY <2>1, <1>1, WholeIs
<1> DEFINE Bad == {n \in 0 .. m - 1 : ~(qs[m - n] <= qs[m])}
<1>3. Bad = {}
  <2> SUFFICES ASSUME Bad # {} PROVE FALSE
    OBVIOUS
  <2>1. PICK n \in Bad : \A k \in Bad : n <= k
    <3>1. Bad \in SUBSET Nat
      BY <1>1
    <3> HIDE DEF Bad
    <3> QED BY <3>1, LeastNat
  <2>2. n \in 0 .. m - 1 /\ ~(qs[m - n] <= qs[m]) /\ m - n \in 1 .. Len(qs)
    BY <2>1, <1>1
  <2>3. n # 0
    <3>1. m - 0 = m /\ qs[m] <= qs[m]
      BY <1>1
    <3> QED BY <2>2, <3>1
  <2>4. n - 1 \in 0 .. m - 1 /\ ~(n <= n - 1) /\ m - (n - 1) = (m - n) + 1 /\ m - n \in 1 .. Len(qs) - 1
    BY <2>2, <2>3
  <2>5. n - 1 \notin Bad
    <3> HIDE DEF Bad
    <3> QED BY <2>1, <2>4
  <2>6. qs[(m - n) + 1] <= qs[m]
    <3>1. qs[m - (n - 1)] <= qs[m]
      BY <2>4, <2>5
    <3> QED BY <3>1, <2>4
  <2>7. qs[m - n] < qs[(m - n) + 1]
    BY <2>4, <1>2
  <2>8. qs[m - n] \in Nat /\ qs[(m - n) + 1] \in Nat /\ qs[m] \in Nat
    <3>1. m - n \in 1 .. Len(qs) /\ (m - n) + 1 \in 1 .. Len(qs) /\ m \in 1 .. Len(qs)
      BY <1>1, <2>2, <2>4
    <3> QED BY <1>1, <3>1, Zenon
  <2> QED BY <2>2, <2>6, <2>7, <2>8, SMTT(30)
<1>4. \A j \in 1 .. m : qs[j] <= qs[m]
  <2> TAKE j \in 1 .. m
  <2>1. m - j \in 0 .. m - 1 /\ m - (m - j) = j /\ m - j \notin Bad
    <3> HIDE DEF Bad
    <3> QED BY <1>3
  <2> QED BY <2>1
<1>5. \A j \in 1 .. Len(qs) : qs[j] \in 1 .. Len(d) + 1
  <2> TAKE j \in 1 .. Len(qs)
  <2>1. CASE j = 1
    BY <2>1 DEF Chain
  <2>2. CASE j # 1
    <3>1. j - 1 \in 1 .. Len(qs) - 1 /\ (j - 1) + 1 = j /\ j - 1 \in 1 .. Len(qs)
      BY <1>1, <2>2
    <3>2. qs[j - 1] < qs[j] /\ qs[j - 1] >= 1 /\ qs[j] <= Len(d) + 1
      BY <3>1, <1>2
    <3> QED BY <3>1, <3>2, <1>1
  <2> QED BY <2>1, <2>2
<1>6. \A j \in 1 .. m : j \in 1 .. Len(qs)
  BY <1>1
<1> QED BY <1>1, <1>4, <1>5, <1>6

(* A part of it, of another archive with the same cells up to there. *)
LEMMA ChainPart ==
  ASSUME NEW c, Len(c) \in Nat, NEW d, Len(d) \in Nat, NEW e \in Nat, e <= Len(c), e <= Len(d),
         \A i \in 1 .. e : d[i] = c[i],
         NEW qs, Chain(c, qs), NEW m \in 1 .. Len(qs), qs[m] <= e + 1
  PROVE  /\ Chain(d, SubSeq(qs, 1, m))
         /\ Len(SubSeq(qs, 1, m)) = m /\ \A j \in 1 .. m : SubSeq(qs, 1, m)[j] = qs[j]
         /\ \A j \in 1 .. m - 1 : qs[j] \in 1 .. e
<1> DEFINE ps == SubSeq(qs, 1, m)
<1>1. qs \in Seq(Nat) /\ Len(qs) \in Nat /\ qs[1] = 1
  BY DEF Chain
<1>2. ps \in Seq(Nat) /\ Len(ps) = m /\ \A j \in 1 .. m : ps[j] = qs[j]
  BY <1>1, SMTT(30)
<1> HIDE DEF ps
<1>3. ASSUME NEW j \in 1 .. m - 1
      PROVE  Whole(d, qs[j]) /\ qs[j + 1] = Follow(d, qs[j]) /\ qs[j] \in 1 .. e
  <2>1. j \in 1 .. Len(qs) - 1 /\ j + 1 \in 1 .. m
    BY <1>1
  <2>2. Whole(c, qs[j]) /\ qs[j + 1] = Follow(c, qs[j])
    BY <2>1 DEF Chain
  <2>3. Follow(c, qs[j]) <= e + 1
    <3>1. qs[j + 1] <= qs[m] /\ qs[j + 1] \in Nat /\ qs[m] \in Nat
      BY <2>1, ChainGrows
    <3> QED BY <3>1, <2>2
  <2>4. qs[j] \in 1 .. Len(c)
    BY <2>2 DEF Whole, Go
  <2>5. Whole(d, qs[j]) /\ Follow(d, qs[j]) = Follow(c, qs[j]) /\ qs[j] <= e
    <3> DEFINE q == qs[j]
    <3>1. Whole(c, q) /\ Follow(c, q) <= e + 1
      BY <2>2, <2>3
    <3> HIDE DEF q
    <3>2. Whole(d, q) /\ Follow(d, q) = Follow(c, q) /\ q <= e
      BY <3>1, WholeSame
    <3> QED BY <3>2 DEF q
  <2> QED BY <2>2, <2>4, <2>5
<1>4. Chain(d, ps)
  <2>1. ps # <<>> /\ ps[1] = 1
    BY <1>1, <1>2
  <2>2. ASSUME NEW j \in 1 .. Len(ps) - 1
        PROVE  Whole(d, ps[j]) /\ ps[j + 1] = Follow(d, ps[j])
    <3>1. j \in 1 .. m - 1 /\ j \in 1 .. m /\ j + 1 \in 1 .. m
      BY <1>2
    <3> QED BY <3>1, <1>2, <1>3
  <2> QED BY <1>2, <2>1, <2>2 DEF Chain
<1>5. \A j \in 1 .. m - 1 : qs[j] \in 1 .. e
  BY <1>3
<1> QED BY <1>2, <1>4, <1>5 DEF ps

(* How far it goes within the first e cells. *)
LEMMA ChainReaches ==
  ASSUME NEW c, Len(c) \in Nat, NEW qs, Chain(c, qs), NEW e \in Nat, NEW b \in 1 .. Len(qs), qs[b] <= e + 1
  PROVE  \E m \in b .. Len(qs) : qs[m] <= e + 1 /\ (m < Len(qs) => ~(qs[m + 1] <= e + 1))
<1>1. Len(qs) \in Nat \ {0}
  BY ChainGrows
<1> DEFINE S == {j \in b .. Len(qs) - 1 : ~(qs[j + 1] <= e + 1)}
<1>2. CASE S = {}
  <2>1. qs[Len(qs)] <= e + 1
    <3>1. CASE b = Len(qs)
      BY <3>1
    <3>2. CASE b # Len(qs)
      <4>1. Len(qs) - 1 \in b .. Len(qs) - 1 /\ (Len(qs) - 1) + 1 = Len(qs)
        BY <1>1, <3>2
      <4>2. Len(qs) - 1 \notin S
        BY <1>2
      <4> QED BY <4>1, <4>2
    <3> QED BY <3>1, <3>2
  <2>2. Len(qs) \in b .. Len(qs)
    BY <1>1
  <2> QED BY <1>1, <2>1, <2>2
<1>3. CASE S # {}
  <2>1. PICK m \in S : \A k \in S : m <= k
    <3>1. S \in SUBSET Nat
      OBVIOUS
    <3> HIDE DEF S
    <3> QED BY <3>1, <1>3, LeastNat
  <2>2. m \in b .. Len(qs) - 1 /\ ~(qs[m + 1] <= e + 1)
    BY <2>1
  <2>3. qs[m] <= e + 1
    <3>1. CASE m = b
      BY <3>1
    <3>2. CASE m # b
      <4>1. m - 1 \in b .. Len(qs) - 1 /\ ~(m <= m - 1) /\ (m - 1) + 1 = m
        BY <2>2, <3>2, <1>1
      <4>2. m - 1 \notin S
        <5> HIDE DEF S
        <5> QED BY <2>1, <4>1
      <4> QED BY <4>1, <4>2
    <3> QED BY <3>1, <3>2
  <2>4. m \in b .. Len(qs)
    BY <2>2, <1>1
  <2> QED BY <2>2, <2>3, <2>4
<1> QED BY <1>2, <1>3

-----------------------------------------------------------------------------
(* What a reader finds of them *)

(* No header is behind the place l that a reader could go on with, whatever*)
(* the size at l.                                                          *)
NoneBehind(d, l) ==
  l < Len(d) => /\ d[l + 1].kind # "header"
                /\ d[l + 1].kind = "data" /\ l + 1 < Len(d) => d[l + 2].kind # "header"

LEMMA NoneFollows ==
  ASSUME NEW d, Len(d) \in Nat, NEW l \in 1 .. Len(d), NoneBehind(d, l)
  PROVE  ~Go(d, Follow(d, l))
<1>1. CASE Follow(d, l) = 0
  BY <1>1 DEF Go
<1>2. CASE Follow(d, l) = l + 1
  BY <1>2 DEF Go, NoneBehind
<1>3. CASE Follow(d, l) = l + 2 /\ l < Len(d) /\ d[l + 1].kind = "data"
  <2>1. ASSUME l + 2 <= Len(d) PROVE d[l + 2].kind # "header"
    <3>1. l + 1 < Len(d)
      BY <2>1
    <3> QED BY <1>3, <3>1 DEF NoneBehind
  <2>2. l + 2 \in 1 .. Len(d) => l + 2 <= Len(d)
    OBVIOUS
  <2> QED BY <1>3, <2>1, <2>2 DEF Go
<1> QED BY <1>1, <1>2, <1>3 DEF Follow

LEMMA PartIs ==
  ASSUME NEW S, NEW s \in Seq(S), NEW m \in Nat, m <= Len(s)
  PROVE  /\ SubSeq(s, 1, m) \in Seq(S) /\ Len(SubSeq(s, 1, m)) = m
         /\ \A k \in 1 .. m : SubSeq(s, 1, m)[k] = s[k]
OBVIOUS

LEMMA ChainPlaces ==
  ASSUME NEW d, Len(d) \in Nat, NEW qs, Chain(d, qs)
  PROVE  LET q == qs[Len(qs)] IN
         /\ ~Go(d, q) => Places(d) = SubSeq(qs, 1, Len(qs) - 1)
         /\ Go(d, q) /\ NoneBehind(d, q) => Places(d) = qs
<1> DEFINE n == Len(qs)
           ps == SubSeq(qs, 1, n - 1)
<1>1. qs \in Seq(Nat) /\ n \in Nat \ {0} /\ qs[1] = 1 /\ qs # <<>>
      /\ \A j \in 1 .. n - 1 : Go(d, qs[j]) /\ qs[j + 1] = Follow(d, qs[j])
  BY DEF Chain, Whole
<1>2. ps \in Seq(Nat) /\ Len(ps) = n - 1 /\ \A j \in 1 .. n - 1 : ps[j] = qs[j]
  <2>1. n - 1 \in Nat /\ n - 1 <= n
    BY <1>1
  <2> QED BY <1>1, <2>1, PartIs
<1>3. ASSUME ~Go(d, qs[n]) PROVE Spelled(d, 1, ps)
  <2> HIDE DEF ps
  <2>1. \A j \in 1 .. Len(ps) : Go(d, ps[j])
    BY <1>1, <1>2
  <2>2. \A j \in 1 .. Len(ps) - 1 : ps[j + 1] = Follow(d, ps[j])
    <3> TAKE j \in 1 .. Len(ps) - 1
    <3>1. j \in 1 .. n - 1 /\ j + 1 \in 1 .. n - 1
      BY <1>1, <1>2
    <3> QED BY <1>1, <1>2, <3>1
  <2>3. CASE n = 1
    <3>1. ps = <<>>
      BY <1>2, <2>3
    <3> QED BY <1>1, <1>2, <1>3, <2>1, <2>2, <2>3, <3>1 DEF Spelled
  <2>4. CASE n # 1
    <3>1. n - 1 \in 1 .. n - 1 /\ 1 \in 1 .. n - 1 /\ (n - 1) + 1 = n
      <4>1. n \in Nat \ {0}
        BY <1>1
      <4> HIDE DEF n
      <4> QED BY <2>4, <4>1
    <3>2. ps[1] = 1 /\ ps # <<>> /\ ps[Len(ps)] = qs[n - 1]
      <4>1. ps[1] = qs[1] /\ ps[n - 1] = qs[n - 1] /\ Len(ps) # 0
        BY <1>2, <3>1
      <4> QED BY <1>1, <1>2, <4>1
    <3>3. ~Go(d, Follow(d, ps[Len(ps)]))
      <4>1. qs[(n - 1) + 1] = Follow(d, qs[n - 1])
        BY <1>1, <3>1
      <4> QED BY <1>3, <3>1, <3>2, <4>1
    <3> QED BY <1>2, <2>1, <2>2, <3>2, <3>3 DEF Spelled
  <2> QED BY <2>3, <2>4
<1>4. ASSUME Go(d, qs[n]), NoneBehind(d, qs[n]) PROVE Spelled(d, 1, qs)
  <2>1. \A j \in 1 .. n : Go(d, qs[j])
    <3> TAKE j \in 1 .. n
    <3>1. j = n \/ j \in 1 .. n - 1
      BY <1>1
    <3> QED BY <1>1, <1>4, <3>1
  <2>2. ~Go(d, Follow(d, qs[n]))
    <3>1. qs[n] \in 1 .. Len(d)
      BY <1>4 DEF Go
    <3> QED BY <1>4, <3>1, NoneFollows
  <2> QED BY <1>1, <2>1, <2>2 DEF Spelled
<1> QED BY <1>3, <1>4, PlacesAre

LEMMA InfosAre ==
  ASSUME NEW d, NEW ps \in Seq(Nat), Places(d) = ps
  PROVE  /\ DOMAIN Infos(d) = 1 .. Len(ps) /\ Infos(d) \in Seq({Info(d[ps[k]]) : k \in 1 .. Len(ps)})
         /\ Len(Infos(d)) = Len(ps) /\ \A k \in 1 .. Len(ps) : Infos(d)[k] = Info(d[ps[k]])
<1> DEFINE L == Len(ps)
           v(k) == Info(d[ps[k]])
<1>1. L \in Nat /\ Infos(d) = [k \in 1 .. L |-> v(k)]
  BY DEF Infos
<1>2. [k \in 1 .. L |-> v(k)] \in Seq({v(k) : k \in 1 .. L}) /\ Len([k \in 1 .. L |-> v(k)]) = L
  <2> HIDE DEF v
  <2> QED BY <1>1
<1> QED BY <1>1, <1>2

(* The archive on disk as readers and the next writer come across it. *)
Sane(d) ==
  Places(d) # <<>> => Chain(d, Places(d)) /\ NoneBehind(d, Places(d)[Len(Places(d))])

AllWhole(d) == \A k \in 1 .. Len(Places(d)) : Whole(d, Places(d)[k])

LEMMA AllButLastIs ==
  ASSUME NEW S, NEW s \in Seq(S)
  PROVE  /\ AllButLast(s) \in Seq(S)
         /\ s = <<>> => Len(AllButLast(s)) = 0
         /\ s # <<>> => Len(AllButLast(s)) = Len(s) - 1
         /\ \A k \in 1 .. Len(AllButLast(s)) : AllButLast(s)[k] = s[k]
<1>1. CASE s = <<>>
  <2>1. AllButLast(s) = <<>>
    BY <1>1 DEF AllButLast
  <2> QED BY <1>1, <2>1
<1>2. CASE s # <<>>
  <2>1. Len(s) - 1 \in Nat /\ Len(s) - 1 <= Len(s)
    BY <1>2
  <2>2. AllButLast(s) = SubSeq(s, 1, Len(s) - 1)
    BY <1>2 DEF AllButLast, Front
  <2>3. /\ AllButLast(s) \in Seq(S) /\ Len(AllButLast(s)) = Len(s) - 1
        /\ \A k \in 1 .. Len(s) - 1 : AllButLast(s)[k] = s[k]
    <3> DEFINE m == Len(s) - 1
    <3> HIDE DEF m
    <3>1. /\ SubSeq(s, 1, m) \in Seq(S) /\ Len(SubSeq(s, 1, m)) = m
          /\ \A k \in 1 .. m : SubSeq(s, 1, m)[k] = s[k]
      BY <2>1, PartIs DEF m
    <3> QED BY <2>2, <3>1 DEF m
  <2> QED BY <1>2, <2>3
<1> QED BY <1>1, <1>2

LEMMA PrefixIs ==
  ASSUME NEW S, NEW s \in Seq(S), NEW T, NEW t \in Seq(T), Len(s) <= Len(t),
         \A k \in 1 .. Len(s) : s[k] = t[k]
  PROVE  IsPrefix(s, t)
<1>1. Len(s) \in Nat /\ Len(t) \in Nat
  OBVIOUS
<1>2. Len(SubSeq(s, 1, Len(s))) = Len(s) /\ Len(SubSeq(t, 1, Len(s))) = Len(s)
  BY <1>1
<1>3. SubSeq(s, 1, Len(s)) = SubSeq(t, 1, Len(s))
  BY <1>1, <1>2
<1> QED BY <1>1, <1>3 DEF IsPrefix

(* The end of what is readable, at the last of qs. *)
Ends(d, qs) ==
  LET n == Len(qs) IN
  \/ ~Go(d, qs[n]) /\ (n > 1 => NoneBehind(d, qs[n - 1]))
  \/ Go(d, qs[n]) /\ NoneBehind(d, qs[n])

LEMMA ChainSane ==
  ASSUME NEW d, Len(d) \in Nat, NEW qs, Chain(d, qs), Ends(d, qs)
  PROVE  /\ Sane(d) /\ Places(d) \in Seq(Nat)
         /\ Len(Places(d)) \in {Len(qs) - 1, Len(qs)}
         /\ \A k \in 1 .. Len(Places(d)) : Places(d)[k] = qs[k]
         /\ ~Go(d, qs[Len(qs)]) => Len(Places(d)) = Len(qs) - 1 /\ AllWhole(d)
<1> DEFINE n == Len(qs)
           ps == Places(d)
<1>1. qs \in Seq(Nat) /\ n \in Nat \ {0} /\ qs[1] = 1 /\ qs # <<>>
      /\ \A j \in 1 .. n - 1 : Whole(d, qs[j]) /\ qs[j + 1] = Follow(d, qs[j])
  BY DEF Chain
<1>2. CASE ~Go(d, qs[n]) /\ (n > 1 => NoneBehind(d, qs[n - 1]))
  <2>1. ps = SubSeq(qs, 1, n - 1)
    BY <1>2, ChainPlaces
  <2>2. ps \in Seq(Nat) /\ Len(ps) = n - 1 /\ \A k \in 1 .. n - 1 : ps[k] = qs[k]
    <3>1. n - 1 \in Nat /\ n - 1 <= n
      BY <1>1
    <3>2. /\ SubSeq(qs, 1, n - 1) \in Seq(Nat) /\ Len(SubSeq(qs, 1, n - 1)) = n - 1
          /\ \A k \in 1 .. n - 1 : SubSeq(qs, 1, n - 1)[k] = qs[k]
      BY <1>1, <3>1, PartIs
    <3> HIDE DEF ps, n
    <3> QED BY <2>1, <3>2, Zenon
  <2>3. AllWhole(d)
    BY <1>1, <2>2 DEF AllWhole
  <2>4. ASSUME ps # <<>> PROVE Chain(d, ps) /\ NoneBehind(d, ps[Len(ps)])
    <3>1. n - 1 \in 1 .. n - 1 /\ 1 \in 1 .. n - 1 /\ n > 1
      <4> HIDE DEF ps
      <4> QED BY <1>1, <2>2, <2>4
    <3>2. ps[1] = 1 /\ ps[Len(ps)] = qs[n - 1]
      BY <1>1, <2>2, <3>1
    <3>3. \A j \in 1 .. Len(ps) - 1 : Whole(d, ps[j]) /\ ps[j + 1] = Follow(d, ps[j])
      <4> TAKE j \in 1 .. Len(ps) - 1
      <4>1. j \in 1 .. n - 1 /\ j + 1 \in 1 .. n - 1
        BY <1>1, <2>2
      <4> QED BY <1>1, <2>2, <4>1
    <3> HIDE DEF ps
    <3> QED BY <1>2, <2>2, <2>4, <3>1, <3>2, <3>3 DEF Chain
  <2>5. Sane(d)
    BY <2>4 DEF Sane
  <2> HIDE DEF ps
  <2> QED BY <2>2, <2>3, <2>5, <1>1 DEF ps
<1>3. CASE Go(d, qs[n]) /\ NoneBehind(d, qs[n])
  <2>1. ps = qs
    BY <1>3, ChainPlaces
  <2>2. Sane(d)
    BY <1>3, <2>1 DEF Sane
  <2> QED BY <1>1, <1>3, <2>1, <2>2
<1> QED BY <1>2, <1>3 DEF Ends

(* The members of qs are the first of w: then the archive holds them. *)
Spells(d, qs, w) ==
  /\ Len(qs) - 1 <= Len(w)
  /\ \A j \in 1 .. Len(qs) - 1 : Info(d[qs[j]]) = w[j]

LEMMA FoundOf ==
  ASSUME NEW d \in Seq(Cell), NEW qs, Chain(d, qs), Ends(d, qs),
         NEW w \in Seq(InfoT), Spells(d, qs, w),
         NEW old \in Seq(InfoT), NEW b \in 1 .. Len(qs), AllButLast(old) = SubSeq(w, 1, b - 1)
  PROVE  /\ Sane(d) /\ Infos(d) \in Seq(InfoT)
         /\ IsPrefix(AllButLast(Infos(d)), w) /\ IsPrefix(AllButLast(old), Infos(d))
         /\ ~Go(d, qs[Len(qs)]) /\ Len(w) = Len(qs) - 1 => Infos(d) = w /\ AllWhole(d)
<1> DEFINE n == Len(qs)
           ps == Places(d)
           found == Infos(d)
<1>0. Len(d) \in Nat
  OBVIOUS
<1>1. qs \in Seq(Nat) /\ n \in Nat \ {0} /\ Len(w) \in Nat
  BY DEF Chain
<1>2. /\ Sane(d) /\ ps \in Seq(Nat) /\ Len(ps) \in {n - 1, n}
      /\ \A k \in 1 .. Len(ps) : ps[k] = qs[k]
      /\ ~Go(d, qs[n]) => Len(ps) = n - 1 /\ AllWhole(d)
  BY <1>0, ChainSane
<1>3. Len(found) = Len(ps) /\ \A k \in 1 .. Len(ps) : found[k] = Info(d[ps[k]])
  BY <1>2, InfosAre
<1>4. found \in Seq(InfoT)
  BY InfosTyped
<1> HIDE DEF ps, found
<1>5. n - 1 <= Len(w) /\ \A k \in 1 .. n - 1 : k \in 1 .. Len(ps) => found[k] = w[k]
  BY <1>2, <1>3 DEF Spells
<1>6. IsPrefix(AllButLast(found), w)
  <2> DEFINE s == AllButLast(found)
  <2>1. /\ s \in Seq(InfoT) /\ Len(s) <= n - 1 /\ Len(s) <= Len(ps) /\ Len(s) \in Nat
        /\ \A k \in 1 .. Len(s) : s[k] = found[k]
    <3>1. /\ s \in Seq(InfoT)
          /\ found = <<>> => Len(s) = 0
          /\ found # <<>> => Len(s) = Len(found) - 1
          /\ \A k \in 1 .. Len(s) : s[k] = found[k]
      BY <1>4, AllButLastIs
    <3>2. Len(s) \in Nat /\ Len(ps) \in {n - 1, n} /\ Len(found) = Len(ps) /\ n \in Nat \ {0}
      BY <1>1, <1>2, <1>3, <3>1
    <3>3. Len(s) <= n - 1 /\ Len(s) <= Len(ps)
      <4> DEFINE a == Len(s)
                 c == Len(ps)
      <4>1. (a = 0 \/ a = c - 1) /\ a \in Nat /\ c \in {n - 1, n} /\ n \in Nat \ {0}
        BY <1>4, <3>1, <3>2
      <4> HIDE DEF a, c, n
      <4>2. a <= n - 1 /\ a <= c
        BY <4>1
      <4> QED BY <4>2 DEF a, c
    <3> HIDE DEF s, n
    <3> QED BY <3>1, <3>2, <3>3
  <2> HIDE DEF s
  <2>2. \A k \in 1 .. Len(s) : s[k] = w[k]
    <3> TAKE k \in 1 .. Len(s)
    <3>1. k \in 1 .. n - 1 /\ k \in 1 .. Len(ps)
      <4>1. /\ Len(s) \in Nat /\ n \in Nat /\ Len(ps) \in Nat
            /\ Len(s) <= n - 1 /\ Len(s) <= Len(ps)
        BY <2>1, <1>1, <1>2
      <4> HIDE DEF n
      <4> QED BY <4>1
    <3> QED BY <1>5, <2>1, <3>1
  <2>3. Len(s) <= Len(w)
    BY <2>1, <1>1, <1>5
  <2> QED BY <2>1, <2>2, <2>3, PrefixIs DEF s
<1>7. IsPrefix(AllButLast(old), found)
  <2> DEFINE s == SubSeq(w, 1, b - 1)
  <2>1. b - 1 \in Nat /\ b - 1 <= n - 1 /\ b - 1 <= Len(w) /\ b - 1 <= Len(ps)
    BY <1>1, <1>2, <1>5
  <2>2. s \in Seq(InfoT) /\ Len(s) = b - 1 /\ \A k \in 1 .. b - 1 : s[k] = w[k]
    BY <2>1
  <2> HIDE DEF s
  <2>3. \A k \in 1 .. Len(s) : s[k] = found[k]
    <3> TAKE k \in 1 .. Len(s)
    <3>1. k \in 1 .. b - 1 /\ k \in 1 .. n - 1 /\ k \in 1 .. Len(ps)
      <4>1. /\ Len(s) = b - 1 /\ b - 1 \in Nat /\ n \in Nat /\ Len(ps) \in Nat
            /\ b - 1 <= n - 1 /\ b - 1 <= Len(ps)
        BY <2>1, <2>2, <1>1, <1>2
      <4> HIDE DEF n
      <4> QED BY <4>1
    <3> QED BY <1>5, <2>2, <3>1
  <2>4. Len(s) <= Len(found)
    BY <1>3, <2>1, <2>2
  <2>5. IsPrefix(s, found)
    BY <1>4, <2>2, <2>3, <2>4, PrefixIs
  <2> QED BY <2>5 DEF s
<1>8. ASSUME ~Go(d, qs[n]), Len(w) = n - 1 PROVE found = w
  <2>1. Len(found) = Len(w) /\ \A k \in 1 .. Len(w) : found[k] = w[k]
    BY <1>2, <1>3, <1>5, <1>8
  <2> QED BY <1>4, <2>1, SMTT(30)
<1> QED BY <1>2, <1>4, <1>6, <1>7, <1>8 DEF found

-----------------------------------------------------------------------------
(* The inductive invariant of what is kept *)

(* What will be there when the writer closes the archive. *)
Content == SubSeq(disk, 1, at - 1) \o pending

(* The data at q could not be written. *)
Spoilt(c, q) ==
  q < Len(c) /\ c[q].kind = "header" /\ c[q].size = 1 /\ c[q + 1].kind = "short"

(* The members of qs are all that was added, but for a failure.            *)
Complete(c, qs, w, ok) ==
  \/ qs[Len(qs)] = Len(c) + 1 /\ Len(qs) - 1 = Len(w)
  \/ ~ok /\ Spoilt(c, qs[Len(qs)])

(* The writer began at the b-th of qs, which was the last member of what   *)
(* is on disk, or the archive had none.                                    *)
Begins(qs, b) ==
  /\ at = qs[b] /\ AllButLast(before) = SubSeq(written, 1, b - 1)
  /\ \/ Go(disk, at) /\ NoneBehind(disk, at)
     \/ at = 1 /\ b = 1 /\ ~Go(disk, 1)

Writing ==
  \E qs : /\ Chain(Content, qs) /\ Spells(Content, qs, written) /\ Complete(Content, qs, written, whole)
          /\ \E b \in 1 .. Len(qs) : Begins(qs, b)

Resting ==
  /\ Sane(disk)
  /\ IF whole THEN Infos(disk) = written /\ AllWhole(disk)
     ELSE IsPrefix(AllButLast(Infos(disk)), written) /\ IsPrefix(AllButLast(before), Infos(disk))

History == written \in Seq(InfoT) /\ before \in Seq(InfoT) /\ whole \in BOOLEAN

KInv ==
  /\ IInv /\ History
  /\ mode \in {"w", "a"} => Writing
  /\ mode \in {"none", "r"} => Resting

-----------------------------------------------------------------------------

LEMMA ConcatIs ==
  ASSUME NEW S, NEW s \in Seq(S), NEW t \in Seq(S)
  PROVE  /\ s \o t \in Seq(S) /\ Len(s \o t) = Len(s) + Len(t)
         /\ \A i \in 1 .. Len(s) : (s \o t)[i] = s[i]
         /\ \A i \in 1 .. Len(t) : (s \o t)[Len(s) + i] = t[i]
OBVIOUS

LEMMA ContentIs ==
  ASSUME IInv, mode \in {"w", "a"}
  PROVE  /\ Content \in Seq(Cell) /\ at \in Nat \ {0} /\ pending \in Seq(Cell) /\ disk \in Seq(Cell)
         /\ at - 1 <= Len(disk) /\ Len(Content) = (at - 1) + Len(pending)
         /\ \A i \in 1 .. at - 1 : Content[i] = disk[i]
         /\ \A i \in 1 .. Len(pending) : Content[(at - 1) + i] = pending[i]
<1>1. disk \in Seq(Cell) /\ pending \in Seq(Cell) /\ at \in Nat \ {0} /\ at - 1 <= Len(disk)
  BY DEF IInv, Archives
<1> DEFINE a == at - 1
           old == SubSeq(disk, 1, a)
<1>2. a \in Nat /\ a <= Len(disk)
  BY <1>1
<1>3. old \in Seq(Cell) /\ Len(old) = a /\ \A i \in 1 .. a : old[i] = disk[i]
  <2> HIDE DEF a
  <2> QED BY <1>1, <1>2, PartIs
<1>4. Content = old \o pending
  BY DEF Content
<1> HIDE DEF a, old
<1>5. /\ Content \in Seq(Cell) /\ Len(Content) = Len(old) + Len(pending)
      /\ \A i \in 1 .. Len(old) : Content[i] = old[i]
      /\ \A i \in 1 .. Len(pending) : Content[Len(old) + i] = pending[i]
  <2> DEFINE c == old \o pending
  <2>1. /\ c \in Seq(Cell) /\ Len(c) = Len(old) + Len(pending)
        /\ \A i \in 1 .. Len(old) : c[i] = old[i]
        /\ \A i \in 1 .. Len(pending) : c[Len(old) + i] = pending[i]
    <3>1. old \in Seq(Cell) /\ pending \in Seq(Cell)
      BY <1>1, <1>3
    <3> QED BY <3>1, ConcatIs
  <2>2. Content = c
    BY <1>4
  <2> HIDE DEF c
  <2> QED BY <2>1, <2>2
<1>6. \A i \in 1 .. a : Content[i] = disk[i]
  BY <1>3, <1>5
<1>7. Len(Content) = a + Len(pending) /\ \A i \in 1 .. Len(pending) : Content[a + i] = pending[i]
  BY <1>3, <1>5
<1> QED BY <1>1, <1>5, <1>6, <1>7 DEF a

LEMMA ChainWithin ==
  ASSUME NEW c, Len(c) \in Nat, NEW d, Len(d) \in Nat, Len(c) <= Len(d),
         \A i \in 1 .. Len(c) : d[i] = c[i], NEW qs, Chain(c, qs)
  PROVE  Chain(d, qs) /\ \A j \in 1 .. Len(qs) - 1 : qs[j] \in 1 .. Len(c)
<1> DEFINE n == Len(qs)
           ps == SubSeq(qs, 1, n)
<1>1. qs \in Seq(Nat) /\ n \in Nat \ {0}
  BY DEF Chain
<1>2. n \in 1 .. Len(qs) /\ qs[n] <= Len(c) + 1
  <2>1. n \in 1 .. Len(qs)
    BY <1>1
  <2>2. qs[n] \in 1 .. Len(c) + 1
    BY <2>1, ChainGrows
  <2> QED BY <2>1, <2>2
<1>3. Chain(d, ps) /\ \A j \in 1 .. n - 1 : qs[j] \in 1 .. Len(c)
  <2> DEFINE e == Len(c)
  <2>1. e \in Nat /\ e <= Len(c) /\ e <= Len(d) /\ qs[n] <= e + 1 /\ \A i \in 1 .. e : d[i] = c[i]
    BY <1>2
  <2> HIDE DEF e
  <2>2. Chain(d, SubSeq(qs, 1, n)) /\ \A j \in 1 .. n - 1 : qs[j] \in 1 .. e
    BY <2>1, <1>2, ChainPart
  <2> QED BY <2>2 DEF e
<1>4. ps = qs
  <2>1. ps \in Seq(Nat) /\ Len(ps) = Len(qs) /\ \A k \in 1 .. Len(qs) : ps[k] = qs[k]
    BY <1>1, PartIs
  <2> HIDE DEF ps
  <2> QED BY <1>1, <2>1
<1> QED BY <1>3, <1>4

LEMMA ChainLonger ==
  ASSUME NEW d, Len(d) \in Nat, NEW qs, Chain(d, qs), Whole(d, qs[Len(qs)]), NEW q \in Nat, q = Follow(d, qs[Len(qs)])
  PROVE  /\ Chain(d, Append(qs, q)) /\ Len(Append(qs, q)) = Len(qs) + 1
         /\ \A j \in 1 .. Len(qs) : Append(qs, q)[j] = qs[j]
         /\ Append(qs, q)[Len(qs) + 1] = q
<1> DEFINE n == Len(qs)
           rs == Append(qs, q)
<1>1. qs \in Seq(Nat) /\ n \in Nat \ {0} /\ qs[1] = 1
      /\ \A j \in 1 .. n - 1 : Whole(d, qs[j]) /\ qs[j + 1] = Follow(d, qs[j])
  BY DEF Chain
<1>2. rs \in Seq(Nat) /\ Len(rs) = n + 1 /\ rs[n + 1] = q /\ \A j \in 1 .. n : rs[j] = qs[j]
  BY <1>1
<1> HIDE DEF rs
<1>3. rs # <<>> /\ rs[1] = 1
  <2>1. 1 \in 1 .. n /\ Len(rs) # 0
    BY <1>1, <1>2
  <2> QED BY <1>1, <1>2, <2>1
<1>4. ASSUME NEW j \in 1 .. Len(rs) - 1 PROVE Whole(d, rs[j]) /\ rs[j + 1] = Follow(d, rs[j])
  <2>1. CASE j = n
    <3>1. rs[j] = qs[n] /\ rs[j + 1] = q
      BY <1>1, <1>2, <2>1
    <3> QED BY <3>1
  <2>2. CASE j # n
    <3>1. j \in 1 .. n - 1 /\ j \in 1 .. n /\ j + 1 \in 1 .. n
      <4>1. n \in Nat /\ j \in 1 .. (n + 1) - 1
        BY <1>1, <1>2
      <4> HIDE DEF n
      <4> QED BY <2>2, <4>1
    <3>2. rs[j] = qs[j] /\ rs[j + 1] = qs[j + 1]
      BY <1>2, <3>1
    <3> QED BY <1>1, <3>1, <3>2
  <2> QED BY <2>1, <2>2
<1>5. Chain(d, rs)
  BY <1>2, <1>3, <1>4 DEF Chain
<1> QED BY <1>2, <1>5 DEF rs

LEMMA ChainBegins == ASSUME NEW d PROVE Chain(d, <<1>>) /\ Len(<<1>>) = 1 /\ <<1>>[1] = 1
<1>1. <<1>> \in Seq(Nat) /\ <<1>> # <<>> /\ Len(<<1>>) = 1 /\ <<1>>[1] = 1
  OBVIOUS
<1> QED BY <1>1 DEF Chain

-----------------------------------------------------------------------------
(* Opening *)

LEMMA InitKept == Init => KInv
<1> SUFFICES ASSUME Init PROVE KInv
  OBVIOUS
<1>1. IInv /\ mode = "none" /\ whole = TRUE /\ before = <<>> /\ written = Infos(disk)
  BY InitInv DEF Init
<1>2. disk \in Seq(Cell) /\ (disk \in Foreign \/ disk = <<>>)
  BY <1>1 DEF IInv, Archives, Init
<1>3. written \in Seq(InfoT) /\ <<>> \in Seq(InfoT)
  BY <1>1, <1>2, InfosTyped
<1> DEFINE ps == Places(disk)
           L == Len(ps)
<1>4. Spelled(disk, 1, ps) /\ Len(disk) \in Nat
  BY <1>2, PlacesSpelled
<1> HIDE DEF ps
<1>5. ps \in Seq(Nat) /\ L \in Nat
  BY <1>4 DEF Spelled
<1>6. ASSUME disk \in Foreign, NEW k \in 1 .. L PROVE Whole(disk, ps[k])
  <2>1. Go(disk, ps[k])
    BY <1>4 DEF Spelled
  <2> DEFINE i == ps[k]
  <2>2. i \in 1 .. Len(disk) /\ i \in DOMAIN disk /\ disk[i].kind = "header"
    BY <1>2, <2>1 DEF Go
  <2> HIDE DEF i
  <2>3. disk[i] # Trailer
    BY <2>2 DEF Trailer
  <2>4. Proper(disk, i)
    BY <1>6, <2>2, <2>3, ForeignAssumption
  <2> QED BY <2>1, <2>4 DEF Whole, i
<1>7. ASSUME disk = <<>> PROVE ps = <<>>
  <2>1. ~Go(disk, 1)
    BY <1>7 DEF Go
  <2> QED BY <2>1, <1>4 DEF Spelled
<1>8. ASSUME ps # <<>> PROVE Chain(disk, ps) /\ NoneBehind(disk, ps[L])
  <2>1. disk \in Foreign /\ L \in 1 .. L
    BY <1>2, <1>5, <1>7, <1>8
  <2>2. Chain(disk, ps)
    <3>1. \A j \in 1 .. L - 1 : Whole(disk, ps[j])
      BY <2>1, <1>5, <1>6
    <3>2. ps[1] = 1 /\ \A j \in 1 .. L - 1 : ps[j + 1] = Follow(disk, ps[j])
      BY <1>4, <1>8 DEF Spelled
    <3> QED BY <1>5, <1>8, <3>1, <3>2 DEF Chain
  <2> DEFINE l == ps[L]
  <2>3. Whole(disk, l) /\ ~Go(disk, Follow(disk, l))
    BY <2>1, <1>6, <1>4, <1>8 DEF Spelled
  <2> HIDE DEF l
  <2>4. /\ l \in 1 .. Len(disk) /\ disk[l].size \in {0, 1}
        /\ disk[l].size = 0 => Follow(disk, l) = l + 1
        /\ disk[l].size = 1 => Follow(disk, l) = l + 2 /\ l + 1 <= Len(disk) /\ disk[l + 1].kind = "data"
    BY <1>4, <2>3, WholeIs
  <2>5. NoneBehind(disk, l)
    <3> SUFFICES ASSUME l < Len(disk)
                 PROVE  /\ disk[l + 1].kind # "header"
                        /\ disk[l + 1].kind = "data" /\ l + 1 < Len(disk) => disk[l + 2].kind # "header"
      BY DEF NoneBehind
    <3>1. l + 1 \in 1 .. Len(disk) /\ (l + 1 < Len(disk) => l + 2 \in 1 .. Len(disk))
      BY <1>4, <2>4
    <3>2. CASE disk[l].size = 1
      <4>1. l + 1 < Len(disk) => disk[l + 2].kind # "header"
        BY <2>3, <2>4, <3>1, <3>2 DEF Go
      <4> QED BY <2>4, <3>2, <4>1
    <3>3. CASE disk[l].size = 0
      <4>1. disk[l + 1].kind # "header"
        BY <2>3, <2>4, <3>1, <3>3 DEF Go
      <4>2. disk[l + 1].kind # "data"
        <5> DEFINE i == l + 1
        <5>1. i \in DOMAIN disk /\ i - 1 = l
          BY <1>2, <2>4, <3>1
        <5> HIDE DEF i
        <5>2. \/ disk[i] = Trailer \/ Proper(disk, i)
              \/ disk[i - 1].size = 1
          BY <2>1, <5>1, ForeignAssumption
        <5>3. Proper(disk, i) => disk[i].kind = "header"
          BY HeaderIs DEF Proper
        <5>4. disk[i] = Trailer => disk[i].kind = "trailer"
          BY DEF Trailer
        <5>5. disk[i].kind # "data"
          BY <5>1, <5>2, <5>3, <5>4, <3>3, <4>1 DEF i
        <5> QED BY <5>5 DEF i
      <4> QED BY <4>1, <4>2
    <3> QED BY <2>4, <3>2, <3>3
  <2> QED BY <2>2, <2>5 DEF l
<1>9. AllWhole(disk)
  <2>1. \A k \in 1 .. L : Whole(disk, ps[k])
    <3> TAKE k \in 1 .. L
    <3>1. disk # <<>>
      BY <1>5, <1>7
    <3> QED BY <3>1, <1>2, <1>6
  <2> QED BY <2>1 DEF AllWhole, ps
<1>10. Sane(disk)
  BY <1>8 DEF Sane, ps
<1> QED BY <1>1, <1>3, <1>9, <1>10 DEF KInv, Resting, History

LEMMA OpenWriteKept == ASSUME KInv, OpenWrite PROVE KInv'
<1>1. IInv'
  BY OpensInv DEF KInv
<1>2. /\ mode' = "w" /\ disk' = <<>> /\ at' = 1 /\ written' = <<>> /\ before' = <<>>
      /\ pending' = <<>> /\ whole' = TRUE
  BY DEF OpenWrite
<1>3. Content' = <<>> /\ Len(Content') = 0
  <2>1. SubSeq(<<>>, 1, 1 - 1) \o <<>> = <<>>
    OBVIOUS
  <2> QED BY <1>2, <2>1 DEF Content
<1>4. <<>> \in Seq(InfoT) /\ AllButLast(<<>>) = <<>> /\ SubSeq(<<>>, 1, 1 - 1) = <<>> /\ Len(<<>>) = 0
  BY DEF AllButLast
<1>5. PICK qs : Chain(Content', qs) /\ Len(qs) = 1 /\ qs[1] = 1
  BY ChainBegins
<1>6. Spells(Content', qs, written') /\ Complete(Content', qs, written', whole')
  BY <1>2, <1>3, <1>4, <1>5 DEF Spells, Complete
<1>7. ~Go(<<>>, 1)
  BY DEF Go
<1>8. Begins(qs, 1)' /\ 1 \in 1 .. Len(qs)
  <2>1. at' = qs[1] /\ AllButLast(before') = SubSeq(written', 1, 1 - 1) /\ at' = 1 /\ ~Go(disk', 1)
    BY <1>2, <1>4, <1>5, <1>7
  <2>2. 1 \in 1 .. Len(qs)
    BY <1>5
  <2> QED BY <2>1, <2>2 DEF Begins
<1>9. Writing'
  BY <1>5, <1>6, <1>8 DEF Writing
<1> QED BY <1>1, <1>2, <1>4, <1>9 DEF KInv, History

LEMMA OpenAppendKept == ASSUME KInv, OpenAppend PROVE KInv'
<1>1. IInv'
  BY OpensInv DEF KInv
<1>2. /\ mode = "none" /\ mode' = "a" /\ at' = AppendAt(disk) /\ disk' = disk
      /\ before' = Infos(disk) /\ written' = AllButLast(Infos(disk))
      /\ pending' = <<>> /\ whole' = TRUE
  BY DEF OpenAppend
<1>3. disk \in Seq(Cell) /\ Len(disk) \in Nat /\ Sane(disk)
  BY <1>2 DEF KInv, IInv, Archives, Resting
<1> DEFINE ps == Places(disk)
           n == Len(ps)
           f == Infos(disk)
<1>4. Spelled(disk, 1, ps)
  BY <1>3, PlacesSpelled
<1>5. ps \in Seq(Nat) /\ n \in Nat
  BY <1>4 DEF Spelled
<1>6. f \in Seq(InfoT) /\ Len(f) = n /\ \A k \in 1 .. n : f[k] = Info(disk[ps[k]])
  BY <1>3, <1>5, InfosTyped, InfosAre
<1>7. ps # <<>> => Chain(disk, ps) /\ NoneBehind(disk, ps[n]) /\ Go(disk, ps[n]) /\ at' = ps[n]
  <2>1. ps # <<>> => n \in 1 .. n
    BY <1>5
  <2>2. ps # <<>> => at' = ps[n]
    BY <1>2 DEF AppendAt, Last
  <2> QED BY <1>3, <1>4, <2>1, <2>2 DEF Sane, Spelled
<1>8. ps = <<>> => at' = 1 /\ ~Go(disk, 1)
  BY <1>2, <1>4 DEF AppendAt, Spelled
<1>9. /\ written' \in Seq(InfoT) /\ before' \in Seq(InfoT)
      /\ ps = <<>> => Len(written') = 0
      /\ ps # <<>> => Len(written') = n - 1
      /\ \A k \in 1 .. Len(written') : written'[k] = f[k]
  <2>1. /\ AllButLast(f) \in Seq(InfoT)
        /\ f = <<>> => Len(AllButLast(f)) = 0
        /\ f # <<>> => Len(AllButLast(f)) = Len(f) - 1
        /\ \A k \in 1 .. Len(AllButLast(f)) : AllButLast(f)[k] = f[k]
    BY <1>6, AllButLastIs
  <2>2. f = <<>> <=> ps = <<>>
    BY <1>5, <1>6
  <2> HIDE DEF f, ps
  <2> QED BY <1>2, <1>6, <2>1, <2>2 DEF f
<1> HIDE DEF ps, f
<1>10. Content' \in Seq(Cell) /\ Len(Content') = at' - 1 /\ at' \in Nat \ {0} /\ at' - 1 <= Len(disk)
       /\ \A i \in 1 .. at' - 1 : Content'[i] = disk[i]
  <2> DEFINE a == at' - 1
             c == SubSeq(disk, 1, a)
  <2>1. at' \in Nat \ {0} /\ a \in Nat /\ a <= Len(disk)
    <3>1. at' \in Nat \ {0} /\ at' - 1 <= Len(disk)
      BY <1>2, <1>3, AppendAtTyped
    <3>2. \A x \in Nat \ {0} : x - 1 \in Nat
      OBVIOUS
    <3> QED BY <3>1, <3>2, Zenon
  <2>2. Content' = c \o <<>>
    BY <1>2 DEF Content
  <2> HIDE DEF a
  <2>3. c \in Seq(Cell) /\ Len(c) = a /\ \A i \in 1 .. a : c[i] = disk[i]
    BY <1>3, <2>1, PartIs
  <2> HIDE DEF c
  <2>4. Content' = c
    BY <2>2, <2>3
  <2> QED BY <2>1, <2>3, <2>4 DEF a
<1>11. CASE ps = <<>>
  <2>1. PICK qs : Chain(Content', qs) /\ Len(qs) = 1 /\ qs[1] = 1
    BY ChainBegins
  <2>2. Spells(Content', qs, written') /\ Complete(Content', qs, written', whole')
    BY <1>8, <1>9, <1>10, <1>11, <2>1 DEF Spells, Complete
  <2>3. AllButLast(before') = SubSeq(written', 1, 1 - 1)
    <3>1. written' = <<>> /\ written' = AllButLast(before')
      BY <1>2, <1>9, <1>11
    <3>2. SubSeq(<<>>, 1, 1 - 1) = <<>>
      OBVIOUS
    <3> QED BY <3>1, <3>2
  <2>4. 1 \in 1 .. Len(qs) /\ Begins(qs, 1)'
    BY <1>2, <1>8, <1>11, <2>1, <2>3 DEF Begins
  <2> QED BY <1>1, <1>2, <1>9, <2>1, <2>2, <2>4 DEF KInv, Writing, History
<1>12. CASE ps # <<>>
  <2> DEFINE qs == SubSeq(ps, 1, n)
  <2>1. n \in 1 .. n /\ at' = ps[n] /\ Chain(disk, ps)
    BY <1>5, <1>7, <1>12
  <2>2. qs = ps
    <3>1. qs \in Seq(Nat) /\ Len(qs) = n /\ \A k \in 1 .. n : qs[k] = ps[k]
      BY <1>5, PartIs
    <3> HIDE DEF qs
    <3> QED BY <1>5, <3>1
  <2> DEFINE e == at' - 1
  <2>3. e \in Nat /\ e <= Len(disk) /\ e <= Len(Content') /\ ps[n] <= e + 1 /\ Len(Content') \in Nat
        /\ \A i \in 1 .. e : Content'[i] = disk[i]
    BY <1>10, <2>1
  <2> HIDE DEF e
  <2>4. Chain(Content', ps) /\ \A j \in 1 .. n - 1 : ps[j] \in 1 .. e
    <3>1. Chain(Content', qs) /\ \A j \in 1 .. n - 1 : ps[j] \in 1 .. e
      BY <1>3, <2>1, <2>3, ChainPart
    <3> QED BY <2>2, <3>1
  <2>5. Spells(Content', ps, written')
    <3>1. Len(written') = n - 1
      BY <1>9, <1>12
    <3>2. \A j \in 1 .. n - 1 : Info(Content'[ps[j]]) = written'[j]
      <4> TAKE j \in 1 .. n - 1
      <4>1. j \in 1 .. n /\ j \in 1 .. Len(written') /\ Content'[ps[j]] = disk[ps[j]]
        BY <1>5, <2>3, <2>4, <3>1
      <4> QED BY <1>6, <1>9, <4>1
    <3> QED BY <1>5, <3>1, <3>2 DEF Spells
  <2>6. Complete(Content', ps, written', whole')
    <3>1. ps[n] = Len(Content') + 1
      BY <1>10, <2>1
    <3> QED BY <1>9, <1>12, <3>1 DEF Complete
  <2>7. AllButLast(before') = SubSeq(written', 1, n - 1)
    <3> DEFINE w == written'
    <3>1. w = AllButLast(before') /\ w \in Seq(InfoT) /\ Len(w) = n - 1
      BY <1>2, <1>9, <1>12
    <3> HIDE DEF w
    <3>2. SubSeq(w, 1, Len(w)) = w
      BY <3>1
    <3> QED BY <3>1, <3>2 DEF w
  <2>8. PICK rs : rs = ps
    OBVIOUS
  <2>9. n = Len(rs) /\ n \in 1 .. Len(rs)
    BY <1>5, <2>1, <2>8
  <2>10. PICK b \in 1 .. Len(rs) : b = n
    BY <2>9
  <2>11. Begins(rs, b)'
    <3>1. at' = rs[b] /\ AllButLast(before') = SubSeq(written', 1, b - 1)
      BY <2>1, <2>7, <2>8, <2>10
    <3>2. Go(disk', at') /\ NoneBehind(disk', at')
      BY <1>2, <1>7, <1>12
    <3> QED BY <3>1, <3>2 DEF Begins
  <2>12. Writing'
    <3>1. Chain(Content', rs) /\ Spells(Content', rs, written') /\ Complete(Content', rs, written', whole')
      BY <2>4, <2>5, <2>6, <2>8
    <3> QED BY <2>11, <3>1 DEF Writing
  <2> QED BY <1>1, <1>2, <1>9, <2>12 DEF KInv, History
<1> QED BY <1>11, <1>12

-----------------------------------------------------------------------------
(* Adding *)

LEMMA SizeOfIs ==
  ASSUME NEW n \in DOMAIN Tree
  PROVE  /\ SizeOf(n) \in 0 .. Tree[n].size /\ SizeOf(n) \in {0, 1}
         /\ Tree[n].nlink = 1 => SizeOf(n) = Tree[n].size
<1>1. Tree[n].size \in {0, 1} /\ Tree[n].nlink \in Nat
  BY CpioAssumption
<1> QED BY <1>1 DEF SizeOf

LEMMA CellsAre ==
  ASSUME NEW n \in DOMAIN Tree
  PROVE  /\ Cells(n) \in Seq(Cell) /\ Len(Cells(n)) = 1 + SizeOf(n)
         /\ Cells(n)[1] = Header(n, SizeOf(n))
         /\ SizeOf(n) = 1 => Cells(n)[2] = DataOf(n)
<1>1. Cells(n) \in Seq(Cell) /\ SizeOf(n) \in {0, 1}
  BY CellsTyped, SizeOfIs
<1> DEFINE z == SizeOf(n)
           h == Header(n, SizeOf(n))
           x == DataOf(n)
<1>2. Cells(n) = IF z = 0 THEN <<h>> ELSE <<h, x>>
  BY DEF Cells
<1> HIDE DEF z, h, x
<1>3. Len(Cells(n)) = 1 + z /\ Cells(n)[1] = h /\ (z = 1 => Cells(n)[2] = x)
  <2>1. z \in {0, 1}
    BY <1>1 DEF z
  <2> QED BY <1>2, <2>1
<1> QED BY <1>1, <1>3 DEF z, h, x

(* More is written behind what there is. *)
LEMMA Longer ==
  ASSUME IInv, mode \in {"w", "a"}, disk' = disk, at' = at, NEW s \in Seq(Cell), pending' = pending \o s
  PROVE  /\ Content' \in Seq(Cell) /\ Len(Content') = Len(Content) + Len(s)
         /\ \A i \in 1 .. Len(Content) : Content'[i] = Content[i]
         /\ \A i \in 1 .. Len(s) : Content'[Len(Content) + i] = s[i]
<1>1. Content \in Seq(Cell)
  BY ContentIs
<1>2. Content' = Content \o s
  <2> DEFINE old == SubSeq(disk, 1, at - 1)
  <2>1. old \in Seq(Cell) /\ pending \in Seq(Cell)
    <3>1. disk \in Seq(Cell) /\ pending \in Seq(Cell) /\ at \in Nat \ {0} /\ at - 1 <= Len(disk)
      BY DEF IInv, Archives
    <3> QED BY <3>1, SubSeqTyped
  <2>2. Content = old \o pending /\ Content' = old \o (pending \o s)
    BY DEF Content
  <2> HIDE DEF old
  <2>3. old \o (pending \o s) = (old \o pending) \o s
    BY <2>1
  <2> QED BY <2>2, <2>3
<1> DEFINE c == Content
<1> HIDE DEF c
<1>3. /\ c \o s \in Seq(Cell) /\ Len(c \o s) = Len(c) + Len(s)
      /\ \A i \in 1 .. Len(c) : (c \o s)[i] = c[i]
      /\ \A i \in 1 .. Len(s) : (c \o s)[Len(c) + i] = s[i]
  <2>1. c \in Seq(Cell)
    BY <1>1 DEF c
  <2> QED BY <2>1, ConcatIs
<1> QED BY <1>2, <1>3 DEF c

LEMMA AddFileKept == ASSUME KInv, AddFile PROVE KInv'
<1>1. IInv'
  BY AddingInv DEF KInv
<1> DEFINE n == Head(todo)
           h == Header(n, SizeOf(n))
<1>2. /\ todo # <<>> /\ mode \in {"w", "a"} /\ mode' = mode
      /\ disk' = disk /\ at' = at /\ before' = before /\ whole' = whole
      /\ pending' = pending \o Cells(n) /\ written' = Append(written, Info(h))
  BY DEF AddFile, KInv, IInv, Archives
<1>3. n \in DOMAIN Tree /\ IInv /\ written \in Seq(InfoT) /\ before \in Seq(InfoT) /\ whole \in BOOLEAN /\ Writing
  BY <1>2 DEF KInv, History, IInv, Archives
<1>4. PICK qs : /\ Chain(Content, qs) /\ Spells(Content, qs, written)
                /\ Complete(Content, qs, written, whole)
                /\ \E b \in 1 .. Len(qs) : Begins(qs, b)
  BY <1>3 DEF Writing
<1>5. PICK b \in 1 .. Len(qs) : Begins(qs, b)
  BY <1>4
<1> DEFINE c == Content
           d == Content'
           L == Len(qs)
           q == qs[Len(qs)]
           z == SizeOf(n)
<1>6. /\ Cells(n) \in Seq(Cell) /\ Len(Cells(n)) = 1 + z /\ z \in {0, 1}
      /\ Cells(n)[1] = h /\ (z = 1 => Cells(n)[2] = DataOf(n))
  BY <1>3, CellsAre, SizeOfIs
<1>7. /\ d \in Seq(Cell) /\ Len(d) = Len(c) + (1 + z) /\ c \in Seq(Cell)
      /\ \A i \in 1 .. Len(c) : d[i] = c[i]
      /\ d[Len(c) + 1] = h /\ (z = 1 => d[Len(c) + 2] = DataOf(n))
  <2>1. /\ d \in Seq(Cell) /\ Len(d) = Len(c) + Len(Cells(n))
        /\ \A i \in 1 .. Len(c) : d[i] = c[i]
        /\ \A i \in 1 .. Len(Cells(n)) : d[Len(c) + i] = Cells(n)[i]
    BY <1>2, <1>3, <1>6, Longer
  <2>2. c \in Seq(Cell)
    BY <1>2, <1>3, ContentIs
  <2>3. 1 \in 1 .. Len(Cells(n)) /\ (z = 1 => 2 \in 1 .. Len(Cells(n)))
    BY <1>6
  <2> HIDE DEF c, d, z, h, n
  <2> QED BY <1>6, <2>1, <2>2, <2>3
<1>8. h \in Cell /\ h.kind = "header" /\ h.size = z /\ Info(h) \in InfoT
  <2>1. h = Cells(n)[1] /\ 1 \in 1 .. Len(Cells(n))
    BY <1>6
  <2>2. h \in Cell
    BY <1>6, <2>1
  <2>3. h.kind = "header" /\ h.size = z
    BY <1>3, SizeOfIs, HeaderIs
  <2> QED BY <2>2, <2>3, CellTypes
<1>9. Len(c) \in Nat /\ Len(d) \in Nat /\ Len(c) <= Len(d)
  BY <1>6, <1>7
<1>10. L \in Nat \ {0} /\ qs \in Seq(Nat) /\ Chain(d, qs) /\ \A j \in 1 .. L - 1 : qs[j] \in 1 .. Len(c)
  <2>1. L \in Nat \ {0} /\ qs \in Seq(Nat)
    BY <1>4 DEF Chain
  <2> QED BY <1>4, <1>7, <1>9, <2>1, ChainWithin
<1>11. L - 1 <= Len(written) /\ \A j \in 1 .. L - 1 : Info(c[qs[j]]) = written[j]
  BY <1>4 DEF Spells
<1>12. written' \in Seq(InfoT) /\ Len(written') = Len(written) + 1 /\ Len(written) \in Nat
       /\ written'[Len(written) + 1] = Info(h) /\ \A j \in 1 .. Len(written) : written'[j] = written[j]
  <2> HIDE DEF h, n
  <2> QED BY <1>2, <1>3, <1>8
<1>13. \A j \in 1 .. L - 1 : Info(d[qs[j]]) = written'[j] /\ j \in 1 .. Len(written)
  <2> TAKE j \in 1 .. L - 1
  <2>1. j \in 1 .. Len(written) /\ d[qs[j]] = c[qs[j]]
    <3>1. j \in 1 .. Len(written)
      BY <1>10, <1>11, <1>12
    <3> QED BY <1>7, <1>10, <3>1
  <2> QED BY <1>11, <1>12, <2>1
<1>14. \A k \in 1 .. L : SubSeq(written', 1, k - 1) = SubSeq(written, 1, k - 1)
  <2> TAKE k \in 1 .. L
  <2> DEFINE m == k - 1
  <2>1. m \in Nat /\ m <= Len(written) /\ m <= Len(written')
    BY <1>10, <1>11, <1>12
  <2> DEFINE s == SubSeq(written', 1, m)
             t == SubSeq(written, 1, m)
  <2> HIDE DEF m
  <2>2. /\ s \in Seq(InfoT) /\ Len(s) = m /\ \A i \in 1 .. m : s[i] = written'[i]
    BY <1>12, <2>1, PartIs
  <2>3. /\ t \in Seq(InfoT) /\ Len(t) = m /\ \A i \in 1 .. m : t[i] = written[i]
    BY <1>3, <2>1, PartIs
  <2>4. \A i \in 1 .. m : written'[i] = written[i]
    BY <1>12, <2>1
  <2> HIDE DEF s, t
  <2>5. s = t
    BY <2>2, <2>3, <2>4
  <2> QED BY <2>5 DEF s, t, m
<1>15. ASSUME NEW rs, Chain(d, rs), L <= Len(rs), \A j \in 1 .. L : rs[j] = qs[j],
              Spells(d, rs, written'), Complete(d, rs, written', whole), Len(rs) \in Nat
       PROVE  KInv'
  <2>1. b \in 1 .. Len(rs) /\ rs[b] = qs[b]
    BY <1>10, <1>15
  <2>2. Begins(rs, b)'
    <3>1. at' = rs[b] /\ AllButLast(before') = SubSeq(written', 1, b - 1)
      BY <1>2, <1>5, <1>14, <2>1 DEF Begins
    <3> QED BY <1>2, <1>5, <3>1 DEF Begins
  <2>3. Writing'
    BY <1>2, <1>15, <2>1, <2>2 DEF Writing
  <2> QED BY <1>1, <1>2, <1>3, <1>12, <2>3 DEF KInv, History
<1>16. CASE q = Len(c) + 1 /\ L - 1 = Len(written)
  <2>1. Whole(d, q) /\ Follow(d, q) = Len(d) + 1
    <3>1. d[q] = h /\ q \in 1 .. Len(d) /\ (z = 1 => q < Len(d) /\ d[q + 1] = DataOf(n))
      BY <1>6, <1>7, <1>9, <1>16
    <3>2. Proper(d, q)
      <4>1. z \in 0 .. Tree[n].size /\ (Tree[n].nlink = 1 => z = Tree[n].size)
        BY <1>3, SizeOfIs
      <4> HIDE DEF n, d, q
      <4> QED BY <1>3, <3>1, <4>1 DEF Proper
    <3>3. Go(d, q) /\ d[q].size = z
      BY <1>8, <3>1 DEF Go
    <3>4. z = 1 => d[q + 1].kind = "data"
      BY <3>1 DEF DataOf
    <3>5. Follow(d, q) = Len(d) + 1
      <4> HIDE DEF d, q, c, z
      <4>1. CASE z = 0
        BY <1>7, <1>9, <1>16, <3>3, <4>1 DEF Follow
      <4>2. CASE z = 1
        <5>1. Follow(d, q) = q + 2
          BY <3>1, <3>3, <3>4, <4>2 DEF Follow
        <5> QED BY <1>7, <1>9, <1>16, <4>2, <5>1
      <4> QED BY <1>6, <4>1, <4>2
    <3> QED BY <3>2, <3>3, <3>5 DEF Whole
  <2> DEFINE rs == Append(qs, Len(d) + 1)
  <2>2. Chain(d, rs) /\ Len(rs) = L + 1 /\ (\A j \in 1 .. L : rs[j] = qs[j]) /\ rs[L + 1] = Len(d) + 1
    <3>1. Len(d) + 1 \in Nat
      BY <1>9
    <3> QED BY <1>9, <1>10, <2>1, <3>1, ChainLonger
  <2> HIDE DEF rs
  <2>3. Spells(d, rs, written')
    <3>1. Len(rs) - 1 <= Len(written')
      BY <1>12, <1>16, <2>2
    <3>2. ASSUME NEW j \in 1 .. Len(rs) - 1 PROVE Info(d[rs[j]]) = written'[j]
      <4>1. j \in 1 .. L
        BY <1>10, <2>2
      <4>2. CASE j = L
        <5>1. rs[j] = q /\ d[q] = h /\ L = Len(written) + 1
          BY <1>7, <1>10, <1>12, <1>16, <2>2, <4>1, <4>2
        <5> QED BY <1>12, <4>2, <5>1
      <4>3. CASE j # L
        <5>1. j \in 1 .. L - 1 /\ rs[j] = qs[j]
          BY <1>10, <2>2, <4>1, <4>3
        <5> QED BY <1>13, <5>1
      <4> QED BY <4>2, <4>3
    <3> QED BY <3>1, <3>2 DEF Spells
  <2>4. Complete(d, rs, written', whole)
    BY <1>10, <1>12, <1>16, <2>2 DEF Complete
  <2>5. L <= Len(rs) /\ Len(rs) \in Nat
    BY <1>10, <2>2
  <2> HIDE DEF d, L
  <2> QED BY <1>15, <2>2, <2>3, <2>4, <2>5
<1>17. CASE ~whole /\ Spoilt(c, q)
  <2>1. Spells(d, qs, written')
    BY <1>10, <1>11, <1>12, <1>13 DEF Spells
  <2>2. Spoilt(d, q)
    <3>1. q \in 1 .. Len(c) /\ q + 1 \in 1 .. Len(c)
      <4>1. L \in 1 .. Len(qs)
        BY <1>10
      <4>2. q \in 1 .. Len(c) + 1
        BY <1>4, <1>9, <4>1, ChainGrows
      <4> QED BY <1>9, <1>17, <4>2 DEF Spoilt
    <3>2. q < Len(d) /\ d[q] = c[q] /\ d[q + 1] = c[q + 1]
      BY <1>7, <1>9, <1>17, <3>1 DEF Spoilt
    <3> QED BY <1>17, <3>2 DEF Spoilt
  <2>3. Complete(d, qs, written', whole)
    BY <1>17, <2>2 DEF Complete
  <2>4. L <= Len(qs) /\ Len(qs) \in Nat /\ \A j \in 1 .. L : qs[j] = qs[j]
    BY <1>10
  <2> HIDE DEF d
  <2> QED BY <1>10, <1>15, <2>1, <2>3, <2>4
<1> QED BY <1>4, <1>16, <1>17 DEF Complete

LEMMA AddFailsKept == ASSUME KInv, AddFails PROVE KInv'
<1>1. IInv'
  BY AddingInv DEF KInv
<1> DEFINE n == Head(todo)
           h == Header(n, SizeOf(n))
           s == <<h, Short>>
<1>2. /\ todo # <<>> /\ mode \in {"w", "a"} /\ mode' = mode /\ SizeOf(n) > 0
      /\ disk' = disk /\ at' = at /\ before' = before /\ whole' = FALSE
      /\ pending' = pending \o s /\ written' = written
  BY DEF AddFails, KInv, IInv, Archives
<1>3. n \in DOMAIN Tree /\ IInv /\ written \in Seq(InfoT) /\ before \in Seq(InfoT) /\ Writing
  BY <1>2 DEF KInv, History, IInv, Archives
<1>4. PICK qs : /\ Chain(Content, qs) /\ Spells(Content, qs, written)
                /\ Complete(Content, qs, written, whole)
                /\ \E b \in 1 .. Len(qs) : Begins(qs, b)
  BY <1>3 DEF Writing
<1>5. PICK b \in 1 .. Len(qs) : Begins(qs, b)
  BY <1>4
<1> DEFINE c == Content
           d == Content'
           L == Len(qs)
           q == qs[Len(qs)]
<1>6. s \in Seq(Cell) /\ h.kind = "header" /\ h.size = 1 /\ Short.kind = "short"
  <2>1. s \in Seq(Cell)
    BY <1>3, CellsTyped
  <2>2. h.kind = "header" /\ h.size = 1
    <3>1. SizeOf(n) \in 0 .. Tree[n].size /\ SizeOf(n) = 1
      BY <1>2, <1>3, SizeOfIs
    <3> QED BY <1>3, <3>1, HeaderIs
  <2> QED BY <2>1, <2>2 DEF Short
<1>7. /\ d \in Seq(Cell) /\ Len(d) = Len(c) + 2 /\ c \in Seq(Cell)
      /\ \A i \in 1 .. Len(c) : d[i] = c[i]
      /\ d[Len(c) + 1] = h /\ d[Len(c) + 2] = Short
  <2>1. /\ d \in Seq(Cell) /\ Len(d) = Len(c) + Len(s)
        /\ \A i \in 1 .. Len(c) : d[i] = c[i]
        /\ \A i \in 1 .. Len(s) : d[Len(c) + i] = s[i]
    <3> DEFINE x == s
    <3>1. x \in Seq(Cell) /\ pending' = pending \o x
      BY <1>2, <1>6
    <3> HIDE DEF x
    <3>2. /\ d \in Seq(Cell) /\ Len(d) = Len(c) + Len(x)
          /\ \A i \in 1 .. Len(c) : d[i] = c[i]
          /\ \A i \in 1 .. Len(x) : d[Len(c) + i] = x[i]
      BY <1>2, <1>3, <3>1, Longer
    <3> QED BY <3>2 DEF x
  <2>2. c \in Seq(Cell)
    BY <1>2, <1>3, ContentIs
  <2>3. Len(s) = 2 /\ 1 \in 1 .. Len(s) /\ 2 \in 1 .. Len(s) /\ s[1] = h /\ s[2] = Short
    <3> HIDE DEF h
    <3> QED OBVIOUS
  <2> HIDE DEF c, d, s, h
  <2> QED BY <2>1, <2>2, <2>3
<1> HIDE DEF s, h, n
<1>8. Len(c) \in Nat /\ Len(d) \in Nat /\ Len(c) <= Len(d)
  BY <1>7
<1>9. L \in Nat \ {0} /\ qs \in Seq(Nat) /\ Chain(d, qs) /\ \A j \in 1 .. L - 1 : qs[j] \in 1 .. Len(c)
  <2>1. L \in Nat \ {0} /\ qs \in Seq(Nat)
    BY <1>4 DEF Chain
  <2> QED BY <1>4, <1>7, <1>8, <2>1, ChainWithin
<1>10. Spells(d, qs, written)
  BY <1>4, <1>7, <1>9 DEF Spells
<1>11. Spoilt(d, q)
  <2> HIDE DEF d, c
  <2>1. CASE q = Len(c) + 1
    <3>1. q < Len(d) /\ d[q] = h /\ d[q + 1] = Short
      BY <1>7, <1>8, <2>1
    <3> QED BY <1>6, <3>1 DEF Spoilt
  <2>2. CASE Spoilt(c, q)
    <3>1. q \in 1 .. Len(c) /\ q + 1 \in 1 .. Len(c)
      <4>1. L \in 1 .. Len(qs)
        BY <1>9
      <4>2. q \in 1 .. Len(c) + 1
        BY <1>4, <1>8, <4>1, ChainGrows DEF c
      <4> QED BY <1>8, <2>2, <4>2 DEF Spoilt
    <3>2. q < Len(d) /\ d[q] = c[q] /\ d[q + 1] = c[q + 1]
      BY <1>7, <1>8, <2>2, <3>1 DEF Spoilt
    <3> QED BY <2>2, <3>2 DEF Spoilt
  <2> QED BY <1>4, <2>1, <2>2 DEF Complete, c
<1>12. Complete(d, qs, written, FALSE)
  BY <1>11 DEF Complete
<1>13. Begins(qs, b)'
  BY <1>2, <1>5 DEF Begins
<1>14. Writing'
  BY <1>2, <1>9, <1>10, <1>12, <1>13 DEF Writing
<1> QED BY <1>1, <1>2, <1>3, <1>14 DEF KInv, History

-----------------------------------------------------------------------------
(* Closing and crashing *)

LEMMA CloseWriterKept == ASSUME KInv, CloseWriter PROVE KInv'
<1>1. IInv'
  BY ClosedInv DEF KInv
<1>2. /\ mode \in {"w", "a"} /\ mode' = "none" /\ disk' = Content \o <<Trailer>>
      /\ written' = written /\ before' = before /\ whole' = whole
  BY DEF CloseWriter, Content
<1>3. IInv /\ written \in Seq(InfoT) /\ before \in Seq(InfoT) /\ whole \in BOOLEAN /\ Writing
  BY <1>2 DEF KInv, History
<1>4. PICK qs : /\ Chain(Content, qs) /\ Spells(Content, qs, written)
                /\ Complete(Content, qs, written, whole)
                /\ \E b \in 1 .. Len(qs) : Begins(qs, b)
  BY <1>3 DEF Writing
<1>5. PICK b \in 1 .. Len(qs) : AllButLast(before) = SubSeq(written, 1, b - 1)
  BY <1>4 DEF Begins
<1> DEFINE c == Content
           d == disk'
           L == Len(qs)
           q == qs[Len(qs)]
<1>6. /\ c \in Seq(Cell) /\ d \in Seq(Cell) /\ Len(d) = Len(c) + 1
      /\ \A i \in 1 .. Len(c) : d[i] = c[i]
      /\ d[Len(c) + 1] = Trailer /\ Trailer.kind = "trailer"
  <2>1. c \in Seq(Cell)
    BY <1>2, <1>3, ContentIs
  <2>2. Trailer \in Cell /\ Trailer.kind = "trailer"
    BY DEF Trailer, Cell
  <2> HIDE DEF c
  <2>3. d = c \o <<Trailer>>
    BY <1>2 DEF c
  <2> QED BY <2>1, <2>2, <2>3
<1> HIDE DEF c, d
<1>7. Len(c) \in Nat /\ Len(d) \in Nat /\ Len(c) <= Len(d)
  BY <1>6
<1>8. /\ L \in Nat \ {0} /\ qs \in Seq(Nat) /\ Chain(d, qs) /\ q \in 1 .. Len(c) + 1
      /\ \A j \in 1 .. L - 1 : qs[j] \in 1 .. Len(c)
  <2>1. L \in Nat \ {0} /\ qs \in Seq(Nat)
    BY <1>4 DEF Chain
  <2>2. L \in 1 .. Len(qs) /\ Chain(c, qs)
    BY <1>4, <2>1 DEF c
  <2>3. q \in 1 .. Len(c) + 1
    BY <1>7, <2>2, ChainGrows
  <2> QED BY <1>6, <1>7, <2>1, <2>2, <2>3, ChainWithin
<1>9. Spells(d, qs, written)
  <2>1. Spells(c, qs, written)
    BY <1>4 DEF c
  <2> QED BY <1>6, <1>8, <2>1 DEF Spells
<1>10. Complete(c, qs, written, whole)
  BY <1>4 DEF c
<1>11. ASSUME Ends(d, qs), whole => ~Go(d, q) /\ Len(written) = L - 1 PROVE KInv'
  <2>1. /\ Sane(d) /\ Infos(d) \in Seq(InfoT)
        /\ IsPrefix(AllButLast(Infos(d)), written) /\ IsPrefix(AllButLast(before), Infos(d))
        /\ ~Go(d, qs[Len(qs)]) /\ Len(written) = Len(qs) - 1 => Infos(d) = written /\ AllWhole(d)
    BY <1>3, <1>5, <1>6, <1>8, <1>9, <1>11, FoundOf
  <2>2. Infos(disk)' = Infos(d) /\ Sane(disk)' = Sane(d) /\ AllWhole(disk)' = AllWhole(d)
    BY DEF d
  <2>3. Resting'
    BY <1>2, <1>3, <1>11, <2>1, <2>2 DEF Resting, d
  <2> QED BY <1>1, <1>2, <1>3, <2>3 DEF KInv, History
<1>12. CASE q = Len(c) + 1 /\ L - 1 = Len(written)
  <2>1. ~Go(d, q)
    BY <1>6, <1>12 DEF Go
  <2>2. ASSUME L > 1 PROVE NoneBehind(d, qs[L - 1])
    <3> DEFINE l == qs[L - 1]
    <3>1. L - 1 \in 1 .. L - 1 /\ (L - 1) + 1 = L
      BY <1>8, <2>2
    <3>2. Whole(d, l) /\ Follow(d, l) = q
      BY <1>8, <3>1 DEF Chain
    <3> HIDE DEF l
    <3>3. /\ l \in 1 .. Len(d) /\ d[l].size \in {0, 1}
          /\ d[l].size = 0 => Follow(d, l) = l + 1
          /\ d[l].size = 1 => Follow(d, l) = l + 2 /\ d[l + 1].kind = "data"
      BY <1>7, <3>2, WholeIs
    <3>4. NoneBehind(d, l)
      <4>1. CASE d[l].size = 0
        <5>1. l + 1 = Len(c) + 1 /\ d[l + 1] = Trailer
          BY <1>6, <1>12, <3>2, <3>3, <4>1
        <5> QED BY <1>6, <5>1 DEF NoneBehind
      <4>2. CASE d[l].size = 1
        <5>1. l + 2 = Len(c) + 1 /\ d[l + 2] = Trailer
          BY <1>6, <1>12, <3>2, <3>3, <4>2
        <5> QED BY <1>6, <3>3, <4>2, <5>1 DEF NoneBehind
      <4> QED BY <3>3, <4>1, <4>2
    <3> QED BY <3>4 DEF l
  <2> QED BY <1>11, <1>12, <2>1, <2>2 DEF Ends
<1>13. CASE ~whole /\ Spoilt(c, q)
  <2>1. q < Len(c) /\ d[q] = c[q] /\ d[q + 1] = c[q + 1] /\ c[q].kind = "header" /\ c[q + 1].kind = "short"
    <3>1. q < Len(c) /\ c[q].kind = "header" /\ c[q + 1].kind = "short"
      BY <1>13 DEF Spoilt
    <3>2. q \in 1 .. Len(c) /\ q + 1 \in 1 .. Len(c)
      BY <1>7, <1>8, <3>1, SMTT(30)
    <3> QED BY <1>6, <3>1, <3>2
  <2>2. Go(d, q) /\ NoneBehind(d, q)
    BY <1>6, <1>7, <1>8, <2>1 DEF Go, NoneBehind
  <2> QED BY <1>11, <1>13, <2>2 DEF Ends
<1> QED BY <1>10, <1>12, <1>13 DEF Complete

(* A crash leaves on disk what begins like the content, and perhaps a cell *)
(* that is partly written; or it has only written over what was there.     *)
LEMMA CrashLeaves ==
  ASSUME IInv, Crash
  PROVE  /\ disk' \in Seq(Cell)
         /\ \/ /\ Len(disk') = Len(disk)
               /\ \A i \in 1 .. at - 1 : disk'[i] = disk[i]
               /\ \A i \in 1 .. Len(disk) : disk'[i].kind = disk[i].kind
            \/ \E e \in at - 1 .. Len(Content) :
                 /\ \A i \in 1 .. e : disk'[i] = Content[i]
                 /\ \/ Len(disk') = e
                    \/ /\ Len(disk') = e + 1
                       /\ \/ disk'[e + 1] = Junk
                          \/ e < Len(Content) /\ disk'[e + 1] \in Cut(Content[e + 1])
<1>1. mode \in {"w", "a"} /\ disk' \in Seq(Cell)
  <2>1. IInv'
    BY ClosedInv
  <2> QED BY <2>1 DEF Crash, IInv, Archives
<1>2. /\ Content \in Seq(Cell) /\ at \in Nat \ {0} /\ pending \in Seq(Cell) /\ disk \in Seq(Cell)
      /\ at - 1 <= Len(disk) /\ Len(Content) = (at - 1) + Len(pending)
      /\ \A i \in 1 .. at - 1 : Content[i] = disk[i]
      /\ \A i \in 1 .. Len(pending) : Content[(at - 1) + i] = pending[i]
  BY <1>1, ContentIs
<1> DEFINE a == at - 1
           old == SubSeq(disk, 1, a)
           now(k) == old \o SubSeq(pending, 1, k)
           rest(k) == SubSeq(disk, at + k, Len(disk))
<1>3. PICK k \in 0 .. Len(pending) :
            \/ InStep(k) /\ disk' = now(k) \o rest(k)
            \/ disk' = Append(now(k), Junk)
            \/ k < Len(pending) /\ \E x \in Cut(pending[k + 1]) : disk' = Append(now(k), x)
  BY DEF Crash
<1> DEFINE t == now(k)
           r == rest(k)
           e == a + k
<1>4. a \in Nat /\ a <= Len(disk) /\ k \in Nat /\ k <= Len(pending) /\ Len(pending) \in Nat
      /\ at = a + 1 /\ Len(disk) \in Nat
  <2>1. \A x \in Nat \ {0} : x - 1 \in Nat /\ x = (x - 1) + 1
    OBVIOUS
  <2>2. a \in Nat /\ at = a + 1
    BY <1>2, <2>1, Zenon
  <2> QED BY <1>2, <2>2
<1>5. e \in Nat /\ t \in Seq(Cell) /\ Len(t) = e /\ \A i \in 1 .. e : t[i] = Content[i]
  <2> DEFINE p == SubSeq(pending, 1, k)
  <2>1. old \in Seq(Cell) /\ Len(old) = a /\ \A i \in 1 .. a : old[i] = disk[i]
    <3> HIDE DEF a
    <3> QED BY <1>2, <1>4, PartIs
  <2>2. p \in Seq(Cell) /\ Len(p) = k /\ \A i \in 1 .. k : p[i] = pending[i]
    BY <1>2, <1>4, PartIs
  <2>3. t = old \o p
    OBVIOUS
  <2> HIDE DEF old, p
  <2>4. /\ old \o p \in Seq(Cell) /\ Len(old \o p) = Len(old) + Len(p)
        /\ \A i \in 1 .. Len(old) : (old \o p)[i] = old[i]
        /\ \A i \in 1 .. Len(p) : (old \o p)[Len(old) + i] = p[i]
    <3>1. old \in Seq(Cell) /\ p \in Seq(Cell)
      BY <2>1, <2>2
    <3> QED BY <3>1, ConcatIs
  <2> HIDE DEF t, now
  <2>5. t \in Seq(Cell) /\ Len(t) = e
    BY <2>1, <2>2, <2>3, <2>4
  <2>6. ASSUME NEW i \in 1 .. e PROVE t[i] = Content[i]
    <3>1. CASE i <= a
      <4>1. i \in 1 .. a
        <5> HIDE DEF a
        <5> QED BY <1>4, <2>6, <3>1
      <4>2. t[i] = old[i]
        <5>1. (old \o p)[i] = old[i]
          BY <2>1, <2>4, <4>1
        <5> QED BY <2>3, <5>1
      <4> QED BY <1>2, <2>1, <4>1, <4>2
    <3>2. CASE ~(i <= a)
      <4> DEFINE j == i - a
      <4>1. j \in 1 .. k /\ i = a + j
        <5> HIDE DEF a
        <5> QED BY <1>4, <2>6, <3>2
      <4> HIDE DEF j
      <4>2. t[i] = p[j]
        <5>1. (old \o p)[Len(old) + j] = p[j]
          BY <2>2, <2>4, <4>1
        <5> QED BY <2>1, <2>3, <4>1, <5>1
      <4>3. j \in 1 .. Len(pending)
        BY <1>4, <4>1
      <4>4. Content[a + j] = pending[j]
        BY <1>2, <4>3
      <4> QED BY <2>2, <4>1, <4>2, <4>4
    <3> QED BY <3>1, <3>2
  <2>7. e \in Nat
    BY <1>4
  <2> QED BY <2>5, <2>6, <2>7
<1>6. e <= Len(Content) /\ e \in at - 1 .. Len(Content)
  <2>1. Len(Content) = a + Len(pending)
    BY <1>2
  <2>2. e \in a .. Len(Content)
    <3> HIDE DEF a
    <3> QED BY <1>4, <2>1
  <2> HIDE DEF e
  <2> QED BY <2>2, <1>4
<1> HIDE DEF t, now
<1>7. ASSUME NEW x, disk' = Append(t, x), x = Junk \/ (e < Len(Content) /\ x \in Cut(Content[e + 1]))
      PROVE  /\ \A i \in 1 .. e : disk'[i] = Content[i]
             /\ Len(disk') = e + 1 /\ disk'[e + 1] = x
  <2> HIDE DEF e
  <2> QED BY <1>5, <1>7
<1>8. CASE disk' = Append(now(k), Junk)
  <2>1. disk' = Append(t, Junk)
    BY <1>8 DEF t
  <2> HIDE DEF e
  <2> QED BY <1>1, <1>6, <1>7, <2>1
<1>9. CASE k < Len(pending) /\ \E x \in Cut(pending[k + 1]) : disk' = Append(now(k), x)
  <2>1. PICK x \in Cut(pending[k + 1]) : disk' = Append(t, x)
    BY <1>9 DEF t
  <2>2. e < Len(Content) /\ Content[e + 1] = pending[k + 1]
    <3>1. k + 1 \in 1 .. Len(pending) /\ a + (k + 1) = e + 1
      <4> HIDE DEF a
      <4> QED BY <1>4, <1>9
    <3>2. Content[a + (k + 1)] = pending[k + 1]
      BY <1>2, <3>1
    <3>3. e < Len(Content)
      <4>1. Len(Content) = a + Len(pending)
        BY <1>2
      <4> HIDE DEF a
      <4> QED BY <1>4, <1>9, <4>1
    <3> QED BY <3>1, <3>2, <3>3
  <2> HIDE DEF e
  <2> QED BY <1>1, <1>6, <1>7, <2>1, <2>2
<1>10. CASE InStep(k) /\ disk' = now(k) \o rest(k)
  <2>1. disk' = t \o r
    BY <1>10 DEF t
  <2> DEFINE L == Len(disk)
  <2>2. CASE e >= L
    <3>1. r = <<>>
      <4>1. at + k > L
        BY <1>4, <2>2
      <4> QED BY <1>2, <1>4, <4>1, SMTT(30)
    <3>2. disk' = t
      <4> HIDE DEF r
      <4> QED BY <1>5, <2>1, <3>1
    <3> HIDE DEF e
    <3> QED BY <1>1, <1>5, <1>6, <3>2
  <2>3. CASE ~(e >= L)
    <3>1. r \in Seq(Cell) /\ Len(r) = L - e /\ \A i \in 1 .. L - e : r[i] = disk[e + i]
      <4>1. r = SubSeq(disk, e + 1, L)
        <5>1. at \in Nat /\ k \in Nat
          BY <1>2, <1>4
        <5>2. at + k = e + 1
          BY <5>1
        <5> QED BY <5>2
      <4>2. e \in Nat /\ e < L
        BY <1>4, <1>5, <2>3
      <4> HIDE DEF r, rest, e
      <4> QED BY <1>2, <1>4, <4>1, <4>2
    <3> HIDE DEF r, rest
    <3>2. /\ Len(disk') = e + Len(r)
          /\ \A i \in 1 .. e : disk'[i] = t[i]
          /\ \A i \in 1 .. Len(r) : disk'[e + i] = r[i]
      <4>1. t \in Seq(Cell) /\ r \in Seq(Cell)
        BY <1>5, <3>1
      <4>2. /\ Len(t \o r) = Len(t) + Len(r)
            /\ \A i \in 1 .. Len(t) : (t \o r)[i] = t[i]
            /\ \A i \in 1 .. Len(r) : (t \o r)[Len(t) + i] = r[i]
        BY <4>1, ConcatIs
      <4> HIDE DEF e
      <4> QED BY <1>5, <2>1, <4>2
    <3>3. Len(disk') = L
      <4> HIDE DEF e
      <4> QED BY <1>4, <1>5, <3>1, <3>2
    <3>4. \A i \in 1 .. at - 1 : disk'[i] = disk[i]
      <4> TAKE i \in 1 .. at - 1
      <4>1. i \in 1 .. e
        BY <1>4
      <4> QED BY <1>2, <1>5, <3>2, <4>1
    <3>5. ASSUME NEW i \in 1 .. L PROVE disk'[i].kind = disk[i].kind
      <4>1. CASE i \in 1 .. at - 1
        BY <3>4, <4>1
      <4>2. CASE i \in at .. e
        <5> DEFINE j == i - a
        <5>1. j \in 1 .. k /\ at + j - 1 = i /\ a + j = i /\ j \in 1 .. Len(pending) /\ i \in 1 .. e
          BY <1>4, <4>2
        <5>2. disk[i].kind = pending[j].kind
          <6>1. at + j - 1 <= Len(disk)
            BY <5>1, <3>5
          <6> HIDE DEF j
          <6> QED BY <1>10, <5>1, <6>1 DEF InStep
        <5>3. disk'[i] = pending[j]
          <6>1. Content[a + j] = pending[j]
            BY <1>2, <5>1
          <6>2. disk'[i] = Content[i]
            BY <1>5, <3>2, <5>1
          <6> QED BY <5>1, <6>1, <6>2
        <5> QED BY <5>2, <5>3
      <4>3. CASE i \in e + 1 .. L
        <5> DEFINE j == i - e
        <5>1. j \in 1 .. L - e /\ e + j = i
          <6> HIDE DEF e
          <6> QED BY <1>4, <1>5, <4>3
        <5> HIDE DEF j, e
        <5>2. disk'[e + j] = r[j] /\ r[j] = disk[e + j]
          BY <3>1, <3>2, <5>1
        <5> QED BY <5>1, <5>2
      <4>4. i \in 1 .. at - 1 \/ i \in at .. e \/ i \in e + 1 .. L
        <5> HIDE DEF e
        <5> QED BY <1>4, <1>5, <3>5
      <4> QED BY <4>1, <4>2, <4>3, <4>4
    <3> QED BY <1>1, <3>3, <3>4, <3>5
  <2> QED BY <2>2, <2>3
<1> QED BY <1>3, <1>8, <1>9, <1>10

LEMMA CutKinds ==
  ASSUME NEW c, NEW x \in Cut(c)
  PROVE  c.kind # "header" => x.kind = "junk"
BY DEF Cut, Junk

LEMMA CrashKept == ASSUME KInv, Crash PROVE KInv'
<1>1. IInv'
  BY ClosedInv DEF KInv
<1>2. /\ mode \in {"w", "a"} /\ mode' = "none" /\ whole' = FALSE
      /\ written' = written /\ before' = before
  BY DEF Crash
<1>3. IInv /\ written \in Seq(InfoT) /\ before \in Seq(InfoT) /\ Writing
  BY <1>2 DEF KInv, History
<1>4. PICK qs : /\ Chain(Content, qs) /\ Spells(Content, qs, written)
                /\ Complete(Content, qs, written, whole)
                /\ \E b \in 1 .. Len(qs) : Begins(qs, b)
  BY <1>3 DEF Writing
<1>5. PICK b \in 1 .. Len(qs) : Begins(qs, b)
  BY <1>4
<1> DEFINE c == Content
           d == disk'
           L == Len(qs)
<1>6. c \in Seq(Cell) /\ d \in Seq(Cell) /\ Len(c) \in Nat /\ Len(d) \in Nat
      /\ at \in Nat \ {0} /\ at - 1 <= Len(c) /\ at - 1 <= Len(disk) /\ disk \in Seq(Cell)
      /\ \A i \in 1 .. at - 1 : c[i] = disk[i]
  <2>1. /\ c \in Seq(Cell) /\ at \in Nat \ {0} /\ pending \in Seq(Cell) /\ disk \in Seq(Cell)
        /\ at - 1 <= Len(disk) /\ Len(c) = (at - 1) + Len(pending)
        /\ \A i \in 1 .. at - 1 : c[i] = disk[i]
    BY <1>2, <1>3, ContentIs
  <2>2. d \in Seq(Cell)
    BY <1>3, CrashLeaves
  <2> HIDE DEF c
  <2> QED BY <2>1, <2>2
<1>7. L \in Nat \ {0} /\ qs \in Seq(Nat) /\ b \in Nat \ {0} /\ b <= L
      /\ L - 1 <= Len(written) /\ \A j \in 1 .. L - 1 : Info(c[qs[j]]) = written[j]
  BY <1>4 DEF Chain, Spells
<1>8. /\ at = qs[b] /\ AllButLast(before) = SubSeq(written, 1, b - 1)
      /\ \/ Go(disk, at) /\ NoneBehind(disk, at)
         \/ at = 1 /\ b = 1 /\ ~Go(disk, 1)
  BY <1>5 DEF Begins
<1>9. Chain(c, qs) /\ Complete(c, qs, written, whole)
  BY <1>4
<1> HIDE DEF c, d
<1>10. ASSUME NEW m \in b .. L, NEW e \in Nat, e <= Len(c), e <= Len(d), qs[m] <= e + 1,
              \A i \in 1 .. e : d[i] = c[i],
              \A qr : Chain(d, qr) /\ Len(qr) = m /\ (\A j \in 1 .. m : qr[j] = qs[j]) => Ends(d, qr)
       PROVE  KInv'
  <2> DEFINE ps == SubSeq(qs, 1, m)
  <2>1. m \in 1 .. Len(qs) /\ m \in Nat
    BY <1>7, <1>10
  <2>2. Chain(d, ps) /\ Len(ps) = m /\ (\A j \in 1 .. m : ps[j] = qs[j])
        /\ \A j \in 1 .. m - 1 : qs[j] \in 1 .. e
    <3>1. Len(c) \in Nat /\ Len(d) \in Nat /\ Chain(c, qs)
      BY <1>6, <1>9
    <3>2. /\ Chain(d, SubSeq(qs, 1, m))
          /\ Len(SubSeq(qs, 1, m)) = m /\ \A j \in 1 .. m : SubSeq(qs, 1, m)[j] = qs[j]
          /\ \A j \in 1 .. m - 1 : qs[j] \in 1 .. e
      BY <3>1, <1>10, <2>1, ChainPart
    <3> QED BY <3>2
  <2> HIDE DEF ps
  <2>3. Ends(d, ps)
    BY <1>10, <2>2
  <2>4. Spells(d, ps, written)
    <3>1. m - 1 <= Len(written)
      BY <1>7, <2>1
    <3>2. ASSUME NEW j \in 1 .. m - 1 PROVE Info(d[ps[j]]) = written[j]
      <4>1. j \in 1 .. m /\ j \in 1 .. L - 1
        BY <1>7, <2>1
      <4>2. ps[j] = qs[j] /\ d[qs[j]] = c[qs[j]]
        BY <1>10, <2>2, <4>1
      <4> QED BY <1>7, <4>1, <4>2
    <3> QED BY <2>2, <3>1, <3>2 DEF Spells
  <2>5. b \in 1 .. Len(ps)
    BY <1>7, <1>10, <2>2
  <2>6. /\ Sane(d) /\ Infos(d) \in Seq(InfoT)
        /\ IsPrefix(AllButLast(Infos(d)), written) /\ IsPrefix(AllButLast(before), Infos(d))
    BY <1>3, <1>6, <1>8, <2>2, <2>3, <2>4, <2>5, FoundOf
  <2>7. Infos(disk)' = Infos(d) /\ Sane(disk)' = Sane(d)
    BY DEF d
  <2>8. Resting'
    BY <1>2, <2>6, <2>7 DEF Resting
  <2> QED BY <1>1, <1>2, <1>3, <2>8 DEF KInv, History
<1>11. CASE /\ Len(d) = Len(disk)
            /\ \A i \in 1 .. at - 1 : d[i] = disk[i]
            /\ \A i \in 1 .. Len(disk) : d[i].kind = disk[i].kind
  <2>1. \A i \in 1 .. at - 1 : d[i] = c[i]
    BY <1>6, <1>11
  <2>2. \A i : Go(d, i) <=> Go(disk, i)
    BY <1>11 DEF Go
  <2>3. Go(disk, at) /\ NoneBehind(disk, at) => NoneBehind(d, at)
    <3> SUFFICES ASSUME NoneBehind(disk, at) PROVE NoneBehind(d, at)
      OBVIOUS
    <3>1. Len(disk) \in Nat
      BY <1>6
    <3>2. at < Len(disk) => at + 1 \in 1 .. Len(disk)
      BY <1>6, <3>1
    <3>3. at + 1 < Len(disk) => at + 2 \in 1 .. Len(disk)
      BY <1>6, <3>1
    <3> QED BY <1>11, <3>2, <3>3 DEF NoneBehind
  <2>4. ASSUME NEW qr, Len(qr) = b, \A j \in 1 .. b : qr[j] = qs[j] PROVE Ends(d, qr)
    <3>1. qr[Len(qr)] = at
      BY <1>7, <1>8, <2>4
    <3> QED BY <1>7, <1>8, <2>2, <2>3, <2>4, <3>1 DEF Ends
  <2> DEFINE e == at - 1
  <2>5. e \in Nat /\ e <= Len(c) /\ e <= Len(d) /\ qs[b] <= e + 1 /\ b \in b .. L
        /\ \A i \in 1 .. e : d[i] = c[i]
    <3>1. \A x \in Nat \ {0} : x - 1 \in Nat /\ x <= (x - 1) + 1
      OBVIOUS
    <3>2. e \in Nat /\ at <= e + 1
      BY <1>6, <3>1, Zenon
    <3>3. b \in b .. L
      BY <1>7
    <3> QED BY <1>6, <1>8, <1>11, <2>1, <3>2, <3>3
  <2> HIDE DEF e
  <2> QED BY <1>10, <2>4, <2>5
<1>12. ASSUME NEW e \in at - 1 .. Len(c),
              \A i \in 1 .. e : d[i] = c[i],
              \/ Len(d) = e
              \/ /\ Len(d) = e + 1
                 /\ d[e + 1] = Junk \/ (e < Len(c) /\ d[e + 1] \in Cut(c[e + 1]))
       PROVE  KInv'
  <2>1. e \in Nat /\ e <= Len(c) /\ e <= Len(d) /\ qs[b] <= e + 1
    <3>1. \A x \in Nat \ {0} : x - 1 \in Nat /\ \A y \in x - 1 .. Len(c) : y \in Nat /\ x <= y + 1 /\ y <= Len(c)
      BY <1>6
    <3>2. e \in Nat /\ at <= e + 1 /\ e <= Len(c)
      BY <1>6, <1>12, <3>1, Zenon
    <3> QED BY <1>6, <1>8, <1>12, <3>2
  <2>2. PICK m \in b .. L : qs[m] <= e + 1 /\ (m < L => ~(qs[m + 1] <= e + 1))
    <3>1. b \in 1 .. Len(qs)
      OBVIOUS
    <3> QED BY <1>6, <1>9, <2>1, <3>1, ChainReaches
  <2> DEFINE q == qs[m]
  <2>3. m \in 1 .. L /\ q \in Nat \ {0} /\ q <= e + 1
    <3>1. m \in 1 .. Len(qs)
      BY <1>7, <2>2
    <3>2. q \in 1 .. Len(c) + 1
      BY <1>6, <1>9, <3>1, ChainGrows
    <3> QED BY <1>6, <2>2, <3>1, <3>2, SMTT(30)
  <2>4. ASSUME NEW x, x = Junk \/ (e < Len(c) /\ x \in Cut(c[e + 1]))
        PROVE  /\ x.kind \in {"junk", "header"}
               /\ e < Len(c) /\ c[e + 1].kind # "header" => x.kind = "junk"
    <3>1. Junk.kind = "junk"
      BY DEF Junk
    <3>2. CASE e < Len(c) /\ x \in Cut(c[e + 1])
      <4> DEFINE y == c[e + 1]
      <4>1. x \in Cut(y) /\ y \in Cell
        <5>1. e + 1 \in 1 .. Len(c)
          BY <1>6, <2>1, <3>2
        <5> QED BY <1>6, <3>2, <5>1
      <4> HIDE DEF y
      <4>2. x.kind \in {"junk", "header"}
        <5>1. y.kind = "header" => [y EXCEPT !.name = <<0>>].kind = "header"
          BY <4>1 DEF Cell
        <5> QED BY <4>1, <5>1, <3>1 DEF Cut
      <4>3. y.kind # "header" => x.kind = "junk"
        BY <4>1, CutKinds
      <4> QED BY <4>2, <4>3 DEF y
    <3> QED BY <2>4, <3>1, <3>2
  <2>5. ASSUME NEW qr, Chain(d, qr), Len(qr) = m, \A j \in 1 .. m : qr[j] = qs[j]
        PROVE  Ends(d, qr)
    <3>0. qr[Len(qr)] = q
      BY <2>3, <2>5
    <3> HIDE DEF q
    <3>1. CASE q = e + 1
      <4>1. ASSUME Go(d, q) PROVE NoneBehind(d, q)
        <5>1. Len(d) <= q
          BY <1>12, <2>1, <3>1
        <5> QED BY <1>6, <2>3, <5>1 DEF NoneBehind
      <4>2. ASSUME ~Go(d, q), m > 1 PROVE NoneBehind(d, qr[m - 1])
        <5> DEFINE l == qr[m - 1]
        <5>1. m - 1 \in 1 .. Len(qr) - 1 /\ (m - 1) + 1 = m
          BY <2>3, <2>5, <4>2
        <5>2. Whole(d, l) /\ Follow(d, l) = q
          BY <2>5, <3>0, <5>1 DEF Chain
        <5> HIDE DEF l
        <5>3. /\ l \in 1 .. Len(d) /\ d[l].size \in {0, 1}
              /\ d[l].size = 0 => Follow(d, l) = l + 1
              /\ d[l].size = 1 => Follow(d, l) = l + 2 /\ d[l + 1].kind = "data"
          BY <1>6, <5>2, WholeIs, SMTT(30)
        <5>4. q <= Len(d) => d[q].kind = "junk"
          <6>1. ASSUME q <= Len(d) PROVE d[q].kind = "junk"
            <7>1. Len(d) = e + 1 /\ (d[q] = Junk \/ (e < Len(c) /\ d[q] \in Cut(c[e + 1])))
              BY <1>12, <2>1, <3>1, <6>1
            <7>2. d[q].kind \in {"junk", "header"}
              BY <2>4, <7>1
            <7>3. d[q].kind # "header"
              BY <4>2, <2>1, <3>1, <7>1 DEF Go
            <7> QED BY <7>2, <7>3
          <6> QED BY <6>1
        <5>5. NoneBehind(d, l)
          <6>1. CASE d[l].size = 0
            <7>1. l + 1 = q
              BY <5>2, <5>3, <6>1
            <7>2. ASSUME l < Len(d) PROVE d[l + 1].kind = "junk"
              <8>1. q <= Len(d)
                BY <1>6, <5>3, <7>1, <7>2
              <8> QED BY <5>4, <7>1, <8>1
            <7> QED BY <7>2 DEF NoneBehind
          <6>2. CASE d[l].size = 1
            <7>1. l + 2 = q /\ d[l + 1].kind = "data"
              BY <5>2, <5>3, <6>2
            <7>2. ASSUME l + 1 < Len(d) PROVE d[l + 2].kind = "junk"
              <8>1. q <= Len(d)
                BY <1>6, <5>3, <7>1, <7>2
              <8> QED BY <5>4, <7>1, <8>1
            <7> QED BY <7>1, <7>2 DEF NoneBehind
          <6> QED BY <5>3, <6>1, <6>2
        <5> QED BY <5>5 DEF l
      <4> QED BY <2>5, <3>0, <4>1, <4>2 DEF Ends
    <3>2. CASE q # e + 1
      <4>1. q \in 1 .. e /\ q \in 1 .. Len(c) /\ d[q] = c[q]
        <5>1. q \in 1 .. e
          BY <2>1, <2>3, <3>2
        <5> QED BY <1>6, <1>12, <2>1, <5>1
      <4>2. /\ c[q].kind = "header" /\ q < Len(c) /\ c[q + 1].kind \in {"data", "short"}
            /\ q = e \/ c[q + 1].kind = "short"
        <5>1. CASE m < L
          <6>1. m \in 1 .. Len(qs) - 1
            BY <1>7, <2>3, <5>1
          <6>2. Whole(c, q) /\ qs[m + 1] = Follow(c, q)
            BY <1>9, <6>1 DEF Chain, q
          <6>3. /\ c[q].kind = "header" /\ c[q].size \in {0, 1}
                /\ c[q].size = 0 => Follow(c, q) = q + 1
                /\ c[q].size = 1 => Follow(c, q) = q + 2 /\ q + 1 <= Len(c) /\ c[q + 1].kind = "data"
            BY <1>6, <6>2, WholeIs
          <6>4. ~(Follow(c, q) <= e + 1)
            BY <2>2, <5>1, <6>2
          <6>5. c[q].size = 1
            BY <2>1, <4>1, <6>3, <6>4
          <6>6. q = e
            BY <2>1, <4>1, <6>3, <6>4, <6>5
          <6> QED BY <1>6, <4>1, <6>3, <6>5, <6>6
        <5>2. CASE ~(m < L)
          <6>1. m = L
            BY <1>7, <2>3, <5>2
          <6>2. Spoilt(c, q)
            <7>1. q # Len(c) + 1
              BY <1>6, <4>1
            <7> QED BY <1>9, <6>1, <7>1 DEF Complete, q
          <6> QED BY <6>2 DEF Spoilt
        <5> QED BY <5>1, <5>2
      <4>3. Go(d, q)
        BY <1>6, <2>1, <4>1, <4>2 DEF Go
      <4>4. ASSUME q < Len(d) PROVE d[q + 1].kind \in {"short", "junk"}
        <5>1. CASE q = e
          <6>1. Len(d) = e + 1 /\ (d[e + 1] = Junk \/ (e < Len(c) /\ d[e + 1] \in Cut(c[e + 1])))
            BY <1>6, <1>12, <2>1, <4>4, <5>1
          <6>2. e < Len(c) /\ c[e + 1].kind # "header"
            BY <4>2, <5>1
          <6>3. d[e + 1].kind = "junk"
            BY <2>4, <6>1, <6>2
          <6> QED BY <5>1, <6>3
        <5>2. CASE q # e
          <6>1. q + 1 \in 1 .. e /\ c[q + 1].kind = "short"
            BY <2>1, <4>1, <4>2, <5>2
          <6> QED BY <1>12, <6>1
        <5> QED BY <5>1, <5>2
      <4>5. NoneBehind(d, q)
        BY <4>4 DEF NoneBehind
      <4> QED BY <3>0, <4>3, <4>5 DEF Ends
    <3> QED BY <3>1, <3>2
  <2> QED BY <1>10, <1>12, <2>1, <2>2, <2>5
<1> QED BY <1>3, <1>11, <1>12, CrashLeaves DEF c, d

-----------------------------------------------------------------------------
(* Reading *)

LEMMA OpenReadKept == ASSUME KInv, NEW stream \in BOOLEAN, OpenRead(stream) PROVE KInv'
<1>1. IInv'
  BY OpenReadInv DEF KInv
<1>2. /\ mode = "none" /\ mode' = "r" /\ disk' = disk /\ whole' = whole
      /\ written' = Infos(disk) /\ before' = <<>>
  BY DEF OpenRead
<1> DEFINE f == Infos(disk)
<1>3. Resting /\ whole \in BOOLEAN /\ disk \in Seq(Cell) /\ f \in Seq(InfoT) /\ <<>> \in Seq(InfoT)
  <2>1. Resting /\ whole \in BOOLEAN /\ disk \in Seq(Cell)
    BY <1>2 DEF KInv, History, IInv, Archives
  <2> QED BY <2>1, InfosTyped
<1>4. Infos(disk)' = f /\ Sane(disk)' = Sane(disk) /\ AllWhole(disk)' = AllWhole(disk)
  BY <1>2
<1> HIDE DEF f
<1>5. IsPrefix(AllButLast(f), f)
  <2> DEFINE s == AllButLast(f)
  <2>1. /\ s \in Seq(InfoT) /\ Len(s) <= Len(f) /\ \A k \in 1 .. Len(s) : s[k] = f[k]
    <3>1. /\ s \in Seq(InfoT)
          /\ f = <<>> => Len(s) = 0
          /\ f # <<>> => Len(s) = Len(f) - 1
          /\ \A k \in 1 .. Len(s) : s[k] = f[k]
      BY <1>3, AllButLastIs
    <3>2. Len(f) \in Nat
      BY <1>3
    <3> HIDE DEF s
    <3> QED BY <3>1, <3>2
  <2> HIDE DEF s
  <2>2. IsPrefix(s, f)
    BY <1>3, <2>1, PrefixIs
  <2> QED BY <2>2 DEF s
<1>6. IsPrefix(AllButLast(before'), f)
  <2>1. AllButLast(before') = <<>>
    BY <1>2 DEF AllButLast
  <2>2. Len(<<>>) <= Len(f) /\ \A k \in 1 .. Len(<<>>) : <<>>[k] = f[k]
    BY <1>3
  <2>3. IsPrefix(<<>>, f)
    BY <1>3, <2>2, PrefixIs
  <2> QED BY <2>1, <2>3
<1>7. Resting'
  <2>1. Sane(disk) /\ (whole => AllWhole(disk))
    BY <1>3 DEF Resting
  <2>2. written' = f
    BY <1>2 DEF f
  <2> QED BY <1>2, <1>4, <1>5, <1>6, <2>1, <2>2 DEF Resting
<1> QED BY <1>1, <1>2, <1>3, <1>7 DEF KInv, History, f

(* Steps that leave the archive as it is. *)
LEMMA SameArchive ==
  ASSUME KInv, IInv', UNCHANGED <<disk, at, pending, written, before, whole>>,
         mode' = mode \/ (mode = "r" /\ mode' = "none")
  PROVE  KInv'
<1>1. History'
  BY DEF KInv, History
<1>2. Writing => Writing'
  BY DEF Writing, Content, Begins
<1>3. Resting => Resting'
  BY DEF Resting
<1> QED BY <1>1, <1>2, <1>3 DEF KInv

LEMMA NextKept == KInv /\ [Next]_vars => KInv'
<1> SUFFICES ASSUME KInv, [Next]_vars PROVE KInv'
  OBVIOUS
<1>1. IInv'
  BY NextInv DEF KInv
<1>2. CASE UNCHANGED vars
  <2>1. UNCHANGED <<disk, at, pending, written, before, whole>> /\ mode' = mode
    BY <1>2 DEF vars, fileVars
  <2> QED BY <1>1, <2>1, SameArchive
<1>3. CASE OpenWrite \/ OpenAppend \/ CloseWriter \/ Crash \/ AddFile \/ AddFails
  BY <1>3, OpenWriteKept, OpenAppendKept, CloseWriterKept, CrashKept, AddFileKept, AddFailsKept
<1>4. CASE SkipArchive \/ \E n \in DOMAIN Tree : Add(n)
  <2>1. UNCHANGED <<disk, at, pending, written, before, whole>> /\ mode' = mode
    BY <1>4 DEF SkipArchive, Add, fileVars
  <2> QED BY <1>1, <2>1, SameArchive
<1>5. CASE \E stream \in BOOLEAN : OpenRead(stream)
  BY <1>5, OpenReadKept
<1>6. CASE ReaderNext /\ ~\E stream \in BOOLEAN : OpenRead(stream)
  <2> USE DEF fileVars
  <2>1. CASE NewIterator \/ GetMembers \/ ExtractAllMember \/ ExtractAllEnds \/ CloseReader
    <3>1. UNCHANGED <<disk, at, pending, written, before, whole>>
      BY <2>1 DEF NewIterator, GetMembers, ExtractAllMember, ExtractAllEnds, CloseReader
    <3>2. mode' = mode \/ (mode = "r" /\ mode' = "none")
      BY <2>1 DEF NewIterator, GetMembers, ExtractAllMember, ExtractAllEnds, CloseReader, Free
    <3> QED BY <1>1, <3>1, <3>2, SameArchive
  <2>2. CASE \E i \in DOMAIN its : Resume(i)
    <3>1. UNCHANGED <<disk, at, pending, written, before, whole>> /\ mode' = mode
      BY <2>2 DEF Resume
    <3> QED BY <1>1, <3>1, SameArchive
  <2>3. CASE \E k \in 1 .. N : ExtractFile(k) \/ ExtractAllDir(k) \/ \E b \in Bases : Extract(k, b)
    <3>1. UNCHANGED <<disk, at, pending, written, before, whole>> /\ mode' = mode
      BY <2>3 DEF ExtractFile, ExtractAllDir, Extract
    <3> QED BY <1>1, <3>1, SameArchive
  <2>4. CASE \E b \in Bases : ExtractAll(b)
    <3>1. UNCHANGED <<disk, at, pending, written, before, whole>> /\ mode' = mode
      BY <2>4 DEF ExtractAll
    <3> QED BY <1>1, <3>1, SameArchive
  <2> QED BY <1>6, <2>1, <2>2, <2>3, <2>4 DEF ReaderNext
<1> QED BY <1>2, <1>3, <1>4, <1>5, <1>6 DEF Next, WriterNext, ReaderNext

(* The data behind a whole member are its own. *)
LEMMA WholeData ==
  ASSUME NEW d \in Seq(Cell), AllWhole(d), NEW k \in DOMAIN Infos(d)
  PROVE  Data(d, k) = IF Infos(d)[k].size = 0 THEN Nothing ELSE Infos(d)[k].ino
<1> DEFINE i == Places(d)[k]
<1>1. Places(d) \in Seq(Nat) /\ Len(d) \in Nat
  BY PlacesSpelled DEF Spelled
<1>2. k \in 1 .. Len(Places(d)) /\ Infos(d)[k] = Info(d[i])
  BY <1>1, InfosAre
<1>3. Whole(d, i)
  BY <1>2 DEF AllWhole
<1>4. Data(d, k) = IF d[i].size = 0 \/ i = Len(d) THEN Nothing
                   ELSE IF d[i + 1].kind = "data" THEN d[i + 1].ino ELSE Nothing
  BY DEF Data
<1> HIDE DEF i
<1>5. /\ i \in 1 .. Len(d) /\ d[i].size \in {0, 1}
      /\ d[i].size = 1 => /\ i + 1 <= Len(d)
                          /\ d[i + 1].kind = "data" /\ d[i + 1].ino = d[i].ino
  BY <1>1, <1>3, WholeIs
<1>6. Infos(d)[k].size = d[i].size /\ Infos(d)[k].ino = d[i].ino
  BY <1>2 DEF Info
<1>7. d[i].size = 1 => i # Len(d)
  BY <1>1, <1>5
<1> QED BY <1>4, <1>5, <1>6, <1>7

LEMMA KeptInvariance == Spec => []KInv
BY InitKept, NextKept, PTL DEF Spec

(* An archive of any length, written and appended to in any order, by      *)
(* programs that crash and whose files change under them: what add() wrote *)
(* completely is found by readers, all of it with its data if it was       *)
(* closed and nothing failed; and appending leaves all but the last of the *)
(* earlier members.                                                        *)
THEOREM WritingIsKept == Spec => []KeepsWhatWasWritten
<1>1. KInv => (mode = "none" =>
         LET found == Infos(disk) IN
         IF whole
         THEN /\ found = written
              /\ \A k \in DOMAIN found :
                   Data(disk, k) = IF found[k].size = 0 THEN Nothing ELSE found[k].ino
         ELSE /\ IsPrefix(AllButLast(found), written)
              /\ IsPrefix(AllButLast(before), found))
  <2> SUFFICES ASSUME KInv, mode = "none"
               PROVE  IF whole
                      THEN /\ Infos(disk) = written
                           /\ \A k \in DOMAIN Infos(disk) :
                                Data(disk, k) = IF Infos(disk)[k].size = 0 THEN Nothing ELSE Infos(disk)[k].ino
                      ELSE /\ IsPrefix(AllButLast(Infos(disk)), written)
                           /\ IsPrefix(AllButLast(before), Infos(disk))
    OBVIOUS
  <2>1. disk \in Seq(Cell) /\ Resting
    BY DEF KInv, IInv, Archives
  <2>2. ASSUME whole, NEW k \in DOMAIN Infos(disk)
        PROVE  Data(disk, k) = IF Infos(disk)[k].size = 0 THEN Nothing ELSE Infos(disk)[k].ino
    BY <2>1, <2>2, WholeData DEF Resting
  <2> QED BY <2>1, <2>2 DEF Resting
<1>2. KInv /\ TypeOK => KeepsWhatWasWritten
  BY <1>1 DEF KeepsWhatWasWritten
<1> QED BY <1>2, KeptInvariance, CpioTypes, PTL

-----------------------------------------------------------------------------
(* The members of a whole archive *)

Listed(m) ==
  /\ m.name \in DOMAIN Tree
  /\ m.dir = Tree[m.name].dir /\ m.ino = Tree[m.name].ino /\ m.nlink = Tree[m.name].nlink
  /\ m.nlink = 1 => m.size = Tree[m.name].size

Honest ==
  /\ N \in Nat
  /\ \A k \in 1 .. N : /\ members[k] \in InfoT /\ Listed(members[k])
                       /\ Data(disk, k) = IF members[k].size = 0 THEN Nothing ELSE members[k].ino

LEMMA WholeListed ==
  ASSUME NEW d, NEW i, Whole(d, i)
  PROVE  Listed(Info(d[i]))
<1>1. PICK n \in DOMAIN Tree : \E size \in 0 .. Tree[n].size :
               d[i] = Header(n, size) /\ (Tree[n].nlink = 1 => size = Tree[n].size)
  BY DEF Whole, Proper
<1>2. PICK size \in 0 .. Tree[n].size :
               d[i] = Header(n, size) /\ (Tree[n].nlink = 1 => size = Tree[n].size)
  BY <1>1
<1>3. /\ d[i].name = n /\ d[i].size = size
      /\ d[i].dir = Tree[n].dir /\ d[i].ino = Tree[n].ino /\ d[i].nlink = Tree[n].nlink
  BY <1>2, HeaderIs
<1>4. LET m == Info(d[i]) IN
      /\ m.name = n /\ m.size = size
      /\ m.dir = Tree[n].dir /\ m.ino = Tree[n].ino /\ m.nlink = Tree[n].nlink
  BY <1>3 DEF Info
<1> QED BY <1>2, <1>4 DEF Listed

LEMMA HonestInv == ASSUME KInv, mode = "r", whole PROVE Honest
<1>1. disk \in Seq(Cell) /\ members = Infos(disk) /\ AllWhole(disk)
  BY DEF KInv, IInv, Archives, Resting
<1>2. Places(disk) \in Seq(Nat)
  BY <1>1, PlacesSpelled DEF Spelled
<1>3. /\ DOMAIN members = 1 .. N /\ N = Len(Places(disk)) /\ N \in Nat
      /\ \A k \in 1 .. N : members[k] = Info(disk[Places(disk)[k]])
  <2>1. N = Len(Infos(disk))
    BY <1>1 DEF N
  <2> DEFINE ps == Places(disk)
  <2>2. ps \in Seq(Nat) /\ Places(disk) = ps
    BY <1>2
  <2> HIDE DEF ps
  <2>3. /\ DOMAIN Infos(disk) = 1 .. Len(ps) /\ Len(Infos(disk)) = Len(ps)
        /\ \A k \in 1 .. Len(ps) : Infos(disk)[k] = Info(disk[ps[k]])
    BY <2>2, InfosAre
  <2> QED BY <1>1, <2>1, <2>2, <2>3
<1>4. ASSUME NEW k \in 1 .. N
      PROVE  /\ Listed(members[k])
             /\ Data(disk, k) = IF members[k].size = 0 THEN Nothing ELSE members[k].ino
  <2>1. Whole(disk, Places(disk)[k])
    BY <1>1, <1>3 DEF AllWhole
  <2>2. Listed(members[k])
    BY <1>3, <2>1, WholeListed
  <2>3. Data(disk, k) = IF members[k].size = 0 THEN Nothing ELSE members[k].ino
    BY <1>1, <1>3, WholeData
  <2> QED BY <2>2, <2>3
<1>5. \A k \in 1 .. N : members[k] \in InfoT
  BY ReadersInv DEF KInv, Readers
<1> QED BY <1>3, <1>4, <1>5 DEF Honest

(* Members of one inode are one file, whatever their names. *)
LEMMA OneFile ==
  ASSUME Honest, NEW j \in 1 .. N, NEW k \in 1 .. N,
         members[j].ino = members[k].ino \/ members[j].name = members[k].name
  PROVE  /\ members[j].ino = members[k].ino /\ members[j].dir = members[k].dir
         /\ members[j].nlink = members[k].nlink
         /\ members[j].nlink = 1 => members[j].size = members[k].size
<1> DEFINE m == members[j].name
           n == members[k].name
<1>1. /\ m \in DOMAIN Tree /\ members[j].dir = Tree[m].dir /\ members[j].ino = Tree[m].ino
      /\ members[j].nlink = Tree[m].nlink
      /\ members[j].nlink = 1 => members[j].size = Tree[m].size
  BY DEF Honest, Listed
<1>2. /\ n \in DOMAIN Tree /\ members[k].dir = Tree[n].dir /\ members[k].ino = Tree[n].ino
      /\ members[k].nlink = Tree[n].nlink
      /\ members[k].nlink = 1 => members[k].size = Tree[n].size
  BY DEF Honest, Listed
<1>3. CASE m = n
  BY <1>1, <1>2, <1>3
<1>4. CASE m # n
  <2>1. Tree[m].ino = Tree[n].ino
    BY <1>1, <1>2, <1>4
  <2>2. Tree[m] = Tree[n] /\ Tree[m].nlink > 1 /\ Tree[m].nlink \in Nat
    BY <1>1, <1>2, <1>4, <2>1, CpioAssumption
  <2> HIDE DEF m, n
  <2> QED BY <1>1, <1>2, <2>2
<1> QED BY <1>3, <1>4

(* What data are a member's own. *)
LEMMA OwnIs ==
  ASSUME Honest, NEW k \in 1 .. N
  PROVE  /\ members[k].size > 0 => Own(k) = members[k].ino /\ Data(disk, k) = members[k].ino
         /\ members[k].nlink = 1 => Data(disk, k) = Own(k)
         /\ WithData(1 .. N, members[k].ino) = {} => Own(k) = Nothing /\ Data(disk, k) = Nothing
         /\ \A j \in 1 .. N : members[j].ino = members[k].ino => Own(j) = Own(k)
<1>1. members[k].size \in {0, 1}
      /\ Data(disk, k) = IF members[k].size = 0 THEN Nothing ELSE members[k].ino
  BY DEF Honest, InfoT
<1>2. members[k].size > 0 => k \in WithData(1 .. N, members[k].ino)
  BY DEF WithData
<1>3. ASSUME members[k].size > 0 PROVE Own(k) = members[k].ino /\ Data(disk, k) = members[k].ino
  BY <1>1, <1>2, <1>3 DEF Own
<1>4. ASSUME members[k].nlink = 1 PROVE Data(disk, k) = Own(k)
  <2>1. CASE members[k].size > 0
    BY <1>3, <2>1
  <2>2. CASE ~(members[k].size > 0)
    <3>1. WithData(1 .. N, members[k].ino) = {}
      <4> SUFFICES ASSUME NEW j \in 1 .. N, members[j].ino = members[k].ino, members[j].size > 0
                   PROVE  FALSE
        BY DEF WithData
      <4>1. members[j].nlink = 1 /\ members[j].size = members[k].size
        BY <1>4, OneFile
      <4> QED BY <2>2, <4>1
    <3> QED BY <1>1, <2>2, <3>1 DEF Own
  <2> QED BY <2>1, <2>2
<1>5. ASSUME WithData(1 .. N, members[k].ino) = {}
      PROVE  Own(k) = Nothing /\ Data(disk, k) = Nothing
  <2>1. members[k].size = 0
    BY <1>1, <1>2, <1>5
  <2> QED BY <1>1, <1>5, <2>1 DEF Own
<1>6. \A j \in 1 .. N : members[j].ino = members[k].ino => Own(j) = Own(k)
  BY DEF Own
<1> QED BY <1>3, <1>4, <1>5, <1>6

-----------------------------------------------------------------------------
(* Where files are extracted to *)

(* p is m below b. *)
Below(p, b, m) ==
  /\ p \in Seq(Nat) /\ Len(p) = Len(b) + Len(m)
  /\ \A x \in 1 .. Len(b) : p[x] = b[x]
  /\ \A x \in 1 .. Len(m) : p[Len(b) + x] = m[x]

Apart(b, c) == IsPrefix(b, c) \/ IsPrefix(c, b) => b = c

LEMMA PrefixHas ==
  ASSUME NEW p \in Seq(Nat), NEW q \in Seq(Nat), IsPrefix(p, q)
  PROVE  Len(p) <= Len(q) /\ \A x \in 1 .. Len(p) : p[x] = q[x]
<1> DEFINE L == Len(p)
<1>1. L \in Nat /\ L <= Len(q) /\ SubSeq(p, 1, L) = SubSeq(q, 1, L)
  BY DEF IsPrefix
<1> HIDE DEF L
<1>2. \A x \in 1 .. L : SubSeq(q, 1, L)[x] = q[x]
  BY <1>1, PartIs
<1>3. SubSeq(p, 1, L) = p
  BY DEF L
<1> QED BY <1>1, <1>2, <1>3 DEF L

LEMMA Beneath ==
  ASSUME NEW b \in Seq(Nat), NEW m \in Seq(Nat), NEW c \in Seq(Nat), NEW n \in Seq(Nat),
         Apart(b, c), NEW p, Below(p, b, m), NEW q, Below(q, c, n), IsPrefix(p, q)
  PROVE  b = c /\ IsPrefix(m, n)
<1> DEFINE B == Len(b)
           M == Len(m)
           C == Len(c)
           L == Len(n)
<1>0. B \in Nat /\ M \in Nat /\ C \in Nat /\ L \in Nat /\ p \in Seq(Nat) /\ q \in Seq(Nat)
  BY DEF Below
<1>1. /\ Len(p) = B + M
      /\ \A x \in 1 .. B : p[x] = b[x]
      /\ \A x \in 1 .. M : p[B + x] = m[x]
  BY DEF Below
<1>2. /\ Len(q) = C + L
      /\ \A x \in 1 .. C : q[x] = c[x]
      /\ \A x \in 1 .. L : q[C + x] = n[x]
  BY DEF Below
<1>3. Len(p) <= Len(q) /\ \A x \in 1 .. Len(p) : p[x] = q[x]
  BY <1>0, PrefixHas
<1> HIDE DEF B, M, C, L
<1>4. b = c
  <2>1. CASE B <= C
    <3>1. \A x \in 1 .. B : x \in 1 .. C /\ x \in 1 .. Len(p)
      BY <1>0, <1>1, <2>1
    <3>2. \A x \in 1 .. B : b[x] = c[x]
      BY <1>1, <1>2, <1>3, <3>1
    <3>3. IsPrefix(b, c)
      BY <2>1, <3>2, PrefixIs DEF B, C
    <3> QED BY <3>3 DEF Apart
  <2>2. CASE ~(B <= C)
    <3>1. C <= B /\ \A x \in 1 .. C : x \in 1 .. B /\ x \in 1 .. Len(p)
      BY <1>0, <1>1, <2>2
    <3>2. \A x \in 1 .. C : c[x] = b[x]
      BY <1>1, <1>2, <1>3, <3>1
    <3>3. IsPrefix(c, b)
      BY <3>1, <3>2, PrefixIs DEF B, C
    <3> QED BY <3>3 DEF Apart
  <2> QED BY <2>1, <2>2
<1>5. B = C
  BY <1>4 DEF B, C
<1>6. M <= L
  BY <1>0, <1>1, <1>2, <1>3, <1>5
<1>7. ASSUME NEW x \in 1 .. M PROVE m[x] = n[x]
  <2>1. x \in 1 .. L /\ B + x \in 1 .. Len(p)
    BY <1>0, <1>1, <1>6
  <2>2. p[B + x] = q[C + x]
    BY <1>3, <1>5, <2>1
  <2> QED BY <1>1, <1>2, <2>1, <2>2
<1>8. IsPrefix(m, n)
  BY <1>6, <1>7, PrefixIs DEF M, L
<1> QED BY <1>4, <1>8

LEMMA NamesAre ==
  ASSUME Honest, NEW k \in 1 .. N, NEW b \in Bases
  PROVE  /\ members[k].name \in Seq(Nat) /\ b \in Seq(Nat)
         /\ b \o members[k].name \in Seq(Nat) /\ Below(b \o members[k].name, b, members[k].name)
         /\ \A c \in Bases : Apart(b, c)
<1> DEFINE m == members[k].name
<1>1. m \in Seq(Nat) /\ b \in Seq(Nat)
  BY CpioAssumption DEF Honest, InfoT
<1> HIDE DEF m
<1>2. /\ b \o m \in Seq(Nat) /\ Len(b \o m) = Len(b) + Len(m)
      /\ \A i \in 1 .. Len(b) : (b \o m)[i] = b[i]
      /\ \A i \in 1 .. Len(m) : (b \o m)[Len(b) + i] = m[i]
  BY <1>1, ConcatIs
<1>3. Below(b \o m, b, m)
  BY <1>2 DEF Below
<1> QED BY <1>1, <1>2, <1>3, PathsAssumption DEF Apart, m

(* Where a member is extracted to. *)
Path(b, k) == b \o members[k].name

LEMMA SamePath ==
  ASSUME Honest, NEW j \in 1 .. N, NEW k \in 1 .. N, NEW b \in Bases, NEW c \in Bases,
         Path(b, k) = Path(c, j)
  PROVE  b = c /\ members[k].name = members[j].name
<1> DEFINE m == members[k].name
           n == members[j].name
           p == b \o m
<1>1. /\ m \in Seq(Nat) /\ n \in Seq(Nat) /\ b \in Seq(Nat) /\ c \in Seq(Nat)
      /\ Apart(b, c) /\ p \in Seq(Nat) /\ Below(p, b, m)
  BY NamesAre
<1>2. Below(p, c, n) /\ Apart(c, b)
  <2>1. Below(c \o n, c, n) /\ Apart(c, b)
    BY NamesAre
  <2>2. p = c \o n
    BY DEF Path
  <2> QED BY <2>1, <2>2
<1> HIDE DEF m, n, p
<1>3. IsPrefix(p, p)
  BY <1>1 DEF IsPrefix
<1>4. b = c /\ IsPrefix(m, n)
  BY <1>1, <1>2, <1>3, Beneath
<1>5. IsPrefix(n, m)
  BY <1>1, <1>2, <1>3, Beneath
<1>6. Len(m) <= Len(n) /\ Len(n) <= Len(m) /\ SubSeq(m, 1, Len(m)) = SubSeq(n, 1, Len(m))
  BY <1>4, <1>5 DEF IsPrefix
<1>7. m = n
  <2>1. Len(m) = Len(n)
    BY <1>1, <1>6
  <2>2. SubSeq(m, 1, Len(m)) = m /\ SubSeq(n, 1, Len(n)) = n
    BY <1>1
  <2> QED BY <1>6, <2>1, <2>2
<1> QED BY <1>4, <1>7 DEF m, n

(* A file is nowhere that something is extracted below. *)
LEMMA NotUpper ==
  ASSUME Honest, NEW j \in 1 .. N, NEW k \in 1 .. N, NEW b \in Bases, NEW c \in Bases,
         ~members[k].dir
  PROVE  Path(b, k) \notin UpperDirs(Path(c, j))
<1> DEFINE m == members[k].name
           n == members[j].name
           p == b \o m
           q == c \o n
<1>1. /\ m \in Seq(Nat) /\ n \in Seq(Nat) /\ b \in Seq(Nat) /\ c \in Seq(Nat)
      /\ Apart(b, c) /\ p \in Seq(Nat) /\ q \in Seq(Nat) /\ Below(p, b, m) /\ Below(q, c, n)
  BY NamesAre
<1>2. m \in DOMAIN Tree /\ n \in DOMAIN Tree /\ ~Tree[m].dir
  BY DEF Honest, Listed
<1> SUFFICES ASSUME p \in UpperDirs(q) PROVE FALSE
  BY DEF Path
<1>4. PICK i \in 1 .. Len(q) - 1 : p = SubSeq(q, 1, i)
  BY DEF UpperDirs
<1> HIDE DEF m, n, p, q
<1>5. Len(p) = i /\ Len(q) \in Nat /\ i < Len(q) /\ \A x \in 1 .. i : p[x] = q[x]
  <2>1. i \in Nat /\ i <= Len(q) /\ i < Len(q) /\ Len(q) \in Nat
    BY <1>1, <1>4
  <2> QED BY <1>1, <1>4, <2>1, PartIs
<1>6. IsPrefix(p, q)
  <2>1. Len(p) <= Len(q) /\ \A x \in 1 .. Len(p) : p[x] = q[x]
    BY <1>1, <1>5
  <2> QED BY <1>1, <2>1, PrefixIs
<1>7. b = c /\ IsPrefix(m, n)
  BY <1>1, <1>6, Beneath
<1>8. m # n
  <2>1. Len(p) = Len(b) + Len(m) /\ Len(q) = Len(c) + Len(n)
    BY <1>1 DEF Below
  <2> QED BY <1>1, <1>5, <1>7, <2>1
<1> QED BY <1>2, <1>7, <1>8, PathsAssumption

-----------------------------------------------------------------------------
(* Files with the right data *)

GoodFile(e, a, k) == ~e.dir /\ (e.data = Own(k) \/ (a /\ e.data = Nothing))

Right(f, a) ==
  \A k \in 1 .. N, b \in Bases :
    Path(b, k) \in DOMAIN f /\ ~members[k].dir => GoodFile(f[Path(b, k)], a, k)

(* What a CpioFile knows of inodes: the names of files it has come across. *)
Named(inodes) ==
  \A i \in DOMAIN inodes :
    \E j \in 1 .. N : ~members[j].dir /\ members[j].ino = i /\ members[j].name = inodes[i]

LEMMA RightMore ==
  ASSUME NEW f, NEW a \in BOOLEAN, Right(f, a), NEW c \in BOOLEAN, a => c
  PROVE  Right(f, c)
BY DEF Right, GoodFile

LEMMA MakeDirsIs ==
  ASSUME NEW f, NEW ps, NEW attr
  PROVE  /\ DOMAIN MakeDirs(f, ps, attr) = DOMAIN f \cup ps
         /\ \A q \in DOMAIN f : MakeDirs(f, ps, attr)[q] = f[q]
BY DEF MakeDirs

LEMMA PutFileRight ==
  ASSUME Honest, NEW a \in BOOLEAN, NEW f, Right(f, a), NEW k \in 1 .. N, NEW b \in Bases,
         NEW e, GoodFile(e, a, k)
  PROVE  Right(Put(f, Path(b, k), e), a)
<1> DEFINE p == Path(b, k)
           g == Put(f, p, e)
<1> SUFFICES ASSUME NEW j \in 1 .. N, NEW c \in Bases, Path(c, j) \in DOMAIN g,
                    ~members[j].dir
             PROVE  GoodFile(g[Path(c, j)], a, j)
  BY DEF Right
<1> DEFINE q == Path(c, j)
<1>1. DOMAIN g = DOMAIN f \cup {p} /\ g[p] = e /\ \A r \in DOMAIN f : r # p => g[r] = f[r]
  <2> HIDE DEF p
  <2> QED BY DEF Put
<1>2. CASE q = p
  <2>1. members[j].name = members[k].name
    <3>1. Path(b, k) = Path(c, j)
      BY <1>2
    <3> QED BY <3>1, SamePath
  <2>2. members[j].ino = members[k].ino
    BY <2>1, OneFile
  <2>3. Own(j) = Own(k)
    BY <2>2, OwnIs
  <2>4. GoodFile(e, a, j)
    BY <2>3 DEF GoodFile
  <2>5. GoodFile(g[q], a, j)
    <3> HIDE DEF p, g, q
    <3> QED BY <1>1, <1>2, <2>4
  <2> QED BY <2>5
<1>3. CASE q # p
  <2>1. q \in DOMAIN f => GoodFile(f[q], a, j)
    BY DEF Right
  <2> HIDE DEF p, g, q
  <2> QED BY <1>1, <1>3, <2>1 DEF q
<1> QED BY <1>2, <1>3

LEMMA PutDirRight ==
  ASSUME Honest, NEW a \in BOOLEAN, NEW f, Right(f, a), NEW k \in 1 .. N, NEW b \in Bases,
         members[k].dir, NEW e
  PROVE  Right(Put(f, Path(b, k), e), a)
<1> DEFINE p == Path(b, k)
           g == Put(f, p, e)
<1> SUFFICES ASSUME NEW j \in 1 .. N, NEW c \in Bases, Path(c, j) \in DOMAIN g,
                    ~members[j].dir
             PROVE  GoodFile(g[Path(c, j)], a, j)
  BY DEF Right
<1> DEFINE q == Path(c, j)
<1>1. DOMAIN g = DOMAIN f \cup {p} /\ \A r \in DOMAIN f : r # p => g[r] = f[r]
  <2> HIDE DEF p
  <2> QED BY DEF Put
<1>2. q # p
  <2> SUFFICES ASSUME q = p PROVE FALSE
    OBVIOUS
  <2>1. members[j].name = members[k].name
    <3>1. Path(b, k) = Path(c, j)
      OBVIOUS
    <3> QED BY <3>1, SamePath
  <2> QED BY <2>1, OneFile
<1>3. q \in DOMAIN f => GoodFile(f[q], a, j)
  BY DEF Right
<1> HIDE DEF p, g, q
<1> QED BY <1>1, <1>2, <1>3 DEF q

LEMMA MakeDirsRight ==
  ASSUME NEW a \in BOOLEAN, NEW f, Right(f, a), NEW ps, NEW attr,
         \A k \in 1 .. N, b \in Bases : ~members[k].dir => Path(b, k) \notin ps
  PROVE  Right(MakeDirs(f, ps, attr), a)
<1> DEFINE g == MakeDirs(f, ps, attr)
<1> SUFFICES ASSUME NEW j \in 1 .. N, NEW c \in Bases, Path(c, j) \in DOMAIN g,
                    ~members[j].dir
             PROVE  GoodFile(g[Path(c, j)], a, j)
  BY DEF Right
<1> DEFINE q == Path(c, j)
<1>1. DOMAIN g = DOMAIN f \cup ps /\ \A r \in DOMAIN f : g[r] = f[r]
  BY MakeDirsIs
<1>2. q \notin ps
  OBVIOUS
<1>3. q \in DOMAIN f => GoodFile(f[q], a, j)
  BY DEF Right
<1> HIDE DEF g, q
<1> QED BY <1>1, <1>2, <1>3 DEF q

(* What is made to hold a member leaves the files alone. *)
LEMMA UpperRight ==
  ASSUME Honest, NEW a \in BOOLEAN, NEW f, Right(f, a), NEW k \in 1 .. N, NEW b \in Bases, NEW attr
  PROVE  /\ Right(MakeDirs(f, UpperDirs(Path(b, k)), attr), a)
         /\ members[k].dir =>
              Right(MakeDirs(f, UpperDirs(Path(b, k)) \cup {Path(b, k)}, attr), a)
<1> DEFINE p == Path(b, k)
<1>1. \A j \in 1 .. N, c \in Bases : ~members[j].dir => Path(c, j) \notin UpperDirs(p)
  BY NotUpper
<1>2. ASSUME members[k].dir, NEW j \in 1 .. N, NEW c \in Bases, ~members[j].dir
      PROVE  Path(c, j) # p
  <2> SUFFICES ASSUME Path(c, j) = p PROVE FALSE
    OBVIOUS
  <2>1. members[j].name = members[k].name
    <3>1. Path(b, k) = Path(c, j)
      OBVIOUS
    <3> QED BY <3>1, SamePath
  <2> QED BY <1>2, <2>1, OneFile
<1>3. members[k].dir => \A j \in 1 .. N, c \in Bases : ~members[j].dir =>
                           Path(c, j) \notin UpperDirs(p) \cup {p}
  BY <1>1, <1>2
<1> DEFINE ps == UpperDirs(p) \cup {p}
           qs == UpperDirs(p)
<1>4. /\ \A j \in 1 .. N, c \in Bases : ~members[j].dir => Path(c, j) \notin qs
      /\ members[k].dir => \A j \in 1 .. N, c \in Bases : ~members[j].dir => Path(c, j) \notin ps
  BY <1>1, <1>3
<1> HIDE DEF p, ps, qs
<1>5. Right(MakeDirs(f, qs, attr), a) /\ (members[k].dir => Right(MakeDirs(f, ps, attr), a))
  BY <1>4, MakeDirsRight
<1> QED BY <1>5 DEF p, ps, qs

-----------------------------------------------------------------------------
(* What is known of inodes is left alone by reading on *)

LEMMA AtInodes ==
  ASSUME NEW o, Shaped(o), NEW p
  PROVE  Shaped(At(o, p)) /\ At(o, p).inodes = o.inodes /\ At(o, p).stream = o.stream
<1>1. At(o, p) = [stream |-> o.stream, read |-> o.read, first |-> o.first, loaded |-> o.loaded,
                  pos |-> IF o.stream THEN p ELSE 0, inodes |-> o.inodes]
  BY Updated DEF At
<1> QED BY <1>1 DEF Shaped

LEMMA OnToInodes ==
  ASSUME NEW o, Shaped(o), NEW k
  PROVE  Shaped(OnTo(o, k)) /\ OnTo(o, k).inodes = o.inodes /\ OnTo(o, k).stream = o.stream
<1>1. OnTo(o, k) = [stream |-> o.stream, read |-> k, first |-> FALSE, loaded |-> o.loaded,
                    pos |-> o.pos, inodes |-> o.inodes]
  BY ReadOn, Zenon DEF OnTo
<1> QED BY <1>1 DEF Shaped

LEMMA ReadOnInodes ==
  ASSUME NEW o, Shaped(o), NEW k
  PROVE  /\ Shaped(AtMember(o, k)) /\ AtMember(o, k).inodes = o.inodes
         /\ AtMember(o, k).stream = o.stream
         /\ Shaped(AtEnd(o)) /\ AtEnd(o).inodes = o.inodes /\ AtEnd(o).stream = o.stream
         /\ Shaped(Load(o)) /\ Load(o).inodes = o.inodes /\ Load(o).stream = o.stream
<1>1. AtMember(o, k) = At(OnTo(o, k), 2 * k) /\ AtEnd(o) = At(OnTo(o, N), 2 * (N + 1))
  BY DEF AtMember, AtEnd, OnTo
<1>2. /\ Shaped(OnTo(o, k)) /\ OnTo(o, k).inodes = o.inodes /\ OnTo(o, k).stream = o.stream
      /\ Shaped(OnTo(o, N)) /\ OnTo(o, N).inodes = o.inodes /\ OnTo(o, N).stream = o.stream
  BY OnToInodes
<1>3. /\ Shaped(AtMember(o, k)) /\ AtMember(o, k).inodes = o.inodes
      /\ AtMember(o, k).stream = o.stream
      /\ Shaped(AtEnd(o)) /\ AtEnd(o).inodes = o.inodes /\ AtEnd(o).stream = o.stream
  BY <1>1, <1>2, AtInodes
<1> DEFINE x == AtEnd(o)
<1>4. Load(o) = o \/ Load(o) = [x EXCEPT !.loaded = TRUE]
  BY DEF Load
<1>5. Shaped(x) /\ x.inodes = o.inodes /\ x.stream = o.stream
  BY <1>3
<1> HIDE DEF x
<1>6. [x EXCEPT !.loaded = TRUE] =
        [stream |-> x.stream, read |-> x.read, first |-> x.first, loaded |-> TRUE,
         pos |-> x.pos, inodes |-> x.inodes]
  BY <1>5, Updated
<1>7. Shaped(Load(o)) /\ Load(o).inodes = o.inodes /\ Load(o).stream = o.stream
  BY <1>4, <1>5, <1>6 DEF Shaped
<1> QED BY <1>3, <1>7

LEMMA StepInodes ==
  ASSUME NEW o, Shaped(o), NEW index
  PROVE  Step(o, index).obj.inodes = o.inodes /\ Step(o, index).obj.stream = o.stream
<1> DEFINE n == NextOf(o)
           x == [o EXCEPT !.first = FALSE]
<1>1. Shaped(x) /\ x.inodes = o.inodes /\ x.stream = o.stream
  <2>1. x = [stream |-> o.stream, read |-> o.read, first |-> FALSE, loaded |-> o.loaded,
             pos |-> o.pos, inodes |-> o.inodes]
    BY Updated
  <2> QED BY <2>1 DEF Shaped
<1>2. n.obj = x \/ n.obj = AtEnd(o) \/ n.obj = AtMember(o, o.read + 1)
  BY DEF NextOf
<1> HIDE DEF x
<1>3. Shaped(n.obj) /\ n.obj.inodes = o.inodes /\ n.obj.stream = o.stream
  BY <1>1, <1>2, ReadOnInodes
<1>4. Step(o, index).obj = o \/ Step(o, index).obj = Load(n.obj) \/ Step(o, index).obj = n.obj
  BY DEF Step
<1> HIDE DEF n
<1> QED BY <1>3, <1>4, ReadOnInodes

LEMMA DatamemberInodes ==
  ASSUME NEW o, Shaped(o), NEW k
  PROVE  /\ Shaped(Datamember(o, k).obj) /\ Datamember(o, k).obj.inodes = o.inodes
         /\ Datamember(o, k).obj.stream = o.stream
<1> DEFINE l == Least(WithData(Ahead(o), members[k].ino))
<1>1. \/ Datamember(o, k).obj = o \/ Datamember(o, k).obj = Load(o)
      \/ Datamember(o, k).obj = AtMember(o, l)
  BY DEF Datamember
<1> HIDE DEF l
<1> QED BY <1>1, ReadOnInodes

LEMMA AfterReadInodes ==
  ASSUME NEW o, Shaped(o), NEW k
  PROVE  AfterRead(o, k).inodes = o.inodes /\ AfterRead(o, k).stream = o.stream
BY AtInodes DEF AfterRead

-----------------------------------------------------------------------------
(* Extraction of one member, with its data *)

(* The data that are read for a member are its own, or it has been passed. *)
LEMMA FoundData ==
  ASSUME Honest, NEW o, Sound(o, N), NEW k \in 1 .. N, ~members[k].dir, ~IsLinked(o, k)
  PROVE  LET j == IF members[k].nlink = 1 THEN k ELSE Datamember(o, k).k IN
         Data(disk, j) = Own(k) \/ (Missed(o, k) /\ Data(disk, j) = Nothing)
<1> DEFINE m == members[k]
           found == WithData(Ahead(o), m.ino)
           all == WithData(1 .. N, m.ino)
<1>1. /\ m.size > 0 => Own(k) = m.ino /\ Data(disk, k) = m.ino
      /\ m.nlink = 1 => Data(disk, k) = Own(k)
      /\ all = {} => Own(k) = Nothing /\ Data(disk, k) = Nothing
  BY OwnIs
<1>2. CASE m.nlink = 1
  BY <1>1, <1>2
<1>3. CASE m.nlink # 1 /\ m.size > 0
  <2>1. Datamember(o, k).k = k
    BY <1>3 DEF Datamember
  <2> QED BY <1>1, <1>3, <2>1
<1>4. CASE m.nlink # 1 /\ ~(m.size > 0) /\ found = {}
  <2>1. Datamember(o, k).k = k
    BY <1>4 DEF Datamember
  <2>2. m.size = 0 /\ Data(disk, k) = Nothing
    <3>1. m.size \in {0, 1}
      BY DEF Honest, InfoT
    <3>2. m.size = 0
      BY <1>4, <3>1
    <3> QED BY <3>2 DEF Honest
  <2>3. CASE all = {}
    BY <1>1, <1>4, <2>1, <2>3
  <2>4. CASE all # {}
    <3>1. ~o.loaded
      BY <1>4, <2>4 DEF Ahead
    <3>2. Missed(o, k)
      BY <1>4, <2>2, <2>4, <3>1 DEF Missed
    <3> QED BY <1>4, <2>1, <2>2, <3>2
  <2> QED BY <2>3, <2>4
<1>5. CASE m.nlink # 1 /\ ~(m.size > 0) /\ found # {}
  <2> DEFINE l == Least(found)
  <2>1. Datamember(o, k).k = l
    BY <1>5 DEF Datamember
  <2>2. l \in found
    <3>1. found \in SUBSET Nat
      BY DEF WithData, Ahead, Sound
    <3> HIDE DEF found
    <3> QED BY <1>5, <3>1, LeastIsIn
  <2> HIDE DEF l
  <2>3. l \in 1 .. N /\ members[l].ino = m.ino /\ members[l].size > 0
    BY <2>2 DEF WithData, Ahead, Sound
  <2>4. Data(disk, l) = m.ino /\ Own(l) = m.ino /\ Own(l) = Own(k)
    BY <2>3, OwnIs
  <2> QED BY <1>5, <2>1, <2>4
<1> QED BY <1>2, <1>3, <1>4, <1>5

LEMMA ExtractDataIs ==
  ASSUME Honest, NEW o, Sound(o, N), NEW f, NEW k \in 1 .. N, ~members[k].dir,
         ~IsLinked(o, k), NEW p
  PROVE  LET x == ExtractData(o, f, k, p) IN
         /\ x.obj.inodes = KnowInode(o.inodes, members[k].ino, members[k].name)
         /\ x.obj.stream = o.stream
         /\ x.raised \in BOOLEAN
         /\ \E e : /\ x.fs = Put(f, p, e) /\ ~e.dir
                   /\ e.data = Own(k) \/ ((x.raised \/ Missed(o, k)) /\ e.data = Nothing)
<1> DEFINE m == members[k]
           r == IF m.nlink = 1 THEN [obj |-> o, k |-> k] ELSE Datamember(o, k)
           known == [r.obj EXCEPT !.inodes = KnowInode(@, m.ino, m.name)]
           there == [dir |-> FALSE, data |-> Data(disk, r.k), attr |-> m.ino]
           empty == [dir |-> FALSE, data |-> Nothing, attr |-> 0]
           read == [obj |-> AfterRead(known, r.k), raised |-> FALSE, fs |-> Put(f, p, there)]
           passed == [obj |-> known, raised |-> TRUE, fs |-> Put(f, p, empty)]
           x == ExtractData(o, f, k, p)
<1>1. x = IF Readable(known, r.k) THEN read ELSE passed
  BY DEF ExtractData
<1>2. Data(disk, r.k) = Own(k) \/ (Missed(o, k) /\ Data(disk, r.k) = Nothing)
  BY FoundData
<1>3. Shaped(o)
  BY DEF Sound
<1>4. Shaped(r.obj) /\ r.obj.inodes = o.inodes /\ r.obj.stream = o.stream
  BY <1>3, DatamemberInodes
<1>5. /\ Shaped(known) /\ known.inodes = KnowInode(o.inodes, m.ino, m.name)
      /\ known.stream = o.stream
  <2> DEFINE y == r.obj
             w == KnowInode(y.inodes, m.ino, m.name)
  <2>1. known = [y EXCEPT !.inodes = w]
    OBVIOUS
  <2>2. Shaped(y) /\ y.inodes = o.inodes /\ y.stream = o.stream
    BY <1>4
  <2>3. w = KnowInode(o.inodes, m.ino, m.name)
    BY <1>4
  <2> HIDE DEF y, w, known
  <2>4. known = [stream |-> y.stream, read |-> y.read, first |-> y.first, loaded |-> y.loaded,
                 pos |-> y.pos, inodes |-> w]
    BY <2>1, <2>2, Updated
  <2>5. Shaped(known) /\ known.inodes = w /\ known.stream = y.stream
    BY <2>4 DEF Shaped
  <2> QED BY <2>2, <2>3, <2>5
<1>6. AfterRead(known, r.k).inodes = known.inodes /\ AfterRead(known, r.k).stream = known.stream
  <2> HIDE DEF known
  <2> QED BY <1>5, AfterReadInodes
<1>7. /\ ~there.dir /\ there.data = Data(disk, r.k) /\ ~empty.dir /\ empty.data = Nothing
      /\ read.obj = AfterRead(known, r.k) /\ read.raised = FALSE /\ read.fs = Put(f, p, there)
      /\ passed.obj = known /\ passed.raised = TRUE /\ passed.fs = Put(f, p, empty)
  OBVIOUS
<1> HIDE DEF there, empty, read, passed, known, r, m
<1>8. CASE x = read
  BY <1>2, <1>5, <1>6, <1>7, <1>8 DEF m
<1>9. CASE x = passed
  BY <1>5, <1>7, <1>9 DEF m
<1> QED BY <1>1, <1>8, <1>9

LEMMA KnowsFile ==
  ASSUME NEW inodes, Named(inodes), NEW k \in 1 .. N, ~members[k].dir
  PROVE  Named(KnowInode(inodes, members[k].ino, members[k].name))
<1> DEFINE w == KnowInode(inodes, members[k].ino, members[k].name)
<1>1. /\ DOMAIN w = DOMAIN inodes \cup {members[k].ino}
      /\ \A i \in DOMAIN w : w[i] = IF i \in DOMAIN inodes THEN inodes[i] ELSE members[k].name
  BY DEF KnowInode
<1> HIDE DEF w
<1>2. Named(w)
  BY <1>1 DEF Named
<1> QED BY <1>2 DEF w

LEMMA ExtractOfRight ==
  ASSUME Honest, Readers, NEW o, Sound(o, N), Named(o.inodes), NEW a \in BOOLEAN,
         NEW f, Right(f, a), NEW k \in 1 .. N, NEW b \in Bases
  PROVE  LET x == ExtractOf(o, f, k, b) IN
         Named(x.obj.inodes) /\ Right(x.fs, a \/ x.raised \/ Missed(o, k))
<1> DEFINE p == Path(b, k)
           m == members[k]
           g == MakeDirs(f, UpperDirs(p), m.ino)
           target == b \o o.inodes[m.ino]
           x == ExtractOf(o, f, k, b)
<1>1. x = IF m.dir THEN ExtractDir(o, g, k, p)
          ELSE IF IsLinked(o, k) THEN ExtractLink(o, g, p, target)
          ELSE ExtractData(o, g, k, p)
  BY DEF ExtractOf, Path
<1>2. Right(g, a)
  BY UpperRight
<1> HIDE DEF g, x
<1>3. CASE m.dir
  <2>1. x.obj = o /\ x.raised = FALSE /\ Missed(o, k) = FALSE
        /\ x.fs = Put(g, p, [dir |-> TRUE, data |-> Nothing, attr |-> m.ino])
    BY <1>1, <1>3 DEF ExtractDir, Missed
  <2>2. Right(x.fs, a)
    BY <1>2, <1>3, <2>1, PutDirRight
  <2> QED BY <2>1, <2>2 DEF x
<1>4. CASE ~m.dir /\ IsLinked(o, k)
  <2>1. /\ x.obj = o /\ x.raised = FALSE /\ Missed(o, k) = FALSE
        /\ x.fs = IF target \in DOMAIN g /\ p \notin DOMAIN g THEN Put(g, p, g[target]) ELSE g
    BY <1>1, <1>4 DEF ExtractLink, Missed
  <2>2. Right(x.fs, a)
    <3>1. CASE ~(target \in DOMAIN g /\ p \notin DOMAIN g)
      BY <1>2, <2>1, <3>1
    <3>2. CASE target \in DOMAIN g /\ p \notin DOMAIN g
      <4>1. m.ino \in DOMAIN o.inodes
        BY <1>4 DEF IsLinked
      <4>2. PICK j \in 1 .. N : /\ ~members[j].dir /\ members[j].ino = m.ino
                                /\ members[j].name = o.inodes[m.ino]
        BY <4>1 DEF Named
      <4>3. target = Path(b, j)
        BY <4>2 DEF Path
      <4>4. GoodFile(g[target], a, j)
        BY <1>2, <3>2, <4>2, <4>3 DEF Right
      <4>5. Own(j) = Own(k)
        BY <4>2, OwnIs
      <4>6. GoodFile(g[target], a, k)
        BY <4>4, <4>5 DEF GoodFile
      <4>7. Right(Put(g, p, g[target]), a)
        <5> DEFINE e == g[target]
        <5>1. GoodFile(e, a, k)
          BY <4>6
        <5> HIDE DEF e
        <5>2. Right(Put(g, p, e), a)
          BY <1>2, <5>1, PutFileRight
        <5> QED BY <5>2 DEF e
      <4> QED BY <2>1, <3>2, <4>7
    <3> QED BY <3>1, <3>2
  <2> QED BY <2>1, <2>2 DEF x
<1>5. CASE ~m.dir /\ ~IsLinked(o, k)
  <2>1. x = ExtractData(o, g, k, p)
    BY <1>1, <1>5
  <2>2. /\ x.obj.inodes = KnowInode(o.inodes, m.ino, m.name) /\ x.raised \in BOOLEAN
        /\ \E e : /\ x.fs = Put(g, p, e) /\ ~e.dir
                  /\ e.data = Own(k) \/ ((x.raised \/ Missed(o, k)) /\ e.data = Nothing)
    <3> HIDE DEF p
    <3> QED BY <1>5, <2>1, ExtractDataIs
  <2>3. PICK e : /\ x.fs = Put(g, p, e) /\ ~e.dir
                 /\ e.data = Own(k) \/ ((x.raised \/ Missed(o, k)) /\ e.data = Nothing)
    BY <2>2
  <2>4. Missed(o, k) \in BOOLEAN
    BY DEF Missed
  <2> DEFINE c == a \/ x.raised \/ Missed(o, k)
  <2>5. c \in BOOLEAN /\ (a => c) /\ GoodFile(e, c, k)
    BY <2>2, <2>3, <2>4 DEF GoodFile
  <2> HIDE DEF c
  <2>6. Right(g, c)
    BY <1>2, <2>5, RightMore
  <2>7. Right(Put(g, p, e), c)
    BY <2>5, <2>6, PutFileRight
  <2>8. Named(x.obj.inodes)
    BY <1>5, <2>2, KnowsFile
  <2> QED BY <2>3, <2>7, <2>8 DEF c, x
<1> QED BY <1>3, <1>4, <1>5

-----------------------------------------------------------------------------
(* What has been extracted from a whole archive *)

EInv ==
  /\ KInv /\ astray \in BOOLEAN
  /\ mode = "r" /\ job.phase = "files" => job.base \in Bases
  /\ mode = "r" /\ whole => Named(obj.inodes) /\ Right(fs, astray)

LEMMA InitExtracts == Init => EInv
BY InitKept DEF Init, EInv

(* What is said of files and inodes stays as long as the archive does. *)
LEMMA SameMembers ==
  ASSUME members' = members, NEW CONSTANT f, NEW CONSTANT a, NEW CONSTANT inodes
  PROVE  Right(f, a)' = Right(f, a) /\ Named(inodes)' = Named(inodes)
<1>1. N' = N
  BY DEF N
<1>2. \A k \in 1 .. N : Own(k)' = Own(k)
  BY <1>1 DEF Own, WithData
<1>3. \A b, k : Path(b, k)' = Path(b, k)
  BY DEF Path
<1> QED BY <1>1, <1>2, <1>3 DEF Right, Named, GoodFile

(* What a step of a reader must see to. *)
LEMMA ReadingKeeps ==
  ASSUME EInv, KInv', mode' = "r", members' = members, whole' = whole, astray' \in BOOLEAN,
         job'.phase = "files" => job'.base \in Bases,
         whole => Named(obj'.inodes) /\ Right(fs', astray')
  PROVE  EInv'
<1>1. PICK f, a, inodes : f = fs' /\ a = astray' /\ inodes = obj'.inodes
  OBVIOUS
<1>2. Right(f, a)' = Right(f, a) /\ Named(inodes)' = Named(inodes)
  BY SameMembers
<1>3. Right(fs, astray)' = Right(f, a)' /\ Named(obj.inodes)' = Named(inodes)'
  BY <1>1
<1>4. whole' => Right(fs, astray)' /\ Named(obj.inodes)'
  BY <1>1, <1>2, <1>3
<1> QED BY <1>4 DEF EInv

LEMMA ReadingHolds ==
  ASSUME EInv, mode = "r"
  PROVE  /\ Readers /\ N \in Nat /\ Sound(obj, N) /\ Shaped(obj) /\ job \in JobT
         /\ astray \in BOOLEAN /\ (job.phase = "files" => job.base \in Bases)
         /\ Sound(Load(obj), N) /\ Load(obj).inodes = obj.inodes
         /\ whole => Honest /\ Named(obj.inodes) /\ Right(fs, astray)
<1>1. IInv
  BY DEF EInv, KInv
<1>2. /\ Readers /\ N \in Nat /\ Sound(obj, N) /\ job \in JobT /\ Sound(Load(obj), N)
  BY <1>1, CallTypes
<1>3. Shaped(obj) /\ Load(obj).inodes = obj.inodes
  BY <1>2, ReadOnInodes DEF Sound
<1>4. whole => Honest
  BY HonestInv DEF EInv
<1> QED BY <1>2, <1>3, <1>4 DEF EInv

LEMMA ExtractedRight ==
  ASSUME EInv, mode = "r", whole, NEW o, Sound(o, N), o.inodes = obj.inodes,
         NEW k \in 1 .. N, NEW b \in Bases, Extracted(o, k, b)
  PROVE  Named(obj'.inodes) /\ Right(fs', astray')
<1> DEFINE x == ExtractOf(o, fs, k, b)
<1>1. /\ obj' = x.obj /\ fs' = x.fs /\ astray' = (astray \/ x.raised \/ Missed(o, k))
  BY DEF Extracted
<1>2. Named(x.obj.inodes) /\ Right(x.fs, astray \/ x.raised \/ Missed(o, k))
  <2>1. Honest /\ Readers /\ Named(o.inodes) /\ astray \in BOOLEAN /\ Right(fs, astray)
    BY ReadingHolds
  <2> QED BY <2>1, ExtractOfRight
<1> HIDE DEF x
<1> QED BY <1>1, <1>2

LEMMA AstrayTyped ==
  ASSUME EInv, mode = "r", NEW o, Sound(o, N), NEW k \in 1 .. N, NEW b, Extracted(o, k, b)
  PROVE  astray' \in BOOLEAN
<1> DEFINE x == ExtractOf(o, fs, k, b)
<1>1. astray' = (astray \/ x.raised \/ Missed(o, k))
  BY DEF Extracted
<1> HIDE DEF x
<1> QED BY <1>1

LEMMA OpenReadExtracts ==
  ASSUME EInv, KInv', NEW stream \in BOOLEAN, OpenRead(stream)
  PROVE  EInv'
<1>1. mode = "none" /\ mode' = "r" /\ fs' = fs /\ job' = job /\ astray' = astray
  BY DEF OpenRead
<1>2. fs = <<>> /\ job = NoJob
  BY <1>1 DEF EInv, KInv, IInv, Archives
<1>3. Right(fs, astray)'
  <2>1. DOMAIN fs' = {}
    BY <1>1, <1>2
  <2> QED BY <2>1 DEF Right
<1>4. obj'.inodes = NoInodes
  <2> DEFINE first == disk # <<>> /\ disk[1].kind = "header"
             o == [stream |-> stream, read |-> IF first THEN 1 ELSE 0, first |-> first,
                   loaded |-> FALSE, pos |-> 0, inodes |-> NoInodes]
  <2>1. obj' = At(o, 2)
    BY DEF OpenRead
  <2>2. Shaped(o) /\ o.inodes = NoInodes
    BY DEF Shaped
  <2> HIDE DEF o
  <2> QED BY <2>1, <2>2, AtInodes
<1>5. Named(obj.inodes)'
  <2>1. DOMAIN obj'.inodes = {}
    BY <1>4 DEF NoInodes
  <2> QED BY <2>1 DEF Named
<1>6. job'.phase # "files"
  BY <1>1, <1>2 DEF NoJob
<1> QED BY <1>1, <1>3, <1>5, <1>6 DEF EInv

LEMMA CallExtracts ==
  ASSUME EInv, KInv',
         \/ NewIterator \/ GetMembers \/ \E i \in DOMAIN its : Resume(i)
         \/ \E k \in 1 .. N : ExtractFile(k) \/ \E b \in Bases : Extract(k, b)
  PROVE  EInv'
<1> USE DEF fileVars
<1>1. mode = "r" /\ mode' = mode /\ members' = members /\ whole' = whole /\ job' = job
  BY Zenon DEF NewIterator, GetMembers, Resume, ExtractFile, Extract, Call, Free
<1>2. CASE \/ NewIterator \/ GetMembers \/ \E i \in DOMAIN its : Resume(i)
           \/ \E k \in 1 .. N : ExtractFile(k)
  <2>1. fs' = fs /\ astray' = astray
    BY <1>2, Zenon DEF NewIterator, GetMembers, Resume, ExtractFile
  <2>2. obj'.inodes = obj.inodes
    <3>1. CASE NewIterator
      BY <3>1 DEF NewIterator
    <3>2. CASE GetMembers
      BY <1>1, <3>2, ReadingHolds DEF GetMembers
    <3>3. ASSUME NEW i \in DOMAIN its, Resume(i) PROVE obj'.inodes = obj.inodes
      BY <1>1, <3>3, ReadingHolds, StepInodes, Zenon DEF Resume
    <3>4. ASSUME NEW k \in 1 .. N, ExtractFile(k) PROVE obj'.inodes = obj.inodes
      BY <1>1, <3>4, ReadingHolds, AfterReadInodes DEF ExtractFile
    <3> QED BY <1>2, <3>1, <3>2, <3>3, <3>4
  <2> QED BY <1>1, <2>1, <2>2, ReadingHolds, ReadingKeeps
<1>3. ASSUME NEW k \in 1 .. N, NEW b \in Bases, Extract(k, b) PROVE EInv'
  <2>1. Extracted(obj, k, b) \/ Extracted(Load(obj), k, b)
    BY <1>3 DEF Extract
  <2>2. /\ Sound(obj, N) /\ Sound(Load(obj), N) /\ Load(obj).inodes = obj.inodes
        /\ job.phase = "files" => job.base \in Bases
    BY <1>1, ReadingHolds
  <2>3. whole => Named(obj'.inodes) /\ Right(fs', astray')
    BY <1>1, <2>1, <2>2, ExtractedRight
  <2>4. astray' \in BOOLEAN
    BY <1>1, <2>1, <2>2, AstrayTyped
  <2> QED BY <1>1, <2>2, <2>3, <2>4, ReadingKeeps
<1> QED BY <1>2, <1>3, SMTT(30)

(* A directory's own attributes do not touch its files. *)
LEMMA AttrRight ==
  ASSUME NEW f, NEW a, Right(f, a), Typed(f), NEW p \in DOMAIN f, NEW v
  PROVE  Right([f EXCEPT ![p].attr = v], a)
<1> DEFINE g == [f EXCEPT ![p].attr = v]
<1>1. DOMAIN g = DOMAIN f
  OBVIOUS
<1>2. \A q \in DOMAIN f : g[q].dir = f[q].dir /\ g[q].data = f[q].data
  BY DEF Typed, FileT
<1> HIDE DEF g
<1>3. Right(g, a)
  BY <1>1, <1>2 DEF Right, GoodFile
<1> QED BY <1>3 DEF g

LEMMA ExtractAllExtracts ==
  ASSUME EInv, KInv',
         \/ \E b \in Bases : ExtractAll(b)
         \/ ExtractAllEnds
         \/ \E k \in 1 .. N : ExtractAllDir(k)
  PROVE  EInv'
<1> USE DEF fileVars
<1>1. mode' = mode /\ members' = members /\ whole' = whole /\ obj' = obj /\ astray' = astray
  BY Zenon DEF ExtractAll, ExtractAllDir, ExtractAllEnds
<1>2. mode = "r"
  <2>1. mode = "r" \/ job.phase = "dirs"
    BY Zenon DEF ExtractAll, ExtractAllDir, ExtractAllEnds, Call, Free
  <2>2. mode # "r" => job.phase = "none"
    BY DEF EInv, KInv, IInv, Archives, NoJob
  <2> QED BY <2>1, <2>2
<1>3. /\ job \in JobT /\ (whole => Named(obj.inodes) /\ Right(fs, astray)) /\ astray \in BOOLEAN
      /\ job.phase = "files" => job.base \in Bases
  BY <1>2, ReadingHolds
<1>4. ASSUME NEW b \in Bases, ExtractAll(b) PROVE EInv'
  <2>1. fs' = fs /\ job'.base = b
    BY <1>4 DEF ExtractAll
  <2> QED BY <1>1, <1>2, <1>3, <2>1, ReadingKeeps
<1>5. CASE ExtractAllEnds
  <2>1. fs' = fs /\ job' = [job EXCEPT !.phase = "done"]
    BY <1>5 DEF ExtractAllEnds
  <2>2. job'.phase = "done"
    BY <1>3, <2>1 DEF JobT
  <2> QED BY <1>1, <1>2, <1>3, <2>1, <2>2, ReadingKeeps
<1>6. ASSUME NEW k \in 1 .. N, ExtractAllDir(k) PROVE EInv'
  <2> DEFINE path == job.path \o members[k].name
  <2>1. /\ job.phase = "dirs" /\ job' = [job EXCEPT !.path = path, !.dirs = @ \ {k}]
        /\ fs' = IF path \in DOMAIN fs THEN [fs EXCEPT ![path].attr = members[k].ino] ELSE fs
    BY <1>6 DEF ExtractAllDir
  <2> HIDE DEF path
  <2>2. job'.phase = "dirs"
    BY <1>3, <2>1 DEF JobT
  <2>3. Typed(fs)
    BY DEF EInv, KInv, IInv, Extracting, Typed
  <2>4. whole => Right(fs', astray)
    <3>1. CASE path \in DOMAIN fs
      <4> DEFINE g == [fs EXCEPT ![path].attr = members[k].ino]
      <4>1. whole => Right(g, astray)
        BY <1>3, <2>3, <3>1, AttrRight
      <4>2. fs' = g
        BY <2>1, <3>1
      <4> HIDE DEF g
      <4> QED BY <4>1, <4>2
    <3>2. CASE path \notin DOMAIN fs
      BY <1>3, <2>1, <3>2
    <3> QED BY <3>1, <3>2
  <2> QED BY <1>1, <1>2, <1>3, <2>2, <2>4, ReadingKeeps, SMTT(30)
<1> QED BY <1>4, <1>5, <1>6

LEMMA ExtractAllMemberExtracts == ASSUME EInv, KInv', ExtractAllMember PROVE EInv'
<1>1. mode' = mode /\ members' = members /\ whole' = whole /\ job.phase = "files"
  BY DEF ExtractAllMember, fileVars
<1>2. mode = "r"
  BY <1>1 DEF EInv, KInv, IInv, Archives, NoJob
<1>3. /\ N \in Nat /\ Sound(obj, N) /\ Shaped(obj) /\ job \in JobT /\ astray \in BOOLEAN
      /\ job.base \in Bases
      /\ whole => Honest /\ Named(obj.inodes) /\ Right(fs, astray)
  BY <1>1, <1>2, ReadingHolds
<1> DEFINE n == Step(obj, job.index)
<1>4. Sound(n.obj, N) /\ n.k \in 0 .. N /\ n.obj.inodes = obj.inodes
  <2>1. job.index \in Nat
    BY <1>3 DEF JobT
  <2>2. Moves(obj, job.index, Step(obj, job.index))
    BY <1>3, <2>1, StepKept
  <2>3. n.obj.inodes = obj.inodes
    BY <1>3, StepInodes
  <2> QED BY <2>2, <2>3 DEF Moves, Kept
<1>5. \/ n.k = 0 /\ obj' = n.obj /\ job' = [job EXCEPT !.phase = "dirs"] /\ UNCHANGED <<fs, astray>>
      \/ /\ n.k # 0 /\ members[n.k].dir /\ obj' = n.obj /\ UNCHANGED astray
         /\ LET p == Path(job.base, n.k) IN fs' = MakeDirs(fs, UpperDirs(p) \cup {p}, 0)
         /\ job' = [job EXCEPT !.index = @ + 1, !.dirs = @ \cup {n.k}]
      \/ /\ n.k # 0 /\ ~members[n.k].dir /\ Extracted(n.obj, n.k, job.base)
         /\ job' = [job EXCEPT !.phase = "failed"] \/ job' = [job EXCEPT !.index = @ + 1]
  BY DEF ExtractAllMember, Path
<1> HIDE DEF n
<1>6. n.k # 0 => n.k \in 1 .. N
  BY <1>3, <1>4
<1>7. job'.base = job.base
  BY <1>3, <1>5 DEF JobT
<1>8. CASE n.k = 0 /\ obj' = n.obj /\ UNCHANGED <<fs, astray>>
  BY <1>1, <1>2, <1>3, <1>4, <1>7, <1>8, ReadingKeeps
<1>9. CASE /\ n.k # 0 /\ members[n.k].dir /\ obj' = n.obj /\ UNCHANGED astray
           /\ LET p == Path(job.base, n.k) IN fs' = MakeDirs(fs, UpperDirs(p) \cup {p}, 0)
  <2>1. whole => Right(fs', astray)
    BY <1>3, <1>6, <1>9, UpperRight
  <2> QED BY <1>1, <1>2, <1>3, <1>4, <1>7, <1>9, <2>1, ReadingKeeps
<1>10. CASE n.k # 0 /\ Extracted(n.obj, n.k, job.base)
  <2>1. whole => Named(obj'.inodes) /\ Right(fs', astray')
    BY <1>2, <1>3, <1>4, <1>6, <1>10, ExtractedRight
  <2>2. astray' \in BOOLEAN
    BY <1>2, <1>4, <1>6, <1>10, AstrayTyped
  <2> QED BY <1>1, <1>2, <1>3, <1>7, <2>1, <2>2, ReadingKeeps
<1> QED BY <1>5, <1>8, <1>9, <1>10

LEMMA NextExtracts == EInv /\ [Next]_vars => EInv'
<1> SUFFICES ASSUME EInv, [Next]_vars PROVE EInv'
  OBVIOUS
<1>1. KInv'
  BY NextKept DEF EInv
<1>2. CASE UNCHANGED vars
  <2>1. /\ UNCHANGED <<members, whole, mode, obj, fs, job, astray>>
    BY <1>2 DEF vars, fileVars, readVars
  <2>2. CASE mode = "r"
    BY <1>1, <2>1, <2>2, ReadingHolds, ReadingKeeps
  <2>3. CASE mode # "r"
    BY <1>1, <2>1, <2>3 DEF EInv
  <2> QED BY <2>2, <2>3
<1>3. CASE WriterNext
  <2>1. mode' # "r" /\ astray' = astray
    <3>1. CASE OpenWrite \/ OpenAppend \/ CloseWriter \/ Crash
      BY <3>1 DEF OpenWrite, OpenAppend, CloseWriter, Crash
    <3>2. CASE \E n \in DOMAIN Tree : Add(n)
      BY <3>2 DEF Add, readVars
    <3>3. CASE AddFile \/ SkipArchive \/ AddFails
      <4>1. mode' = mode /\ astray' = astray /\ todo # <<>>
        BY <3>3 DEF AddFile, SkipArchive, AddFails, readVars
      <4>2. mode # "r"
        BY <4>1 DEF EInv, KInv, IInv, Archives
      <4> QED BY <4>1, <4>2
    <3> QED BY <1>3, <3>1, <3>2, <3>3 DEF WriterNext
  <2> QED BY <1>1, <2>1 DEF EInv
<1>4. CASE CloseReader
  BY <1>1, <1>4 DEF CloseReader, EInv
<1>5. CASE ReaderNext /\ ~CloseReader
  BY <1>1, <1>5, OpenReadExtracts, CallExtracts, ExtractAllExtracts, ExtractAllMemberExtracts DEF ReaderNext
<1> QED BY <1>2, <1>3, <1>4, <1>5 DEF Next

LEMMA ExtractsInvariance == Spec => []EInv
BY InitExtracts, NextExtracts, PTL DEF Spec

(* From a whole archive of any members, with look-ups, iterators and       *)
(* extractions in any order, every file gets its own data, and hard links  *)
(* those of their inode; only when a stream or a search has passed the     *)
(* data is a file left empty.                                              *)
THEOREM FilesGetTheirData == Spec => []ExtractsRightData
<1>1. EInv => ExtractsRightData
  <2> SUFFICES ASSUME EInv, whole, NEW k \in 1 .. N, NEW b \in Bases,
                      b \o members[k].name \in DOMAIN fs, ~members[k].dir
               PROVE  LET p == b \o members[k].name IN
                      ~fs[p].dir /\ (fs[p].data = Own(k) \/ (astray /\ fs[p].data = Nothing))
    BY DEF ExtractsRightData
  <2>1. CASE mode = "r"
    <3>1. Right(fs, astray) /\ Path(b, k) = b \o members[k].name
      BY <2>1 DEF EInv, Path
    <3>2. GoodFile(fs[Path(b, k)], astray, k)
      BY <3>1 DEF Right
    <3> QED BY <3>1, <3>2 DEF GoodFile
  <2>2. CASE mode # "r"
    BY <2>2, NoMembers DEF EInv, KInv, IInv, Archives, N
  <2> QED BY <2>1, <2>2
<1> QED BY <1>1, ExtractsInvariance, PTL

-----------------------------------------------------------------------------
(* The order of names *)

LEMMA LessIsAsymmetric ==
  ASSUME NEW s \in Seq(Nat), NEW t \in Seq(Nat), Less(s, t), Less(t, s)
  PROVE  FALSE
<1>1. PICK i \in 1 .. Len(t) :
        /\ Len(s) >= i - 1 /\ SubSeq(s, 1, i - 1) = SubSeq(t, 1, i - 1)
        /\ IF Len(s) = i - 1 THEN TRUE ELSE s[i] < t[i]
  BY DEF Less
<1>2. PICK j \in 1 .. Len(s) :
        /\ Len(t) >= j - 1 /\ SubSeq(t, 1, j - 1) = SubSeq(s, 1, j - 1)
        /\ IF Len(t) = j - 1 THEN TRUE ELSE t[j] < s[j]
  BY DEF Less
<1> DEFINE S == Len(s)
           T == Len(t)
<1>3. S \in Nat /\ T \in Nat /\ i \in 1 .. T /\ j \in 1 .. S
  OBVIOUS
<1>4. \A x \in 1 .. i - 1 : s[x] = t[x]
  <2>1. i - 1 \in Nat /\ i - 1 <= Len(s) /\ i - 1 <= Len(t)
    BY <1>1
  <2>2. \A x \in 1 .. i - 1 : SubSeq(s, 1, i - 1)[x] = s[x] /\ SubSeq(t, 1, i - 1)[x] = t[x]
    BY <2>1, PartIs
  <2> QED BY <1>1, <2>2
<1>5. \A x \in 1 .. j - 1 : s[x] = t[x]
  <2>1. j - 1 \in Nat /\ j - 1 <= Len(s) /\ j - 1 <= Len(t)
    BY <1>2
  <2>2. \A x \in 1 .. j - 1 : SubSeq(s, 1, j - 1)[x] = s[x] /\ SubSeq(t, 1, j - 1)[x] = t[x]
    BY <2>1, PartIs
  <2> QED BY <1>2, <2>2
<1>6. /\ S # i - 1 => s[i] < t[i]
      /\ T # j - 1 => t[j] < s[j]
  BY <1>1, <1>2
<1>7. (i \in 1 .. S => s[i] \in Nat /\ t[i] \in Nat) /\ (j \in 1 .. T => s[j] \in Nat /\ t[j] \in Nat)
  <2>1. (\A x \in 1 .. S : s[x] \in Nat) /\ (\A x \in 1 .. T : t[x] \in Nat)
    OBVIOUS
  <2> HIDE DEF S, T
  <2> QED BY <1>3, <2>1
<1> HIDE DEF S, T
<1>8. CASE i = j
  BY <1>3, <1>6, <1>7, <1>8
<1>9. CASE i < j
  <2>1. i \in 1 .. j - 1 /\ i \in 1 .. S /\ S # i - 1
    BY <1>3, <1>9
  <2> QED BY <1>5, <1>6, <1>7, <2>1
<1>10. CASE j < i
  <2>1. j \in 1 .. i - 1 /\ j \in 1 .. T /\ T # j - 1
    BY <1>3, <1>10
  <2> QED BY <1>4, <1>6, <1>7, <2>1
<1> QED BY <1>3, <1>8, <1>9, <1>10

LEMMA BeforeIsAsymmetric ==
  ASSUME Honest, NEW j \in 1 .. N, NEW k \in 1 .. N, Before(j, k), Before(k, j)
  PROVE  FALSE
<1> DEFINE s == members[j].name
           t == members[k].name
<1>1. s \in Seq(Nat) /\ t \in Seq(Nat) /\ N \in Nat
  BY DEF Honest, InfoT
<1>2. (Less(s, t) \/ (s = t /\ j < k)) /\ (Less(t, s) \/ (t = s /\ k < j))
  BY DEF Before
<1> HIDE DEF s, t
<1> QED BY <1>1, <1>2, LessIsAsymmetric

-----------------------------------------------------------------------------
(* What a first extractall() has done *)

DirsTo(i) == {k \in 1 .. i : members[k].dir}
Top(k)    == members[k].dir /\ \A j \in 1 .. N : members[j].dir => j = k \/ Before(j, k)

There(f, b, i)       == \A k \in 1 .. i : Path(b, k) \in DOMAIN f
Attributed(f, b, k)  == f[Path(b, k)].attr = members[k].ino

(* The inodes of links are known, and what is known has been extracted. *)
Links(inodes, i) ==
  /\ \A k \in 1 .. i : ~members[k].dir /\ members[k].nlink > 1 => members[k].ino \in DOMAIN inodes
  /\ \A n \in DOMAIN inodes : \E k \in 1 .. i : members[k].name = inodes[n]

(* The archive is no further than the job. *)
Keeps(o, i, pos) ==
  /\ o.loaded \/ Position(o) = i
  /\ o.stream => o.pos \in Nat /\ o.pos <= pos

Through(o, f, b, i) ==
  i \in 0 .. N /\ Keeps(o, i, 2 * i + 2) /\ There(f, b, i) /\ Links(o.inodes, i)

(* The directory that is last in order is first to get its attributes. *)
Lasting(f, j) ==
  \A k \in 1 .. N : Top(k) =>
    \/ j.dirs = DirsTo(N) /\ j.path = j.base
    \/ Attributed(f, j.base, k) /\ k \notin j.dirs /\ Len(j.path) >= Len(Path(j.base, k))

Extracts(o, f, j) ==
  /\ j.phase # "failed" /\ j.base \in Bases
  /\ j.phase = "files" => Through(o, f, j.base, j.index) /\ j.dirs = DirsTo(j.index) /\ j.path = j.base
  /\ j.phase \in {"dirs", "done"} => There(f, j.base, N)
  /\ j.phase = "dirs" => Lasting(f, j)
  /\ j.phase = "done" => \A k \in 1 .. N : Top(k) => Attributed(f, j.base, k)

AInv == EInv /\ (mode = "r" /\ whole /\ job.fresh /\ Orderly => Extracts(obj, fs, job))

-----------------------------------------------------------------------------
(* Reading on in a first extractall() *)

LEMMA AtPos ==
  ASSUME NEW o, Shaped(o), NEW p
  PROVE  At(o, p).stream = o.stream /\ (o.stream => At(o, p).pos = p)
<1>1. At(o, p) = [stream |-> o.stream, read |-> o.read, first |-> o.first, loaded |-> o.loaded,
                  pos |-> IF o.stream THEN p ELSE 0, inodes |-> o.inodes]
  BY Updated DEF At
<1> QED BY <1>1

LEMMA StepGoesOn ==
  ASSUME N \in Nat, NEW o, Sound(o, N), NEW i \in 0 .. N, Keeps(o, i, 2 * i + 2)
  PROVE  LET n == Step(o, i) IN
         /\ n.k = IF i < N THEN i + 1 ELSE 0
         /\ i < N => Keeps(n.obj, i + 1, 2 * (i + 1))
<1> DEFINE n == Step(o, i)
<1>1. Moves(o, i, Step(o, i)) /\ i \in Nat
  BY StepKept
<1>2. o.loaded \in BOOLEAN /\ Shaped(o) /\ (o.loaded \/ Position(o) = i)
  BY DEF Sound, Keeps
<1>3. CASE o.loaded
  <2>1. n.obj = o /\ n.k = IF i < N THEN i + 1 ELSE 0
    BY <1>1, <1>3 DEF Moves
  <2> HIDE DEF n
  <2> QED BY <1>3, <2>1 DEF Keeps, n
<1>4. CASE o.loaded = FALSE
  <2>1. /\ n.k # 0 => n.obj.loaded = FALSE /\ n.k = i + 1 /\ Position(n.obj) = n.k
        /\ n.k = 0 => i = N
        /\ n.k \in 0 .. N
    BY <1>1, <1>2, <1>4 DEF Moves
  <2>2. n.k = IF i < N THEN i + 1 ELSE 0
    <3> HIDE DEF n
    <3> QED BY <2>1
  <2>3. ASSUME i < N, n.obj.stream PROVE n.obj.pos \in Nat /\ n.obj.pos <= 2 * (i + 1)
    <3>1. CASE o.first
      <4> DEFINE x == [o EXCEPT !.first = FALSE]
      <4>1. n.obj = x
        BY <1>4, <3>1 DEF Step, NextOf
      <4>2. x.pos = o.pos /\ x.stream = o.stream
        BY <1>2, Updated DEF Shaped
      <4> HIDE DEF x, n
      <4> QED BY <2>3, <4>1, <4>2 DEF Keeps
    <3>2. CASE ~o.first
      <4>1. o.read = i /\ i + 1 # 0
        BY <1>2, <1>4, <3>2 DEF Position
      <4>2. n.obj = AtMember(o, i + 1)
        BY <1>4, <2>3, <3>2, <4>1 DEF Step, NextOf
      <4>3. AtMember(o, i + 1) = At(OnTo(o, i + 1), 2 * (i + 1)) /\ Shaped(OnTo(o, i + 1))
        BY <1>2, OnToInodes DEF AtMember, OnTo
      <4> DEFINE y == OnTo(o, i + 1)
                 z == At(y, 2 * (i + 1))
      <4>4. z.stream = y.stream /\ (y.stream => z.pos = 2 * (i + 1))
        BY <4>3, AtPos
      <4>5. n.obj = z /\ 2 * (i + 1) \in Nat
        BY <4>2, <4>3
      <4> HIDE DEF y, z, n
      <4> QED BY <2>3, <4>4, <4>5
    <3> QED BY <3>1, <3>2
  <2> HIDE DEF n
  <2> QED BY <2>1, <2>2, <2>3 DEF Keeps, n
<1> QED BY <1>2, <1>3, <1>4

LEMMA LinkHasData ==
  ASSUME Honest, NEW o, Sound(o, N), NEW k \in 1 .. N, ~members[k].dir, members[k].nlink # 1,
         ~IsLinked(o, k), Links(o.inodes, k - 1), Orderly, o.stream = obj.stream
  PROVE  /\ Datamember(o, k).k = k
         /\ Datamember(o, k).obj = o \/ (Datamember(o, k).obj = Load(o) /\ ~o.stream)
<1> DEFINE m == members[k]
<1>0. N \in Nat /\ m.size \in {0, 1} /\ m.nlink \in Nat \ {0}
  <2>1. m \in InfoT /\ Listed(m) /\ N \in Nat
    BY DEF Honest
  <2> QED BY <2>1, CpioAssumption DEF InfoT, Listed
<1>1. CASE m.size > 0
  BY <1>1 DEF Datamember
<1>2. CASE ~(m.size > 0)
  <2>1. m.size = 0 /\ m.nlink > 1
    BY <1>0, <1>2
  <2>2. \/ WithData(1 .. k, m.ino) # {}
        \/ WithData(1 .. N, m.ino) = {} /\ ~obj.stream
    BY <2>1 DEF Orderly, DataFirst, EmptyLinks
  <2>3. WithData(1 .. k, m.ino) = {}
    <3> SUFFICES ASSUME NEW j \in 1 .. k, members[j].ino = m.ino, members[j].size > 0
                 PROVE  FALSE
      BY DEF WithData
    <3>1. j \in 1 .. N /\ j # k
      BY <1>0, <2>1
    <3>2. j \in 1 .. k - 1
      BY <1>0, <3>1
    <3>3. ~members[j].dir /\ members[j].nlink = m.nlink
      BY <3>1, OneFile
    <3>4. m.ino \in DOMAIN o.inodes
      BY <2>1, <3>2, <3>3 DEF Links
    <3> QED BY <2>1, <3>4 DEF IsLinked
  <2>4. WithData(Ahead(o), m.ino) = {}
    <3>1. Ahead(o) \subseteq 1 .. N
      BY DEF Ahead, Sound
    <3> QED BY <2>2, <2>3, <3>1 DEF WithData
  <2>5. Datamember(o, k) = [obj |-> Load(o), k |-> k]
    BY <1>2, <2>4 DEF Datamember
  <2> QED BY <2>2, <2>3, <2>5
<1> QED BY <1>1, <1>2

LEMMA ReadKeeps ==
  ASSUME NEW o, Sound(o, N), NEW k \in Nat, Keeps(o, k, 2 * k)
  PROVE  Keeps(AfterRead(o, k), k, 2 * k + 2)
<1> DEFINE y == At(o, 2 * k + 1)
<1>1. Position(y) = Position(o) /\ y.loaded = o.loaded /\ Shaped(o)
  BY AtKept DEF Sound
<1>2. y.stream = o.stream /\ (o.stream => y.pos = 2 * k + 1)
  BY <1>1, AtPos
<1>3. AfterRead(o, k) = y \/ AfterRead(o, k) = o
  BY DEF AfterRead
<1>4. 2 * k + 1 \in Nat /\ 2 * k + 1 <= 2 * k + 2 /\ \A n \in Nat : n <= 2 * k => n <= 2 * k + 2
  OBVIOUS
<1> HIDE DEF y
<1>5. Keeps(y, k, 2 * k + 2) /\ Keeps(o, k, 2 * k + 2)
  BY <1>1, <1>2, <1>4 DEF Keeps
<1> QED BY <1>3, <1>5

LEMMA ExtractDataGoesOn ==
  ASSUME Honest, NEW o, Sound(o, N), NEW f, NEW k \in 1 .. N, ~members[k].dir,
         ~IsLinked(o, k), NEW p, Keeps(o, k, 2 * k), Links(o.inodes, k - 1), Orderly,
         o.stream = obj.stream
  PROVE  /\ ExtractData(o, f, k, p).raised = FALSE
         /\ Keeps(ExtractData(o, f, k, p).obj, k, 2 * k + 2)
<1> DEFINE m == members[k]
           r == IF m.nlink = 1 THEN [obj |-> o, k |-> k] ELSE Datamember(o, k)
           known == [r.obj EXCEPT !.inodes = KnowInode(@, m.ino, m.name)]
           read == [obj |-> AfterRead(known, r.k), raised |-> FALSE,
                    fs |-> Put(f, p, [dir |-> FALSE, data |-> Data(disk, r.k), attr |-> m.ino])]
           passed == [obj |-> known, raised |-> TRUE,
                      fs |-> Put(f, p, [dir |-> FALSE, data |-> Nothing, attr |-> 0])]
           x == ExtractData(o, f, k, p)
<1>1. x = IF Readable(known, r.k) THEN read ELSE passed
  BY DEF ExtractData
<1>2. r.k = k /\ (r.obj = o \/ (r.obj = Load(o) /\ ~o.stream))
  <2>1. CASE m.nlink = 1
    BY <2>1
  <2>2. CASE m.nlink # 1
    BY <2>2, LinkHasData
  <2> QED BY <2>1, <2>2
<1>3. N \in Nat /\ k \in Nat /\ Shaped(o)
  BY DEF Honest, Sound
<1>4. Sound(r.obj, N) /\ Keeps(r.obj, k, 2 * k)
  <2>1. CASE r.obj = o
    BY <2>1
  <2>2. CASE r.obj = Load(o) /\ ~o.stream
    <3>1. Kept(o, Load(o)) /\ Load(o).loaded = TRUE
      BY <1>3, LoadKept
    <3>2. Load(o).stream = o.stream
      BY <1>3, ReadOnInodes
    <3> HIDE DEF r
    <3> QED BY <2>2, <3>1, <3>2 DEF Keeps, Kept
  <2> QED BY <1>2, <2>1, <2>2
<1>5. Sound(known, N) /\ Keeps(known, k, 2 * k)
  <2> DEFINE y == r.obj
             w == KnowInode(y.inodes, m.ino, m.name)
  <2>1. known = [y EXCEPT !.inodes = w] /\ Shaped(y) /\ Sound(y, N) /\ Keeps(y, k, 2 * k)
    BY <1>4 DEF Sound
  <2> HIDE DEF y, w, known
  <2>2. known = [stream |-> y.stream, read |-> y.read, first |-> y.first, loaded |-> y.loaded,
                 pos |-> y.pos, inodes |-> w]
    BY <2>1, Updated
  <2>3. /\ known.stream = y.stream /\ known.read = y.read /\ known.first = y.first
        /\ known.loaded = y.loaded /\ known.pos = y.pos /\ Shaped(known)
    BY <2>2 DEF Shaped
  <2> QED BY <2>1, <2>3 DEF Sound, Keeps, Position
<1>6. Readable(known, r.k)
  BY <1>2, <1>5 DEF Readable, Keeps
<1>7. x = read
  BY <1>1, <1>6
<1>8. x.raised = FALSE /\ x.obj = AfterRead(known, k)
  BY <1>2, <1>7
<1> HIDE DEF x, known, read
<1>9. Keeps(AfterRead(known, k), k, 2 * k + 2)
  BY <1>3, <1>5, ReadKeeps
<1> QED BY <1>8, <1>9 DEF x

LEMMA LinksOn ==
  ASSUME NEW inodes, NEW k \in Nat \ {0}, Links(inodes, k - 1)
  PROVE  /\ members[k].dir \/ members[k].ino \in DOMAIN inodes => Links(inodes, k)
         /\ Links(KnowInode(inodes, members[k].ino, members[k].name), k)
<1> DEFINE w == KnowInode(inodes, members[k].ino, members[k].name)
<1>1. /\ DOMAIN w = DOMAIN inodes \cup {members[k].ino}
      /\ \A i \in DOMAIN w : w[i] = IF i \in DOMAIN inodes THEN inodes[i] ELSE members[k].name
  BY DEF KnowInode
<1>2. (\A j \in 1 .. k : j = k \/ j \in 1 .. k - 1) /\ (\A j \in 1 .. k - 1 : j \in 1 .. k) /\ k \in 1 .. k
  OBVIOUS
<1> HIDE DEF w
<1>3. members[k].dir \/ members[k].ino \in DOMAIN inodes => Links(inodes, k)
  BY <1>2 DEF Links
<1>4. Links(w, k)
  <2>1. ASSUME NEW j \in 1 .. k, ~members[j].dir, members[j].nlink > 1
        PROVE  members[j].ino \in DOMAIN w
    BY <1>1, <1>2, <2>1 DEF Links
  <2>2. ASSUME NEW n \in DOMAIN w PROVE \E j \in 1 .. k : members[j].name = w[n]
    <3>1. CASE n \in DOMAIN inodes
      <4>1. PICK j \in 1 .. k - 1 : members[j].name = inodes[n]
        BY <3>1 DEF Links
      <4> QED BY <1>1, <1>2, <3>1, <4>1
    <3>2. CASE n \notin DOMAIN inodes
      <4>1. w[n] = members[k].name
        BY <1>1, <3>2
      <4> QED BY <1>2, <4>1
    <3> QED BY <3>1, <3>2
  <2> QED BY <2>1, <2>2 DEF Links
<1> QED BY <1>3, <1>4 DEF w

(* An extraction takes nothing away. *)
Grown(f, h) ==
  /\ DOMAIN f \subseteq DOMAIN h
  /\ \A j \in 1 .. N, c \in Bases :
       members[j].dir /\ Path(c, j) \in DOMAIN f /\ Attributed(f, c, j) => Attributed(h, c, j)

LEMMA MakeDirsGrows ==
  ASSUME NEW f, NEW ps, NEW attr
  PROVE  Grown(f, MakeDirs(f, ps, attr))
<1> DEFINE g == MakeDirs(f, ps, attr)
<1>1. DOMAIN g = DOMAIN f \cup ps /\ \A q \in DOMAIN f : g[q] = f[q]
  BY MakeDirsIs
<1> HIDE DEF g
<1>2. Grown(f, g)
  BY <1>1 DEF Grown, Attributed
<1> QED BY <1>2 DEF g

LEMMA PutGrows ==
  ASSUME Honest, NEW f, NEW k \in 1 .. N, NEW b \in Bases, NEW e,
         members[k].dir => e.attr = members[k].ino
  PROVE  Grown(f, Put(f, Path(b, k), e)) /\ Path(b, k) \in DOMAIN Put(f, Path(b, k), e)
<1> DEFINE p == Path(b, k)
           g == Put(f, p, e)
<1>1. DOMAIN g = DOMAIN f \cup {p} /\ g[p] = e /\ \A r \in DOMAIN f : r # p => g[r] = f[r]
  <2> HIDE DEF p
  <2> QED BY DEF Put
<1>2. ASSUME NEW j \in 1 .. N, NEW c \in Bases, members[j].dir, Path(c, j) \in DOMAIN f,
             Attributed(f, c, j)
      PROVE  Attributed(g, c, j)
  <2>1. CASE Path(b, k) = Path(c, j)
    <3>1. members[j].name = members[k].name
      BY <2>1, SamePath
    <3>2. members[j].ino = members[k].ino /\ members[k].dir
      BY <1>2, <3>1, OneFile
    <3>3. g[Path(c, j)] = e
      <4> HIDE DEF g
      <4> QED BY <1>1, <2>1
    <3> HIDE DEF g
    <3> QED BY <3>2, <3>3 DEF Attributed
  <2>2. CASE Path(b, k) # Path(c, j)
    <3>1. g[Path(c, j)] = f[Path(c, j)]
      <4> HIDE DEF g
      <4> QED BY <1>1, <1>2, <2>2
    <3> HIDE DEF g
    <3> QED BY <1>2, <3>1 DEF Attributed
  <2> QED BY <2>1, <2>2
<1> HIDE DEF g, p
<1>3. DOMAIN f \subseteq DOMAIN g /\ p \in DOMAIN g
  BY <1>1
<1> QED BY <1>2, <1>3 DEF Grown, g, p

LEMMA GrownTwice ==
  ASSUME NEW f, NEW g, NEW h, Grown(f, g), Grown(g, h)
  PROVE  Grown(f, h)
BY DEF Grown

LEMMA ExtractOfGrows ==
  ASSUME Honest, NEW o, Sound(o, N), NEW f, NEW k \in 1 .. N, NEW b \in Bases
  PROVE  LET x == ExtractOf(o, f, k, b) IN
         /\ x.obj.stream = o.stream
         /\ Grown(f, x.fs)
<1> DEFINE p == Path(b, k)
           m == members[k]
           g == MakeDirs(f, UpperDirs(p), m.ino)
           target == b \o o.inodes[m.ino]
           x == ExtractOf(o, f, k, b)
<1>1. x = IF m.dir THEN ExtractDir(o, g, k, p)
          ELSE IF IsLinked(o, k) THEN ExtractLink(o, g, p, target)
          ELSE ExtractData(o, g, k, p)
  BY DEF ExtractOf, Path
<1>2. Grown(f, g)
  BY MakeDirsGrows
<1> HIDE DEF g, x, target
<1>3. CASE m.dir
  <2> DEFINE e == [dir |-> TRUE, data |-> Nothing, attr |-> m.ino]
  <2>1. x.obj = o /\ x.fs = Put(g, p, e) /\ e.attr = m.ino
    BY <1>1, <1>3 DEF ExtractDir
  <2> HIDE DEF e
  <2>2. Grown(g, Put(g, p, e))
    BY <1>3, <2>1, PutGrows
  <2> QED BY <1>2, <2>1, <2>2, GrownTwice DEF x
<1>4. CASE ~m.dir /\ IsLinked(o, k)
  <2> DEFINE e == g[target]
  <2>1. x.obj = o /\ (x.fs = Put(g, p, e) \/ x.fs = g)
    BY <1>1, <1>4 DEF ExtractLink
  <2> HIDE DEF e
  <2>2. Grown(g, Put(g, p, e))
    BY <1>4, PutGrows
  <2>3. Grown(f, x.fs)
    BY <1>2, <2>1, <2>2, GrownTwice
  <2> QED BY <2>1, <2>3 DEF x
<1>5. CASE ~m.dir /\ ~IsLinked(o, k)
  <2>1. x = ExtractData(o, g, k, p)
    BY <1>1, <1>5
  <2>2. x.obj.stream = o.stream /\ \E e : x.fs = Put(g, p, e)
    <3> HIDE DEF p
    <3> QED BY <1>5, <2>1, ExtractDataIs
  <2>3. PICK e : x.fs = Put(g, p, e)
    BY <2>2
  <2>4. Grown(g, Put(g, p, e))
    BY <1>5, PutGrows
  <2>5. Grown(f, x.fs)
    BY <1>2, <2>3, <2>4, GrownTwice
  <2> QED BY <2>2, <2>5 DEF x
<1> QED BY <1>3, <1>4, <1>5

LEMMA ThereOn ==
  ASSUME NEW f, NEW h, NEW b, NEW k \in Nat \ {0}, There(f, b, k - 1),
         DOMAIN f \subseteq DOMAIN h, Path(b, k) \in DOMAIN h
  PROVE  There(h, b, k)
<1>1. \A j \in 1 .. k : j = k \/ j \in 1 .. k - 1
  OBVIOUS
<1> QED BY <1>1 DEF There

(* A file in a first extractall(): it is there afterwards. *)
LEMMA FileGoesOn ==
  ASSUME Honest, NEW o, Sound(o, N), NEW f, NEW k \in 1 .. N, NEW b \in Bases,
         ~members[k].dir, Keeps(o, k, 2 * k), Links(o.inodes, k - 1), There(f, b, k - 1),
         Orderly, o.stream = obj.stream
  PROVE  LET x == ExtractOf(o, f, k, b) IN x.raised = FALSE /\ Through(x.obj, x.fs, b, k)
<1> DEFINE p == Path(b, k)
           m == members[k]
           g == MakeDirs(f, UpperDirs(p), m.ino)
           target == b \o o.inodes[m.ino]
           x == ExtractOf(o, f, k, b)
<1>1. x = IF IsLinked(o, k) THEN ExtractLink(o, g, p, target) ELSE ExtractData(o, g, k, p)
  BY DEF ExtractOf, Path
<1>2. DOMAIN f \subseteq DOMAIN g
  BY MakeDirsGrows DEF Grown
<1>3. N \in Nat /\ k \in Nat \ {0} /\ k \in 0 .. N /\ k - 1 \in Nat
  BY DEF Honest
<1> HIDE DEF g, x, target
<1>4. CASE IsLinked(o, k)
  <2>1. /\ x.obj = o /\ x.raised = FALSE
        /\ x.fs = IF target \in DOMAIN g /\ p \notin DOMAIN g THEN Put(g, p, g[target]) ELSE g
    BY <1>1, <1>4 DEF ExtractLink
  <2>2. target \in DOMAIN g
    <3>1. m.ino \in DOMAIN o.inodes
      BY <1>4 DEF IsLinked
    <3>2. PICK j \in 1 .. k - 1 : members[j].name = o.inodes[m.ino]
      BY <3>1 DEF Links
    <3>3. target = Path(b, j)
      BY <3>2 DEF Path, target
    <3>4. Path(b, j) \in DOMAIN f
      BY DEF There
    <3> QED BY <1>2, <3>3, <3>4
  <2>3. DOMAIN f \subseteq DOMAIN x.fs /\ p \in DOMAIN x.fs
    <3>1. CASE p \in DOMAIN g
      BY <1>2, <2>1, <3>1
    <3>2. CASE p \notin DOMAIN g
      <4> DEFINE e == g[target]
      <4>1. x.fs = Put(g, p, e)
        BY <2>1, <2>2, <3>2
      <4> HIDE DEF e, p
      <4>2. DOMAIN x.fs = DOMAIN g \cup {p}
        BY <4>1 DEF Put
      <4> QED BY <1>2, <4>2
    <3> QED BY <3>1, <3>2
  <2>4. There(x.fs, b, k)
    BY <1>3, <2>3, ThereOn
  <2>5. Links(o.inodes, k)
    <3>1. m.ino \in DOMAIN o.inodes
      BY <1>4 DEF IsLinked
    <3> QED BY <1>3, <3>1, LinksOn
  <2>6. Keeps(o, k, 2 * k + 2)
    <3>1. \A n \in Nat : n <= 2 * k => n <= 2 * k + 2
      BY <1>3
    <3> QED BY <3>1 DEF Keeps
  <2> QED BY <1>3, <2>1, <2>4, <2>5, <2>6 DEF Through, x
<1>5. CASE ~IsLinked(o, k)
  <2>1. x = ExtractData(o, g, k, p)
    BY <1>1, <1>5
  <2>2. /\ x.obj.inodes = KnowInode(o.inodes, m.ino, m.name) /\ \E e : x.fs = Put(g, p, e)
    <3> HIDE DEF p
    <3> QED BY <1>5, <2>1, ExtractDataIs
  <2>3. x.raised = FALSE /\ Keeps(x.obj, k, 2 * k + 2)
    <3> HIDE DEF p
    <3> QED BY <1>5, <2>1, ExtractDataGoesOn
  <2>4. DOMAIN f \subseteq DOMAIN x.fs /\ p \in DOMAIN x.fs
    <3>1. PICK e : x.fs = Put(g, p, e)
      BY <2>2
    <3> HIDE DEF p
    <3>2. DOMAIN x.fs = DOMAIN g \cup {p}
      BY <3>1 DEF Put
    <3> QED BY <1>2, <3>2
  <2>5. There(x.fs, b, k)
    BY <1>3, <2>4, ThereOn
  <2>6. Links(x.obj.inodes, k)
    BY <1>3, <2>2, LinksOn
  <2> QED BY <1>3, <2>3, <2>5, <2>6 DEF Through, x
<1> QED BY <1>4, <1>5

-----------------------------------------------------------------------------
(* A first extractall(), step by step *)

LEMMA SameExtracts ==
  ASSUME members' = members, NEW CONSTANT o, NEW CONSTANT f, NEW CONSTANT j
  PROVE  Extracts(o, f, j)' = Extracts(o, f, j)
<1>1. N' = N
  BY DEF N
<1>2. \A b, k : Path(b, k)' = Path(b, k)
  BY DEF Path
<1>3. \A k : Top(k)' = Top(k)
  BY <1>1 DEF Top, Before
<1>4. \A i : DirsTo(i)' = DirsTo(i)
  BY DEF DirsTo
<1>5. \A b, k : Attributed(f, b, k)' = Attributed(f, b, k)
  BY <1>2 DEF Attributed
<1>6. \A b, i : There(f, b, i)' = There(f, b, i)
  BY <1>2 DEF There
<1>7. \A inodes, i : Links(inodes, i)' = Links(inodes, i)
  BY DEF Links
<1>8. \A i, p : Keeps(o, i, p)' = Keeps(o, i, p)
  BY DEF Keeps, Position
<1>9. \A b, i : Through(o, f, b, i)' = Through(o, f, b, i)
  BY <1>1, <1>6, <1>7, <1>8 DEF Through
<1>10. Lasting(f, j)' = Lasting(f, j)
  BY <1>1, <1>2, <1>3, <1>4, <1>5 DEF Lasting
<1> QED BY <1>1, <1>3, <1>4, <1>5, <1>6, <1>9, <1>10 DEF Extracts

LEMMA SameOrderly ==
  ASSUME members' = members, obj'.stream = obj.stream
  PROVE  Orderly' = Orderly
<1>1. N' = N
  BY DEF N
<1> QED BY <1>1 DEF Orderly, DataFirst, EmptyLinks, WithData

(* What a step of a reader must see to. *)
LEMMA ReadingGoesOn ==
  ASSUME EInv', members' = members, whole' = whole, whole => obj'.stream = obj.stream,
         whole /\ job'.fresh /\ Orderly => Extracts(obj', fs', job')
  PROVE  AInv'
<1>1. PICK o, f, j : o = obj' /\ f = fs' /\ j = job'
  OBVIOUS
<1>2. Extracts(o, f, j)' = Extracts(o, f, j)
  BY SameExtracts
<1>3. Extracts(obj, fs, job)' = Extracts(o, f, j)'
  BY <1>1
<1>4. whole' /\ job'.fresh /\ Orderly' => Extracts(obj, fs, job)'
  BY <1>1, <1>2, <1>3, SameOrderly
<1> QED BY <1>4 DEF AInv

LEMMA NoneGoesOn == ASSUME EInv', mode' # "r" \/ job' = NoJob PROVE AInv'
BY DEF AInv, NoJob

LEMMA InitGoesOn == Init => AInv
BY InitExtracts DEF Init, AInv

LEMMA NothingPassed ==
  ASSUME N \in Nat, NEW o, Sound(o, N), Ahead(o) = 1 .. N
  PROVE  o.loaded \/ Position(o) = 0
<1> SUFFICES ASSUME ~o.loaded PROVE Position(o) = 0
  OBVIOUS
<1> DEFINE a == Position(o)
<1>1. a \in 0 .. N /\ Ahead(o) = a + 1 .. N
  BY DEF Sound, Ahead, Position
<1> HIDE DEF a
<1> DEFINE A == a + 1 .. N
           B == 1 .. N
<1>2. A = B
  BY <1>1
<1>3. (N > 0 => 1 \in B) /\ \A i \in A : a < i
  BY <1>1
<1> HIDE DEF A, B
<1>4. a = 0
  BY <1>1, <1>2, <1>3
<1> QED BY <1>4 DEF a

LEMMA ExtractAllBegins == ASSUME AInv, EInv', NEW b \in Bases, ExtractAll(b) PROVE AInv'
<1> USE DEF fileVars
<1>1. /\ mode = "r" /\ members' = members /\ whole' = whole /\ obj' = obj /\ fs' = fs
      /\ job' = [phase |-> "files", base |-> b, path |-> b, index |-> 0, dirs |-> {},
                 fresh |-> /\ Ahead(obj) = 1 .. N /\ obj.inodes = NoInodes
                           /\ obj.stream => obj.pos = 2]
  BY DEF ExtractAll, Call, Free
<1>2. N \in Nat /\ Sound(obj, N)
  BY <1>1, ReadingHolds DEF AInv
<1>3. ASSUME job'.fresh PROVE Through(obj, fs, b, 0)
  <2>1. Ahead(obj) = 1 .. N /\ obj.inodes = NoInodes /\ (obj.stream => obj.pos = 2)
    BY <1>1, <1>3
  <2>2. obj.loaded \/ Position(obj) = 0
    BY <1>2, <2>1, NothingPassed
  <2>3. Keeps(obj, 0, 2 * 0 + 2)
    BY <2>1, <2>2 DEF Keeps
  <2>4. Links(obj.inodes, 0)
    <3>1. DOMAIN obj.inodes = {} /\ 1 .. 0 = {}
      BY <2>1 DEF NoInodes
    <3> QED BY <3>1 DEF Links
  <2>5. There(fs, b, 0) /\ 0 \in 0 .. N
    BY <1>2 DEF There
  <2> QED BY <2>3, <2>4, <2>5 DEF Through
<1>4. DirsTo(0) = {}
  BY DEF DirsTo
<1>5. /\ job'.phase = "files" /\ job'.base = b /\ job'.path = b /\ job'.index = 0 /\ job'.dirs = {}
  BY <1>1
<1>6. job'.fresh => Extracts(obj', fs', job')
  <2> SUFFICES ASSUME job'.fresh PROVE Extracts(obj', fs', job')
    OBVIOUS
  <2>1. Through(obj', fs', job'.base, job'.index)
    BY <1>1, <1>3, <1>5
  <2> QED BY <1>4, <1>5, <2>1 DEF Extracts
<1> QED BY <1>1, <1>6, ReadingGoesOn

(* What other calls leave of it. *)
LEMMA CallGoesOn ==
  ASSUME AInv, EInv',
         \/ NewIterator \/ GetMembers \/ \E i \in DOMAIN its : Resume(i)
         \/ \E k \in 1 .. N : ExtractFile(k) \/ \E b \in Bases : Extract(k, b)
  PROVE  AInv'
<1> USE DEF fileVars
<1>1. /\ mode = "r" /\ mode' = mode /\ members' = members /\ whole' = whole /\ job' = job
      /\ job.phase \notin {"files", "dirs"}
  BY DEF NewIterator, GetMembers, Resume, ExtractFile, Extract, Call, Free
<1>2. EInv /\ N \in Nat /\ Sound(obj, N) /\ Shaped(obj) /\ Sound(Load(obj), N) /\ (whole => Honest)
  BY <1>1, ReadingHolds DEF AInv
<1>3. whole => obj'.stream = obj.stream /\ Grown(fs, fs')
  <2>1. CASE \/ NewIterator \/ GetMembers \/ \E i \in DOMAIN its : Resume(i)
             \/ \E k \in 1 .. N : ExtractFile(k)
    <3>1. fs' = fs
      BY <2>1, Zenon DEF NewIterator, GetMembers, Resume, ExtractFile
    <3>2. Grown(fs, fs')
      BY <3>1 DEF Grown, Attributed
    <3>3. obj'.stream = obj.stream
      <4>1. CASE NewIterator
        BY <4>1 DEF NewIterator
      <4>2. CASE GetMembers
        BY <1>2, <4>2, ReadOnInodes DEF GetMembers
      <4>3. ASSUME NEW i \in DOMAIN its, Resume(i) PROVE obj'.stream = obj.stream
        BY <1>2, <4>3, StepInodes, Zenon DEF Resume
      <4>4. ASSUME NEW k \in 1 .. N, ExtractFile(k) PROVE obj'.stream = obj.stream
        BY <1>2, <4>4, AfterReadInodes DEF ExtractFile
      <4> QED BY <2>1, <4>1, <4>2, <4>3, <4>4
    <3> QED BY <3>2, <3>3
  <2>2. ASSUME whole, NEW k \in 1 .. N, NEW b \in Bases, Extract(k, b)
        PROVE  obj'.stream = obj.stream /\ Grown(fs, fs')
    <3>1. PICK o : o \in {obj, Load(obj)} /\ Extracted(o, k, b)
      BY <2>2 DEF Extract
    <3>2. Sound(o, N) /\ o.stream = obj.stream
      BY <1>2, <3>1, ReadOnInodes
    <3> DEFINE x == ExtractOf(o, fs, k, b)
    <3>3. obj' = x.obj /\ fs' = x.fs
      BY <3>1 DEF Extracted
    <3>4. x.obj.stream = o.stream /\ Grown(fs, x.fs)
      BY <1>2, <2>2, <3>2, ExtractOfGrows
    <3> HIDE DEF x
    <3> QED BY <3>2, <3>3, <3>4
  <2> QED BY <2>1, <2>2
<1>4. ASSUME whole, job.fresh, Orderly PROVE Extracts(obj', fs', job')
  <2>1. Extracts(obj, fs, job) /\ Grown(fs, fs')
    BY <1>1, <1>3, <1>4 DEF AInv
  <2>2. job.phase = "done" => There(fs', job.base, N)
    BY <2>1 DEF Extracts, Grown, There
  <2>3. ASSUME job.phase = "done", NEW k \in 1 .. N, Top(k) PROVE Attributed(fs', job.base, k)
    <3>1. /\ Attributed(fs, job.base, k) /\ There(fs, job.base, N) /\ job.base \in Bases
          /\ members[k].dir
      BY <2>1, <2>3 DEF Extracts, Top
    <3>2. Path(job.base, k) \in DOMAIN fs
      BY <3>1 DEF There
    <3> QED BY <2>1, <3>1, <3>2 DEF Grown
  <2>4. job'.phase # "failed" /\ job'.base \in Bases
    BY <1>1, <2>1 DEF Extracts
  <2> QED BY <1>1, <2>2, <2>3, <2>4 DEF Extracts
<1> QED BY <1>1, <1>3, <1>4, ReadingGoesOn, SMTT(30)

LEMMA JobRuns ==
  ASSUME AInv, job.phase \in {"files", "dirs"}
  PROVE  /\ mode = "r" /\ EInv /\ Readers /\ N \in Nat /\ Sound(obj, N) /\ Shaped(obj)
         /\ job \in JobT /\ job.dirs \subseteq 1 .. N /\ (whole => Honest)
<1>1. EInv /\ IInv
  BY DEF AInv, EInv, KInv
<1>2. mode = "r"
  BY <1>1 DEF IInv, Archives, NoJob
<1>3. job.dirs \subseteq 1 .. N
  BY <1>1 DEF IInv, Extracting
<1> QED BY <1>1, <1>2, <1>3, ReadingHolds

LEMMA IndexOn ==
  ASSUME NEW j \in JobT, NEW n \in Nat
  PROVE  LET up == [j EXCEPT !.index = n] IN
         /\ up \in JobT /\ up.index = n /\ up.phase = j.phase /\ up.base = j.base
         /\ up.path = j.path /\ up.dirs = j.dirs /\ up = [up EXCEPT !.dirs = j.dirs]
<1> DEFINE up == [j EXCEPT !.index = n]
<1>1. /\ up \in JobT /\ up.index = n /\ up.phase = j.phase /\ up.base = j.base
      /\ up.path = j.path /\ up.dirs = j.dirs
  BY DEF JobT
<1> HIDE DEF up
<1>2. up = [up EXCEPT !.dirs = j.dirs]
  BY <1>1 DEF JobT
<1> QED BY <1>1, <1>2 DEF up

LEMMA DirsOn ==
  ASSUME NEW k \in Nat \ {0}
  PROVE  DirsTo(k) = IF members[k].dir THEN DirsTo(k - 1) \cup {k} ELSE DirsTo(k - 1)
<1>1. \A j : j \in 1 .. k <=> (j = k \/ j \in 1 .. k - 1)
  OBVIOUS
<1> QED BY <1>1 DEF DirsTo

LEMMA DirGoesOn ==
  ASSUME Honest, NEW o, NEW f, NEW k \in 1 .. N, NEW b, NEW attr, members[k].dir,
         Keeps(o, k, 2 * k), Links(o.inodes, k - 1), There(f, b, k - 1)
  PROVE  Through(o, MakeDirs(f, UpperDirs(Path(b, k)) \cup {Path(b, k)}, attr), b, k)
<1> DEFINE p == Path(b, k)
           ps == UpperDirs(p) \cup {p}
           g == MakeDirs(f, ps, attr)
<1>1. N \in Nat /\ k \in Nat \ {0} /\ k \in 0 .. N
  BY DEF Honest
<1>2. p \in ps
  OBVIOUS
<1> HIDE DEF ps, p
<1>3. DOMAIN g = DOMAIN f \cup ps
  BY MakeDirsIs
<1> HIDE DEF g
<1>4. DOMAIN f \subseteq DOMAIN g /\ p \in DOMAIN g
  BY <1>2, <1>3
<1>5. There(g, b, k)
  BY <1>1, <1>4, ThereOn DEF p
<1>6. Links(o.inodes, k)
  BY <1>1, LinksOn
<1>7. Keeps(o, k, 2 * k + 2)
  <2>1. \A n \in Nat : n <= 2 * k => n <= 2 * k + 2
    BY <1>1
  <2> QED BY <2>1 DEF Keeps
<1>8. Through(o, g, b, k)
  BY <1>1, <1>5, <1>6, <1>7 DEF Through
<1> QED BY <1>8 DEF g, ps, p

LEMMA MemberGoesOn == ASSUME AInv, EInv', ExtractAllMember PROVE AInv'
<1>1. members' = members /\ whole' = whole /\ job.phase = "files"
  BY DEF ExtractAllMember, fileVars
<1>2. /\ N \in Nat /\ Sound(obj, N) /\ Shaped(obj) /\ job \in JobT /\ (whole => Honest)
      /\ mode = "r"
  BY <1>1, JobRuns
<1> DEFINE i == job.index
           b == job.base
           n == Step(obj, i)
<1>3. i \in Nat /\ n.obj.stream = obj.stream /\ n.obj.inodes = obj.inodes /\ Sound(n.obj, N) /\ n.k \in 0 .. N
  <2>1. i \in Nat
    BY <1>2 DEF JobT
  <2>2. Moves(obj, i, Step(obj, i))
    BY <1>2, <2>1, StepKept
  <2> QED BY <1>2, <2>1, <2>2, StepInodes DEF Moves, Kept
<1>4. \/ n.k = 0 /\ obj' = n.obj /\ job' = [job EXCEPT !.phase = "dirs"] /\ UNCHANGED <<fs, astray>>
      \/ /\ n.k # 0 /\ members[n.k].dir /\ obj' = n.obj
         /\ fs' = MakeDirs(fs, UpperDirs(Path(b, n.k)) \cup {Path(b, n.k)}, 0)
         /\ job' = [job EXCEPT !.index = @ + 1, !.dirs = @ \cup {n.k}]
      \/ /\ n.k # 0 /\ ~members[n.k].dir /\ Extracted(n.obj, n.k, b)
         /\ job' = IF ExtractOf(n.obj, fs, n.k, b).raised THEN [job EXCEPT !.phase = "failed"]
                   ELSE [job EXCEPT !.index = @ + 1]
  BY DEF ExtractAllMember, Path
<1>5. whole => obj'.stream = obj.stream
  <2> SUFFICES ASSUME whole, n.k # 0, ~members[n.k].dir, Extracted(n.obj, n.k, b)
               PROVE  obj'.stream = obj.stream
    BY <1>3, <1>4
  <2> DEFINE x == ExtractOf(n.obj, fs, n.k, b)
  <2>1. obj' = x.obj
    BY DEF Extracted
  <2>2. n.k \in 1 .. N /\ b \in Bases
    BY <1>1, <1>2, <1>3 DEF AInv, EInv
  <2>3. x.obj.stream = n.obj.stream
    <3> HIDE DEF n, b
    <3> QED BY <1>2, <1>3, <2>2, ExtractOfGrows
  <2> HIDE DEF x, n
  <2> QED BY <1>3, <2>1, <2>3
<1>6. job'.fresh = job.fresh
  BY <1>2, <1>4 DEF JobT
<1>7. ASSUME whole, job.fresh, Orderly PROVE Extracts(obj', fs', job')
  <2>1. /\ Through(obj, fs, b, i) /\ job.dirs = DirsTo(i) /\ job.path = b /\ b \in Bases
    BY <1>1, <1>2, <1>7 DEF AInv, Extracts
  <2>2. i \in 0 .. N /\ Keeps(obj, i, 2 * i + 2) /\ There(fs, b, i) /\ Links(obj.inodes, i)
    BY <2>1 DEF Through
  <2>3. /\ n.k = IF i < N THEN i + 1 ELSE 0
        /\ i < N => Keeps(n.obj, i + 1, 2 * (i + 1))
    BY <1>2, <2>2, StepGoesOn
  <2> HIDE DEF n
  <2>4. CASE n.k = 0 /\ job' = [job EXCEPT !.phase = "dirs"] /\ UNCHANGED fs
    <3>1. i = N
      BY <1>2, <2>2, <2>3, <2>4
    <3>2. /\ job'.phase = "dirs" /\ job'.base = b /\ job'.path = b /\ job'.dirs = DirsTo(N)
      BY <1>2, <2>1, <2>4, <3>1 DEF JobT
    <3>3. There(fs', job'.base, N)
      BY <2>2, <2>4, <3>1, <3>2
    <3>4. Lasting(fs', job')
      BY <3>2 DEF Lasting
    <3> QED BY <2>1, <3>2, <3>3, <3>4 DEF Extracts
  <2> DEFINE k == i + 1
  <2>5. n.k # 0 => n.k = k /\ k \in 1 .. N /\ k - 1 = i /\ k \in Nat \ {0} /\ Keeps(n.obj, k, 2 * k)
    BY <1>2, <2>2, <2>3
  <2> HIDE DEF k
  <2>6. ASSUME n.k # 0, job' = [job EXCEPT !.index = i + 1, !.dirs = DirsTo(k)],
               Through(obj', fs', b, k)
        PROVE  Extracts(obj', fs', job')
    <3> DEFINE up == [job EXCEPT !.index = i + 1]
               more == DirsTo(k)
    <3>1. up \in JobT /\ up.phase = "files" /\ up.base = b /\ up.path = b /\ up.index = i + 1
      <4>1. i + 1 \in Nat
        BY <1>3
      <4> QED BY <1>1, <1>2, <2>1, <4>1, IndexOn, Zenon
    <3>2. job' = [up EXCEPT !.dirs = more]
      BY <2>6
    <3> HIDE DEF up, more
    <3>3. /\ job'.phase = "files" /\ job'.base = b /\ job'.path = b /\ job'.index = k
          /\ job'.dirs = DirsTo(k)
      BY <3>1, <3>2 DEF JobT, more, k
    <3> QED BY <2>1, <2>6, <3>3 DEF Extracts
  <2>7. CASE /\ n.k # 0 /\ members[n.k].dir /\ obj' = n.obj
             /\ fs' = MakeDirs(fs, UpperDirs(Path(b, n.k)) \cup {Path(b, n.k)}, 0)
             /\ job' = [job EXCEPT !.index = @ + 1, !.dirs = @ \cup {n.k}]
    <3>1. DirsTo(k) = job.dirs \cup {n.k}
      BY <2>1, <2>5, <2>7, DirsOn
    <3>2. job' = [job EXCEPT !.index = i + 1, !.dirs = DirsTo(k)]
      BY <2>7, <3>1
    <3>3. Through(n.obj, fs', b, k)
      BY <1>3, <1>7, <1>2, <2>2, <2>5, <2>7, DirGoesOn
    <3> QED BY <2>6, <2>7, <3>2, <3>3
  <2>8. CASE /\ n.k # 0 /\ ~members[n.k].dir /\ Extracted(n.obj, n.k, b)
             /\ job' = IF ExtractOf(n.obj, fs, n.k, b).raised THEN [job EXCEPT !.phase = "failed"]
                       ELSE [job EXCEPT !.index = @ + 1]
    <3> DEFINE x == ExtractOf(n.obj, fs, k, b)
    <3>1. obj' = x.obj /\ fs' = x.fs /\ job' = IF x.raised THEN [job EXCEPT !.phase = "failed"]
                                               ELSE [job EXCEPT !.index = i + 1]
      BY <2>5, <2>8 DEF Extracted
    <3>2. x.raised = FALSE /\ Through(x.obj, x.fs, b, k)
      <4>1. Honest /\ ~members[k].dir /\ n.obj.stream = obj.stream /\ There(fs, b, k - 1) /\ Links(n.obj.inodes, k - 1)
        BY <1>2, <1>3, <1>7, <2>2, <2>5, <2>8
      <4> DEFINE o == n.obj
      <4>2. /\ Honest /\ Sound(o, N) /\ k \in 1 .. N /\ b \in Bases /\ ~members[k].dir
            /\ Keeps(o, k, 2 * k) /\ Links(o.inodes, k - 1) /\ There(fs, b, k - 1)
            /\ Orderly /\ o.stream = obj.stream
        BY <1>3, <1>7, <2>1, <2>5, <2>8, <4>1
      <4> HIDE DEF b, o
      <4>3. LET y == ExtractOf(o, fs, k, b) IN y.raised = FALSE /\ Through(y.obj, y.fs, b, k)
        BY <4>2, FileGoesOn
      <4> QED BY <4>3 DEF o
    <3> HIDE DEF x
    <3>3. job' = [job EXCEPT !.index = i + 1, !.dirs = DirsTo(k)]
      <4>1. DirsTo(k) = job.dirs
        BY <2>1, <2>5, <2>8, DirsOn
      <4> DEFINE up == [job EXCEPT !.index = i + 1]
      <4>2. job' = up /\ i + 1 \in Nat
        BY <1>3, <3>1, <3>2
      <4>3. up = [up EXCEPT !.dirs = job.dirs]
        BY <1>2, <4>2, IndexOn, Zenon
      <4> QED BY <4>1, <4>2, <4>3 DEF up
    <3> QED BY <2>6, <2>8, <3>1, <3>2, <3>3
  <2> QED BY <1>4, <2>4, <2>7, <2>8
<1> QED BY <1>1, <1>5, <1>6, <1>7, ReadingGoesOn

LEMMA LaterPath ==
  ASSUME Honest, NEW p \in Seq(Nat), NEW k \in 1 .. N, NEW q \in Seq(Nat), Len(p) >= Len(q)
  PROVE  /\ p \o members[k].name # q
         /\ p \o members[k].name \in Seq(Nat) /\ Len(p \o members[k].name) >= Len(q)
<1> DEFINE m == members[k].name
<1>1. m \in Seq(Nat) /\ m # <<>>
  BY CpioAssumption DEF Honest, Listed
<1> HIDE DEF m
<1>2. p \o m \in Seq(Nat) /\ Len(p \o m) = Len(p) + Len(m)
  BY <1>1, ConcatIs
<1>3. Len(m) \in Nat /\ Len(m) # 0 /\ Len(p) \in Nat /\ Len(q) \in Nat
  BY <1>1
<1>4. Len(p \o m) > Len(q) /\ Len(p \o m) >= Len(q)
  BY <1>2, <1>3
<1>5. p \o m # q
  BY <1>3, <1>4
<1> QED BY <1>2, <1>4, <1>5 DEF m

LEMMA PathTyped ==
  ASSUME Honest, NEW b \in Bases, NEW k \in 1 .. N
  PROVE  Path(b, k) \in Seq(Nat) /\ Path(b, k) = b \o members[k].name
BY NamesAre DEF Path

LEMMA SetAttr ==
  ASSUME NEW f, Typed(f), NEW p \in DOMAIN f, NEW v
  PROVE  LET g == [f EXCEPT ![p].attr = v] IN
         DOMAIN g = DOMAIN f /\ g[p].attr = v /\ \A q \in DOMAIN f : q # p => g[q] = f[q]
BY DEF Typed, FileT

LEMMA DirAttributed == ASSUME AInv, EInv', NEW k \in 1 .. N, ExtractAllDir(k) PROVE AInv'
<1> DEFINE path == job.path \o members[k].name
<1>1. /\ members' = members /\ whole' = whole /\ obj' = obj /\ job.phase = "dirs" /\ NextDir(k)
      /\ fs' = IF path \in DOMAIN fs THEN [fs EXCEPT ![path].attr = members[k].ino] ELSE fs
      /\ job' = [job EXCEPT !.path = path, !.dirs = @ \ {k}]
  BY DEF ExtractAllDir, fileVars
<1> HIDE DEF path
<1>2. /\ N \in Nat /\ job \in JobT /\ (whole => Honest) /\ mode = "r" /\ job.dirs \subseteq 1 .. N
      /\ Typed(fs)
  <2>1. Typed(fs)
    BY DEF AInv, EInv, KInv, IInv, Extracting, Typed
  <2> QED BY <1>1, <2>1, JobRuns
<1>3. /\ job'.phase = "dirs" /\ job'.base = job.base /\ job'.fresh = job.fresh
      /\ job'.path = path /\ job'.dirs = job.dirs \ {k}
  <2> DEFINE up == [job EXCEPT !.path = path]
             less == job.dirs \ {k}
  <2>1. job' = [up EXCEPT !.dirs = less]
    BY <1>1
  <2>2. /\ up.phase = "dirs" /\ up.base = job.base /\ up.fresh = job.fresh /\ up.path = path
        /\ up = [phase |-> "dirs", base |-> job.base, path |-> path, index |-> job.index,
                 dirs |-> job.dirs, fresh |-> job.fresh]
    BY <1>1, <1>2 DEF JobT
  <2> HIDE DEF up, less
  <2>3. job' = [phase |-> "dirs", base |-> job.base, path |-> path, index |-> job.index,
                dirs |-> less, fresh |-> job.fresh]
    BY <2>1, <2>2
  <2> QED BY <2>3 DEF less
<1>4. ASSUME whole, job.fresh, Orderly PROVE Extracts(obj', fs', job')
  <2>1. job.base \in Bases /\ There(fs, job.base, N) /\ Lasting(fs, job)
    BY <1>1, <1>2, <1>4 DEF AInv, Extracts
  <2>2. job.path \in Seq(Nat) /\ Honest
    BY <1>2, <1>4 DEF JobT
  <2>3. /\ DOMAIN fs' = DOMAIN fs /\ \A q \in DOMAIN fs : q # path => fs'[q] = fs[q]
        /\ path \in DOMAIN fs => fs'[path].attr = members[k].ino
    <3>1. CASE path \in DOMAIN fs
      BY <1>1, <1>2, <3>1, SetAttr
    <3>2. CASE path \notin DOMAIN fs
      BY <1>1, <3>2
    <3> QED BY <3>1, <3>2
  <2>4. ASSUME NEW t \in 1 .. N, Top(t)
        PROVE  /\ Attributed(fs', job.base, t) /\ t \notin job'.dirs
               /\ Len(path) >= Len(Path(job.base, t))
    <3> DEFINE q == Path(job.base, t)
    <3>1. q \in DOMAIN fs /\ q \in Seq(Nat) /\ q = job.base \o members[t].name /\ members[t].dir
      BY <2>1, <2>2, <2>4, PathTyped DEF There, Top
    <3>2. CASE job.dirs = DirsTo(N) /\ job.path = job.base
      <4>1. t \in job.dirs /\ k \in job.dirs /\ members[k].dir
        BY <1>1, <3>1, <3>2 DEF DirsTo, NextDir
      <4>2. k = t
        <5> SUFFICES ASSUME k # t PROVE FALSE
          OBVIOUS
        <5>1. Before(t, k)
          BY <1>1, <4>1 DEF NextDir
        <5>2. Before(k, t)
          BY <2>4, <4>1 DEF Top
        <5> QED BY <2>2, <5>1, <5>2, BeforeIsAsymmetric
      <4>3. path = q
        BY <3>1, <3>2, <4>2 DEF path
      <4> HIDE DEF q
      <4>4. fs'[q].attr = members[t].ino
        <5>1. path \in DOMAIN fs
          BY <3>1, <4>3
        <5> QED BY <2>3, <4>2, <4>3, <5>1
      <4>5. Len(path) >= Len(q)
        <5>1. q \in Seq(Nat)
          BY <3>1
        <5>2. Len(q) \in Nat
          BY <5>1
        <5> QED BY <4>3, <5>2
      <4> QED BY <1>3, <4>2, <4>4, <4>5 DEF Attributed, q
    <3>3. CASE /\ Attributed(fs, job.base, t) /\ t \notin job.dirs
               /\ Len(job.path) >= Len(Path(job.base, t))
      <4> HIDE DEF q
      <4>1. path # q /\ Len(path) >= Len(q)
        BY <2>2, <3>1, <3>3, LaterPath DEF path, q
      <4>2. fs'[q] = fs[q]
        BY <2>3, <3>1, <4>1
      <4> QED BY <1>3, <3>3, <4>1, <4>2 DEF Attributed, q
    <3> QED BY <2>1, <2>4, <3>2, <3>3 DEF Lasting
  <2>5. There(fs', job'.base, N)
    BY <1>3, <2>1, <2>3 DEF There
  <2>6. Lasting(fs', job')
    BY <1>3, <2>4 DEF Lasting
  <2> QED BY <1>3, <2>1, <2>5, <2>6 DEF Extracts
<1> QED BY <1>1, <1>3, <1>4, ReadingGoesOn

LEMMA EndsAttributed == ASSUME AInv, EInv', ExtractAllEnds PROVE AInv'
<1>1. /\ members' = members /\ whole' = whole /\ obj' = obj /\ fs' = fs
      /\ job.phase = "dirs" /\ job.dirs = {} /\ job' = [job EXCEPT !.phase = "done"]
  BY DEF ExtractAllEnds, fileVars
<1>2. N \in Nat /\ job \in JobT /\ mode = "r"
  BY <1>1, JobRuns
<1>3. job'.phase = "done" /\ job'.base = job.base /\ job'.fresh = job.fresh
  BY <1>1, <1>2 DEF JobT
<1>4. ASSUME whole, job.fresh, Orderly PROVE Extracts(obj', fs', job')
  <2>1. job.base \in Bases /\ There(fs, job.base, N) /\ Lasting(fs, job)
    BY <1>1, <1>2, <1>4 DEF AInv, Extracts
  <2>2. ASSUME NEW t \in 1 .. N, Top(t) PROVE Attributed(fs, job.base, t)
    <3>1. t \in DirsTo(N)
      BY <2>2 DEF Top, DirsTo
    <3> QED BY <1>1, <2>1, <2>2, <3>1 DEF Lasting
  <2> QED BY <1>1, <1>3, <2>1, <2>2 DEF Extracts
<1> QED BY <1>1, <1>3, <1>4, ReadingGoesOn

LEMMA NextGoesOn == AInv /\ [Next]_vars => AInv'
<1> SUFFICES ASSUME AInv, [Next]_vars PROVE AInv'
  OBVIOUS
<1>1. EInv' /\ EInv
  BY NextExtracts DEF AInv
<1>2. CASE UNCHANGED vars
  <2>1. UNCHANGED <<members, whole, obj, fs, job, mode>>
    BY <1>2 DEF vars, fileVars, readVars
  <2>2. CASE mode = "r"
    <3>1. whole /\ job.fresh /\ Orderly => Extracts(obj, fs, job)
      BY <2>2 DEF AInv
    <3>2. whole /\ job'.fresh /\ Orderly => Extracts(obj', fs', job')
      BY <2>1, <3>1
    <3> QED BY <1>1, <2>1, <3>2, ReadingGoesOn
  <2>3. CASE mode # "r"
    BY <1>1, <2>1, <2>3, NoneGoesOn
  <2> QED BY <2>2, <2>3
<1>3. CASE WriterNext
  <2>1. mode' # "r"
    <3>1. CASE OpenWrite \/ OpenAppend \/ CloseWriter \/ Crash
      BY <3>1 DEF OpenWrite, OpenAppend, CloseWriter, Crash
    <3>2. CASE \E n \in DOMAIN Tree : Add(n)
      BY <3>2 DEF Add
    <3>3. CASE AddFile \/ SkipArchive \/ AddFails
      <4>1. mode' = mode /\ todo # <<>>
        BY <3>3 DEF AddFile, SkipArchive, AddFails
      <4>2. mode # "r"
        BY <1>1, <4>1 DEF EInv, KInv, IInv, Archives
      <4> QED BY <4>1, <4>2
    <3> QED BY <1>3, <3>1, <3>2, <3>3 DEF WriterNext
  <2> QED BY <1>1, <2>1, NoneGoesOn
<1>4. CASE CloseReader
  BY <1>1, <1>4, NoneGoesOn DEF CloseReader
<1>5. CASE \E stream \in BOOLEAN : OpenRead(stream)
  <2>1. mode = "none" /\ job' = job
    BY <1>5 DEF OpenRead
  <2>2. job = NoJob
    BY <1>1, <2>1 DEF EInv, KInv, IInv, Archives
  <2> QED BY <1>1, <2>1, <2>2, NoneGoesOn
<1>6. CASE ReaderNext /\ ~CloseReader /\ ~\E stream \in BOOLEAN : OpenRead(stream)
  BY <1>1, <1>6, CallGoesOn, ExtractAllBegins, MemberGoesOn, DirAttributed, EndsAttributed DEF ReaderNext
<1> QED BY <1>2, <1>3, <1>4, <1>5, <1>6 DEF Next

LEMMA GoesOnInvariance == Spec => []AInv
BY InitGoesOn, NextGoesOn, PTL DEF Spec

(* The first extractall() of an archive like those add() writes, of any    *)
(* members and from a stream too, extracts all of it with its data, however*)
(* links fall, and the directory that is last in order keeps its own       *)
(* owner, mode and time, whatever is extracted after it.                   *)
THEOREM AllIsExtracted == Spec => []ExtractsAll
<1>1. AInv => ExtractsAll
  <2> SUFFICES ASSUME AInv, whole, job.fresh, Orderly
               PROVE  /\ job.phase # "failed"
                      /\ job.phase = "done" /\ ~astray =>
                           \A k \in 1 .. N :
                             LET p == job.base \o members[k].name IN
                             /\ p \in DOMAIN fs
                             /\ ~members[k].dir => fs[p].data = Own(k)
                             /\ members[k].dir /\ (\A j \in 1 .. N : members[j].dir => j = k \/ Before(j, k)) =>
                                  fs[p].attr = members[k].ino
    BY DEF ExtractsAll
  <2>1. mode = "r"
    BY DEF AInv, EInv, KInv, IInv, Archives, NoJob
  <2>2. Extracts(obj, fs, job) /\ Right(fs, astray)
    BY <2>1 DEF AInv, EInv
  <2>3. job.phase # "failed" /\ job.base \in Bases
    BY <2>2 DEF Extracts
  <2>4. ASSUME job.phase = "done", ~astray, NEW k \in 1 .. N
        PROVE  /\ Path(job.base, k) \in DOMAIN fs
               /\ ~members[k].dir => fs[Path(job.base, k)].data = Own(k)
               /\ Top(k) => fs[Path(job.base, k)].attr = members[k].ino
    <3>1. Path(job.base, k) \in DOMAIN fs
      BY <2>2, <2>4 DEF Extracts, There
    <3>2. ~members[k].dir => GoodFile(fs[Path(job.base, k)], astray, k)
      BY <2>2, <2>3, <3>1 DEF Right
    <3>3. Top(k) => Attributed(fs, job.base, k)
      BY <2>2, <2>4 DEF Extracts
    <3> QED BY <2>4, <3>1, <3>2, <3>3 DEF GoodFile, Attributed
  <2> QED BY <2>3, <2>4 DEF Path, Top
<1> QED BY <1>1, GoesOnInvariance, PTL

=============================================================================
