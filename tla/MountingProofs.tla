--------------------------- MODULE MountingProofs ---------------------------
(***************************************************************************)
(* Proofs about MountingAccessor and, since every step of Repository is a  *)
(* step of the accessor or none, about an accessor that looks for          *)
(* repositories: the medium is mounted while anybody uses it, nothing is   *)
(* left behind unless a umount failed, it is mounted read-only exactly as  *)
(* asked, no look takes a start() of the program away, and what is on the  *)
(* medium is found, for any number of directories, nested start()s, file   *)
(* system types and locations.                                             *)
(***************************************************************************)
EXTENDS Repository, SequenceTheorems, TLAPS

-----------------------------------------------------------------------------
(* The inductive invariant.  While start() tries, its directory is new and *)
(* nothing is mounted there; files are open on mounts only, so that rmdir()*)
(* takes no open file away; and the options that grow at a CD are those of *)
(* an accessor that is read-only anyway, or there is no list to grow.      *)

NoCd(fss) == \A i \in DOMAIN fss : fss[i] # "iso9660"

Counted ==
  /\ start_count > 0 => pc = "idle" /\ location \in DOMAIN mounts
  /\ pc = "mounting" => location \in dirs \ DOMAIN mounts
  /\ busy \subseteq DOMAIN mounts

Tidy ==
  ~stuck => /\ dirs \subseteq {location}
            /\ pc # "mounting" /\ start_count = 0 => dirs = {}

ModeKept ==
  IF read_only THEN mount_options # None /\ "ro" \in mount_options
  ELSE \/ mount_options = None
       \/ "ro" \notin mount_options /\ NoCd(mount_types) /\ NoCd(types)

IInv == TypeOK /\ Counted /\ Tidy /\ ModeKept /\ ReadOnlyAsAsked

-----------------------------------------------------------------------------

LEMMA InitInv == Init => IInv
<1> SUFFICES ASSUME Init PROVE IInv
  OBVIOUS
<1> USE MountingAssumption
<1>1. PICK m \in Made : mount_types = m.types /\ mount_options = m.options
  BY DEF Init
<1>2. DOMAIN mounts = {}
  BY DEF Init
<1>3. TypeOK
  <2>1. mount_types \in Seq(FsType) /\ mount_options \in OptSets
    BY <1>1 DEF FsType, OptSets
  <2>2. types \in Seq(FsType) /\ read_only \in BOOLEAN
    BY DEF Init
  <2>3. /\ location = None /\ start_count \in 0 .. MaxCount /\ pc = "idle"
        /\ dirs = {} /\ busy = {} /\ stuck = FALSE
    BY DEF Init
  <2> QED BY <2>1, <2>2, <2>3, <1>2 DEF TypeOK
<1>4. Counted /\ Tidy
  BY <1>2 DEF Init, Counted, Tidy
<1>5. NoCd(types)
  BY DEF Init, NoCd
<1>6. ModeKept
  BY <1>1, <1>5 DEF Init, ModeKept, NoCd
<1>7. ReadOnlyAsAsked
  BY <1>2 DEF ReadOnlyAsAsked
<1> QED BY <1>3, <1>4, <1>6, <1>7 DEF IInv

(* What trying a file system type does to the accessor and to the options  *)
(* it mounts with.                                                         *)
LEMMA TryEffect ==
  ASSUME IInv, Try
  PROVE  /\ Head(types) \in FsType /\ Tail(types) \in Seq(FsType)
         /\ mount_options' \in OptSets /\ OptionsFor(Head(types)) \in OptSets
         /\ IF read_only THEN mount_options' # None /\ "ro" \in mount_options'
            ELSE \/ mount_options' = None
                 \/ "ro" \notin mount_options' /\ NoCd(mount_types) /\ NoCd(Tail(types))
         /\ (OptionsFor(Head(types)) # None /\ "ro" \in OptionsFor(Head(types)))
              <=> (read_only \/ Head(types) = "iso9660")
<1> USE MountingAssumption
<1> DEFINE fs == Head(types)
<1>1. types \in Seq(FsType) /\ types # <<>> /\ mount_options \in OptSets
  BY DEF IInv, TypeOK, Try
<1>2. fs \in FsType /\ Tail(types) \in Seq(FsType) /\ fs = types[1] /\ 1 \in DOMAIN types
  BY <1>1
<1>3. ASSUME NoCd(types) PROVE NoCd(Tail(types)) /\ fs # "iso9660"
  BY <1>1, <1>2, <1>3 DEF NoCd
<1>4. OptionsFor(fs) \in OptSets
  BY <1>1 DEF OptionsFor, OptSets
<1>5. None \notin SUBSET {"ro", "tcp"}
  OBVIOUS
<1>6. (OptionsFor(fs) # None /\ "ro" \in OptionsFor(fs)) <=> (read_only \/ fs = "iso9660")
  <2>1. CASE read_only
    BY <2>1, <1>1, <1>5 DEF IInv, ModeKept, OptionsFor, OptSets
  <2>2. CASE ~read_only /\ mount_options = None
    BY <2>2, <1>5 DEF OptionsFor
  <2>3. CASE ~read_only /\ mount_options # None
    BY <2>3, <1>3 DEF IInv, ModeKept, OptionsFor
  <2> QED BY <2>1, <2>2, <2>3
<1>7. mount_options' = IF mount_options = None THEN None ELSE OptionsFor(fs)
  BY DEF Try
<1>8. mount_options' \in OptSets
  BY <1>4, <1>7 DEF OptSets
<1>9. CASE read_only
  BY <1>9, <1>2, <1>4, <1>6, <1>7, <1>8 DEF IInv, ModeKept
<1>10. CASE ~read_only
  <2>1. \/ mount_options' = None
        \/ "ro" \notin mount_options' /\ NoCd(mount_types) /\ NoCd(Tail(types))
    BY <1>10, <1>3, <1>6, <1>7 DEF IInv, ModeKept, OptionsFor
  <2> QED BY <2>1, <1>2, <1>4, <1>6, <1>8, <1>10
<1> QED BY <1>9, <1>10

LEMMA MountOkInv == ASSUME IInv, MountOk PROVE IInv'
<1> DEFINE new == [fs |-> Head(types), opts |-> OptionsFor(Head(types))]
<1>1. Try
  BY DEF MountOk
<1>2. new \in [fs : FsType, opts : OptSets]
  BY <1>1, TryEffect
<1>3. /\ location \in Dir /\ location \in dirs /\ start_count = 0
      /\ location \notin DOMAIN mounts
  BY <1>1 DEF IInv, TypeOK, Counted, Try
<1>4. /\ DOMAIN mounts' = DOMAIN mounts \cup {location}
      /\ mounts'[location] = new
      /\ \A d \in DOMAIN mounts : mounts'[d] = mounts[d]
  BY <1>3 DEF MountOk
<1>5. types' = <<>> /\ types' \in Seq(FsType) /\ NoCd(types')
  BY DEF MountOk, NoCd
<1>6. TypeOK'
  BY MountingAssumption, <1>1, <1>2, <1>3, <1>4, <1>5, TryEffect DEF IInv, TypeOK, MountOk, config
<1>7. Counted' /\ Tidy'
  BY <1>3, <1>4 DEF IInv, Counted, Tidy, MountOk, Try
<1>8. ModeKept'
  BY <1>1, <1>5, TryEffect DEF ModeKept, MountOk, config, NoCd
<1>9. ReadOnlyAsAsked'
  <2>1. read_only' = read_only
    BY DEF MountOk, config
  <2>2. ASSUME NEW d \in DOMAIN mounts'
        PROVE (mounts'[d].opts # None /\ "ro" \in mounts'[d].opts)
                <=> (read_only \/ mounts'[d].fs = "iso9660")
    <3>1. CASE d = location
      BY <3>1, <1>1, <1>4, TryEffect
    <3>2. CASE d # location
      BY <3>2, <2>2, <1>4 DEF IInv, ReadOnlyAsAsked
    <3> QED BY <3>1, <3>2
  <2> QED BY <2>1, <2>2 DEF ReadOnlyAsAsked
<1> QED BY <1>6, <1>7, <1>8, <1>9 DEF IInv

LEMMA MountFailsInv == ASSUME IInv, MountFails PROVE IInv'
<1>1. Try /\ types' = Tail(types) /\ UNCHANGED <<config, location, start_count, pc, files, stuck>>
  BY DEF MountFails
<1>2. TypeOK'
  BY <1>1, TryEffect DEF IInv, TypeOK, config, files
<1>3. Counted' /\ Tidy' /\ ReadOnlyAsAsked'
  BY <1>1 DEF IInv, Counted, Tidy, ReadOnlyAsAsked, config, files
<1>4. ModeKept'
  BY <1>1, TryEffect DEF ModeKept, config, NoCd
<1> QED BY <1>2, <1>3, <1>4 DEF IInv

(* The steps that unmount, by finish() or in __del__. *)
LEMMA UnmountInv ==
  ASSUME IInv, pc = "idle", start_count > 0, location \notin busy,
         start_count' = 0, pc' \in {"idle", "gone"}, location' = None,
         mounts' = [d \in DOMAIN mounts \ {location} |-> mounts[d]],
         dirs' = dirs \ {location},
         UNCHANGED <<config, mount_options, types, busy, stuck>>
  PROVE  IInv'
<1>1. /\ DOMAIN mounts' = DOMAIN mounts \ {location}
      /\ \A d \in DOMAIN mounts' : mounts'[d] = mounts[d]
  OBVIOUS
<1>2. TypeOK'
  BY MountingAssumption, <1>1 DEF IInv, TypeOK, Counted, config
<1>3. Counted' /\ Tidy'
  BY <1>1 DEF IInv, Counted, Tidy
<1>4. ModeKept' /\ ReadOnlyAsAsked'
  BY <1>1 DEF IInv, ModeKept, ReadOnlyAsAsked, NoCd, config
<1> QED BY <1>2, <1>3, <1>4 DEF IInv

(* The steps that do not touch the mounts. *)
LEMMA OtherStepsInv ==
  ASSUME IInv,
         \/ StartFirst \/ StartFails \/ StartAgain \/ FinishOne \/ FinishFails
         \/ Open \/ \E d \in busy : CloseAll(d)
  PROVE  IInv'
<1>1. mounts' = mounts /\ read_only' = read_only
  BY DEF StartFirst, StartFails, StartAgain, FinishOne, FinishFails, Open, CloseAll, files, config
<1>2. ReadOnlyAsAsked'
  BY <1>1 DEF IInv, ReadOnlyAsAsked
<1>3. CASE StartFirst
  <2>1. TypeOK'
    BY <1>3 DEF StartFirst, IInv, TypeOK, config
  <2>2. Counted' /\ Tidy'
    BY <1>3 DEF StartFirst, IInv, TypeOK, Counted, Tidy
  <2>3. ModeKept'
    BY <1>3 DEF StartFirst, IInv, ModeKept, NoCd, config
  <2> QED BY <2>1, <2>2, <2>3, <1>2 DEF IInv
<1>4. CASE StartFails
  <2>1. TypeOK'
    BY <1>4 DEF StartFails, IInv, TypeOK, Counted, config
  <2>2. Counted' /\ Tidy'
    BY <1>4 DEF StartFails, IInv, TypeOK, Counted, Tidy
  <2>3. ModeKept'
    BY <1>4 DEF StartFails, IInv, ModeKept, NoCd, config
  <2> QED BY <2>1, <2>2, <2>3, <1>2 DEF IInv
<1>5. CASE StartAgain \/ FinishOne
  <2>1. TypeOK'
    BY MountingAssumption, <1>5 DEF StartAgain, FinishOne, IInv, TypeOK, config, files
  <2>2. Counted' /\ Tidy' /\ ModeKept'
    BY <1>5 DEF StartAgain, FinishOne, IInv, TypeOK, Counted, Tidy, ModeKept, NoCd, config, files
  <2> QED BY <2>1, <2>2, <1>2 DEF IInv
<1>6. CASE FinishFails
  BY MountingAssumption, <1>6, <1>2 DEF FinishFails, IInv, TypeOK, Counted, Tidy, ModeKept, NoCd, config, files
<1>7. CASE Open \/ \E d \in busy : CloseAll(d)
  <2>1. busy' \subseteq busy \cup DOMAIN mounts
    BY <1>7 DEF Open, CloseAll, IInv, Counted
  <2> QED BY <1>7, <2>1, <1>2 DEF Open, CloseAll, IInv, TypeOK, Counted, Tidy, ModeKept, NoCd, config
<1> QED BY <1>3, <1>4, <1>5, <1>6, <1>7

LEMMA NextInv == IInv /\ [Next]_vars => IInv'
<1> SUFFICES ASSUME IInv, [Next]_vars PROVE IInv'
  OBVIOUS
<1>1. CASE MountOk
  BY <1>1, MountOkInv
<1>2. CASE MountFails
  BY <1>2, MountFailsInv
<1>3. CASE FinishLast
  BY <1>3, UnmountInv DEF FinishLast
<1>4. CASE Del
  <2>1. CASE location \notin busy /\ location' = None /\ UNCHANGED stuck
             /\ mounts' = [d \in DOMAIN mounts \ {location} |-> mounts[d]]
             /\ dirs' = dirs \ {location}
    BY <1>4, <2>1, UnmountInv DEF Del
  <2>2. CASE stuck' = TRUE /\ UNCHANGED <<mounts, dirs, location>>
    BY MountingAssumption, <1>4, <2>2
    DEF Del, IInv, TypeOK, Counted, Tidy, ModeKept, NoCd, ReadOnlyAsAsked, config
  <2> QED BY <1>4, <2>1, <2>2 DEF Del
<1>5. CASE \/ StartFirst \/ StartFails \/ StartAgain \/ FinishOne \/ FinishFails
           \/ Open \/ \E d \in busy : CloseAll(d)
  BY <1>5, OtherStepsInv
<1>6. CASE UNCHANGED vars
  BY <1>6 DEF vars, config, files, IInv, TypeOK, Counted, Tidy, ModeKept, NoCd, ReadOnlyAsAsked
<1> QED BY <1>1, <1>2, <1>3, <1>4, <1>5, <1>6 DEF Next

LEMMA Invariance == Spec => []IInv
BY InitInv, NextInv, PTL DEF Spec

-----------------------------------------------------------------------------

(* Every step of a look for repositories, and of the program around it, is *)
(* one of the accessor's or leaves the accessor alone: the methods of      *)
(* repository.py use it by its interface only.                             *)
LEMMA LookStep == [RepNext]_repVars => [Next]_vars
<1> SUFFICES ASSUME RepNext PROVE Next \/ UNCHANGED vars
  BY DEF repVars
<1>1. CASE \E o \in {"find", "repover", "product"} : Begin(o)
  BY <1>1 DEF Begin
<1>2. CASE LibStart \/ OwnStart
  BY <1>2 DEF LibStart, OwnStart, Next
<1>3. CASE LibFinish \/ OwnFinish
  BY <1>3 DEF LibFinish, OwnFinish, Next
<1>4. CASE LookForYum \/ Treeinfo \/ ReadList \/ Extra
  BY <1>4 DEF LookForYum, Treeinfo, ReadList, Extra
<1>5. CASE \E l \in Range(Known) : Parse(l)
  BY <1>5 DEF Parse
<1>6. CASE OwnFiles \/ Drop
  BY <1>6 DEF OwnFiles, Drop, Next
<1> QED BY <1>1, <1>2, <1>3, <1>4, <1>5, <1>6 DEF RepNext

(* Repository uses the accessor as MountingAccessor lets it be used.       *)
THEOREM LooksUseAccessor == RepSpec => Spec
<1>1. RepInit => Init
  BY DEF RepInit
<1> QED BY <1>1, LookStep, PTL DEF RepSpec, Spec

(* Between a start() that returned and its finish() the medium is mounted  *)
(* where location says, whatever failed before: nested users of            *)
(* MountingAccessor, and those of Repository, never find it gone.          *)
THEOREM AlwaysMounted == Spec => []MountedWhileStarted
<1>1. IInv => MountedWhileStarted
  BY DEF IInv, Counted, MountedWhileStarted
<1> QED BY <1>1, Invariance, PTL

(* An accessor nobody uses leaves neither a mount nor a directory, unless a*)
(* umount failed, whatever sequence of start()s, failures and finish()es   *)
(* came before; and it never covers a mount of its own by a second one.    *)
THEOREM NothingIsLeft == Spec => []NothingLeft
<1>1. IInv => NothingLeft
  BY DEF IInv, TypeOK, Tidy, NothingLeft
<1> QED BY <1>1, Invariance, PTL

(* The options a mount is made with are read-only exactly if the accessor  *)
(* was made so or the medium is a CD, though start() appends to the list   *)
(* of options at every attempt.                                            *)
THEOREM MountedAsAsked == Spec => []ReadOnlyAsAsked
<1>1. IInv => ReadOnlyAsAsked
  BY DEF IInv
<1> QED BY <1>1, Invariance, PTL

(* The three for an accessor that looks for repositories.                  *)
THEOREM LooksKeepMounts ==
  RepSpec => [](MountedWhileStarted /\ NothingLeft /\ ReadOnlyAsAsked)
BY LooksUseAccessor, AlwaysMounted, NothingIsLeft, MountedAsAsked, PTL

-----------------------------------------------------------------------------
(* The looks.  start_count is the program's own starts and those of the    *)
(* look that are not finished, how many of which there are follows from    *)
(* what is left of the script; an exception loses them, but takes none of  *)
(* the program's.  What has been found follows from that, too.             *)

Listing == INSTANCE DynamicProofs WITH
  Entry <- {}, Lists <- {}, Files <- {}, MaxList <- 0,
  file <- 0, lastboot <- 0, old <- 0, saving <- 0, result <- 0, kept <- 0

L == Len(Present)
After(s, n) == SubSeq(s, n + 1, Len(s))
Word == Range(Known) \cup {"start", "finish", "isyum", "treeinfo", "list", "extra", "yum"}

(* d starts of the look are not finished.                                  *)
Held(d) == own + d <= start_count /\ (~Broken => start_count = own + d)

(* n elements of the script are done, with k repositories read.            *)
AtXs(n, k, d) ==
  /\ script = After(XsFind, n)
  /\ repos = Yum \o [i \in 1 .. k |-> Present[i]]
  /\ Held(d)

InYum ==
  /\ op \in {"find", "repover", "product"}
  /\ \/ script = <<"start", "isyum", "finish">> /\ repos = <<>> /\ Held(0)
     \/ script = <<"isyum", "finish">> /\ repos = <<>> /\ Held(1)
     \/ script = <<"finish">> /\ repos = (IF op = "find" THEN Yum ELSE <<>>) /\ Held(1)

InVersion ==
  /\ op \in {"repover", "product"} /\ IsYum
  /\ \/ script = <<"start", "treeinfo", "finish">> /\ Held(0)
     \/ script = <<"treeinfo", "finish">> /\ Held(1)
     \/ script = <<"finish">> /\ repos = <<"yum">> /\ Held(1)

InXs ==
  /\ op = "find" \/ (op = "repover" /\ ~IsYum)
  /\ \/ AtXs(0, 0, 0) \/ AtXs(1, 0, 1)
     \/ \E k \in 0 .. L : AtXs(3 * k + 2, k, 1)
     \/ \E k \in 1 .. L : AtXs(3 * k, k - 1, 2) \/ AtXs(3 * k + 1, k, 2)

InLook ==
  \/ phase = "none" /\ op = "none" /\ script = <<>> /\ Held(0)
  \/ phase = "yum" /\ pc # "gone" /\ InYum
  \/ phase = "version" /\ pc # "gone" /\ InVersion
  \/ phase = "xs" /\ pc # "gone" /\ InXs

LookInv == IInv /\ medium \in Media /\ own \in Nat /\ InLook /\ FindsAllOrYum

-----------------------------------------------------------------------------
(* The script of findRepositories(). *)

LEMMA PresentIs ==
  ASSUME medium \in Media
  PROVE  /\ Present \in Seq(Range(Known)) /\ L \in Nat /\ DOMAIN Present = 1 .. L
         /\ \A i \in 1 .. L : Present[i] \in Range(Known) /\ medium.at[Present[i]] # "none"
<1> DEFINE I == {i \in DOMAIN Known : medium.at[Known[i]] # "none"}
<1>1. Known \in Seq(Range(Known))
  BY RepositoryAssumption DEF Range
<1>2. Present = Listing!Those(Known, I)
  <2>1. \A J : Cardinality(J) = Listing!Cardinality(J)
    BY DEF Cardinality, Listing!Cardinality, IsFiniteSet, Listing!IsFiniteSet
  <2>2. \A J, n : Nth(J, n) = Listing!Nth(J, n)
    BY <2>1 DEF Nth, Listing!Nth
  <2> QED BY <2>1, <2>2 DEF Present, Those, Listing!Those
<1>3. I \subseteq DOMAIN Known
  OBVIOUS
<1> HIDE DEF I
<1>4. /\ Listing!Those(Known, I) \in Seq(Range(Known))
      /\ \A n \in DOMAIN Listing!Those(Known, I) :
           Listing!Nth(I, n) \in I /\ Listing!Those(Known, I)[n] = Known[Listing!Nth(I, n)]
  BY <1>1, <1>3, Listing!ThoseAre
<1>5. \A i \in I : medium.at[Known[i]] # "none"
  BY DEF I
<1> QED BY <1>1, <1>2, <1>4, <1>5 DEF L

LEMMA ReadsAre ==
  ASSUME medium \in Media
  PROVE  /\ Reads \in Seq(Word) /\ Len(Reads) = 3 * L
         /\ \A k \in 1 .. L : /\ Reads[3 * k - 2] = "start"
                              /\ Reads[3 * k - 1] = Present[k]
                              /\ Reads[3 * k] = "finish"
<1>0. L \in Nat /\ \A i \in 1 .. L : Present[i] \in Word
  BY PresentIs DEF Word
<1> DEFINE R(j) == IF j % 3 = 1 THEN "start" ELSE IF j % 3 = 2 THEN Present[(j + 1) \div 3] ELSE "finish"
<1>1. Reads = [j \in 1 .. 3 * L |-> R(j)]
  BY DEF Reads, L
<1>2. ASSUME NEW j \in 1 .. 3 * L PROVE R(j) \in Word
  <2>1. j % 3 = 0 \/ j % 3 = 1 \/ j % 3 = 2
    BY <1>0
  <2>2. j % 3 = 2 => (j + 1) \div 3 \in 1 .. L
    BY <1>0
  <2>3. "start" \in Word /\ "finish" \in Word
    BY DEF Word
  <2> QED BY <1>0, <2>1, <2>2, <2>3
<1>3. ASSUME NEW k \in 1 .. L
      PROVE  /\ R(3 * k - 2) = "start" /\ R(3 * k - 1) = Present[k] /\ R(3 * k) = "finish"
             /\ 3 * k - 2 \in 1 .. 3 * L /\ 3 * k - 1 \in 1 .. 3 * L /\ 3 * k \in 1 .. 3 * L
  <2>1. (3 * k - 2) % 3 = 1 /\ (3 * k - 1) % 3 = 2 /\ (3 * k) % 3 = 0 /\ (3 * k - 1 + 1) \div 3 = k
    BY <1>0
  <2>2. 3 * k - 2 \in 1 .. 3 * L /\ 3 * k - 1 \in 1 .. 3 * L /\ 3 * k \in 1 .. 3 * L
    BY <1>0
  <2> QED BY <2>1, <2>2
<1> HIDE DEF R
<1>4. Reads \in Seq(Word) /\ Len(Reads) = 3 * L
  BY <1>0, <1>1, <1>2
<1>5. \A k \in 1 .. L : Reads[3 * k - 2] = R(3 * k - 2) /\ Reads[3 * k - 1] = R(3 * k - 1) /\ Reads[3 * k] = R(3 * k)
  BY <1>1, <1>3
<1> QED BY <1>3, <1>4, <1>5

LEMMA ShortLists ==
  ASSUME NEW S, NEW a \in S, NEW b \in S
  PROVE  /\ <<>> \in Seq(S) /\ Len(<<>>) = 0
         /\ <<a>> \in Seq(S) /\ Len(<<a>>) = 1 /\ <<a>>[1] = a
         /\ <<a, b>> \in Seq(S) /\ Len(<<a, b>>) = 2 /\ <<a, b>>[1] = a /\ <<a, b>>[2] = b
OBVIOUS

LEMMA XsFindIs ==
  ASSUME medium \in Media
  PROVE  /\ XsFind \in Seq(Word)
         /\ Len(XsFind) = 3 * L + (IF medium.list = "names" THEN 4 ELSE 3)
         /\ XsFind[1] = "start" /\ XsFind[2] = "list"
         /\ \A k \in 1 .. L : /\ XsFind[3 * k] = "start"
                              /\ XsFind[3 * k + 1] = Present[k]
                              /\ XsFind[3 * k + 2] = "finish"
         /\ XsFind[3 * L + 3] = (IF medium.list = "names" THEN "extra" ELSE "finish")
<1> DEFINE H == <<"start", "list">>
           E == IF medium.list = "names" THEN <<"extra">> ELSE <<>>
           F == <<"finish">>
           e == IF medium.list = "names" THEN 1 ELSE 0
<1>0. L \in Nat /\ Reads \in Seq(Word) /\ Len(Reads) = 3 * L /\ e \in 0 .. 1
  BY PresentIs, ReadsAre
<1>1. "start" \in Word /\ "list" \in Word /\ "extra" \in Word /\ "finish" \in Word
  BY DEF Word
<1>2. H \in Seq(Word) /\ Len(H) = 2 /\ H[1] = "start" /\ H[2] = "list"
  BY <1>1, ShortLists
<1>3. F \in Seq(Word) /\ Len(F) = 1 /\ F[1] = "finish"
  BY <1>1, ShortLists
<1>4. E \in Seq(Word) /\ Len(E) = e /\ (medium.list = "names" => E[1] = "extra")
  <2>1. <<"extra">> \in Seq(Word) /\ Len(<<"extra">>) = 1 /\ <<"extra">>[1] = "extra"
        /\ <<>> \in Seq(Word) /\ Len(<<>>) = 0
    BY <1>1, ShortLists
  <2> QED BY <2>1
<1>5. XsFind = ((H \o Reads) \o E) \o F
  BY DEF XsFind
<1> HIDE DEF H, E, F
<1>6. H \o Reads \in Seq(Word) /\ Len(H \o Reads) = 2 + 3 * L
      /\ (H \o Reads)[1] = "start" /\ (H \o Reads)[2] = "list"
      /\ \A i \in 1 .. 3 * L : (H \o Reads)[i + 2] = Reads[i]
  <2>1. /\ H \o Reads \in Seq(Word) /\ Len(H \o Reads) = Len(H) + Len(Reads)
        /\ \A i \in 1 .. Len(H) + Len(Reads) :
             (H \o Reads)[i] = IF i <= Len(H) THEN H[i] ELSE Reads[i - Len(H)]
    BY <1>0, <1>2, ConcatProperties
  <2>2. \A i \in 1 .. 3 * L : i + 2 \in 1 .. 2 + 3 * L /\ ~(i + 2 <= 2) /\ (i + 2) - 2 = i
    BY <1>0
  <2>3. 1 \in 1 .. 2 + 3 * L /\ 2 \in 1 .. 2 + 3 * L /\ 1 <= 2 /\ 2 <= 2
    BY <1>0
  <2> QED BY <1>0, <1>2, <2>1, <2>2, <2>3
<1> DEFINE A == H \o Reads
           B == A \o E
<1> HIDE DEF A, B
<1>7. B \in Seq(Word) /\ Len(B) = 2 + 3 * L + e
      /\ (\A i \in 1 .. 2 + 3 * L : B[i] = A[i])
      /\ (medium.list = "names" => B[3 * L + 3] = "extra")
  <2>0. A \in Seq(Word) /\ Len(A) = 2 + 3 * L
    BY <1>6 DEF A
  <2>1. /\ B \in Seq(Word) /\ Len(B) = Len(A) + Len(E)
        /\ \A i \in 1 .. Len(A) + Len(E) : B[i] = IF i <= Len(A) THEN A[i] ELSE E[i - Len(A)]
    BY <2>0, <1>4, ConcatProperties DEF B
  <2>2. \A i \in 1 .. 2 + 3 * L : i \in 1 .. 2 + 3 * L + e /\ i <= 2 + 3 * L
    BY <1>0
  <2>3. e = 1 => /\ 3 * L + 3 \in 1 .. 2 + 3 * L + e /\ ~(3 * L + 3 <= 2 + 3 * L)
                 /\ (3 * L + 3) - (2 + 3 * L) = 1
    BY <1>0
  <2> QED BY <1>4, <2>0, <2>1, <2>2, <2>3
<1>8. /\ XsFind \in Seq(Word) /\ Len(XsFind) = 3 + 3 * L + e
      /\ \A i \in 1 .. 2 + 3 * L : XsFind[i] = A[i]
      /\ XsFind[3 * L + 3] = (IF medium.list = "names" THEN "extra" ELSE "finish")
  <2>0. XsFind = B \o F
    BY <1>5 DEF A, B
  <2>1. /\ B \o F \in Seq(Word) /\ Len(B \o F) = Len(B) + Len(F)
        /\ \A i \in 1 .. Len(B) + Len(F) : (B \o F)[i] = IF i <= Len(B) THEN B[i] ELSE F[i - Len(B)]
    BY <1>3, <1>7, ConcatProperties
  <2>2. Len(B) + Len(F) = 3 + 3 * L + e
    BY <1>0, <1>3, <1>7
  <2>3. \A i \in 1 .. 2 + 3 * L : i \in 1 .. 3 + 3 * L + e /\ i <= 2 + 3 * L + e
    BY <1>0
  <2>4. 3 * L + 3 \in 1 .. 3 + 3 * L + e
    BY <1>0
  <2>5. e = 1 => 3 * L + 3 <= 2 + 3 * L + e
    BY <1>0
  <2>6. e = 0 => ~(3 * L + 3 <= 2 + 3 * L + e) /\ (3 * L + 3) - (2 + 3 * L + e) = 1
    BY <1>0
  <2>7. \A i \in 1 .. 2 + 3 * L : XsFind[i] = A[i]
    BY <1>7, <2>0, <2>1, <2>2, <2>3
  <2>8. XsFind[3 * L + 3] = (IF medium.list = "names" THEN "extra" ELSE "finish")
    <3>1. CASE e = 1
      BY <3>1, <1>7, <2>0, <2>1, <2>2, <2>4, <2>5
    <3>2. CASE e = 0
      BY <3>2, <1>3, <1>7, <2>0, <2>1, <2>2, <2>4, <2>6
    <3> QED BY <3>1, <3>2
  <2> QED BY <2>0, <2>1, <2>2, <2>7, <2>8
<1>9. ASSUME NEW k \in 1 .. L
      PROVE  XsFind[3 * k] = Reads[3 * k - 2] /\ XsFind[3 * k + 1] = Reads[3 * k - 1] /\ XsFind[3 * k + 2] = Reads[3 * k]
  <2>1. /\ 3 * k - 2 \in 1 .. 3 * L /\ 3 * k - 1 \in 1 .. 3 * L /\ 3 * k \in 1 .. 3 * L
        /\ (3 * k - 2) + 2 = 3 * k /\ (3 * k - 1) + 2 = 3 * k + 1
        /\ 3 * k \in 1 .. 2 + 3 * L /\ 3 * k + 1 \in 1 .. 2 + 3 * L /\ 3 * k + 2 \in 1 .. 2 + 3 * L
    BY <1>0
  <2>2. \A i \in 1 .. 3 * L : A[i + 2] = Reads[i]
    BY <1>6 DEF A
  <2>3. A[3 * k] = Reads[3 * k - 2]
    BY <2>1, <2>2
  <2>4. A[3 * k + 1] = Reads[3 * k - 1]
    BY <2>1, <2>2
  <2> QED BY <1>8, <2>1, <2>2, <2>3, <2>4
<1>10. XsFind[1] = "start" /\ XsFind[2] = "list"
  <2>1. 1 \in 1 .. 2 + 3 * L /\ 2 \in 1 .. 2 + 3 * L
    BY <1>0
  <2> QED BY <1>6, <1>8, <2>1 DEF A
<1>11. Len(XsFind) = 3 * L + (IF medium.list = "names" THEN 4 ELSE 3)
  BY <1>0, <1>8
<1> QED BY <1>8, <1>9, <1>10, <1>11, ReadsAre

(* What is left of a script.                                               *)
LEMMA AfterIs ==
  ASSUME NEW s \in Seq(Word), NEW n \in 0 .. Len(s) - 1
  PROVE  /\ After(s, n) # <<>> /\ Len(After(s, n)) = Len(s) - n
         /\ Head(After(s, n)) = s[n + 1]
         /\ Tail(After(s, n)) = After(s, n + 1)
         /\ After(s, 0) = s
<1>1. Len(s) \in Nat /\ n + 1 \in 1 .. Len(s) /\ Len(s) \in n + 1 .. Len(s)
  OBVIOUS
<1>2. Head(After(s, n)) = s[n + 1] /\ Tail(After(s, n)) = SubSeq(s, n + 1 + 1, Len(s))
  BY <1>1, HeadTailOfSubSeq DEF After
<1>3. After(s, n) \in Seq(Word) /\ Len(After(s, n)) = Len(s) - n
  BY <1>1 DEF After
<1>4. After(s, n) # <<>>
  BY <1>1, <1>3
<1>5. After(s, 0) = s
  BY <1>1 DEF After
<1> QED BY <1>1, <1>2, <1>3, <1>4, <1>5 DEF After

-----------------------------------------------------------------------------
(* Where a look is, and what its next step does. *)

LEMMA SameMedium ==
  ASSUME medium' = medium
  PROVE  /\ Present' = Present /\ L' = L /\ XsFind' = XsFind /\ Yum' = Yum /\ IsYum' = IsYum
         /\ Broken' = Broken /\ Mains(Present)' = Mains(Present)
<1>1. Present' = Present
  BY DEF Present, Those, Nth
<1>2. Reads' = Reads /\ L' = L
  BY <1>1 DEF Reads, L
<1>3. XsFind' = XsFind
  BY <1>2 DEF XsFind
<1>4. Mains(Present)' = Mains(Present)
  BY <1>1 DEF Mains, Those, Nth
<1> QED BY <1>1, <1>2, <1>3, <1>4 DEF Yum, IsYum, Broken

(* The lists of what has been found.                                       *)
LEMMA Founds ==
  ASSUME medium \in Media
  PROVE  /\ Yum \o [i \in 1 .. 0 |-> Present[i]] = Yum
         /\ [i \in 1 .. L |-> Present[i]] = Present
         /\ \A k \in 1 .. L :
              Append(Yum \o [i \in 1 .. k - 1 |-> Present[i]], Present[k]) = Yum \o [i \in 1 .. k |-> Present[i]]
         /\ \A k \in 0 .. L : YumsOf(Yum \o [i \in 1 .. k |-> Present[i]]) = Yum
         /\ ~IsYum => Yum = <<>> /\ Yum \o Present = Present
         /\ IsYum => Yum = <<"yum">>
<1> DEFINE F(k) == [i \in 1 .. k |-> Present[i]]
           y == IF IsYum THEN 1 ELSE 0
<1>0. /\ Present \in Seq(Word) /\ L \in Nat /\ DOMAIN Present = 1 .. L
      /\ \A i \in 1 .. L : Present[i] \in Word /\ Present[i] # "yum"
  BY PresentIs, RepositoryAssumption DEF Word
<1>1. Yum \in Seq(Word) /\ Len(Yum) = y /\ y \in 0 .. 1 /\ (IsYum => Yum[1] = "yum") /\ (~IsYum => Yum = <<>>)
  <2>1. "yum" \in Word
    BY DEF Word
  <2> QED BY <2>1, ShortLists DEF Yum
<1>2. \A k \in 0 .. L : F(k) \in Seq(Word) /\ Len(F(k)) = k
  BY <1>0
<1>3. F(0) = <<>> /\ F(L) = Present
  BY <1>0
<1>4. ASSUME NEW k \in 0 .. L
      PROVE  /\ Yum \o F(k) \in Seq(Word) /\ Len(Yum \o F(k)) = y + k
             /\ \A i \in 1 .. y + k : (Yum \o F(k))[i] = IF i <= y THEN "yum" ELSE Present[i - y]
  <2> HIDE DEF F
  <2>0. Yum \in Seq(Word) /\ F(k) \in Seq(Word)
    BY <1>1, <1>2
  <2>1. /\ Yum \o F(k) \in Seq(Word) /\ Len(Yum \o F(k)) = Len(Yum) + Len(F(k))
        /\ \A i \in 1 .. Len(Yum) + Len(F(k)) :
             (Yum \o F(k))[i] = IF i <= Len(Yum) THEN Yum[i] ELSE F(k)[i - Len(Yum)]
    BY <2>0, ConcatProperties
  <2>2. \A i \in 1 .. y + k : IF i <= y THEN i = 1 /\ IsYum ELSE i - y \in 1 .. k
    BY <1>1
  <2>3. \A i \in 1 .. k : F(k)[i] = Present[i]
    BY DEF F
  <2> QED BY <1>1, <1>2, <2>1, <2>2, <2>3
<1>5. ASSUME NEW k \in 1 .. L PROVE Append(Yum \o F(k - 1), Present[k]) = Yum \o F(k)
  <2> DEFINE s == Yum \o F(k - 1)
             t == Yum \o F(k)
  <2>0. k - 1 \in 0 .. L /\ k \in 0 .. L /\ k \in Nat
    BY <1>0
  <2>1. /\ s \in Seq(Word) /\ Len(s) = y + k - 1 /\ Present[k] \in Word
        /\ \A i \in 1 .. y + k - 1 : s[i] = IF i <= y THEN "yum" ELSE Present[i - y]
    <3>1. y + (k - 1) = y + k - 1
      BY <1>1, <2>0
    <3> HIDE DEF F, y
    <3> QED BY <1>0, <1>4, <2>0, <3>1
  <2>2. /\ t \in Seq(Word) /\ Len(t) = y + k
        /\ \A i \in 1 .. y + k : t[i] = IF i <= y THEN "yum" ELSE Present[i - y]
    <3> HIDE DEF F, y
    <3> QED BY <1>4, <2>0
  <2> HIDE DEF s, t, F
  <2>3. /\ Append(s, Present[k]) \in Seq(Word) /\ Len(Append(s, Present[k])) = y + k
        /\ \A i \in 1 .. y + k - 1 : Append(s, Present[k])[i] = s[i]
        /\ Append(s, Present[k])[y + k] = Present[k]
    BY <1>1, <2>0, <2>1
  <2>4. ~(y + k <= y) /\ (y + k) - y = k /\ y + k \in 1 .. y + k
        /\ \A i \in 1 .. y + k : i = y + k \/ i \in 1 .. y + k - 1
    BY <1>1, <2>0
  <2>5. \A i \in 1 .. y + k : Append(s, Present[k])[i] = t[i]
    <3> HIDE DEF y
    <3> QED BY <2>1, <2>2, <2>3, <2>4
  <2>6. Append(s, Present[k]) = t
    BY <2>2, <2>3, <2>5, SeqEqual
  <2> QED BY <2>6 DEF s, t
<1>6. ASSUME NEW k \in 0 .. L PROVE YumsOf(Yum \o F(k)) = Yum
  <2> DEFINE s == Yum \o F(k)
  <2>1. s \in Seq(Word) /\ Len(s) = y + k /\ \A i \in 1 .. y + k : s[i] = IF i <= y THEN "yum" ELSE Present[i - y]
    BY <1>4
  <2> HIDE DEF s
  <2>2. CASE s = <<>>
    <3>1. y + k = 0 /\ y = 0
      BY <1>1, <2>1, <2>2
    <3> QED BY <1>1, <2>2, <3>1 DEF YumsOf, s
  <2>3. CASE s # <<>>
    <3>1. Head(s) = s[1] /\ 1 \in 1 .. y + k
      BY <1>1, <2>1, <2>3
    <3>2. CASE IsYum
      <4>1. Head(s) = "yum" /\ Yum = <<"yum">>
        BY <2>1, <3>1, <3>2 DEF Yum
      <4> QED BY <2>3, <4>1 DEF YumsOf, s
    <3>3. CASE ~IsYum
      <4>1. y = 0 /\ 1 - y \in 1 .. L
        BY <1>0, <3>1, <3>3
      <4>2. Head(s) # "yum"
        BY <1>0, <2>1, <3>1, <4>1
      <4> QED BY <1>1, <3>3, <4>2 DEF YumsOf, s
    <3> QED BY <3>2, <3>3
  <2> QED BY <2>2, <2>3
<1>7. ~IsYum => Yum \o Present = Present
  BY <1>0, <1>1
<1>8. Yum \o F(0) = Yum
  BY <1>1, <1>3
<1> HIDE DEF F
<1>9. IsYum => Yum = <<"yum">>
  BY DEF Yum
<1> QED BY <1>1, <1>3, <1>5, <1>6, <1>7, <1>8, <1>9 DEF F

(* What a look comes to next, by where it is.                              *)
LEMMA XsHeads ==
  ASSUME medium \in Media, InXs
  PROVE  \/ Head(script) = "start" /\ (AtXs(0, 0, 0) \/ \E k \in 0 .. L - 1 : AtXs(3 * k + 2, k, 1))
         \/ Head(script) = "list" /\ AtXs(1, 0, 1)
         \/ \E k \in 1 .. L : Head(script) = Present[k] /\ AtXs(3 * k, k - 1, 2)
         \/ \E k \in 1 .. L : Head(script) = "finish" /\ AtXs(3 * k + 1, k, 2)
         \/ Head(script) = "finish" /\ AtXs(3 * L + 2, L, 1) /\ medium.list # "names"
         \/ Head(script) = "extra" /\ AtXs(3 * L + 2, L, 1) /\ medium.list = "names"
<1> DEFINE N == Len(XsFind)
<1>0. L \in Nat /\ XsFind \in Seq(Word) /\ N \in Nat /\ N >= 3 * L + 3
  BY PresentIs, XsFindIs
<1>1. \A n \in 0 .. 3 * L + 2 : n \in 0 .. N - 1
  BY <1>0
<1> HIDE DEF N
<1>2. \A n \in 0 .. 3 * L + 2 : script = After(XsFind, n) => Head(script) = XsFind[n + 1]
  BY <1>0, <1>1, AfterIs DEF N
<1>3. CASE AtXs(0, 0, 0)
  <2>1. 0 \in 0 .. 3 * L + 2 /\ 0 + 1 = 1
    BY <1>0
  <2>2. Head(script) = "start"
    BY <1>2, <1>3, <2>1, XsFindIs DEF AtXs
  <2> QED BY <1>3, <2>2
<1>4. CASE AtXs(1, 0, 1)
  <2>1. 1 \in 0 .. 3 * L + 2 /\ 1 + 1 = 2
    BY <1>0
  <2>2. Head(script) = "list"
    BY <1>2, <1>4, <2>1, XsFindIs DEF AtXs
  <2> QED BY <1>4, <2>2
<1>5. CASE \E k \in 0 .. L : AtXs(3 * k + 2, k, 1)
  <2>1. PICK k \in 0 .. L : AtXs(3 * k + 2, k, 1)
    BY <1>5
  <2>2. 3 * k + 2 \in 0 .. 3 * L + 2 /\ Head(script) = XsFind[3 * k + 2 + 1]
    BY <1>0, <1>2, <2>1 DEF AtXs
  <2>3. CASE k = L
    <3>1. 3 * L + 2 + 1 = 3 * L + 3
      BY <1>0
    <3> QED BY <2>1, <2>2, <2>3, <3>1, XsFindIs
  <2>4. CASE k # L
    <3>1. k \in 0 .. L - 1 /\ k + 1 \in 1 .. L /\ 3 * k + 2 + 1 = 3 * (k + 1)
      BY <1>0, <2>4
    <3>2. Head(script) = "start"
      BY <2>2, <3>1, XsFindIs
    <3> QED BY <2>1, <3>1, <3>2
  <2> QED BY <2>3, <2>4
<1>6. CASE \E k \in 1 .. L : AtXs(3 * k, k - 1, 2) \/ AtXs(3 * k + 1, k, 2)
  <2>1. PICK k \in 1 .. L : AtXs(3 * k, k - 1, 2) \/ AtXs(3 * k + 1, k, 2)
    BY <1>6
  <2>2. 3 * k \in 0 .. 3 * L + 2 /\ 3 * k + 1 \in 0 .. 3 * L + 2 /\ 3 * k + 1 + 1 = 3 * k + 2
    BY <1>0
  <2>3. AtXs(3 * k, k - 1, 2) => Head(script) = Present[k]
    BY <1>2, <2>2, XsFindIs DEF AtXs
  <2>4. AtXs(3 * k + 1, k, 2) => Head(script) = "finish"
    BY <1>2, <2>2, XsFindIs DEF AtXs
  <2> QED BY <2>1, <2>3, <2>4
<1> QED BY <1>3, <1>4, <1>5, <1>6 DEF InXs

LEMMA Names ==
  ASSUME medium \in Media
  PROVE  \A k \in 1 .. L : Present[k] \notin {"start", "finish", "isyum", "treeinfo", "list", "extra", "yum"}
BY PresentIs, RepositoryAssumption

LEMMA AdvanceXs ==
  ASSUME medium \in Media, phase = "xs", NEW n \in 0 .. 3 * L + 2, script = After(XsFind, n),
         n # 3 * L + 2 \/ medium.list = "names", NEW found, Advance(found)
  PROVE  script' = After(XsFind, n + 1) /\ repos' = found /\ UNCHANGED <<op, phase, result>>
<1> DEFINE N == Len(XsFind)
<1>1. L \in Nat /\ XsFind \in Seq(Word) /\ N = 3 * L + (IF medium.list = "names" THEN 4 ELSE 3)
  BY PresentIs, XsFindIs
<1>2. n \in 0 .. N - 1 /\ N - n > 1
  BY <1>1
<1>3. Len(script) = N - n /\ Tail(script) = After(XsFind, n + 1)
  BY <1>1, <1>2, AfterIs
<1> HIDE DEF N
<1>4. Len(script) > 1
  BY <1>2, <1>3
<1> QED BY <1>3, <1>4 DEF Advance

(* The end of a part. *)
LEMMA AdvanceLast ==
  ASSUME NEW found, Advance(found), script = <<"finish">>
  PROVE  IF phase = "yum" /\ AfterYum # "none"
         THEN /\ phase' = AfterYum /\ script' = ScriptOf(AfterYum) /\ repos' = found
              /\ UNCHANGED <<op, result>>
         ELSE Return(Outcome(found), FALSE)
<1>1. ~(Len(script) > 1)
  OBVIOUS
<1> QED BY <1>1 DEF Advance

LEMMA LastXs ==
  ASSUME medium \in Media, script = After(XsFind, 3 * L + 2), medium.list # "names"
  PROVE  script = <<"finish">>
<1> DEFINE n == 3 * L + 2
<1>1. L \in Nat /\ XsFind \in Seq(Word) /\ Len(XsFind) = n + 1 /\ XsFind[n + 1] = "finish"
  BY PresentIs, XsFindIs
<1>2. n \in 0 .. Len(XsFind) - 1 /\ n \in Nat
  BY <1>1
<1>3. Len(script) = 1 /\ script \in Seq(Word)
  BY <1>1, <1>2 DEF After
<1>4. Head(script) = "finish"
  BY <1>1, <1>2, AfterIs
<1> HIDE DEF n
<1> QED BY <1>3, <1>4

-----------------------------------------------------------------------------
(* The steps of a look. *)

(* The program is back, with every start of its own.                       *)
LEMMA Returns ==
  ASSUME NEW found, NEW raised \in BOOLEAN, Return(found, raised),
         medium' = medium, own' = own, own <= start_count', ~Broken => start_count' = own, own \in Nat,
         op = "find" /\ ~raised => found = Yum \o Present \/ (Broken /\ found = Yum),
         op = "repover" /\ ~Broken /\ own > 0 =>
           /\ ~raised
           /\ found = (IF IsYum \/ Mains(Present) = <<>> THEN Yum ELSE <<Head(Mains(Present))>>)
  PROVE  InLook' /\ FindsAllOrYum'
<1>1. /\ Present' = Present /\ Yum' = Yum /\ IsYum' = IsYum
      /\ Broken' = Broken /\ Mains(Present)' = Mains(Present)
  BY SameMedium
<1>2. /\ op' = "none" /\ phase' = "none" /\ script' = <<>>
      /\ result' = [op |-> op, found |-> found, raised |-> raised, held |-> own > 0]
  BY DEF Return
<1>3. Held(0)'
  BY <1>1 DEF Held
<1>4. InLook'
  BY <1>2, <1>3 DEF InLook
<1>5. /\ result'.op = op /\ result'.found = found /\ result'.raised = raised /\ result'.held = (own > 0)
  BY <1>2
<1>6. FindsAllOrYum'
  BY <1>1, <1>5 DEF FindsAllOrYum
<1> QED BY <1>4, <1>6

(* An exception leaves a look.  Without anything broken on the medium that *)
(* is a mount or a umount that failed, of an accessor the program does not *)
(* use.                                                                    *)
LEMMA Throws ==
  ASSUME LookInv, NEW exc, Throw(exc), phase # "none", medium' = medium, own' = own,
         own <= start_count', ~Broken => start_count' = own /\ own = 0,
         exc = "format" => Broken
  PROVE  InLook' /\ FindsAllOrYum'
<1>0. own \in Nat /\ medium \in Media /\ TRUE \in BOOLEAN /\ FALSE \in BOOLEAN
  BY DEF LookInv
<1>1. CASE phase = "xs" /\ op = "repover"
  <2>1. Return(<<>>, FALSE)
    BY <1>1 DEF Throw
  <2>2. ~(op = "find") /\ ~(op = "repover" /\ ~Broken /\ own > 0)
    BY <1>0, <1>1
  <2>3. ~Broken => start_count' = own
    OBVIOUS
  <2> QED BY <1>0, <2>1, <2>2, <2>3, Returns
<1>2. CASE phase = "xs" /\ op = "find" /\ exc = "format"
  <2>1. Return(YumsOf(repos), FALSE)
    BY <1>2 DEF Throw
  <2>2. PICK k \in 0 .. L : repos = Yum \o [i \in 1 .. k |-> Present[i]]
    <3>1. L \in Nat /\ 0 \in 0 .. L /\ \A k \in 1 .. L : k \in 0 .. L /\ k - 1 \in 0 .. L
      BY <1>0, PresentIs
    <3>2. InXs
      BY <1>2 DEF LookInv, InLook
    <3> QED BY <3>1, <3>2 DEF InXs, AtXs
  <2>3. YumsOf(repos) = Yum
    BY <1>0, <2>2, Founds
  <2> QED BY <1>0, <1>2, <2>1, <2>3, Returns
<1>3. CASE ~(phase = "xs" /\ op = "repover") /\ ~(phase = "xs" /\ op = "find" /\ exc = "format")
  <2>1. Return(<<>>, TRUE)
    BY <1>3 DEF Throw
  <2>2. ~(op = "repover" /\ ~Broken /\ own > 0) /\ ~(op = "find" /\ ~TRUE)
    BY <1>0
  <2>3. ~Broken => start_count' = own
    OBVIOUS
  <2> QED BY <1>0, <2>1, <2>2, <2>3, Returns
<1> QED BY <1>1, <1>2, <1>3

(* What the steps of the accessor do to the count of starts.               *)
LEMMA CountOfStart ==
  ASSUME IInv
  PROVE  /\ StartFirst \/ MountFails => start_count' = start_count /\ pc' # "gone"
         /\ MountOk \/ StartAgain => start_count' = start_count + 1 /\ pc' # "gone"
         /\ StartFails => start_count = 0 /\ start_count' = 0 /\ pc' # "gone"
<1>1. start_count \in Nat /\ (pc = "mounting" => start_count = 0)
  BY MountingAssumption DEF IInv, TypeOK, Counted
<1>2. StartFirst \/ MountFails => start_count' = start_count /\ pc' # "gone"
  BY DEF StartFirst, MountFails, Try
<1>3. MountOk \/ StartAgain => start_count' = start_count + 1 /\ pc' # "gone"
  BY <1>1 DEF MountOk, StartAgain, Try
<1>4. StartFails => start_count = 0 /\ start_count' = 0 /\ pc' # "gone"
  BY <1>1 DEF StartFails
<1> QED BY <1>2, <1>3, <1>4

LEMMA CountOfFinish ==
  ASSUME IInv
  PROVE  /\ FinishOne \/ FinishLast => start_count' + 1 = start_count /\ pc' # "gone"
         /\ FinishFails => start_count = 1 /\ start_count' = 0 /\ pc' # "gone"
<1>1. start_count \in Nat
  BY DEF IInv, TypeOK
<1> QED BY <1>1 DEF FinishOne, FinishLast, FinishFails

(* Held, with the medium and the program as before.                        *)
LEMMA HeldThen ==
  ASSUME LookInv, medium' = medium, own' = own, start_count \in Nat
  PROVE  /\ \A d \in 0 .. 2 : Held(d) /\ start_count' = start_count => Held(d)'
         /\ \A d \in 0 .. 2 : Held(d) /\ start_count' = start_count + 1 => Held(d + 1)'
         /\ \A d \in 1 .. 2 : Held(d) /\ start_count' + 1 = start_count /\ start_count' \in Nat => Held(d - 1)'
<1>1. Broken' = Broken /\ own \in Nat
  BY SameMedium DEF LookInv
<1> QED BY <1>1 DEF Held

LEMMA FindsStay ==
  ASSUME FindsAllOrYum, medium' = medium, result' = result
  PROVE  FindsAllOrYum'
BY SameMedium DEF FindsAllOrYum

LEMMA Scripts ==
  /\ Head(<<"start", "isyum", "finish">>) = "start" /\ Len(<<"start", "isyum", "finish">>) > 1
  /\ Tail(<<"start", "isyum", "finish">>) = <<"isyum", "finish">>
  /\ Head(<<"isyum", "finish">>) = "isyum" /\ Len(<<"isyum", "finish">>) > 1
  /\ Tail(<<"isyum", "finish">>) = <<"finish">>
  /\ Head(<<"start", "treeinfo", "finish">>) = "start" /\ Len(<<"start", "treeinfo", "finish">>) > 1
  /\ Tail(<<"start", "treeinfo", "finish">>) = <<"treeinfo", "finish">>
  /\ Head(<<"treeinfo", "finish">>) = "treeinfo" /\ Len(<<"treeinfo", "finish">>) > 1
  /\ Tail(<<"treeinfo", "finish">>) = <<"finish">>
  /\ Head(<<"finish">>) = "finish"
  /\ <<"start", "isyum", "finish">> # <<>> /\ <<"start", "treeinfo", "finish">> # <<>>
OBVIOUS

(* A look has started what it has to finish.                               *)
LEMMA HeldSome ==
  ASSUME LookInv, phase # "none"
  PROVE  \E d \in 0 .. 2 : Held(d) /\ (Head(script) # "start" => d # 0)
<1>0. medium \in Media /\ InLook
  BY DEF LookInv
<1>1. CASE phase = "yum"
  BY <1>0, <1>1, Scripts DEF InLook, InYum
<1>2. CASE phase = "version"
  BY <1>0, <1>2, Scripts DEF InLook, InVersion
<1>3. CASE phase = "xs"
  <2>1. InXs
    BY <1>0, <1>3 DEF InLook
  <2> QED BY <1>0, <2>1, XsHeads DEF AtXs
<1> QED BY <1>0, <1>1, <1>2, <1>3 DEF InLook

LEMMA BeginStep ==
  ASSUME LookInv, NEW o \in {"find", "repover", "product"}, Begin(o)
  PROVE  InLook' /\ FindsAllOrYum'
<1>1. /\ medium' = medium /\ own' = own /\ start_count' = start_count /\ pc' = pc /\ pc = "idle"
      /\ phase = "none" /\ op' = o /\ phase' = "yum" /\ repos' = <<>>
      /\ script' = <<"start", "isyum", "finish">> /\ result' = NoResult
  BY DEF Begin, YumFind, vars
<1>2. Held(0)'
  <2>1. Held(0)
    BY <1>1 DEF LookInv, InLook
  <2> QED BY <1>1, <2>1, SameMedium DEF Held
<1>3. InLook'
  BY <1>1, <1>2 DEF InLook, InYum
<1>4. FindsAllOrYum'
  BY <1>1 DEF FindsAllOrYum, NoResult
<1> QED BY <1>3, <1>4

(* Which parts of a script are at which place, primed.                     *)
LEMMA PlaceThen ==
  ASSUME LookInv, medium' = medium, phase = "xs", UNCHANGED <<op, phase>>, pc' # "gone",
         NEW n \in Nat, NEW k \in 0 .. L, NEW d,
         script' = After(XsFind, n), repos' = Yum \o [i \in 1 .. k |-> Present[i]], Held(d)',
         \/ n = 0 /\ k = 0 /\ d = 0
         \/ n = 1 /\ k = 0 /\ d = 1
         \/ n = 3 * k + 2 /\ d = 1
         \/ k + 1 \in 1 .. L /\ n = 3 * (k + 1) /\ d = 2
         \/ k \in 1 .. L /\ n = 3 * k + 1 /\ d = 2
  PROVE  InLook'
<1>1. /\ Present' = Present /\ L' = L /\ XsFind' = XsFind /\ Yum' = Yum /\ IsYum' = IsYum
  BY SameMedium
<1>2. op = "find" \/ (op = "repover" /\ ~IsYum)
  BY DEF LookInv, InLook, InXs
<1>3. AtXs(n, k, d)'
  BY <1>1 DEF AtXs, After
<1>4. L \in Nat /\ k \in Nat
  BY PresentIs DEF LookInv
<1>5. \/ AtXs(0, 0, 0)' \/ AtXs(1, 0, 1)'
      \/ \E j \in 0 .. L : AtXs(3 * j + 2, j, 1)'
      \/ \E j \in 1 .. L : AtXs(3 * j, j - 1, 2)' \/ AtXs(3 * j + 1, j, 2)'
  <2>1. CASE k + 1 \in 1 .. L /\ n = 3 * (k + 1) /\ d = 2
    <3>1. (k + 1) - 1 = k
      BY <1>4
    <3>2. AtXs(3 * (k + 1), (k + 1) - 1, 2)'
      BY <1>3, <2>1, <3>1
    <3> QED BY <2>1, <3>2
  <2>2. CASE n = 3 * k + 2 /\ d = 1
    BY <1>3, <2>2
  <2>3. CASE k \in 1 .. L /\ n = 3 * k + 1 /\ d = 2
    BY <1>3, <2>3
  <2> QED BY <1>3, <2>1, <2>2, <2>3
<1>6. InXs'
  BY <1>1, <1>2, <1>5 DEF InXs
<1> QED BY <1>6 DEF InLook

LEMMA LibStartStep ==
  ASSUME LookInv, LibStart
  PROVE  InLook' /\ FindsAllOrYum'
<1>0. /\ IInv /\ medium \in Media /\ own \in Nat /\ InLook /\ FindsAllOrYum
      /\ medium' = medium /\ own' = own /\ phase # "none" /\ Head(script) = "start"
      /\ start_count \in Nat
  BY DEF LookInv, LibStart, IInv, TypeOK
<1>1. CASE (StartFirst \/ MountFails) /\ UNCHANGED method
  <2>1. /\ op' = op /\ phase' = phase /\ script' = script /\ repos' = repos /\ result' = result
        /\ start_count' = start_count /\ pc' # "gone"
    BY <1>0, <1>1, CountOfStart DEF method
  <2>2. FindsAllOrYum'
    BY <1>0, <2>1, FindsStay
  <2>3. \A d \in 0 .. 2 : Held(d) => Held(d)'
    BY <1>0, <2>1, HeldThen
  <2>4. CASE phase = "yum"
    <3>1. InYum'
      BY <1>0, <2>1, <2>3, <2>4, SameMedium DEF InLook, InYum
    <3> QED BY <2>1, <2>2, <2>4, <3>1 DEF InLook
  <2>5. CASE phase = "version"
    <3>1. InVersion'
      BY <1>0, <2>1, <2>3, <2>5, SameMedium DEF InLook, InVersion
    <3> QED BY <2>1, <2>2, <2>5, <3>1 DEF InLook
  <2>6. CASE phase = "xs"
    <3>1. \A n, k : \A d \in 0 .. 2 : AtXs(n, k, d) => AtXs(n, k, d)'
      BY <1>0, <2>1, <2>3, SameMedium DEF AtXs, After
    <3>2. InXs
      BY <1>0, <2>6 DEF InLook
    <3>3. InXs'
      BY <1>0, <2>1, <3>1, <3>2, SameMedium DEF InXs
    <3> QED BY <2>1, <2>2, <2>6, <3>3 DEF InLook
  <2> QED BY <1>0, <2>2, <2>4, <2>5, <2>6 DEF InLook
<1>2. CASE (MountOk \/ StartAgain) /\ Advance(repos)
  <2>1. start_count' = start_count + 1 /\ pc' # "gone"
    BY <1>0, <1>2, CountOfStart
  <2>2. Held(0) => Held(1)'
    <3>1. 0 \in 0 .. 2 /\ 0 + 1 = 1
      OBVIOUS
    <3> QED BY <1>0, <2>1, <3>1, HeldThen
  <2>3. Held(1) => Held(2)'
    <3>1. 1 \in 0 .. 2 /\ 1 + 1 = 2
      OBVIOUS
    <3> QED BY <1>0, <2>1, <3>1, HeldThen
  <2>4. CASE phase = "yum"
    <3>1. script = <<"start", "isyum", "finish">> /\ repos = <<>> /\ Held(0)
      BY <1>0, <2>4, Scripts DEF InLook, InYum
    <3>2. script' = <<"isyum", "finish">> /\ repos' = repos /\ UNCHANGED <<op, phase, result>>
      BY <1>2, <3>1, Scripts DEF Advance
    <3>3. InYum'
      BY <1>0, <2>2, <2>4, <3>1, <3>2 DEF InLook, InYum
    <3> QED BY <1>0, <2>1, <2>4, <3>2, <3>3, FindsStay DEF InLook
  <2>5. CASE phase = "version"
    <3>1. script = <<"start", "treeinfo", "finish">> /\ Held(0)
      BY <1>0, <2>5, Scripts DEF InLook, InVersion
    <3>2. script' = <<"treeinfo", "finish">> /\ UNCHANGED <<op, phase, result>>
      BY <1>2, <3>1, Scripts DEF Advance
    <3>3. InVersion'
      BY <1>0, <2>2, <2>5, <3>1, <3>2, SameMedium DEF InLook, InVersion
    <3> QED BY <1>0, <2>1, <2>5, <3>2, <3>3, FindsStay DEF InLook
  <2>6. CASE phase = "xs"
    <3>0. L \in Nat /\ InXs /\ \A k \in 1 .. L : Present[k] # "start"
      BY <1>0, <2>6, PresentIs, Names DEF InLook
    <3>1. AtXs(0, 0, 0) \/ \E k \in 0 .. L - 1 : AtXs(3 * k + 2, k, 1)
      BY <1>0, <3>0, XsHeads
    <3>2. CASE AtXs(0, 0, 0)
      <4>1. 0 \in 0 .. 3 * L + 2 /\ 0 # 3 * L + 2 /\ 0 + 1 = 1 /\ 0 \in 0 .. L
        BY <3>0
      <4>2. script' = After(XsFind, 1) /\ repos' = repos /\ UNCHANGED <<op, phase, result>>
        BY <1>0, <1>2, <2>6, <3>2, <4>1, AdvanceXs DEF AtXs
      <4>3. InLook'
        BY <1>0, <2>1, <2>2, <2>6, <3>2, <4>1, <4>2, PlaceThen DEF AtXs
      <4> QED BY <1>0, <4>2, <4>3, FindsStay
    <3>3. ASSUME NEW k \in 0 .. L - 1, AtXs(3 * k + 2, k, 1) PROVE InLook' /\ FindsAllOrYum'
      <4>1. /\ 3 * k + 2 \in 0 .. 3 * L + 2 /\ 3 * k + 2 # 3 * L + 2 /\ 3 * k + 2 + 1 = 3 * (k + 1)
            /\ k \in 0 .. L /\ k + 1 \in 1 .. L /\ 3 * (k + 1) \in Nat
        BY <3>0
      <4>2. script' = After(XsFind, 3 * (k + 1)) /\ repos' = repos /\ UNCHANGED <<op, phase, result>>
        BY <1>0, <1>2, <2>6, <3>3, <4>1, AdvanceXs DEF AtXs
      <4>3. repos' = Yum \o [i \in 1 .. k |-> Present[i]] /\ Held(2)'
        BY <2>3, <3>3, <4>2 DEF AtXs
      <4>4. InLook'
        BY <1>0, <2>1, <2>6, <4>1, <4>2, <4>3, PlaceThen
      <4> QED BY <1>0, <4>2, <4>4, FindsStay
    <3> QED BY <3>1, <3>2, <3>3
  <2> QED BY <1>0, <2>4, <2>5, <2>6 DEF InLook
<1>3. CASE StartFails /\ Throw("other")
  <2>1. start_count = 0 /\ start_count' = 0
    BY <1>0, <1>3, CountOfStart
  <2>2. PICK d \in 0 .. 2 : Held(d)
    BY <1>0, HeldSome
  <2>3. own = 0
    BY <1>0, <2>1, <2>2 DEF Held
  <2>4. own <= start_count' /\ (~Broken => start_count' = own /\ own = 0)
    BY <2>1, <2>3
  <2> QED BY <1>0, <1>3, <2>4, Throws
<1> QED BY <1>1, <1>2, <1>3 DEF LibStart

LEMMA FinishYum ==
  ASSUME LookInv, phase = "yum", script = <<"finish">>, repos = (IF op = "find" THEN Yum ELSE <<>>),
         Held(0)', medium' = medium, own' = own, pc' # "gone", Advance(repos)
  PROVE  InLook' /\ FindsAllOrYum'
<1>0. /\ medium \in Media /\ own \in Nat /\ FindsAllOrYum /\ op \in {"find", "repover", "product"}
      /\ FALSE \in BOOLEAN
      /\ Present' = Present /\ L' = L /\ XsFind' = XsFind /\ Yum' = Yum /\ IsYum' = IsYum
      /\ Broken' = Broken
  BY SameMedium DEF LookInv, InLook, InYum
<1>1. own <= start_count' /\ (~Broken => start_count' = own)
  BY <1>0 DEF Held
<1>2. CASE op = "product" /\ ~IsYum
  <2>1. AfterYum = "none"
    BY <1>2 DEF AfterYum
  <2>2. Return(Outcome(repos), FALSE)
    BY <2>1, AdvanceLast
  <2> QED BY <1>0, <1>1, <1>2, <2>2, Returns
<1>3. CASE op \in {"repover", "product"} /\ IsYum
  <2>1. AfterYum = "version" /\ ScriptOf("version") = <<"start", "treeinfo", "finish">>
    BY <1>3 DEF AfterYum, ScriptOf, YumVersion
  <2>2. phase' = "version" /\ script' = <<"start", "treeinfo", "finish">> /\ op' = op /\ result' = result
    BY <2>1, AdvanceLast
  <2>3. InVersion'
    BY <1>0, <1>3, <2>2 DEF InVersion
  <2>4. FindsAllOrYum'
    BY <1>0, <2>2, FindsStay
  <2> QED BY <2>2, <2>3, <2>4 DEF InLook
<1>4. CASE op = "find" \/ (op = "repover" /\ ~IsYum)
  <2>1. AfterYum = "xs" /\ ScriptOf("xs") = XsFind
    BY <1>4 DEF AfterYum, ScriptOf
  <2>2. phase' = "xs" /\ script' = XsFind /\ op' = op /\ result' = result /\ repos' = repos
    BY <2>1, AdvanceLast
  <2>3. repos = Yum \o [i \in 1 .. 0 |-> Present[i]]
    BY <1>0, <1>4, Founds
  <2>4. XsFind = After(XsFind, 0)
    <3>1. L \in Nat /\ XsFind \in Seq(Word) /\ 0 \in 0 .. Len(XsFind) - 1
      BY <1>0, PresentIs, XsFindIs
    <3> QED BY <3>1, AfterIs
  <2>5. AtXs(0, 0, 0)'
    BY <1>0, <2>2, <2>3, <2>4 DEF AtXs, After
  <2>6. InXs'
    BY <1>0, <1>4, <2>2, <2>5 DEF InXs
  <2>7. FindsAllOrYum'
    BY <1>0, <2>2, FindsStay
  <2> QED BY <2>2, <2>6, <2>7 DEF InLook
<1> QED BY <1>0, <1>2, <1>3, <1>4

LEMMA FinishVersion ==
  ASSUME LookInv, phase = "version", script = <<"finish">>, repos = <<"yum">>,
         Held(0)', medium' = medium, own' = own, Advance(repos)
  PROVE  InLook' /\ FindsAllOrYum'
<1>0. /\ medium \in Media /\ own \in Nat /\ op \in {"repover", "product"} /\ IsYum
      /\ FALSE \in BOOLEAN /\ Broken' = Broken
  BY SameMedium DEF LookInv, InLook, InVersion
<1>1. own <= start_count' /\ (~Broken => start_count' = own)
  BY <1>0 DEF Held
<1>2. Outcome(repos) = <<"yum">> /\ Yum = <<"yum">>
  BY <1>0, Founds DEF Outcome
<1>3. Return(Outcome(repos), FALSE)
  BY AdvanceLast
<1> QED BY <1>0, <1>1, <1>2, <1>3, Returns

LEMMA FinishXs ==
  ASSUME LookInv, phase = "xs", AtXs(3 * L + 2, L, 1), medium.list # "names",
         Held(0)', medium' = medium, own' = own, Advance(repos)
  PROVE  InLook' /\ FindsAllOrYum'
<1>0. /\ medium \in Media /\ own \in Nat /\ (op = "find" \/ (op = "repover" /\ ~IsYum))
      /\ FALSE \in BOOLEAN /\ Broken' = Broken
  BY SameMedium DEF LookInv, InLook, InXs
<1>1. own <= start_count' /\ (~Broken => start_count' = own)
  BY <1>0 DEF Held
<1>2. repos = Yum \o Present
  BY <1>0, Founds DEF AtXs
<1>3. script = <<"finish">>
  BY <1>0, LastXs DEF AtXs
<1>4. Return(Outcome(repos), FALSE)
  BY <1>3, AdvanceLast
<1>5. CASE op = "find"
  <2>1. Outcome(repos) = Yum \o Present
    BY <1>2, <1>5 DEF Outcome
  <2> QED BY <1>0, <1>1, <1>4, <1>5, <2>1, Returns
<1>6. CASE op = "repover" /\ ~IsYum
  <2>1. Yum = <<>> /\ repos = Present
    BY <1>0, <1>2, <1>6, Founds
  <2>2. Outcome(repos) = IF Mains(Present) = <<>> THEN <<>> ELSE <<Head(Mains(Present))>>
    BY <1>6, <2>1 DEF Outcome
  <2>3. Outcome(repos) = IF IsYum \/ Mains(Present) = <<>> THEN Yum ELSE <<Head(Mains(Present))>>
    BY <1>6, <2>1, <2>2
  <2> QED BY <1>0, <1>1, <1>4, <1>6, <2>3, Returns
<1> QED BY <1>0, <1>5, <1>6

LEMMA LibFinishStep ==
  ASSUME LookInv, LibFinish
  PROVE  InLook' /\ FindsAllOrYum'
<1>0. /\ IInv /\ medium \in Media /\ own \in Nat /\ InLook /\ FindsAllOrYum
      /\ medium' = medium /\ own' = own /\ phase # "none" /\ Head(script) = "finish"
      /\ start_count \in Nat
  BY DEF LookInv, LibFinish, Runs, IInv, TypeOK
<1>1. CASE (FinishOne \/ FinishLast) /\ Advance(repos)
  <2>0. start_count' \in Nat
    BY <1>0, <1>1 DEF FinishOne, FinishLast
  <2>1. start_count' + 1 = start_count /\ pc' # "gone"
    BY <1>0, <1>1, CountOfFinish
  <2>2. Held(1) => Held(0)'
    <3>1. 1 \in 1 .. 2 /\ 1 - 1 = 0
      OBVIOUS
    <3> QED BY <1>0, <2>0, <2>1, <3>1, HeldThen
  <2>3. Held(2) => Held(1)'
    <3>1. 2 \in 1 .. 2 /\ 2 - 1 = 1
      OBVIOUS
    <3> QED BY <1>0, <2>0, <2>1, <3>1, HeldThen
  <2>4. CASE phase = "yum"
    <3>1. script = <<"finish">> /\ repos = (IF op = "find" THEN Yum ELSE <<>>) /\ Held(1)
      BY <1>0, <2>4, Scripts DEF InLook, InYum
    <3> QED BY <1>0, <1>1, <2>1, <2>2, <2>4, <3>1, FinishYum
  <2>5. CASE phase = "version"
    <3>1. script = <<"finish">> /\ repos = <<"yum">> /\ Held(1)
      BY <1>0, <2>5, Scripts DEF InLook, InVersion
    <3> QED BY <1>0, <1>1, <2>2, <2>5, <3>1, FinishVersion
  <2>6. CASE phase = "xs"
    <3>0. L \in Nat /\ InXs /\ \A k \in 1 .. L : Present[k] # "finish"
      BY <1>0, <2>6, PresentIs, Names DEF InLook
    <3>1. \/ \E k \in 1 .. L : AtXs(3 * k + 1, k, 2)
          \/ AtXs(3 * L + 2, L, 1) /\ medium.list # "names"
      BY <1>0, <3>0, XsHeads
    <3>2. ASSUME NEW k \in 1 .. L, AtXs(3 * k + 1, k, 2) PROVE InLook' /\ FindsAllOrYum'
      <4>1. /\ 3 * k + 1 \in 0 .. 3 * L + 2 /\ 3 * k + 1 # 3 * L + 2 /\ 3 * k + 1 + 1 = 3 * k + 2
            /\ k \in 0 .. L /\ 3 * k + 2 \in Nat
        BY <3>0
      <4>2. script' = After(XsFind, 3 * k + 2) /\ repos' = repos /\ UNCHANGED <<op, phase, result>>
        BY <1>0, <1>1, <2>6, <3>2, <4>1, AdvanceXs DEF AtXs
      <4>3. repos' = Yum \o [i \in 1 .. k |-> Present[i]] /\ Held(1)'
        BY <2>3, <3>2, <4>2 DEF AtXs
      <4>4. InLook'
        BY <1>0, <2>1, <2>6, <4>1, <4>2, <4>3, PlaceThen
      <4> QED BY <1>0, <4>2, <4>4, FindsStay
    <3>3. CASE AtXs(3 * L + 2, L, 1) /\ medium.list # "names"
      <4>1. Held(0)'
        BY <2>2, <3>3 DEF AtXs
      <4> QED BY <1>0, <1>1, <2>6, <3>3, <4>1, FinishXs
    <3> QED BY <3>1, <3>2, <3>3
  <2> QED BY <1>0, <2>4, <2>5, <2>6 DEF InLook
<1>2. CASE FinishFails /\ Throw("other")
  <2>1. start_count = 1 /\ start_count' = 0
    BY <1>0, <1>2, CountOfFinish
  <2>2. PICK d \in 0 .. 2 : Held(d) /\ d # 0
    BY <1>0, HeldSome
  <2>3. own = 0
    BY <1>0, <2>1, <2>2 DEF Held
  <2>4. own <= start_count' /\ (~Broken => start_count' = own /\ own = 0)
    BY <2>1, <2>3
  <2> QED BY <1>0, <1>2, <2>4, Throws
<1> QED BY <1>1, <1>2 DEF LibFinish

(* A test or a parse that fails: something is broken on the medium.        *)
LEMMA BrokenThrows ==
  ASSUME LookInv, phase # "none", NEW exc, Throw(exc), Broken, UNCHANGED <<vars, medium, own>>
  PROVE  InLook' /\ FindsAllOrYum'
<1>1. start_count' = start_count /\ start_count \in Nat /\ own \in Nat
  BY DEF vars, LookInv, IInv, TypeOK
<1>2. PICK d \in 0 .. 2 : Held(d)
  BY HeldSome
<1>3. own <= start_count'
  BY <1>1, <1>2 DEF Held
<1> QED BY <1>3, Throws

(* Tests and parses are done where the script says.                        *)
LEMMA TestStep ==
  ASSUME LookInv, LookForYum \/ Treeinfo \/ ReadList \/ Extra
  PROVE  InLook' /\ FindsAllOrYum'
<1>0. /\ medium \in Media /\ own \in Nat /\ InLook /\ FindsAllOrYum /\ medium' = medium /\ own' = own
      /\ UNCHANGED <<vars, medium, own>> /\ start_count' = start_count /\ pc' = pc /\ start_count \in Nat
      /\ pc = "idle" /\ phase # "none"
      /\ Head(script) \in {"isyum", "treeinfo", "list", "extra"}
  BY DEF LookInv, LookForYum, Treeinfo, ReadList, Extra, Runs, vars, IInv, TypeOK
<1>1. Held(1) => Held(1)'
  BY <1>0, HeldThen
<1>2. CASE phase = "yum"
  <2>1. script = <<"isyum", "finish">> /\ repos = <<>> /\ Held(1) /\ Head(script) = "isyum"
    BY <1>0, <1>2, Scripts DEF InLook, InYum
  <2>2. Advance(IF op = "find" /\ IsYum THEN <<"yum">> ELSE <<>>)
    BY <2>1 DEF LookForYum, Treeinfo, ReadList, Extra, Runs
  <2>3. /\ script' = <<"finish">> /\ repos' = (IF op = "find" /\ IsYum THEN <<"yum">> ELSE <<>>)
        /\ UNCHANGED <<op, phase, result>>
    BY <2>1, <2>2, Scripts DEF Advance
  <2>4. repos' = IF op = "find" THEN Yum ELSE <<>>
    BY <2>3 DEF Yum
  <2>5. InYum'
    BY <1>0, <1>1, <1>2, <2>1, <2>3, <2>4, SameMedium DEF InLook, InYum
  <2>6. FindsAllOrYum'
    BY <1>0, <2>3, FindsStay
  <2> QED BY <1>0, <1>2, <2>3, <2>5, <2>6 DEF InLook
<1>3. CASE phase = "version"
  <2>1. script = <<"treeinfo", "finish">> /\ Held(1) /\ Head(script) = "treeinfo" /\ IsYum
    BY <1>0, <1>3, Scripts DEF InLook, InVersion
  <2>2. IF medium.yum = "good" THEN Advance(<<"yum">>) ELSE Throw("format")
    BY <2>1 DEF LookForYum, Treeinfo, ReadList, Extra, Runs
  <2>3. CASE medium.yum = "good"
    <3>1. script' = <<"finish">> /\ repos' = <<"yum">> /\ UNCHANGED <<op, phase, result>>
      BY <2>1, <2>2, <2>3, Scripts DEF Advance
    <3>2. InVersion'
      BY <1>0, <1>1, <1>3, <2>1, <3>1, SameMedium DEF InLook, InVersion
    <3>3. FindsAllOrYum'
      BY <1>0, <3>1, FindsStay
    <3> QED BY <1>0, <1>3, <3>1, <3>2, <3>3 DEF InLook
  <2>4. CASE medium.yum # "good"
    <3>1. Broken
      BY <1>0, <2>1, <2>4, RepositoryAssumption DEF Broken, IsYum
    <3> QED BY <1>0, <2>2, <2>4, <3>1, BrokenThrows
  <2> QED BY <2>3, <2>4
<1>4. CASE phase = "xs"
  <2>0. L \in Nat /\ InXs /\ \A k \in 1 .. L : Present[k] \notin {"isyum", "treeinfo", "list", "extra"}
    BY <1>0, <1>4, PresentIs, Names DEF InLook
  <2>1. \/ Head(script) = "list" /\ AtXs(1, 0, 1)
        \/ Head(script) = "extra" /\ AtXs(3 * L + 2, L, 1) /\ medium.list = "names"
    BY <1>0, <2>0, XsHeads
  <2>2. CASE Head(script) = "list" /\ AtXs(1, 0, 1)
    <3>1. IF medium.list = "broken" THEN Throw("format") ELSE Advance(repos)
      BY <2>2 DEF LookForYum, Treeinfo, ReadList, Extra, Runs
    <3>2. CASE medium.list = "broken"
      <4>1. Broken
        BY <3>2 DEF Broken
      <4> QED BY <1>0, <3>1, <3>2, <4>1, BrokenThrows
    <3>3. CASE medium.list # "broken"
      <4>1. 1 \in 0 .. 3 * L + 2 /\ 1 # 3 * L + 2 /\ 1 + 1 = 3 * 0 + 2 /\ 0 \in 0 .. L /\ 3 * 0 + 2 \in Nat
        BY <2>0
      <4>2. script' = After(XsFind, 3 * 0 + 2) /\ repos' = repos /\ UNCHANGED <<op, phase, result>>
        BY <1>0, <1>4, <2>2, <3>1, <3>3, <4>1, AdvanceXs DEF AtXs
      <4>3. repos' = Yum \o [i \in 1 .. 0 |-> Present[i]] /\ Held(1)'
        BY <1>1, <2>2, <4>2 DEF AtXs
      <4>4. InLook'
        BY <1>0, <1>4, <4>1, <4>2, <4>3, PlaceThen
      <4> QED BY <1>0, <4>2, <4>4, FindsStay
    <3> QED BY <3>2, <3>3
  <2>3. CASE Head(script) = "extra" /\ medium.list = "names"
    <3>1. Throw("other") /\ Broken
      BY <2>3 DEF LookForYum, Treeinfo, ReadList, Extra, Runs, Broken
    <3> QED BY <1>0, <3>1, BrokenThrows
  <2> QED BY <2>1, <2>2, <2>3
<1> QED BY <1>0, <1>2, <1>3, <1>4 DEF InLook

LEMMA ParseStep ==
  ASSUME LookInv, NEW l \in Range(Known), Parse(l)
  PROVE  InLook' /\ FindsAllOrYum'
<1>0. /\ medium \in Media /\ own \in Nat /\ InLook /\ FindsAllOrYum /\ medium' = medium /\ own' = own
      /\ UNCHANGED <<vars, medium, own>> /\ start_count' = start_count /\ pc' = pc /\ start_count \in Nat
      /\ pc = "idle" /\ phase # "none"
      /\ Head(script) = l /\ l \notin {"start", "finish", "isyum", "treeinfo", "list", "extra", "yum"}
      /\ IF medium.at[l] \in Good THEN Advance(Append(repos, l)) ELSE Throw(medium.at[l])
  BY RepositoryAssumption DEF LookInv, Parse, Runs, vars, IInv, TypeOK
<1>1. phase = "xs" /\ InXs
  BY <1>0, Scripts DEF InLook, InYum, InVersion
<1>2. PICK k \in 1 .. L : l = Present[k] /\ AtXs(3 * k, k - 1, 2)
  BY <1>0, <1>1, XsHeads
<1>3. L \in Nat
  BY <1>0, PresentIs
<1>4. CASE medium.at[l] \in Good
  <2>1. /\ 3 * k \in 0 .. 3 * L + 2 /\ 3 * k # 3 * L + 2 /\ k \in 0 .. L /\ 3 * k + 1 \in Nat
    BY <1>3
  <2>2. script' = After(XsFind, 3 * k + 1) /\ repos' = Append(repos, l) /\ UNCHANGED <<op, phase, result>>
    BY <1>0, <1>1, <1>2, <1>4, <2>1, AdvanceXs DEF AtXs
  <2>3. repos' = Yum \o [i \in 1 .. k |-> Present[i]]
    BY <1>0, <1>2, <2>2, Founds DEF AtXs
  <2>4. Held(2)'
    BY <1>0, <1>2, HeldThen DEF AtXs
  <2>5. InLook'
    BY <1>0, <1>1, <2>1, <2>2, <2>3, <2>4, PlaceThen
  <2> QED BY <1>0, <2>2, <2>5, FindsStay
<1>5. CASE medium.at[l] \notin Good
  <2>1. medium.at[l] # "none"
    BY <1>0, <1>2, PresentIs
  <2>2. Broken
    BY <1>0, <1>5, <2>1, RepositoryAssumption DEF Broken, Holds, Good
  <2> QED BY <1>0, <1>5, <2>2, BrokenThrows
<1> QED BY <1>4, <1>5

(* The program's own calls. *)
LEMMA OwnStep ==
  ASSUME LookInv, OwnStart \/ OwnFinish \/ OwnFiles \/ Drop
  PROVE  InLook' /\ FindsAllOrYum' /\ own' \in Nat
<1>0. /\ IInv /\ medium \in Media /\ own \in Nat /\ FindsAllOrYum /\ medium' = medium
      /\ phase = "none" /\ op = "none" /\ script = <<>> /\ Held(0)
      /\ op' = op /\ phase' = phase /\ script' = script /\ result' = result
      /\ start_count \in Nat
  BY DEF LookInv, InLook, OwnStart, OwnFinish, OwnFiles, Drop, method, IInv, TypeOK
<1>1. FindsAllOrYum'
  BY <1>0, FindsStay
<1>2. own <= start_count /\ (~Broken => start_count = own) /\ Broken' = Broken
  BY <1>0, SameMedium DEF Held
<1>3. own' \in Nat /\ own' <= start_count' /\ (~Broken => start_count' = own')
  <2>1. CASE OwnStart
    <3>1. CASE (StartFirst \/ MountFails \/ StartFails) /\ UNCHANGED own
      <4>1. own' = own /\ start_count' = start_count
        BY <1>0, <3>1, CountOfStart
      <4> QED BY <1>0, <1>2, <4>1
    <3>2. CASE (MountOk \/ StartAgain) /\ own' = own + 1
      BY <1>0, <1>2, <3>2, CountOfStart
    <3> QED BY <2>1, <3>1, <3>2 DEF OwnStart
  <2>2. CASE OwnFinish
    <3>1. own' = own - 1 /\ own > 0 /\ (FinishOne \/ FinishLast \/ FinishFails)
      BY <2>2 DEF OwnFinish
    <3>2. start_count' = start_count - 1
      BY <1>0, <3>1 DEF FinishOne, FinishLast, FinishFails
    <3> QED BY <1>0, <1>2, <3>1, <3>2
  <2>3. CASE OwnFiles
    BY <1>0, <1>2, <2>3 DEF OwnFiles, Open, CloseAll
  <2>4. CASE Drop
    <3>1. own' = 0 /\ start_count' = 0
      BY <2>4 DEF Drop, Del
    <3> QED BY <3>1
  <2> QED BY <2>1, <2>2, <2>3, <2>4
<1>4. InLook'
  BY <1>0, <1>2, <1>3 DEF InLook, Held
<1> QED BY <1>1, <1>3, <1>4

LEMMA LookNext == LookInv /\ [RepNext]_repVars => LookInv'
<1> SUFFICES ASSUME LookInv, [RepNext]_repVars PROVE LookInv'
  OBVIOUS
<1>1. IInv'
  BY NextInv, LookStep DEF LookInv
<1>2. own \in Nat /\ medium \in Media /\ InLook /\ FindsAllOrYum
  BY DEF LookInv
<1>3. medium' = medium
  BY DEF RepNext, Begin, LibStart, LibFinish, LookForYum, Treeinfo, ReadList, Extra, Parse,
         OwnStart, OwnFinish, OwnFiles, Drop, repVars
<1>4. CASE \/ \E o \in {"find", "repover", "product"} : Begin(o)
           \/ LibStart \/ LibFinish \/ LookForYum \/ Treeinfo \/ ReadList \/ Extra
           \/ \E l \in Range(Known) : Parse(l)
  <2>1. own' = own
    BY <1>4 DEF Begin, LibStart, LibFinish, LookForYum, Treeinfo, ReadList, Extra, Parse
  <2>2. InLook' /\ FindsAllOrYum'
    BY <1>4, BeginStep, LibStartStep, LibFinishStep, TestStep, ParseStep
  <2> QED BY <1>1, <1>2, <1>3, <2>1, <2>2 DEF LookInv
<1>5. CASE OwnStart \/ OwnFinish \/ OwnFiles \/ Drop
  BY <1>1, <1>2, <1>3, <1>5, OwnStep DEF LookInv
<1>6. CASE UNCHANGED repVars
  <2>1. /\ op' = op /\ phase' = phase /\ script' = script /\ repos' = repos /\ result' = result
        /\ own' = own /\ start_count' = start_count /\ pc' = pc
    BY <1>6 DEF repVars, method, vars
  <2>2. \A d : Held(d)' <=> Held(d)
    BY <1>3, <2>1, SameMedium DEF Held
  <2>3. \A n, k, d : AtXs(n, k, d)' <=> AtXs(n, k, d)
    BY <1>3, <2>1, <2>2, SameMedium DEF AtXs, After
  <2>4. (InXs' <=> InXs) /\ (InYum' <=> InYum) /\ (InVersion' <=> InVersion)
    BY <1>3, <2>1, <2>2, <2>3, SameMedium DEF InXs, InYum, InVersion
  <2>5. InLook'
    BY <1>2, <2>1, <2>2, <2>4 DEF InLook
  <2>6. FindsAllOrYum'
    BY <1>2, <1>3, <2>1, FindsStay
  <2> QED BY <1>1, <1>2, <1>3, <2>1, <2>5, <2>6 DEF LookInv
<1> QED BY <1>4, <1>5, <1>6 DEF RepNext

LEMMA LookInit == RepInit => LookInv
<1> SUFFICES ASSUME RepInit PROVE LookInv
  OBVIOUS
<1>1. IInv
  BY InitInv DEF RepInit
<1>2. medium \in Media /\ own = 0 /\ start_count = 0 /\ result.op = "none" /\ op = "none"
      /\ phase = "none" /\ script = <<>>
  BY DEF RepInit, Init, NoResult
<1>3. Held(0)
  BY <1>2 DEF Held
<1>4. FindsAllOrYum
  BY <1>2 DEF FindsAllOrYum
<1> QED BY <1>1, <1>2, <1>3, <1>4 DEF LookInv, InLook

LEMMA LookInvariance == RepSpec => []LookInv
BY LookInit, LookNext, PTL DEF RepSpec

(* A look that raises, at whatever depth and for whatever reason, takes no *)
(* start() of the program away, which finds its medium mounted; and a look *)
(* at a medium with nothing broken on it leaves none of its own behind:    *)
(* findRepositories(), getRepoVer() and getProductVersion() on any medium. *)
THEOREM OwnStartsAreKept == RepSpec => []OwnStartsHold
<1>1. LookInv => OwnStartsHold
  <2> SUFFICES ASSUME LookInv PROVE OwnStartsHold
    OBVIOUS
  <2>0. IInv /\ TypeOK /\ medium \in Media /\ own \in Nat /\ InLook
        /\ start_count \in 0 .. MaxCount /\ MaxCount \in Nat
    BY MountingAssumption DEF LookInv, IInv, TypeOK
  <2>1. PICK d \in 0 .. 2 : Held(d) /\ (phase = "none" => d = 0)
    BY <2>0, HeldSome DEF InLook
  <2>2. own <= start_count
    BY <2>0, <2>1 DEF Held
  <2>3. own > 0 => location \in DOMAIN mounts
    BY <2>0, <2>2 DEF IInv, Counted
  <2>4. Between /\ ~Broken => start_count = own
    BY <2>0, <2>1 DEF Between, Held
  <2>5. own \in 0 .. MaxCount
    BY <2>0, <2>2
  <2>6. /\ op \in {"none", "find", "repover", "product"} /\ phase \in {"none", "yum", "version", "xs"}
        /\ (phase = "none" <=> op = "none")
    BY <2>0 DEF InLook, InYum, InVersion, InXs
  <2>7. phase = "none" <=> script = <<>>
    <3>1. phase = "none" => script = <<>>
      BY <2>0 DEF InLook
    <3>2. phase = "yum" => script # <<>>
      BY <2>0, Scripts DEF InLook, InYum
    <3>3. phase = "version" => script # <<>>
      BY <2>0, Scripts DEF InLook, InVersion
    <3>4. phase = "xs" => script # <<>>
      <4>1. L \in Nat /\ XsFind \in Seq(Word) /\ Len(XsFind) >= 3 * L + 3
        BY <2>0, PresentIs, XsFindIs
      <4>2. ASSUME NEW n \in 0 .. 3 * L + 2 PROVE After(XsFind, n) # <<>>
        <5>1. n \in 0 .. Len(XsFind) - 1
          BY <4>1
        <5> QED BY <4>1, <5>1, AfterIs
      <4>3. ASSUME InXs PROVE \E n \in 0 .. 3 * L + 2 : script = After(XsFind, n)
        <5>1. /\ 0 \in 0 .. 3 * L + 2 /\ 1 \in 0 .. 3 * L + 2
              /\ \A k \in 0 .. L : 3 * k + 2 \in 0 .. 3 * L + 2
              /\ \A k \in 1 .. L : 3 * k \in 0 .. 3 * L + 2 /\ 3 * k + 1 \in 0 .. 3 * L + 2
          BY <4>1
        <5> QED BY <4>3, <5>1 DEF InXs, AtXs
      <4> QED BY <2>0, <4>2, <4>3 DEF InLook
    <3> QED BY <2>6, <3>1, <3>2, <3>3, <3>4
  <2>8. RepTypeOK
    BY <2>0, <2>5, <2>6, <2>7 DEF RepTypeOK
  <2> QED BY <2>2, <2>3, <2>4, <2>8 DEF OwnStartsHold
<1> QED BY <1>1, LookInvariance, PTL

(* findRepositories() returns all repositories of any medium, in order, or *)
(* that of yum alone because something is broken; getRepoVer() on a sound  *)
(* medium that is mounted returns yum's version or that of the first main  *)
(* repository.  For any number of locations.                               *)
THEOREM AllOrYumIsFound == RepSpec => []FindsAllOrYum
<1>1. LookInv => FindsAllOrYum
  BY DEF LookInv
<1> QED BY <1>1, LookInvariance, PTL

=============================================================================
