------------------------------- MODULE CpioFile -------------------------------
(***************************************************************************)
(* xcp/cpiofile.py: CpioFile, an archive that is written or appended to    *)
(* file by file, and read through one position that iterators, look-ups    *)
(* and extractions share.                                                  *)
(*                                                                         *)
(* The archive on disk is a sequence of cells: headers, data and trailers. *)
(* A cell stands for its bytes and their padding; data are known by the    *)
(* inode they come from.  Names are sequences of numbers, ordered as the   *)
(* code orders paths.                                                      *)
(***************************************************************************)
EXTENDS Naturals, FiniteSets, SequencesExt

CONSTANTS
  Tree,        \* the files there are: dir, ino, nlink and size for every name
  Archive,     \* the name of the archive in that tree
  Foreign,     \* archives that cpio may have written
  Bases,       \* the directories to extract to
  MaxMembers,  \* bound: members an archive may get
  MaxCells,    \* bound: cells a writer writes
  MaxOpens,    \* bound: times it is opened for writing
  MaxCalls,    \* bound: look-ups and extractions by a reader, if the archive is whole
  MaxIters,    \* bound: its iterators
  MaxCallsTorn \* bound: both, if the archive is not whole

Cell ==
  [kind : {"header"}, name : Seq(Nat), dir : BOOLEAN, ino : Nat, nlink : Nat, size : {0, 1}]
  \cup [kind : {"data"}, ino : Nat]
  \cup [kind : {"short", "junk", "trailer"}]

ASSUME CpioAssumption ==
  /\ IsFiniteSet(DOMAIN Tree) /\ Foreign \subseteq Seq(Cell) /\ Bases \subseteq Seq(Nat)
  /\ \A n \in DOMAIN Tree : /\ n \in Seq(Nat) /\ n # <<>>
                            /\ Tree[n] \in [dir : BOOLEAN, ino : Nat \ {0}, nlink : Nat \ {0}, size : {0, 1}]
  /\ \A m, n \in DOMAIN Tree : m # n /\ Tree[m].ino = Tree[n].ino => Tree[m] = Tree[n] /\ Tree[m].nlink > 1
  /\ Archive \in DOMAIN Tree
  /\ \A v \in {MaxMembers, MaxCells, MaxOpens, MaxCalls, MaxCallsTorn, MaxIters} : v \in Nat

(* What holds other files is a directory, and what is extracted to one     *)
(* directory is not extracted into what comes from another extraction.     *)
ASSUME PathsAssumption ==
  /\ \A m, n \in DOMAIN Tree : m # n /\ IsPrefix(m, n) => Tree[m].dir
  /\ \A a, b \in Bases : IsPrefix(a, b) => a = b

VARIABLES
  disk,     \* the archive
  mode,     \* "none": no CpioFile is open; "w", "a", "r"
  at,       \* the cell the writer began at
  pending,  \* what it has written, of which any part may be on disk
  todo,     \* add(): what is still to add
  obj,      \* the CpioFile
  its,      \* iterators the program goes through
  fs,       \* what has been extracted
  job,      \* the extractall() that runs, or has run
  members,  \* what a reader comes across: obj.read of them have been read
  \* history
  written,  \* what a reader should find
  before,   \* what was there when the archive was opened for appending
  whole,    \* no add() of the writer failed, and it was closed
  astray,   \* some extraction did not find its data
  opens, calls

fileVars  == <<disk, at, pending, members, written, before, whole, opens>>
readVars  == <<obj, its, fs, job, astray, calls>>
vars      == <<fileVars, readVars, mode, todo>>

Nothing == 0   \* no data

-----------------------------------------------------------------------------
(* Cells *)

Header(n, size) ==
  [kind |-> "header", name |-> n, dir |-> Tree[n].dir, ino |-> Tree[n].ino,
   nlink |-> Tree[n].nlink, size |-> size]
DataOf(n) == [kind |-> "data", ino |-> Tree[n].ino]
Short     == [kind |-> "short"]    \* less data than the header says
Junk      == [kind |-> "junk"]     \* no header begins here
Trailer   == [kind |-> "trailer"]

(* The places of the headers a reader comes across: it stops at a trailer, *)
(* at the end, and at what it cannot read.                                 *)
Places(d) ==
  LET from[i \in 1 .. Len(d) + 1] ==
        IF i > Len(d) THEN <<>>
        ELSE IF d[i].kind # "header" THEN <<>>
        ELSE <<i>> \o
             IF d[i].size = 0 THEN from[i + 1]
             ELSE IF i < Len(d) /\ d[i + 1].kind = "data" THEN from[i + 2] ELSE <<>>
  IN from[1]

Info(c) == [name |-> c.name, dir |-> c.dir, ino |-> c.ino, nlink |-> c.nlink, size |-> c.size]

Infos(d) == [k \in DOMAIN Places(d) |-> Info(d[Places(d)[k]])]

(* What is read for the k-th member. *)
Data(d, k) ==
  LET i == Places(d)[k] IN
  IF d[i].size = 0 \/ i = Len(d) THEN Nothing
  ELSE IF d[i + 1].kind = "data" THEN d[i + 1].ino ELSE Nothing

AllButLast(s) == IF s = <<>> THEN <<>> ELSE Front(s)

(* A header with what belongs behind it: only of a file that has several   *)
(* names may the content be with another one.                              *)
Proper(d, i) ==
  \E n \in DOMAIN Tree : \E size \in 0 .. Tree[n].size :
    /\ d[i] = Header(n, size) /\ (Tree[n].nlink = 1 => size = Tree[n].size)
    /\ size = 1 => i < Len(d) /\ d[i + 1] = DataOf(n)

(* Archives that another program has written are whole, and of the same    *)
(* files.                                                                  *)
ASSUME ForeignAssumption ==
  \A d \in Foreign : \A i \in DOMAIN d :
    \/ i = Len(d) /\ d[i] = Trailer
    \/ Proper(d, i)
    \/ i > 1 /\ d[i - 1].kind = "header" /\ d[i - 1].size = 1 /\ d[i].kind = "data"

-----------------------------------------------------------------------------
(* Writing *)

NoInodes == <<>>
NewObject == [stream |-> FALSE, read |-> 0, first |-> FALSE, loaded |-> TRUE, pos |-> 0, inodes |-> NoInodes]
NoJob == [phase |-> "none", base |-> <<>>, path |-> <<>>, index |-> 0, dirs |-> {}, fresh |-> FALSE]

KnowInode(inodes, ino, n) ==
  [i \in DOMAIN inodes \cup {ino} |-> IF i \in DOMAIN inodes THEN inodes[i] ELSE n]

(* Where mode "a" begins: at the header of the last member.                *)
AppendAt(d) == IF Places(d) = <<>> THEN 1 ELSE Last(Places(d))

OpenWrite ==
  /\ mode = "none" /\ opens < MaxOpens
  /\ mode' = "w" /\ disk' = <<>> /\ at' = 1 /\ written' = <<>> /\ before' = <<>>
  /\ pending' = <<>> /\ whole' = TRUE /\ opens' = opens + 1 /\ todo' = <<>>
  /\ obj' = NewObject
  /\ UNCHANGED <<members, its, fs, job, astray, calls>>

OpenAppend ==
  /\ mode = "none" /\ opens < MaxOpens
  /\ mode' = "a" /\ at' = AppendAt(disk)
  /\ before' = Infos(disk) /\ written' = AllButLast(Infos(disk))
  /\ pending' = <<>> /\ whole' = TRUE /\ opens' = opens + 1 /\ todo' = <<>>
  /\ obj' = NewObject
  /\ UNCHANGED <<disk, members, its, fs, job, astray, calls>>

Children(n) == {m \in DOMAIN Tree : AllButLast(m) = n}

(* add() of a name by the program, and of what is below it, in any order.  *)
Add(n) ==
  /\ mode \in {"w", "a"} /\ todo = <<>> /\ Len(written) < MaxMembers /\ Len(pending) < MaxCells
  /\ todo' = <<n>>
  /\ UNCHANGED <<fileVars, readVars, mode>>

(* The size in the header: the content goes with the first link only.      *)
SizeOf(n) == IF Tree[n].nlink > 1 /\ Tree[n].ino \in DOMAIN obj.inodes THEN 0 ELSE Tree[n].size

(* Fault: the content is written whatever the header says. *)
CellsAlways(n) ==
  IF Tree[n].size = 0 THEN <<Header(n, SizeOf(n))>> ELSE <<Header(n, SizeOf(n)), DataOf(n)>>

Cells(n) ==
  IF SizeOf(n) = 0 THEN <<Header(n, SizeOf(n))>> ELSE <<Header(n, SizeOf(n)), DataOf(n)>>

KnowLink(n) ==
  obj' = IF Tree[n].nlink > 1 THEN [obj EXCEPT !.inodes = KnowInode(@, Tree[n].ino, n)] ELSE obj

(* addfile() *)
AddFile ==
  /\ todo # <<>> /\ Head(todo) # Archive
  /\ LET n == Head(todo) IN
     /\ pending' = pending \o Cells(n)
     /\ written' = Append(written, Info(Header(n, SizeOf(n))))
     /\ KnowLink(n)
     /\ \E s \in SetToSeqs(Children(n)) : todo' = s \o Tail(todo)
  /\ UNCHANGED <<disk, at, members, before, whole, opens, its, fs, job, astray, calls, mode>>

SkipArchive ==
  /\ todo # <<>> /\ Head(todo) = Archive
  /\ todo' = Tail(todo)
  /\ UNCHANGED <<fileVars, readVars, mode>>

(* The file has become shorter since lstat(): copyfileobj() raises, and    *)
(* the rest of the add() with it.                                          *)
AddFails ==
  /\ todo # <<>> /\ Head(todo) # Archive /\ SizeOf(Head(todo)) > 0
  /\ pending' = pending \o <<Header(Head(todo), SizeOf(Head(todo))), Short>>
  /\ KnowLink(Head(todo))
  /\ whole' = FALSE
  /\ todo' = <<>>
  /\ UNCHANGED <<disk, at, members, written, before, opens, its, fs, job, astray, calls, mode>>

(* Readers do not look behind the trailer. *)
CloseWriter ==
  /\ mode \in {"w", "a"} /\ todo = <<>>
  /\ disk' = SubSeq(disk, 1, at - 1) \o pending \o <<Trailer>>
  /\ mode' = "none" /\ at' = 1 /\ pending' = <<>> /\ obj' = NewObject
  /\ UNCHANGED <<members, written, before, whole, opens, its, fs, job, astray, calls, todo>>

(* What there is of a cell that is partly written. *)
Cut(c) == IF c.kind = "header" THEN {Junk, [c EXCEPT !.name = <<0>>]} ELSE {Junk}

(* What was there before is read on with only if what is written over it   *)
(* has its length; here, if it is of the same kind cell by cell.           *)
InStep(k) ==
  \A i \in 1 .. k : at + i - 1 <= Len(disk) => disk[at + i - 1].kind = pending[i].kind

(* The program ends without close(): any part of what it wrote is on disk. *)
Crash ==
  /\ mode \in {"w", "a"}
  /\ \E k \in 0 .. Len(pending) :
       LET now == SubSeq(disk, 1, at - 1) \o SubSeq(pending, 1, k) IN
       \/ InStep(k) /\ disk' = now \o SubSeq(disk, at + k, Len(disk))
       \/ at + k <= Len(disk) /\ disk' = Append(now, Junk)
       \/ k < Len(pending) /\ \E c \in Cut(pending[k + 1]) : disk' = Append(now, c)
  /\ mode' = "none" /\ at' = 1 /\ pending' = <<>> /\ obj' = NewObject
  /\ whole' = FALSE
  /\ todo' = <<>>
  /\ UNCHANGED <<members, written, before, opens, its, fs, job, astray, calls>>

-----------------------------------------------------------------------------
(* Reading: next() and what is built on it.  The operators take a CpioFile *)
(* and return it with what they yield; pos is where a stream is: 2*k with  *)
(* the data of the k-th member next, 2*k+1 behind them.                    *)

N == Len(members)

At(o, p) == [o EXCEPT !.pos = IF o.stream THEN p ELSE 0]

(* The history of writing ends here: an archive that has been read is not  *)
(* written again.                                                          *)
OpenRead(stream) ==
  /\ mode = "none"
  /\ IF disk = <<>> THEN TRUE ELSE disk[1].kind \in {"header", "trailer"}
  /\ mode' = "r" /\ members' = Infos(disk)
  /\ LET first == disk # <<>> /\ disk[1].kind = "header" IN
     obj' = At([stream |-> stream, read |-> IF first THEN 1 ELSE 0, first |-> first,
                loaded |-> FALSE, pos |-> 0, inodes |-> NoInodes], 2)
  /\ written' = Infos(disk) /\ before' = <<>> /\ opens' = MaxOpens
  /\ UNCHANGED <<disk, at, pending, whole, its, fs, job, astray, calls, todo>>

AtEnd(o) == At([o EXCEPT !.read = N, !.first = FALSE], 2 * (N + 1))

AtMember(o, k) == At([o EXCEPT !.read = k, !.first = FALSE], 2 * k)

(* next(): the member's number, 0 for None.  The first member was read     *)
(* when the archive was opened.                                            *)
NextOf(o) ==
  IF o.first THEN [obj |-> [o EXCEPT !.first = FALSE], k |-> 1]
  ELSE IF o.read < N THEN [obj |-> AtMember(o, o.read + 1), k |-> o.read + 1]
  ELSE [obj |-> AtEnd(o), k |-> 0]

Load(o) == IF o.loaded THEN o ELSE [AtEnd(o) EXCEPT !.loaded = TRUE]

(* Fault: an iterator always reads on. *)
StepReadsOn(o, index) ==
  LET n == NextOf(o) IN IF n.k = 0 THEN [obj |-> Load(n.obj), k |-> 0] ELSE n

(* CpioIter.__next__(): from the archive or, once it is loaded, from the   *)
(* list of the members.                                                    *)
Step(o, index) ==
  IF o.loaded THEN [obj |-> o, k |-> IF index < o.read THEN index + 1 ELSE 0]
  ELSE LET n == NextOf(o) IN IF n.k = 0 THEN [obj |-> Load(n.obj), k |-> 0] ELSE n

(* What an iterator that is made now would come across. *)
Ahead(o) == IF o.loaded \/ o.first THEN 1 .. N ELSE o.read + 1 .. N

WithData(ks, ino) == {k \in ks : members[k].ino = ino /\ members[k].size > 0}

Least(S) == CHOOSE k \in S : \A j \in S : k <= j

(* Fault: the first other member with the inode, data or not. *)
DatamemberAny(o, k) ==
  LET found == {j \in Ahead(o) : members[j].ino = members[k].ino} IN
  IF members[k].size > 0 THEN [obj |-> o, k |-> k]
  ELSE IF found = {} THEN [obj |-> Load(o), k |-> k]
  ELSE [obj |-> IF o.loaded THEN o ELSE AtMember(o, Least(found)), k |-> Least(found)]

(* _datamember(): the member with the data of a link.  An iterator of its  *)
(* own looks for it, and takes what it comes across from all others.       *)
Datamember(o, k) ==
  LET found == WithData(Ahead(o), members[k].ino) IN
  IF members[k].size > 0 THEN [obj |-> o, k |-> k]
  ELSE IF found = {} THEN [obj |-> Load(o), k |-> k]
  ELSE [obj |-> IF o.loaded THEN o ELSE AtMember(o, Least(found)), k |-> Least(found)]

(* A stream does not go back to data it has passed. *)
Readable(o, k)  == o.stream => o.pos <= 2 * k
AfterRead(o, k) == IF members[k].size > 0 THEN At(o, 2 * k + 1) ELSE o

-----------------------------------------------------------------------------
(* Extraction of one member: what is in fs is a directory or a file, its   *)
(* data, and the inode whose owner, mode and time have been set on it.     *)

MakeDirs(f, dirs, attr) ==
  [p \in DOMAIN f \cup dirs |->
     IF p \in DOMAIN f THEN f[p] ELSE [dir |-> TRUE, data |-> Nothing, attr |-> attr]]

Put(f, p, e) == [q \in DOMAIN f \cup {p} |-> IF q = p THEN e ELSE f[q]]

UpperDirs(p) == {SubSeq(p, 1, i) : i \in 1 .. Len(p) - 1}

ExtractDir(o, f, k, p) ==
  [obj |-> o, raised |-> FALSE,
   fs |-> Put(f, p, [dir |-> TRUE, data |-> Nothing, attr |-> members[k].ino])]

(* os.link() to the first name extracted for the inode; errors pass.       *)
ExtractLink(o, f, p, target) ==
  [obj |-> o, raised |-> FALSE,
   fs |-> IF target \in DOMAIN f /\ p \notin DOMAIN f THEN Put(f, p, f[target]) ELSE f]

(* The file is created before its data are read, and known to have been.   *)
ExtractData(o, f, k, p) ==
  LET m == members[k]
      d == IF m.nlink = 1 THEN [obj |-> o, k |-> k] ELSE Datamember(o, k)
      known == [d.obj EXCEPT !.inodes = KnowInode(@, m.ino, m.name)]
  IN IF Readable(known, d.k)
     THEN [obj |-> AfterRead(known, d.k), raised |-> FALSE,
           fs |-> Put(f, p, [dir |-> FALSE, data |-> Data(disk, d.k), attr |-> m.ino])]
     ELSE [obj |-> known, raised |-> TRUE,
           fs |-> Put(f, p, [dir |-> FALSE, data |-> Nothing, attr |-> 0])]

IsLinked(o, k) == members[k].nlink > 1 /\ members[k].ino \in DOMAIN o.inodes

(* extract() of the k-th member below base. *)
ExtractOf(o, f, k, base) ==
  LET p == base \o members[k].name
      g == MakeDirs(f, UpperDirs(p), members[k].ino)
  IN IF members[k].dir THEN ExtractDir(o, g, k, p)
     ELSE IF IsLinked(o, k) THEN ExtractLink(o, g, p, base \o o.inodes[members[k].ino])
     ELSE ExtractData(o, g, k, p)

(* The data of a link have been passed, and the search is in vain. *)
Missed(o, k) ==
  /\ ~members[k].dir /\ members[k].size = 0 /\ ~IsLinked(o, k) /\ ~o.loaded
  /\ WithData(1 .. N, members[k].ino) # {} /\ WithData(Ahead(o), members[k].ino) = {}

-----------------------------------------------------------------------------
(* The calls of a program that reads *)

Free == mode = "r" /\ job.phase \in {"none", "done", "failed"}
Call ==
  /\ Free
  /\ calls < IF whole THEN MaxCalls ELSE MaxCallsTorn
  /\ calls' = calls + 1

(* History: an iterator is alone as long as no other takes members from it.*)
Alone(it, o) == it.alone /\ (o.loaded \/ Ahead(o) = Ahead(obj))

NewIterator ==
  /\ Free /\ Len(its) < IF whole THEN MaxIters ELSE MaxCallsTorn
  /\ its' = Append(its, [index |-> 0, last |-> 0, done |-> FALSE, alone |-> Ahead(obj) = 1 .. N])
  /\ UNCHANGED <<fileVars, obj, fs, job, astray, calls, mode, todo>>

Resume(i) ==
  /\ Free /\ ~its[i].done
  /\ LET n == Step(obj, its[i].index) IN
     /\ obj' = n.obj
     /\ its' = [j \in DOMAIN its |->
                  IF j # i THEN [its[j] EXCEPT !.alone = Alone(its[j], n.obj)]
                  ELSE IF n.k = 0 THEN [its[i] EXCEPT !.done = TRUE]
                  ELSE [its[i] EXCEPT !.index = @ + 1, !.last = n.k]]
  /\ UNCHANGED <<fileVars, fs, job, astray, calls, mode, todo>>

LeftAlone == its' = [j \in DOMAIN its |-> [its[j] EXCEPT !.alone = Alone(its[j], obj')]]

GetMembers ==
  /\ Call
  /\ obj' = Load(obj)
  /\ LeftAlone
  /\ UNCHANGED <<fileVars, fs, job, astray, mode, todo>>

Extracted(o, k, base) ==
  LET x == ExtractOf(o, fs, k, base) IN
  /\ obj' = x.obj /\ fs' = x.fs
  /\ astray' = (astray \/ x.raised \/ Missed(o, k))

(* extract() of a CpioInfo the program has got or, by name, of the last of *)
(* that name, which loads the archive.                                     *)
Extract(k, base) ==
  /\ Call
  /\ \/ k <= obj.read /\ Extracted(obj, k, base)
     \/ /\ \A j \in k + 1 .. N : members[j].name # members[k].name
        /\ Extracted(Load(obj), k, base)
  /\ LeftAlone
  /\ UNCHANGED <<fileVars, job, mode, todo>>

(* extractfile(), read to its end; reading may raise. *)
ExtractFile(k) ==
  /\ Call /\ k <= obj.read /\ ~members[k].dir
  /\ obj' = IF Readable(obj, k) THEN AfterRead(obj, k) ELSE obj
  /\ UNCHANGED <<fileVars, its, fs, job, astray, mode, todo>>

CloseReader ==
  /\ Free
  /\ mode' = "none"
  /\ obj' = NewObject /\ its' = <<>> /\ fs' = <<>> /\ job' = NoJob /\ astray' = FALSE /\ calls' = 0
  /\ members' = <<>>
  /\ UNCHANGED <<disk, at, pending, written, before, whole, opens, todo>>

-----------------------------------------------------------------------------
(* extractall() *)

ExtractAll(base) ==
  /\ Call
  /\ job' = [phase |-> "files", base |-> base, path |-> base, index |-> 0, dirs |-> {},
             fresh |-> /\ Ahead(obj) = 1 .. N /\ obj.inodes = NoInodes
                       /\ obj.stream => obj.pos = 2]
  /\ UNCHANGED <<fileVars, obj, its, fs, astray, mode, todo>>

(* One member: directories are only made, their attributes come at the end.*)
ExtractAllMember ==
  /\ job.phase = "files"
  /\ LET n == Step(obj, job.index) IN
     \/ /\ n.k = 0
        /\ obj' = n.obj /\ job' = [job EXCEPT !.phase = "dirs"]
        /\ UNCHANGED <<fs, astray>>
     \/ /\ n.k # 0 /\ members[n.k].dir
        /\ obj' = n.obj
        /\ LET p == job.base \o members[n.k].name IN fs' = MakeDirs(fs, UpperDirs(p) \cup {p}, 0)
        /\ job' = [job EXCEPT !.index = @ + 1, !.dirs = @ \cup {n.k}]
        /\ UNCHANGED astray
     \/ /\ n.k # 0 /\ ~members[n.k].dir
        /\ Extracted(n.obj, n.k, job.base)
        /\ job' = IF ExtractOf(n.obj, fs, n.k, job.base).raised THEN [job EXCEPT !.phase = "failed"]
                  ELSE [job EXCEPT !.index = @ + 1]
  /\ LeftAlone
  /\ UNCHANGED <<fileVars, calls, mode, todo>>

(* The order of names, which sorts a directory before what it holds.       *)
Less(s, t) ==
  \E i \in 1 .. Len(t) :
    /\ Len(s) >= i - 1 /\ SubSeq(s, 1, i - 1) = SubSeq(t, 1, i - 1)
    /\ IF Len(s) = i - 1 THEN TRUE ELSE s[i] < t[i]

Before(j, k) == Less(members[j].name, members[k].name) \/ (members[j].name = members[k].name /\ j < k)

(* Fault: the directories are not reversed. *)
NextDirForward(k) == k \in job.dirs /\ \A j \in job.dirs \ {k} : Before(k, j)

(* The directories in reverse order. *)
NextDir(k) == k \in job.dirs /\ \A j \in job.dirs \ {k} : Before(j, k)

(* Its path is joined to the path of the one before; an error passes.      *)
ExtractAllDir(k) ==
  /\ job.phase = "dirs" /\ NextDir(k)
  /\ LET path == job.path \o members[k].name IN
     /\ fs' = IF path \in DOMAIN fs THEN [fs EXCEPT ![path].attr = members[k].ino] ELSE fs
     /\ job' = [job EXCEPT !.path = path, !.dirs = @ \ {k}]
  /\ UNCHANGED <<fileVars, obj, its, astray, calls, mode, todo>>

ExtractAllEnds ==
  /\ job.phase = "dirs" /\ job.dirs = {}
  /\ job' = [job EXCEPT !.phase = "done"]
  /\ UNCHANGED <<fileVars, obj, its, fs, astray, calls, mode, todo>>

-----------------------------------------------------------------------------

Init ==
  /\ disk \in Foreign \cup {<<>>}
  /\ mode = "none" /\ at = 1 /\ pending = <<>> /\ todo = <<>>
  /\ obj = NewObject /\ its = <<>> /\ fs = <<>> /\ job = NoJob
  /\ members = <<>> /\ written = Infos(disk) /\ before = <<>> /\ whole = TRUE /\ astray = FALSE
  /\ opens = 0 /\ calls = 0

WriterNext ==
  \/ OpenWrite \/ OpenAppend \/ CloseWriter \/ Crash
  \/ \E n \in DOMAIN Tree : Add(n)
  \/ AddFile \/ SkipArchive \/ AddFails

ReaderNext ==
  \/ \E stream \in BOOLEAN : OpenRead(stream)
  \/ NewIterator \/ \E i \in DOMAIN its : Resume(i)
  \/ GetMembers
  \/ \E k \in 1 .. N : ExtractFile(k) \/ ExtractAllDir(k) \/ \E b \in Bases : Extract(k, b)
  \/ \E b \in Bases : ExtractAll(b)
  \/ ExtractAllMember \/ ExtractAllEnds \/ CloseReader

Next == WriterNext \/ ReaderNext

Spec == Init /\ [][Next]_vars

-----------------------------------------------------------------------------
(* Properties *)

(* Types of the variables. *)
TypeOK ==
  /\ disk \in Seq(Cell) /\ pending \in Seq(Cell)
  /\ mode \in {"none", "w", "a", "r"} /\ at \in Nat \ {0}
  /\ obj.read \in 0 .. N \/ mode # "r"
  /\ \A i \in DOMAIN its : its[i].index \in 0 .. N /\ its[i].last \in 0 .. N
  /\ \A p \in DOMAIN fs : fs[p] \in [dir : BOOLEAN, data : Nat, attr : Nat]
  /\ job.phase \in {"none", "files", "dirs", "done", "failed"} /\ job.dirs \subseteq 1 .. N

(* A reader finds what was added, in order and with its data, and all of   *)
(* it if no add() failed and the archive was closed.  Otherwise what was   *)
(* added completely is found, but for an end that is missing, and at most  *)
(* the last of what is found is incomplete or not what it says; appending  *)
(* leaves all but the last of the earlier members as they were.            *)
KeepsWhatWasWritten ==
  /\ TypeOK
  /\ mode = "none" =>
       LET found == Infos(disk) IN
       IF whole
       THEN /\ found = written
            /\ \A k \in DOMAIN found :
                 Data(disk, k) = IF found[k].size = 0 THEN Nothing ELSE found[k].ino
       ELSE /\ IsPrefix(AllButLast(found), written)
            /\ IsPrefix(AllButLast(before), found)

(* An iterator that no other takes members from yields the first, the      *)
(* second, and so on to the last, whatever look-ups and extractions are    *)
(* done in the loop and however much of the archive they load.             *)
IteratesAll ==
  \A i \in DOMAIN its : its[i].alone =>
    its[i].last = its[i].index /\ (its[i].done => its[i].index = N)

(* The data of a member's inode, if the archive has them. *)
Own(k) == IF WithData(1 .. N, members[k].ino) = {} THEN Nothing ELSE members[k].ino

(* Files are extracted with their own data, hard links with those of their *)
(* inode, in whatever order and from whatever loops; a stream that cannot  *)
(* go back and a search that has passed the data leave a file empty, never *)
(* with the data of another.                                               *)
ExtractsRightData ==
  whole => \A k \in 1 .. N, b \in Bases :
    LET p == b \o members[k].name IN
    p \in DOMAIN fs /\ ~members[k].dir =>
      ~fs[p].dir /\ (fs[p].data = Own(k) \/ (astray /\ fs[p].data = Nothing))

(* The data of a hard link come with its first name, as add() writes them. *)
DataFirst ==
  \A k \in 1 .. N : ~members[k].dir /\ members[k].size = 0 =>
    WithData(1 .. k, members[k].ino) # {} \/ WithData(1 .. N, members[k].ino) = {}

(* Some empty file has several names. *)
EmptyLinks ==
  \E k \in 1 .. N : /\ ~members[k].dir /\ members[k].nlink > 1
                    /\ WithData(1 .. N, members[k].ino) = {}

Orderly == DataFirst /\ ~(obj.stream /\ EmptyLinks)

(* The first extractall() of an archive like those add() writes, before    *)
(* any iterator has moved, extracts all its members with their data, and   *)
(* gives the directory that is last in order its own owner, mode and time. *)
(* Of archives with empty files that have several names, which add() writes*)
(* too, this is said only where the reader can go back: in a stream the    *)
(* search for their data ends with an error.                               *)
ExtractsAll ==
  whole /\ job.fresh /\ Orderly =>
    /\ job.phase # "failed"
    /\ job.phase = "done" /\ ~astray =>
         \A k \in 1 .. N :
           LET p == job.base \o members[k].name IN
           /\ p \in DOMAIN fs
           /\ ~members[k].dir => fs[p].data = Own(k)
           /\ members[k].dir /\ (\A j \in 1 .. N : members[j].dir => j = k \/ Before(j, k)) =>
                fs[p].attr = members[k].ino

(* "Move to the end of the archive, before the trailer": what was in an    *)
(* archive that is appended to is in it afterwards.                        *)
AppendKeepsAll == mode = "none" /\ whole => IsPrefix(before, Infos(disk))

=============================================================================
