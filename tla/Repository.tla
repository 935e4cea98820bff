------------------------------ MODULE Repository ------------------------------
(***************************************************************************)
(* xcp/repository.py on a MountingAccessor: looking for repositories and   *)
(* their version on a medium that may hold none, some, or broken ones.     *)
(* Every look is bracketed by start() and finish() of the accessor, which  *)
(* the program may have started itself as well; an exception skips what    *)
(* is left of a look, the finish() included.                               *)
(*                                                                         *)
(* script is what is left to do of the method that runs: "start", "finish" *)
(* the tests and parses in between, a location standing for reading the    *)
(* repository there.                                                       *)
(***************************************************************************)
EXTENDS MountingAccessor, Sublists, SequencesExt

CONSTANTS
  Known,   \* the locations that are always tried, in order
  Media    \* what the medium may hold

(* yum, and what there is at a known location:                             *)
(*   "none"; one that parses: "main" if its identifier is xcp:main,        *)
(*   "xsmain" if it is xs:main, "good" if another; "format": parsing it    *)
(*   raises RepoFormatError; "other": another exception.                   *)
(* list, the list of further locations: "none"; "names" one; "broken":     *)
(* reading it fails.                                                       *)
Good  == {"good", "main", "xsmain"}
Holds == Good \cup {"none", "format", "other"}

ASSUME RepositoryAssumption ==
  /\ Known \in Seq(STRING)
  /\ Range(Known) \cap {"start", "finish", "isyum", "treeinfo", "list", "extra", "yum"} = {}
  /\ Media \subseteq [yum : {"none", "good", "format"}, list : {"none", "names", "broken"},
                      at : [Range(Known) -> Holds]]

VARIABLES
  medium,
  op,      \* "find", "repover", "product", or "none"
  phase,   \* "yum", "version", "xs": its part that runs
  script,
  repos,   \* what the part has found
  result,  \* what the last method found, or that it raised; held: the program
           \* had started the accessor itself
  own      \* start()s of the program itself that it has not finished

method  == <<op, phase, script, repos, result>>
repVars == <<vars, medium, method, own>>

NoResult == [op |-> "none", found |-> <<>>, raised |-> FALSE, held |-> FALSE]

-----------------------------------------------------------------------------
(* The parts of the methods *)

Present == Those(Known, {i \in DOMAIN Known : medium.at[Known[i]] # "none"})

YumFind    == <<"start", "isyum", "finish">>
YumVersion == <<"start", "treeinfo", "finish">>
(* Every one of them is read between a start() and a finish() of its own. *)
Reads ==
  [j \in 1 .. 3 * Len(Present) |->
     IF j % 3 = 1 THEN "start" ELSE IF j % 3 = 2 THEN Present[(j + 1) \div 3] ELSE "finish"]
XsFind ==
  <<"start", "list">> \o Reads
  \o (IF medium.list = "names" THEN <<"extra">> ELSE <<>>)
  \o <<"finish">>

IsYum == medium.yum # "none"

(* The part after the one that finds out about yum; getProductVersion()    *)
(* has none if it is not.                                                  *)
AfterYum ==
  CASE op = "find" -> "xs"
    [] op = "repover" -> IF IsYum THEN "version" ELSE "xs"
    [] op = "product" -> IF IsYum THEN "version" ELSE "none"

ScriptOf(p) == CASE p = "version" -> YumVersion [] p = "xs" -> XsFind [] p = "none" -> <<>>

(* getRepoVer() returns the version of the first repository that is        *)
(* xcp:main; xs:main is none to it.                                        *)
Mains(rs) == Those(rs, {i \in DOMAIN rs : rs[i] \in Range(Known) /\ medium.at[rs[i]] = "main"})

Outcome(rs) ==
  CASE op = "find" \/ phase # "xs" -> rs
    [] op = "repover" /\ phase = "xs" -> IF Mains(rs) = <<>> THEN <<>> ELSE <<Head(Mains(rs))>>

Return(found, raised) ==
  /\ op' = "none" /\ phase' = "none" /\ script' = <<>> /\ repos' = <<>>
  /\ result' = [op |-> op, found |-> found, raised |-> raised, held |-> own > 0]

(* The next element, or the end of the part: of the first, or of all. *)
Advance(found) ==
  IF Len(script) > 1
  THEN script' = Tail(script) /\ repos' = found /\ UNCHANGED <<op, phase, result>>
  ELSE IF phase = "yum" /\ AfterYum # "none"
  THEN /\ phase' = AfterYum /\ script' = ScriptOf(AfterYum)
       /\ repos' = found
       /\ UNCHANGED <<op, result>>
  ELSE Return(Outcome(found), FALSE)

(* What yum found of rs: the first, if any. *)
YumsOf(rs) == IF rs # <<>> /\ Head(rs) = "yum" THEN <<"yum">> ELSE <<>>

(* findRepositories() keeps what yum found if the rest raises              *)
(* RepoFormatError, getRepoVer() returns None whatever the rest raises.    *)
Throw(exc) ==
  CASE phase = "xs" /\ op = "repover" -> Return(<<>>, FALSE)
    [] phase = "xs" /\ op = "find" /\ exc = "format" -> Return(YumsOf(repos), FALSE)
    [] OTHER -> Return(<<>>, TRUE)

-----------------------------------------------------------------------------
(* The library *)

Runs(e) == pc = "idle" /\ phase # "none" /\ Head(script) = e

(* Fault: the accessor is started for all of the method, but not finished  *)
(* by its first part.                                                      *)
BeginHeld(o) ==
  /\ pc = "idle" /\ phase = "none" /\ start_count + 2 <= MaxCount
  /\ op' = o /\ phase' = "yum" /\ script' = Front(YumFind) /\ repos' = <<>>
  /\ result' = NoResult
  /\ UNCHANGED <<vars, medium, own>>

Begin(o) ==
  /\ pc = "idle" /\ phase = "none" /\ start_count + 2 <= MaxCount
  /\ op' = o /\ phase' = "yum" /\ script' = YumFind /\ repos' = <<>>
  /\ result' = NoResult
  /\ UNCHANGED <<vars, medium, own>>

LibStart ==
  /\ phase # "none" /\ Head(script) = "start"
  /\ \/ (StartFirst \/ MountFails) /\ UNCHANGED method
     \/ (MountOk \/ StartAgain) /\ Advance(repos)
     \/ StartFails /\ Throw("other")
  /\ UNCHANGED <<medium, own>>

LibFinish ==
  /\ Runs("finish")
  /\ \/ (FinishOne \/ FinishLast) /\ Advance(repos)
     \/ FinishFails /\ Throw("other")
  /\ UNCHANGED <<medium, own>>

LookForYum ==
  /\ Runs("isyum")
  /\ Advance(IF op = "find" /\ IsYum THEN <<"yum">> ELSE <<>>)
  /\ UNCHANGED <<vars, medium, own>>

Treeinfo ==
  /\ Runs("treeinfo")
  /\ IF medium.yum = "good" THEN Advance(<<"yum">>) ELSE Throw("format")
  /\ UNCHANGED <<vars, medium, own>>

(* The list stays open while the exception is in flight.                   *)
ReadList ==
  /\ Runs("list")
  /\ IF medium.list = "broken" THEN Throw("format") ELSE Advance(repos)
  /\ UNCHANGED <<vars, medium, own>>

(* The lines of the list are bytes and do not join with file names: a     *)
(* TypeError.                                                              *)
Extra ==
  /\ Runs("extra")
  /\ Throw("other")
  /\ UNCHANGED <<vars, medium, own>>

(* Fault: what does not parse is passed over. *)
ParseSkips(l) ==
  /\ Runs(l)
  /\ Advance(IF medium.at[l] \in Good THEN Append(repos, l) ELSE repos)
  /\ UNCHANGED <<vars, medium, own>>

(* Repository(): its files have been read; the accessor is finished only   *)
(* if they parse.                                                          *)
Parse(l) ==
  /\ Runs(l)
  /\ IF medium.at[l] \in Good THEN Advance(Append(repos, l)) ELSE Throw(medium.at[l])
  /\ UNCHANGED <<vars, medium, own>>

-----------------------------------------------------------------------------
(* The program *)

OwnStart ==
  /\ phase = "none"
  /\ \/ (StartFirst \/ MountFails \/ StartFails) /\ UNCHANGED own
     \/ (MountOk \/ StartAgain) /\ own' = own + 1
  /\ UNCHANGED <<medium, method>>

OwnFinish ==
  /\ phase = "none" /\ own > 0
  /\ FinishOne \/ FinishLast \/ FinishFails
  /\ own' = own - 1
  /\ UNCHANGED <<medium, method>>

(* The program opens and closes files below the mount. *)
OwnFiles ==
  /\ phase = "none"
  /\ Open \/ \E d \in busy : CloseAll(d)
  /\ UNCHANGED <<medium, method, own>>

Drop ==
  /\ phase = "none"
  /\ Del
  /\ own' = 0
  /\ UNCHANGED <<medium, method>>

RepInit ==
  /\ Init
  /\ medium \in Media
  /\ op = "none" /\ phase = "none" /\ script = <<>> /\ repos = <<>> /\ own = 0
  /\ result = NoResult

RepNext ==
  \/ \E o \in {"find", "repover", "product"} : Begin(o)
  \/ LibStart \/ LibFinish \/ LookForYum \/ Treeinfo \/ ReadList \/ Extra
  \/ \E l \in Range(Known) : Parse(l)
  \/ OwnStart \/ OwnFinish \/ OwnFiles \/ Drop

RepSpec == RepInit /\ [][RepNext]_repVars

-----------------------------------------------------------------------------
(* Properties *)

(* Types of the variables, those of the accessor included. *)
RepTypeOK ==
  /\ TypeOK
  /\ medium \in Media
  /\ op \in {"none", "find", "repover", "product"} /\ phase \in {"none", "yum", "version", "xs"}
  /\ (phase = "none" <=> op = "none") /\ (phase = "none" <=> script = <<>>)
  /\ own \in 0 .. MaxCount

Between == phase = "none" /\ pc = "idle"

Broken ==
  \/ medium.yum = "format" \/ medium.list # "none"
  \/ \E l \in Range(Known) : medium.at[l] \in {"format", "other"}

(* A look that raises, at whatever depth, takes away no start() of the     *)
(* program: a medium the program has started is mounted until the program  *)
(* finishes it.  A look at a medium with nothing broken on it leaves no    *)
(* start() of its own behind.                                              *)
OwnStartsHold ==
  /\ RepTypeOK
  /\ pc # "mounting" => own <= start_count /\ (own > 0 => location \in DOMAIN mounts)
  /\ Between /\ ~Broken => start_count = own

(* What is there is found.  findRepositories() returns every repository    *)
(* there is, in order, or, if a broken one stops it, none but that of yum: *)
(* never some of them.  getRepoVer() on a medium with nothing broken, which*)
(* the program has mounted, returns the version of yum's or that of the    *)
(* first repository named xcp:main; a medium with xs:main only has none.   *)
Yum == IF IsYum THEN <<"yum">> ELSE <<>>
FindsAllOrYum ==
  /\ result.op = "find" /\ ~result.raised =>
       result.found = Yum \o Present \/ (Broken /\ result.found = Yum)
  /\ result.op = "repover" /\ ~Broken /\ result.held =>
       /\ ~result.raised
       /\ result.found = (IF IsYum \/ Mains(Present) = <<>> THEN Yum ELSE <<Head(Mains(Present))>>)

=============================================================================
