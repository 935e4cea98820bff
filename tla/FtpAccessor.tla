----------------------------- MODULE FtpAccessor -----------------------------
(***************************************************************************)
(* xcp/accessor.py: FTPAccessor, one FTP control connection shared by      *)
(* nested start()/finish() pairs, and a server at its other end.           *)
(*                                                                         *)
(* A RETR is answered twice: when the transfer begins, and, unasked, when  *)
(* the server has sent everything or the client hung up.  openAddress()    *)
(* hands out the data connection without waiting for the second answer;    *)
(* cleanup notes that somebody has to read it before the next command.     *)
(*                                                                         *)
(* A step is a call up to the first reply it waits for, or the reading of  *)
(* one reply.  Connecting and logging in is one step.                      *)
(***************************************************************************)
EXTENDS Naturals, Sequences

CONSTANTS
  File,      \* the files the program asks for
  Stored,    \* those the server has
  Big,       \* files larger than the buffers between server and client
  MaxCount,  \* bound: nested start()s
  MaxDrop    \* bound: connections the server drops

ASSUME FtpAssumption ==
  /\ Stored \subseteq File /\ Big \subseteq File /\ "no" \notin File
  /\ MaxCount \in Nat \ {0} /\ MaxDrop \in Nat

VARIABLES
  start_count, cleanup,  \* of the accessor
  ftp,      \* its connection: "None", "up" or "down"
  call,     \* the method running and its file
  pc,       \* the reply it waits for, or "idle"
  answer,   \* what the last call returned or raised
  inbox,    \* commands the server has not looked at
  replies,  \* replies the client has not read
  sending,  \* the server is sending this file; "no" if none
  reader,   \* the data connection at the client: "none", "open", "drained",
             \* "closed", or "aborted": closed before it was drained
  drops,    \* connections dropped so far
  careful,  \* the program reads what it opens to the end before it goes on
  sizes     \* the server never refuses to tell the size of what it has

accessor == <<start_count, cleanup, ftp>>
server   == <<inbox, replies, sending>>
peers    == <<careful, sizes>>
vars     == <<accessor, call, pc, answer, server, reader, drops, peers>>

Idle    == [op |-> "none", file |-> "none"]
Ok(c)   == c \in {200, 202, 213, 221, 226}
Err(c)  == c \in {426, 500, 502, 550, 552}

Send(cmd) == inbox' = Append(inbox, [cmd |-> cmd, file |-> call'.file])

Answer(c, a) == answer' = [call |-> c, value |-> a, ftp |-> ftp]
Return(a)    == pc' = "idle" /\ Answer(call, a)

(* How a method ends that fails: access() catches everything. *)
Fail == Return(IF call.op = "access" THEN "False" ELSE "raised")

(* The program goes on when no call is running; a careful one has read what *)
(* it opened.                                                              *)
Free == pc = "idle" /\ (careful => reader # "open")

-----------------------------------------------------------------------------
(* start() and finish() *)

(* A new connection; cleanup stays as it is.                               *)
Connect ==
  /\ Free /\ start_count = 0
  /\ inbox' = <<>> /\ replies' = <<>> /\ sending' = "no" /\ reader' = "none"
  /\ \/ ftp' = "up" /\ start_count' = 1
     \/ ftp' = "down" /\ UNCHANGED start_count     \* and an exception
  /\ UNCHANGED <<cleanup, call, pc, answer, drops>>

StartAgain ==
  /\ Free /\ start_count \in 1 .. MaxCount - 1
  /\ start_count' = start_count + 1
  /\ UNCHANGED <<cleanup, ftp, call, pc, answer, server, reader, drops>>

FinishOne ==
  /\ Free /\ start_count > 1
  /\ start_count' = start_count - 1
  /\ UNCHANGED <<cleanup, ftp, call, pc, answer, server, reader, drops>>

Quit ==
  /\ Free /\ start_count = 1
  /\ start_count' = 0
  /\ call' = [op |-> "finish", file |-> "none"]
  /\ pc' = "quit"
  /\ Send("QUIT")
  /\ UNCHANGED <<cleanup, ftp, answer, replies, sending, reader, drops>>

(* Any good reply will do, that of a RETR included. *)
Quitted ==
  /\ pc = "quit" /\ replies # <<>> /\ Ok(Head(replies))
  /\ ftp' = "None" /\ cleanup' = FALSE
  /\ inbox' = <<>> /\ replies' = <<>> /\ sending' = "no" /\ reader' = "none"
  /\ Return("None")
  /\ UNCHANGED <<start_count, call, drops>>

-----------------------------------------------------------------------------
(* access(), openAddress(), writeFile() *)

First(op) == CASE op = "access" -> "size" [] op = "open" -> "type" [] op = "write" -> "stor"
Command(p) == CASE p = "size" -> "SIZE" [] p = "nlst" -> "NLST" [] p = "type" -> "TYPE"
                [] p = "retr" -> "RETR" [] p = "stor" -> "STOR"

(* Fault: the reply of an earlier RETR is left for the next command. *)
CallAtOnce(op, f) ==
  /\ Free /\ ftp # "None"
  /\ call' = [op |-> op, file |-> f]
  /\ pc' = First(op) /\ Send(Command(First(op)))
  /\ UNCHANGED <<accessor, answer, replies, sending, reader, drops>>

Call(op, f) ==
  /\ Free /\ ftp # "None"
  /\ call' = [op |-> op, file |-> f]
  /\ \/ cleanup /\ pc' = "cleanup" /\ UNCHANGED inbox
     \/ ~cleanup /\ pc' = First(op) /\ Send(Command(First(op)))
  /\ UNCHANGED <<accessor, answer, replies, sending, reader, drops>>

(* Without a connection the assertion fails, which access() catches too. *)
CallUnstarted(op, f) ==
  /\ Free /\ ftp = "None"
  /\ call' = [op |-> op, file |-> f]
  /\ Answer(call', IF op = "access" THEN "False" ELSE "raised")
  /\ UNCHANGED <<accessor, pc, server, reader, drops>>

Waits(p) == pc = p /\ replies # <<>> /\ replies' = Tail(replies)
GoOn(p)  == pc' = p /\ call' = call /\ Send(Command(p)) /\ UNCHANGED answer

(* Fault: the flag is left set. *)
CleanedUpKept ==
  /\ Waits("cleanup") /\ Ok(Head(replies))
  /\ GoOn(First(call.op))
  /\ UNCHANGED <<accessor, sending, reader, drops>>

CleanedUp ==
  /\ Waits("cleanup") /\ Ok(Head(replies))
  /\ cleanup' = FALSE
  /\ GoOn(First(call.op))
  /\ UNCHANGED <<start_count, ftp, sending, reader, drops>>

(* A bad reply ends the call: that of an aborted RETR, whose cleanup then  *)
(* stays due.                                                              *)
Refused ==
  /\ pc # "idle" /\ Waits(pc) /\ Err(Head(replies))
  /\ Fail
  /\ UNCHANGED <<accessor, call, inbox, sending, reader, drops>>

(* Fault: what has no size is not there. *)
SizedOnly ==
  /\ Waits("size") /\ Ok(Head(replies))
  /\ Return(IF Head(replies) = 213 THEN "True" ELSE "False")
  /\ UNCHANGED <<accessor, call, inbox, sending, reader, drops>>

Sized ==
  /\ Waits("size") /\ Ok(Head(replies))
  /\ \/ Head(replies) = 213 /\ Return("True") /\ UNCHANGED <<call, inbox>>
     \/ Head(replies) # 213 /\ GoOn("nlst")
  /\ UNCHANGED <<accessor, sending, reader, drops>>

(* The list is read to its end; its last reply comes with it. *)
Listed ==
  /\ Waits("nlst") /\ Ok(Head(replies))
  /\ Return(IF call.file \in Stored THEN "True" ELSE "False")
  /\ UNCHANGED <<accessor, call, inbox, sending, reader, drops>>

Typed ==
  /\ Waits("type") /\ Ok(Head(replies)) /\ GoOn("retr")
  /\ UNCHANGED <<accessor, sending, reader, drops>>

(* Fault: the second reply of RETR is forgotten. *)
OpenedNoCleanup ==
  /\ Waits("retr") /\ Head(replies) = 150
  /\ reader' = "open"
  /\ Return("reader")
  /\ UNCHANGED <<accessor, call, inbox, sending, drops>>

Opened ==
  /\ Waits("retr") /\ Head(replies) = 150
  /\ reader' = "open"
  /\ cleanup' = TRUE
  /\ Return("reader")
  /\ UNCHANGED <<start_count, ftp, call, inbox, sending, drops>>

Written ==
  /\ Waits("stor") /\ Head(replies) = 226
  /\ Return("None")
  /\ UNCHANGED <<accessor, call, inbox, sending, reader, drops>>

(* The connection is gone: whoever uses it gets an exception. *)
Lost ==
  /\ pc # "idle" /\ ftp = "down"
  /\ Fail
  /\ inbox' = <<>>
  /\ UNCHANGED <<accessor, call, replies, sending, reader, drops>>

-----------------------------------------------------------------------------
(* The data connection and the server (external) *)

Drain ==
  /\ pc = "idle" /\ reader = "open"
  /\ reader' = "drained"
  /\ UNCHANGED <<accessor, call, pc, answer, server, drops>>

Close ==
  /\ pc = "idle"
  /\ \/ reader = "drained" /\ reader' = "closed"
     \/ reader = "open" /\ ~careful /\ reader' = "aborted"
  /\ UNCHANGED <<accessor, call, pc, answer, server, drops>>

Reply(c) == replies' = Append(replies, c)

(* The answers to a command, the first ones to RETR.  Some servers refuse  *)
(* to tell sizes: they have no SIZE (500, 502), or none in ASCII mode (550),*)
(* in which a connection begins.                                           *)
RepliesTo(m) ==
  CASE m.cmd = "TYPE" -> {200}
    [] m.cmd = "QUIT" -> {221}
    [] m.cmd = "NLST" -> {226} \cup (IF m.file \in Stored THEN {} ELSE {550})
    [] m.cmd = "STOR" -> {226, 550, 552}
    [] m.cmd = "SIZE" -> {202} \cup (IF m.file \in Stored THEN {213} ELSE {})
                         \cup (IF m.file \in Stored /\ sizes THEN {} ELSE {500, 502, 550})
    [] m.cmd = "RETR" -> {IF m.file \in Stored THEN 150 ELSE 550}

Serve ==
  /\ ftp = "up" /\ inbox # <<>> /\ sending = "no"
  /\ \E c \in RepliesTo(Head(inbox)) :
       /\ Reply(c)
       /\ sending' = IF c = 150 THEN Head(inbox).file ELSE "no"
  /\ inbox' = Tail(inbox)
  /\ UNCHANGED <<accessor, call, pc, answer, reader, drops>>

(* Of a big file something is left to send until the client has read it. *)
Sent ==
  /\ ftp = "up" /\ sending # "no"
  /\ sending \in Big => reader \in {"drained", "closed"}
  /\ Reply(226)
  /\ sending' = "no"
  /\ UNCHANGED <<accessor, call, pc, answer, inbox, reader, drops>>

HungUp ==
  /\ ftp = "up" /\ sending # "no" /\ reader = "aborted"
  /\ Reply(426)
  /\ sending' = "no"
  /\ UNCHANGED <<accessor, call, pc, answer, inbox, reader, drops>>

Drop ==
  /\ ftp = "up" /\ drops < MaxDrop
  /\ ftp' = "down"
  /\ inbox' = <<>> /\ replies' = <<>> /\ sending' = "no"
  /\ drops' = drops + 1
  /\ UNCHANGED <<start_count, cleanup, call, pc, answer, reader>>

-----------------------------------------------------------------------------

Init ==
  /\ start_count = 0 /\ cleanup = FALSE /\ ftp = "None"
  /\ call = Idle /\ pc = "idle" /\ answer = [call |-> Idle, value |-> "None", ftp |-> "None"]
  /\ inbox = <<>> /\ replies = <<>> /\ sending = "no" /\ reader = "none"
  /\ drops = 0 /\ careful \in BOOLEAN /\ sizes \in BOOLEAN

Client ==
  \/ Quitted \/ CleanedUp \/ Refused \/ Sized \/ Listed \/ Typed \/ Opened \/ Written \/ Lost
Server == Serve \/ Sent \/ HungUp

Step ==
  \/ Connect \/ StartAgain \/ FinishOne \/ Quit
  \/ \E op \in {"access", "open", "write"}, f \in File : Call(op, f) \/ CallUnstarted(op, f)
  \/ Client \/ Drain \/ Close \/ Server \/ Drop

Next == Step /\ UNCHANGED peers

Spec     == Init /\ [][Next]_vars
FairSpec == Spec /\ WF_vars(Client /\ UNCHANGED peers) /\ WF_vars(Server /\ UNCHANGED peers)

-----------------------------------------------------------------------------
(* Properties *)

Ops     == {"none", "access", "open", "write", "finish"}
States  == {"None", "up", "down"}
Calls   == [op : Ops, file : File \cup {"none"}]
Message == [cmd : {"SIZE", "NLST", "TYPE", "RETR", "STOR", "QUIT"}, file : File \cup {"none"}]
Code    == {150, 200, 202, 213, 221, 226, 426, 500, 502, 550, 552}
Results == {"None", "True", "False", "raised", "reader"}

(* Types of the variables. *)
TypeOK ==
  /\ start_count \in 0 .. MaxCount /\ cleanup \in BOOLEAN /\ ftp \in States
  /\ call \in Calls
  /\ pc \in {"idle", "cleanup", "size", "nlst", "type", "retr", "stor", "quit"}
  /\ answer \in [call : Calls, value : Results, ftp : States]
  /\ inbox \in Seq(Message) /\ replies \in Seq(Code)
  /\ sending \in File \cup {"no"}
  /\ reader \in {"none", "open", "drained", "closed", "aborted"}
  /\ drops \in 0 .. MaxDrop /\ careful \in BOOLEAN /\ sizes \in BOOLEAN

(* No command is sent while the reply to an earlier one, or the second     *)
(* reply of a RETR, is still to come: every reply is read by the command   *)
(* it belongs to.  Only the QUIT of finish() does not care.                *)
InStep ==
  /\ TypeOK
  /\ inbox # <<>> /\ pc # "quit" => replies = <<>> /\ sending = "no"

(* Reading to the end, and no connection lost: what the properties below   *)
(* need, for the code does not see to it.                                  *)
Undisturbed == careful /\ drops = 0

(* access() never finds a file that is not there, whoever aborts a         *)
(* transfer and whatever connection is lost, and undisturbed it finds one  *)
(* that is, whatever was opened and read before: by its size or in the     *)
(* list, but only if the server does not refuse to tell the size.          *)
AccessTruthful ==
  answer.call.op = "access" =>
    /\ answer.value = "True" => answer.call.file \in Stored
    /\ answer.value = "False" /\ Undisturbed /\ sizes =>
         answer.call.file \notin Stored \/ answer.ftp # "up"

(* "clean up after RETR": between calls the flag is set just when a RETR   *)
(* of this connection has a reply nobody has read, so that _cleanup()      *)
(* neither skips one nor waits for one that never comes.                   *)
CleanupIsDue ==
  Undisturbed /\ pc = "idle" /\ ftp = "up" /\ start_count > 0 =>
    (cleanup <=> sending # "no" \/ replies # <<>>)

(* Every call returns or raises.                                           *)
Returns == [](pc # "idle" => <>(pc = "idle" \/ ~Undisturbed))

=============================================================================
