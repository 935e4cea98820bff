------------------------------ MODULE FtpProofs ------------------------------
(***************************************************************************)
(* Proofs about FtpAccessor: client and server stay in step, access() is   *)
(* truthful, and the cleanup flag is set exactly when it should be, for    *)
(* any files, any nesting of start()s and any number of lost connections.  *)
(***************************************************************************)
EXTENDS FtpAccessor, SequenceTheorems, TLAPS

-----------------------------------------------------------------------------
(* Lists of one and of two elements, as the models write them. *)
LEMMA ShortLists ==
  ASSUME NEW a, NEW b
  PROVE  /\ Head(<<a>>) = a /\ Tail(<<a>>) = <<>> /\ <<a>> # <<>>
         /\ Head(<<a, b>>) = a /\ Tail(<<a, b>>) = <<b>> /\ <<a, b>> # <<>>
         /\ Append(<<>>, a) = <<a>> /\ Append(<<a>>, b) = <<a, b>>
         /\ Len(<<a>>) = 1 /\ <<a>>[1] = a
<1> DEFINE S == {a, b}
           s == Append(<<a>>, b)
           t == <<a, b>>
<1>1. Append(<<a>>, b) = <<a, b>>
  <2>1. <<a>> \in Seq(S) /\ b \in S /\ Len(<<a>>) = 1 /\ <<a>>[1] = a
    OBVIOUS
  <2>2. t \in Seq(S) /\ Len(t) = 2 /\ t[1] = a /\ t[2] = b
    OBVIOUS
  <2>3. s \in Seq(S) /\ Len(s) = 2 /\ s[1] = a /\ s[2] = b
    BY <2>1
  <2> HIDE DEF S, s, t
  <2>4. \A i \in 1 .. Len(s) : s[i] = t[i]
    BY <2>2, <2>3
  <2>5. s = t
    BY <2>2, <2>3, <2>4, SeqEqual
  <2> QED BY <2>5 DEF s, t
<1>2. Head(<<a>>) = a /\ Tail(<<a>>) = <<>> /\ <<a>> # <<>>
  OBVIOUS
<1>3. Head(<<a, b>>) = a /\ Tail(<<a, b>>) = <<b>> /\ <<a, b>> # <<>>
  OBVIOUS
<1>4. Append(<<>>, a) = <<a>> /\ Len(<<a>>) = 1 /\ <<a>>[1] = a
  OBVIOUS
<1> QED BY <1>1, <1>2, <1>3, <1>4


-----------------------------------------------------------------------------
(* The inductive invariant.  It says what is under way on the connection,  *)
(* by the reply the client waits for.  Between calls that is nothing, or   *)
(* the second reply of a RETR, which cleanup knows of, or what a finish()  *)
(* left behind whose QUIT was answered by the 426 of an aborted RETR.      *)

Quiet    == inbox = <<>> /\ replies = <<>> /\ sending = "no"
Transfer == /\ inbox = <<>>
            /\ \/ sending # "no" /\ replies = <<>>
               \/ sending = "no" /\ (replies = <<226>> \/ replies = <<426>>)

IsQuit(box) == Len(box) = 1 /\ box[1].cmd = "QUIT"
QuitLeft ==
  /\ sending = "no"
  /\ \/ IsQuit(inbox) /\ replies = <<>>
     \/ inbox = <<>> /\ replies = <<221>>

(* QUIT was sent, perhaps while a transfer was under way. *)
QuitAfterRetr ==
  \/ IsQuit(inbox) /\ sending # "no" /\ replies = <<>>
  \/ IsQuit(inbox) /\ sending = "no" /\ (replies = <<226>> \/ replies = <<426>>)
  \/ inbox = <<>> /\ sending = "no" /\ (replies = <<226, 221>> \/ replies = <<426, 221>>)

(* The command of pc is on its way, or its answer. *)
Asked == [cmd |-> Command(pc), file |-> call.file]
Awaited ==
  \/ inbox = <<Asked>> /\ replies = <<>> /\ sending = "no"
  \/ /\ inbox = <<>>
     /\ \E c \in RepliesTo(Asked) :
          \/ replies = <<c>> /\ sending = (IF c = 150 THEN call.file ELSE "no")
          \/ c = 150 /\ sending = "no" /\ (replies = <<150, 226>> \/ replies = <<150, 426>>)

CommandPcs == {"size", "nlst", "type", "retr", "stor"}

UnderWay ==
  /\ ftp = "None" => pc = "idle" /\ Quiet
  /\ ftp = "down" => replies = <<>> /\ sending = "no"
  /\ ftp = "up" =>
       /\ pc \in {"idle", "cleanup"} =>
            Quiet \/ (cleanup /\ (Transfer \/ (start_count = 0 /\ QuitLeft)))
       /\ pc = "quit" => QuitLeft \/ (cleanup /\ QuitAfterRetr)
       /\ pc \in CommandPcs => Awaited

Control ==
  /\ start_count > 0 => ftp # "None"
  /\ pc = "quit" => start_count = 0
  /\ pc = "cleanup" => cleanup /\ call.op \in {"access", "open", "write"} /\ call.file \in File
  /\ pc \in CommandPcs => ~cleanup /\ call.file \in File
  /\ pc = "stor" => call.op # "access"

(* A program that reads to the end aborts nothing. *)
NoneAborted ==
  careful => reader # "aborted" /\ \A i \in DOMAIN replies : replies[i] # 426

(* Undisturbed, the flag never outlives its connection. *)
FlagFresh ==
  Undisturbed =>
    /\ start_count > 0 \/ pc = "quit" => ftp = "up"
    /\ start_count = 0 /\ pc # "quit" => ~cleanup /\ ftp # "up"
    /\ start_count > 0 /\ pc \in {"idle", "cleanup"} /\ cleanup => Transfer

IInv == TypeOK /\ Control /\ UnderWay /\ NoneAborted /\ FlagFresh /\ AccessTruthful

-----------------------------------------------------------------------------
LEMMA Commands ==
  ASSUME NEW p \in CommandPcs
  PROVE  Command(p) \in {"SIZE", "NLST", "TYPE", "RETR", "STOR"}
BY DEF CommandPcs, Command

LEMMA Codes == ASSUME NEW m \in Message PROVE \A c \in RepliesTo(m) : c \in Code /\ c # 426
BY DEF Message, Code, RepliesTo

(* A call that waits for a reply to its command, when one has come. *)
LEMMA Replied ==
  ASSUME IInv, pc \in CommandPcs, replies # <<>>
  PROVE  /\ ftp = "up" /\ inbox = <<>> /\ Head(replies) \in RepliesTo(Asked)
         /\ IF Head(replies) = 150
            THEN \/ sending # "no" /\ Tail(replies) = <<>>
                 \/ sending = "no" /\ (Tail(replies) = <<226>> \/ Tail(replies) = <<426>>)
            ELSE Tail(replies) = <<>> /\ sending = "no"
         /\ ~cleanup
<1>1. ftp = "up" /\ Awaited /\ ~cleanup /\ call.file # "no"
  BY FtpAssumption DEF IInv, TypeOK, States, UnderWay, Control, Quiet, CommandPcs
<1>2. PICK c \in RepliesTo(Asked) :
        \/ replies = <<c>> /\ sending = (IF c = 150 THEN call.file ELSE "no")
        \/ c = 150 /\ sending = "no" /\ (replies = <<150, 226>> \/ replies = <<150, 426>>)
  BY <1>1 DEF Awaited
<1>3. inbox = <<>>
  BY <1>1 DEF Awaited
<1>4. CASE replies = <<c>> /\ sending = (IF c = 150 THEN call.file ELSE "no")
  BY <1>1, <1>3, <1>4, ShortLists
<1>5. CASE c = 150 /\ sending = "no" /\ replies = <<150, 226>>
  BY <1>1, <1>3, <1>5, ShortLists
<1>6. CASE c = 150 /\ sending = "no" /\ replies = <<150, 426>>
  BY <1>1, <1>3, <1>6, ShortLists
<1> QED BY <1>2, <1>4, <1>5, <1>6

(* A command sent when nothing is under way is awaited. *)
LEMMA SentAlone ==
  ASSUME inbox = <<>>, replies' = <<>>, sending' = "no", pc' \in CommandPcs, Send(Command(pc'))
  PROVE  Awaited'
BY ShortLists DEF Send, Awaited, Asked

LEMMA SameReplies ==
  ASSUME Asked' = Asked, UNCHANGED sizes
  PROVE  RepliesTo(Asked)' = RepliesTo(Asked)
BY DEF RepliesTo

(* The answers that may come, by what is asked: an error means that the    *)
(* file is not there, but for an upload, or a server that refuses sizes.   *)
LEMMA Answers ==
  ASSUME pc \in CommandPcs, NEW c \in RepliesTo(Asked)
  PROVE  /\ c = 150 => pc = "retr"
         /\ c = 213 => call.file \in Stored
         /\ Err(c) => c # 426 /\ (pc = "stor" \/ call.file \notin Stored \/ ~sizes)
<1>1. Asked.file = call.file /\ Asked.cmd = Command(pc)
  BY DEF Asked
<1>2. CASE pc = "size"
  <2>1. c \in {202} \cup (IF call.file \in Stored THEN {213} ELSE {})
              \cup (IF call.file \in Stored /\ sizes THEN {} ELSE {500, 502, 550})
    BY <1>1, <1>2 DEF RepliesTo, Command
  <2> QED BY <2>1 DEF Err
<1>3. CASE pc = "nlst"
  <2>1. c \in {226} \cup (IF call.file \in Stored THEN {} ELSE {550})
    BY <1>1, <1>3 DEF RepliesTo, Command
  <2> QED BY <2>1 DEF Err
<1>4. CASE pc = "type"
  BY <1>1, <1>4 DEF RepliesTo, Command, Err
<1>5. CASE pc = "retr"
  BY <1>1, <1>5 DEF RepliesTo, Command, Err
<1>6. CASE pc = "stor"
  BY <1>1, <1>6 DEF RepliesTo, Command, Err
<1> QED BY <1>2, <1>3, <1>4, <1>5, <1>6 DEF CommandPcs

(* A call that waits for the reply it owes an earlier one. *)
LEMMA CleanupReplied ==
  ASSUME IInv, pc = "cleanup", replies # <<>>
  PROVE  /\ ftp = "up" /\ inbox = <<>> /\ sending = "no" /\ cleanup
         /\ Tail(replies) = <<>> /\ Head(replies) \in {221, 226, 426}
<1>1. ftp = "up" /\ cleanup
  BY DEF IInv, TypeOK, States, UnderWay, Control
<1>2. Transfer \/ QuitLeft
  BY <1>1 DEF IInv, UnderWay, Quiet
<1>3. /\ inbox = <<>> /\ sending = "no"
      /\ replies = <<226>> \/ replies = <<426>> \/ replies = <<221>>
  BY <1>2 DEF Transfer, QuitLeft
<1>4. PICK c \in {221, 226, 426} : replies = <<c>>
  BY <1>3
<1>5. Tail(replies) = <<>> /\ Head(replies) = c
  BY <1>4, ShortLists
<1> QED BY <1>1, <1>3, <1>5

(* A program that reads to the end never gets 426. *)
LEMMA Never426 == ASSUME IInv, careful, replies # <<>> PROVE Head(replies) # 426
<1>1. replies \in Seq(Code)
  BY DEF IInv, TypeOK
<1>2. 1 \in DOMAIN replies /\ Head(replies) = replies[1]
  BY <1>1
<1> QED BY <1>2 DEF IInv, NoneAborted

LEMMA NoneAbortedKept ==
  ASSUME IInv, UNCHANGED <<careful, sizes>>, reader' = reader \/ reader' = "open",
         UNCHANGED replies \/ (replies # <<>> /\ replies' = Tail(replies))
  PROVE  NoneAborted'
<1>1. replies \in Seq(Code)
  BY DEF IInv, TypeOK
<1>2. ASSUME replies # <<>>, NEW i \in DOMAIN Tail(replies)
      PROVE  i + 1 \in DOMAIN replies /\ Tail(replies)[i] = replies[i + 1]
  BY <1>1, <1>2
<1> QED BY <1>2 DEF IInv, NoneAborted

(* Both lists keep their types when one reply is taken. *)
LEMMA TailTypes == ASSUME TypeOK, replies # <<>> PROVE Tail(replies) \in Seq(Code) /\ Head(replies) \in Code
BY DEF TypeOK

LEMMA SendTypes ==
  ASSUME TypeOK, NEW c, c \in {"SIZE", "NLST", "TYPE", "RETR", "STOR", "QUIT"}, call' \in Calls, Send(c)
  PROVE  inbox' \in Seq(Message)
<1>1. [cmd |-> c, file |-> call'.file] \in Message
  BY DEF Calls, Message
<1>2. inbox \in Seq(Message)
  BY DEF TypeOK
<1> QED BY <1>1, <1>2 DEF Send

-----------------------------------------------------------------------------

LEMMA InitInv == Init => IInv
<1> SUFFICES ASSUME Init PROVE IInv
  OBVIOUS
<1>1. inbox \in Seq(Message) /\ replies \in Seq(Code) /\ DOMAIN replies = {}
  BY DEF Init
<1>2. TypeOK
  <2>1. call \in Calls /\ answer \in [call : Calls, value : Results, ftp : States]
    BY DEF Init, Calls, Ops, Idle, Results, States
  <2>2. ftp \in States
    BY DEF Init, States
  <2>3. /\ start_count \in 0 .. MaxCount /\ drops \in 0 .. MaxDrop
        /\ cleanup = FALSE /\ careful \in BOOLEAN /\ sizes \in BOOLEAN
        /\ pc = "idle" /\ sending = "no" /\ reader = "none"
    BY FtpAssumption DEF Init
  <2> QED BY <1>1, <2>1, <2>2, <2>3 DEF TypeOK
<1> QED BY <1>1, <1>2 DEF Init, IInv, Control, UnderWay, Quiet, NoneAborted, FlagFresh,
                          Undisturbed, AccessTruthful, CommandPcs, Idle

(* A step that returns no answer. *)
LEMMA AnswerKept ==
  ASSUME IInv, UNCHANGED <<answer, careful, sizes>>, drops' = drops \/ drops' = drops + 1
  PROVE  AccessTruthful'
<1>1. drops \in Nat /\ (drops' = 0 => drops = 0)
  BY FtpAssumption DEF IInv, TypeOK
<1> QED BY <1>1 DEF IInv, AccessTruthful, Undisturbed

(* start() and finish() within others, and the data connection. *)
LEMMA BookkeepingInv ==
  ASSUME IInv, StartAgain \/ FinishOne \/ Drain \/ Close, UNCHANGED <<careful, sizes>>
  PROVE  IInv'
<1>1. /\ UNCHANGED <<cleanup, ftp, call, pc, answer, inbox, replies, sending, drops, careful, sizes>>
      /\ start_count' \in 0 .. MaxCount
      /\ start_count' = start_count \/ (start_count > 0 /\ start_count' > 0)
      /\ reader' \in {"none", "open", "drained", "closed", "aborted"}
      /\ careful => reader' = reader \/ reader' # "aborted"
  BY FtpAssumption DEF StartAgain, FinishOne, Drain, Close, accessor, server, IInv, TypeOK
<1>2. TypeOK' /\ Control'
  BY <1>1 DEF IInv, TypeOK, Control
<1>3. UnderWay'
  <2>1. start_count = 0 => start_count' = 0
    BY <1>1
  <2>2. Asked' = Asked
    BY <1>1 DEF Asked
  <2>3. RepliesTo(Asked)' = RepliesTo(Asked)
    BY <1>1, <2>2, SameReplies
  <2>4. Awaited => Awaited'
    BY <1>1, <2>2, <2>3 DEF Awaited
  <2> QED BY <1>1, <2>1, <2>4 DEF IInv, UnderWay, Quiet, Transfer, QuitLeft, QuitAfterRetr
<1>4. NoneAborted' /\ FlagFresh'
  BY <1>1 DEF IInv, NoneAborted, FlagFresh, Undisturbed, Transfer
<1> QED BY <1>1, <1>2, <1>3, <1>4, AnswerKept DEF IInv

LEMMA ConnectInv == ASSUME IInv, Connect, UNCHANGED <<careful, sizes>> PROVE IInv'
<1>1. /\ pc = "idle" /\ start_count = 0
      /\ inbox' = <<>> /\ replies' = <<>> /\ sending' = "no" /\ reader' = "none"
      /\ UNCHANGED <<cleanup, call, pc, answer, drops, careful, sizes>>
      /\ \/ ftp' = "up" /\ start_count' = 1
         \/ ftp' = "down" /\ start_count' = 0
  BY DEF Connect, Free
<1>2. inbox' \in Seq(Message) /\ replies' \in Seq(Code) /\ DOMAIN replies' = {}
  BY <1>1
<1>3. TypeOK'
  BY <1>1, <1>2, FtpAssumption DEF IInv, TypeOK, States
<1>4. Control' /\ UnderWay' /\ NoneAborted'
  BY <1>1, <1>2 DEF IInv, Control, UnderWay, Quiet, NoneAborted, CommandPcs
<1>5. FlagFresh'
  BY <1>1 DEF IInv, FlagFresh, Undisturbed
<1> QED BY <1>1, <1>3, <1>4, <1>5, AnswerKept DEF IInv

LEMMA QuitInv == ASSUME IInv, Quit, UNCHANGED <<careful, sizes>> PROVE IInv'
<1>1. /\ pc = "idle" /\ start_count = 1 /\ start_count' = 0 /\ pc' = "quit"
      /\ call' = [op |-> "finish", file |-> "none"] /\ Send("QUIT")
      /\ UNCHANGED <<cleanup, ftp, answer, replies, sending, reader, drops, careful, sizes>>
  BY DEF Quit, Free
<1>2. call' \in Calls
  BY <1>1 DEF Calls, Ops
<1>3. inbox' \in Seq(Message)
  BY <1>1, <1>2, SendTypes DEF IInv
<1>4. TypeOK' /\ Control'
  BY <1>1, <1>2, <1>3, FtpAssumption DEF IInv, TypeOK, Control, CommandPcs
<1>5. ASSUME inbox = <<>> PROVE IsQuit(inbox')
  BY <1>1, <1>5, ShortLists DEF Send, IsQuit
<1>6. UnderWay'
  BY <1>1, <1>5
  DEF IInv, UnderWay, Control, Quiet, Transfer, QuitLeft, QuitAfterRetr, CommandPcs
<1>7. NoneAborted' /\ FlagFresh'
  BY <1>1 DEF IInv, NoneAborted, FlagFresh, Undisturbed
<1> QED BY <1>1, <1>4, <1>6, <1>7, AnswerKept DEF IInv

LEMMA QuittedInv == ASSUME IInv, Quitted, UNCHANGED <<careful, sizes>> PROVE IInv'
<1>1. /\ pc = "quit" /\ pc' = "idle" /\ ftp' = "None" /\ cleanup' = FALSE
      /\ inbox' = <<>> /\ replies' = <<>> /\ sending' = "no" /\ reader' = "none"
      /\ answer' = [call |-> call, value |-> "None", ftp |-> ftp]
      /\ UNCHANGED <<start_count, call, drops, careful, sizes>>
  BY DEF Quitted, Return, Answer
<1>2. inbox' \in Seq(Message) /\ replies' \in Seq(Code) /\ DOMAIN replies' = {}
  BY <1>1
<1>3. TypeOK'
  <2>1. answer' \in [call : Calls, value : Results, ftp : States]
    BY <1>1 DEF IInv, TypeOK, Results
  <2>2. ftp' \in States
    BY <1>1 DEF States
  <2> QED BY <1>1, <1>2, <2>1, <2>2, FtpAssumption DEF IInv, TypeOK
<1>4. Control' /\ UnderWay' /\ NoneAborted' /\ FlagFresh' /\ AccessTruthful'
  BY <1>1, <1>2
  DEF IInv, Control, UnderWay, Quiet, NoneAborted, FlagFresh, CommandPcs, AccessTruthful
<1> QED BY <1>3, <1>4 DEF IInv

LEMMA CallInv ==
  ASSUME IInv, NEW op \in {"access", "open", "write"}, NEW f \in File, Call(op, f),
         UNCHANGED <<careful, sizes>>
  PROVE  IInv'
<1>1. /\ pc = "idle" /\ ftp # "None" /\ call' = [op |-> op, file |-> f]
      /\ UNCHANGED <<start_count, cleanup, ftp, answer, replies, sending, reader, drops, careful, sizes>>
      /\ \/ cleanup /\ pc' = "cleanup" /\ UNCHANGED inbox
         \/ ~cleanup /\ pc' = First(op) /\ Send(Command(First(op)))
  BY DEF Call, Free, accessor
<1>2. call' \in Calls /\ call'.file = f /\ call'.op = op /\ First(op) \in CommandPcs
  BY <1>1 DEF Calls, Ops, First, CommandPcs
<1>3. CASE cleanup /\ pc' = "cleanup" /\ UNCHANGED inbox
  <2>1. TypeOK' /\ Control'
    BY <1>1, <1>2, <1>3, FtpAssumption DEF IInv, TypeOK, Control, CommandPcs
  <2>2. UnderWay'
    BY <1>1, <1>3 DEF IInv, UnderWay, Quiet, Transfer, QuitLeft, CommandPcs
  <2>3. NoneAborted' /\ FlagFresh'
    BY <1>1, <1>3 DEF IInv, NoneAborted, FlagFresh, Undisturbed, Transfer
  <2> QED BY <1>1, <2>1, <2>2, <2>3, AnswerKept DEF IInv
<1>4. CASE ~cleanup /\ pc' = First(op) /\ Send(Command(First(op)))
  <2>1. inbox' \in Seq(Message)
    BY <1>2, <1>4, SendTypes, Commands DEF IInv
  <2>2. TypeOK' /\ Control'
    <3>1. First(op) = "stor" => op # "access"
      BY DEF First
    <3> QED BY <1>1, <1>2, <1>4, <2>1, <3>1, FtpAssumption DEF IInv, TypeOK, Control, CommandPcs
  <2>3. UnderWay'
    <3>1. ASSUME ftp = "up" PROVE Awaited'
      <4>1. inbox = <<>> /\ replies' = <<>> /\ sending' = "no"
        BY <1>1, <1>4, <3>1 DEF IInv, UnderWay, Quiet
      <4> QED BY <1>1, <1>2, <1>4, <4>1, SentAlone
    <3>2. ftp = "down" => replies' = <<>> /\ sending' = "no"
      BY <1>1 DEF IInv, UnderWay
    <3> QED BY <1>1, <1>2, <1>4, <3>1, <3>2 DEF UnderWay, CommandPcs
  <2>4. NoneAborted' /\ FlagFresh'
    BY <1>1, <1>2, <1>4 DEF IInv, NoneAborted, FlagFresh, Undisturbed, CommandPcs
  <2> QED BY <1>1, <2>2, <2>3, <2>4, AnswerKept DEF IInv
<1> QED BY <1>1, <1>3, <1>4

LEMMA CallUnstartedInv ==
  ASSUME IInv, NEW op \in {"access", "open", "write"}, NEW f \in File, CallUnstarted(op, f),
         UNCHANGED <<careful, sizes>>
  PROVE  IInv'
<1>1. /\ pc = "idle" /\ ftp = "None" /\ call' = [op |-> op, file |-> f]
      /\ answer' = [call |-> call', value |-> IF op = "access" THEN "False" ELSE "raised", ftp |-> ftp]
      /\ UNCHANGED <<start_count, cleanup, ftp, pc, inbox, replies, sending, reader, drops, careful, sizes>>
  BY DEF CallUnstarted, Free, Answer, accessor, server
<1>2. call' \in Calls
  BY <1>1 DEF Calls, Ops
<1>3. TypeOK' /\ Control'
  <2>1. answer' \in [call : Calls, value : Results, ftp : States]
    BY <1>1, <1>2 DEF IInv, TypeOK, Results
  <2> QED BY <1>1, <1>2, <2>1, FtpAssumption DEF IInv, TypeOK, Control, CommandPcs
<1>4. UnderWay' /\ NoneAborted' /\ FlagFresh'
  BY <1>1 DEF IInv, UnderWay, Quiet, NoneAborted, FlagFresh, Undisturbed, CommandPcs, Transfer
<1>5. AccessTruthful'
  BY <1>1 DEF AccessTruthful
<1> QED BY <1>3, <1>4, <1>5 DEF IInv

-----------------------------------------------------------------------------
(* Replies that are read *)

LEMMA CleanedUpInv == ASSUME IInv, CleanedUp, UNCHANGED <<careful, sizes>> PROVE IInv'
<1>1. /\ pc = "cleanup" /\ replies # <<>> /\ replies' = Tail(replies)
      /\ cleanup' = FALSE /\ pc' = First(call.op) /\ call' = call /\ Send(Command(First(call.op)))
      /\ UNCHANGED <<start_count, ftp, answer, sending, reader, drops, careful, sizes>>
  BY DEF CleanedUp, Waits, GoOn
<1>2. call \in Calls /\ call.op \in {"access", "open", "write"} /\ call.file \in File
  BY <1>1 DEF IInv, TypeOK, Control
<1>3. First(call.op) \in CommandPcs /\ (First(call.op) = "stor" => call.op # "access")
  BY <1>2 DEF First, CommandPcs
<1>4. ftp = "up" /\ inbox = <<>> /\ replies' = <<>> /\ sending' = "no"
  BY <1>1, CleanupReplied
<1>5. inbox' \in Seq(Message)
  BY <1>1, <1>2, <1>3, SendTypes, Commands DEF IInv
<1>6. replies' \in Seq(Code)
  BY <1>4
<1>7. TypeOK' /\ Control'
  <2>1. pc' \in CommandPcs /\ cleanup' = FALSE
    BY <1>1, <1>3
  <2>2. TypeOK'
    BY <1>1, <1>2, <1>5, <1>6, <2>1 DEF IInv, TypeOK, CommandPcs
  <2>3. Control'
    BY <1>1, <1>2, <1>3, <2>1 DEF IInv, Control, CommandPcs
  <2> QED BY <2>2, <2>3
<1>8. Awaited'
  BY <1>1, <1>3, <1>4, SentAlone
<1>9. UnderWay'
  BY <1>1, <1>3, <1>4, <1>8 DEF UnderWay, CommandPcs
<1>10. NoneAborted'
  BY <1>1, NoneAbortedKept
<1>11. FlagFresh'
  BY <1>1, <1>3 DEF IInv, FlagFresh, Undisturbed, CommandPcs
<1> QED BY <1>1, <1>7, <1>9, <1>10, <1>11, AnswerKept DEF IInv

LEMMA RefusedInv == ASSUME IInv, Refused, UNCHANGED <<careful, sizes>> PROVE IInv'
<1>1. /\ pc # "idle" /\ replies # <<>> /\ replies' = Tail(replies) /\ Err(Head(replies))
      /\ pc' = "idle"
      /\ answer' = [call |-> call, value |-> IF call.op = "access" THEN "False" ELSE "raised", ftp |-> ftp]
      /\ UNCHANGED <<start_count, cleanup, ftp, call, inbox, sending, reader, drops, careful, sizes>>
  BY DEF Refused, Waits, Fail, Return, Answer, accessor
<1>2. replies' \in Seq(Code)
  BY <1>1, TailTypes DEF IInv
<1>3. TypeOK' /\ Control'
  <2>1. answer' \in [call : Calls, value : Results, ftp : States]
    BY <1>1 DEF IInv, TypeOK, Results
  <2> QED BY <1>1, <1>2, <2>1 DEF IInv, TypeOK, Control, CommandPcs
<1>4. NoneAborted'
  BY <1>1, NoneAbortedKept
<1>5. CASE pc = "cleanup"
  <2>1. ftp = "up" /\ inbox = <<>> /\ sending = "no" /\ replies' = <<>> /\ Head(replies) = 426
    BY <1>1, <1>5, CleanupReplied DEF Err
  <2>2. UnderWay' /\ FlagFresh' /\ AccessTruthful'
    BY <1>1, <2>1, Never426 DEF UnderWay, Quiet, FlagFresh, AccessTruthful, Undisturbed, CommandPcs
  <2> QED BY <1>3, <1>4, <2>2 DEF IInv
<1>6. CASE pc = "quit"
  <2>1. ftp = "up" /\ start_count = 0
    BY <1>1, <1>6 DEF IInv, TypeOK, States, UnderWay, Control
  <2>2. QuitLeft \/ (cleanup /\ QuitAfterRetr)
    BY <1>6, <2>1 DEF IInv, UnderWay
  <2>3. /\ cleanup /\ sending = "no"
        /\ \/ IsQuit(inbox) /\ replies = <<426>>
           \/ inbox = <<>> /\ replies = <<426, 221>>
    BY <1>1, <2>2, ShortLists DEF QuitLeft, QuitAfterRetr, Err
  <2>4. QuitLeft'
    <3>1. CASE IsQuit(inbox) /\ replies = <<426>>
      BY <1>1, <2>3, <3>1, ShortLists DEF QuitLeft, IsQuit
    <3>2. CASE inbox = <<>> /\ replies = <<426, 221>>
      BY <1>1, <2>3, <3>2, ShortLists DEF QuitLeft
    <3> QED BY <2>3, <3>1, <3>2
  <2>5. Head(replies) = 426
    BY <2>3, ShortLists
  <2>6. UnderWay' /\ FlagFresh' /\ AccessTruthful'
    BY <1>1, <2>1, <2>3, <2>4, <2>5, Never426
    DEF UnderWay, FlagFresh, AccessTruthful, Undisturbed, CommandPcs
  <2> QED BY <1>3, <1>4, <2>6 DEF IInv
<1>7. CASE pc \in CommandPcs
  <2>1. Head(replies) \in RepliesTo(Asked)
    BY <1>1, <1>7, Replied
  <2>2. /\ Head(replies) # 150
        /\ call.op # "access" \/ call.file \notin Stored \/ ~sizes
    BY <1>1, <1>7, <2>1, Answers DEF Err, IInv, Control
  <2>3. ftp = "up" /\ inbox = <<>> /\ sending = "no" /\ replies' = <<>> /\ ~cleanup
    BY <1>1, <1>7, <2>2, Replied
  <2>4. UnderWay' /\ AccessTruthful'
    BY <1>1, <2>2, <2>3 DEF UnderWay, Quiet, AccessTruthful, CommandPcs
  <2>5. FlagFresh'
    BY <1>1, <1>7, <2>3 DEF IInv, FlagFresh, Undisturbed, CommandPcs
  <2> QED BY <1>3, <1>4, <2>4, <2>5 DEF IInv
<1> QED BY <1>1, <1>5, <1>6, <1>7 DEF IInv, TypeOK, CommandPcs

(* A call that ends well, with nothing left under way. *)
LEMMA AnsweredInv ==
  ASSUME IInv, pc \in CommandPcs, replies # <<>>, replies' = Tail(replies),
         Head(replies) # 150, NEW a \in Results, Return(a),
         call.op = "access" => IF a = "True" THEN call.file \in Stored
                               ELSE a = "False" => call.file \notin Stored,
         UNCHANGED <<accessor, call, inbox, sending, reader, drops, careful, sizes>>
  PROVE  IInv'
<1>1. /\ pc' = "idle" /\ answer' = [call |-> call, value |-> a, ftp |-> ftp]
      /\ UNCHANGED <<start_count, cleanup, ftp, call, inbox, sending, reader, drops, careful, sizes>>
  BY DEF Return, Answer, accessor
<1>2. ftp = "up" /\ inbox = <<>> /\ replies' = <<>> /\ sending = "no" /\ ~cleanup
  BY Replied
<1>3. replies' \in Seq(Code)
  BY TailTypes DEF IInv
<1>4. TypeOK' /\ Control'
  <2>1. answer' \in [call : Calls, value : Results, ftp : States]
    BY <1>1 DEF IInv, TypeOK
  <2> QED BY <1>1, <1>3, <2>1 DEF IInv, TypeOK, Control, CommandPcs
<1>5. UnderWay' /\ AccessTruthful'
  BY <1>1, <1>2 DEF UnderWay, Quiet, AccessTruthful, CommandPcs
<1>6. FlagFresh'
  BY <1>1, <1>2 DEF IInv, FlagFresh, Undisturbed, CommandPcs
<1>7. NoneAborted'
  BY <1>1, NoneAbortedKept
<1> QED BY <1>4, <1>5, <1>6, <1>7 DEF IInv

(* A call that goes on with its next command. *)
LEMMA GoOnInv ==
  ASSUME IInv, pc \in CommandPcs, replies # <<>>, replies' = Tail(replies),
         Head(replies) # 150, NEW p \in {"nlst", "retr"}, GoOn(p),
         UNCHANGED <<accessor, sending, reader, drops, careful, sizes>>
  PROVE  IInv'
<1>1. /\ pc' = p /\ call' = call /\ Send(Command(p))
      /\ UNCHANGED <<start_count, cleanup, ftp, answer, sending, reader, drops, careful, sizes>>
  BY DEF GoOn, accessor
<1>2. ftp = "up" /\ inbox = <<>> /\ replies' = <<>> /\ sending' = "no" /\ ~cleanup
  BY <1>1, Replied
<1>3. inbox' \in Seq(Message) /\ replies' \in Seq(Code)
  <2>1. Command(p) \in {"SIZE", "NLST", "TYPE", "RETR", "STOR"}
    BY Commands DEF CommandPcs
  <2> QED BY <1>1, <1>2, <2>1, SendTypes DEF IInv, TypeOK
<1>4. TypeOK' /\ Control'
  BY <1>1, <1>3 DEF IInv, TypeOK, Control, CommandPcs
<1>5. UnderWay'
  BY <1>1, <1>2, SentAlone DEF UnderWay, CommandPcs
<1>6. FlagFresh'
  BY <1>1, <1>2 DEF IInv, FlagFresh, Undisturbed, CommandPcs
<1>7. NoneAborted'
  BY <1>1, NoneAbortedKept
<1> QED BY <1>1, <1>4, <1>5, <1>6, <1>7, AnswerKept DEF IInv

LEMMA RepliesInv ==
  ASSUME IInv, Sized \/ Listed \/ Typed \/ Written, UNCHANGED <<careful, sizes>>
  PROVE  IInv'
<1>1. /\ pc \in CommandPcs /\ replies # <<>> /\ replies' = Tail(replies)
      /\ pc \in {"size", "nlst", "type", "stor"}
  BY DEF Sized, Listed, Typed, Written, Waits, CommandPcs
<1>2. Head(replies) \in RepliesTo(Asked)
  BY <1>1, Replied
<1>3. Head(replies) # 150 /\ (Head(replies) = 213 => call.file \in Stored)
  BY <1>1, <1>2, Answers
<1>4. CASE Sized
  <2>1. "True" \in Results
    BY DEF Results
  <2>2. CASE Head(replies) = 213 /\ Return("True") /\ UNCHANGED <<call, inbox>>
    BY <1>1, <1>3, <1>4, <2>1, <2>2, AnsweredInv DEF Sized
  <2>3. CASE GoOn("nlst")
    BY <1>1, <1>3, <1>4, <2>1, <2>3, GoOnInv DEF Sized
  <2> QED BY <1>4, <2>2, <2>3 DEF Sized
<1>5. CASE Listed
  <2>1. "True" \in Results /\ "False" \in Results
    BY DEF Results
  <2>2. CASE call.file \in Stored
    BY <1>1, <1>3, <1>5, <2>1, <2>2, AnsweredInv DEF Listed
  <2>3. CASE call.file \notin Stored
    BY <1>1, <1>3, <1>5, <2>1, <2>3, AnsweredInv DEF Listed
  <2> QED BY <2>2, <2>3
<1>6. CASE Typed
  BY <1>1, <1>3, <1>6, GoOnInv DEF Typed
<1>7. CASE Written
  <2>1. "None" \in Results
    BY DEF Results
  <2> QED BY <1>1, <1>3, <1>7, <2>1, AnsweredInv DEF Written
<1> QED BY <1>4, <1>5, <1>6, <1>7

LEMMA OpenedInv == ASSUME IInv, Opened, UNCHANGED <<careful, sizes>> PROVE IInv'
<1>1. /\ pc = "retr" /\ replies # <<>> /\ replies' = Tail(replies) /\ Head(replies) = 150
      /\ reader' = "open" /\ cleanup' = TRUE /\ pc' = "idle"
      /\ answer' = [call |-> call, value |-> "reader", ftp |-> ftp]
      /\ UNCHANGED <<start_count, ftp, call, inbox, sending, drops, careful, sizes>>
  BY DEF Opened, Waits, Return, Answer
<1>2. ftp = "up" /\ Transfer'
  BY <1>1, Replied DEF CommandPcs, Transfer
<1>3. replies' \in Seq(Code)
  BY <1>1, TailTypes DEF IInv
<1>4. TypeOK' /\ Control'
  <2>1. answer' \in [call : Calls, value : Results, ftp : States]
    BY <1>1 DEF IInv, TypeOK, Results
  <2> QED BY <1>1, <1>3, <2>1 DEF IInv, TypeOK, Control, CommandPcs
<1>5. UnderWay' /\ AccessTruthful'
  BY <1>1, <1>2 DEF UnderWay, AccessTruthful, CommandPcs
<1>6. FlagFresh'
  BY <1>1, <1>2 DEF IInv, FlagFresh, Undisturbed
<1>7. NoneAborted'
  BY <1>1, NoneAbortedKept
<1> QED BY <1>4, <1>5, <1>6, <1>7 DEF IInv

LEMMA LostInv == ASSUME IInv, Lost, UNCHANGED <<careful, sizes>> PROVE IInv'
<1>1. /\ pc # "idle" /\ ftp = "down" /\ pc' = "idle" /\ inbox' = <<>>
      /\ answer' = [call |-> call, value |-> IF call.op = "access" THEN "False" ELSE "raised", ftp |-> ftp]
      /\ UNCHANGED <<start_count, cleanup, ftp, call, replies, sending, reader, drops, careful, sizes>>
  BY DEF Lost, Fail, Return, Answer, accessor
<1>2. TypeOK' /\ Control'
  <2>1. answer' \in [call : Calls, value : Results, ftp : States] /\ inbox' \in Seq(Message)
    BY <1>1 DEF IInv, TypeOK, Results
  <2> QED BY <1>1, <2>1 DEF IInv, TypeOK, Control, CommandPcs
<1>3. UnderWay' /\ AccessTruthful'
  BY <1>1 DEF IInv, UnderWay, AccessTruthful
<1>4. FlagFresh'
  BY <1>1 DEF IInv, FlagFresh, Undisturbed
<1>5. NoneAborted'
  BY <1>1, NoneAbortedKept
<1> QED BY <1>2, <1>3, <1>4, <1>5 DEF IInv

-----------------------------------------------------------------------------
(* The server *)

(* What the server does is seen by the client as one more reply. *)
LEMMA ServerInv ==
  ASSUME IInv, Serve \/ Sent \/ HungUp, UNCHANGED <<careful, sizes>>
  PROVE  IInv'
<1>1. /\ ftp = "up"
      /\ UNCHANGED <<start_count, cleanup, ftp, call, pc, answer, reader, drops, careful, sizes>>
  BY DEF Serve, Sent, HungUp, accessor
<1> DEFINE Serves(c) ==
             /\ sending = "no" /\ inbox # <<>> /\ inbox' = Tail(inbox)
             /\ c \in RepliesTo(Head(inbox))
             /\ sending' = IF c = 150 THEN Head(inbox).file ELSE "no"
           Ends(c) ==
             sending # "no" /\ sending' = "no" /\ inbox' = inbox /\ c \in {226, 426}
<1>2. PICK c \in Code :
        /\ replies' = Append(replies, c)
        /\ c = 426 => reader = "aborted"
        /\ Serves(c) \/ Ends(c)
  <2>1. ASSUME Serve
        PROVE  \E c \in Code : replies' = Append(replies, c) /\ c # 426 /\ Serves(c)
    <3>1. Head(inbox) \in Message
      BY <2>1 DEF Serve, IInv, TypeOK
    <3>2. \A c \in RepliesTo(Head(inbox)) : c \in Code /\ c # 426
      BY <3>1, Codes
    <3> QED BY <2>1, <3>2 DEF Serve, Reply
  <2>2. 226 \in Code /\ 426 \in Code
    BY DEF Code
  <2> QED BY <2>1, <2>2 DEF Serve, Sent, HungUp, Reply
<1>3. TypeOK'
  <2>1. replies' \in Seq(Code)
    BY <1>2 DEF IInv, TypeOK
  <2>2. sending' \in File \cup {"no"} /\ inbox' \in Seq(Message)
    <3>1. ASSUME Serves(c)
          PROVE  sending' \in File \cup {"no"} /\ inbox' \in Seq(Message)
      <4>1. inbox \in Seq(Message) /\ Head(inbox) \in Message /\ Tail(inbox) \in Seq(Message)
        BY <3>1 DEF IInv, TypeOK
      <4>2. c = 150 => Head(inbox).file \in File
        BY <3>1, <4>1, FtpAssumption DEF Message, RepliesTo
      <4> QED BY <3>1, <4>1, <4>2
    <3>2. inbox \in Seq(Message)
      BY DEF IInv, TypeOK
    <3> QED BY <1>2, <3>1, <3>2
  <2> QED BY <1>1, <2>1, <2>2 DEF IInv, TypeOK
<1>4. Control'
  BY <1>1 DEF IInv, Control
<1>5. NoneAborted'
  <2>1. replies \in Seq(Code) /\ Code \subseteq Nat
    BY DEF IInv, TypeOK, Code
  <2>2. \A i \in DOMAIN replies' : (i \in DOMAIN replies /\ replies'[i] = replies[i]) \/ replies'[i] = c
    BY <1>2, <2>1
  <2> QED BY <1>1, <1>2, <2>2 DEF IInv, NoneAborted
<1>6. ASSUME Transfer, Ends(c) PROVE Transfer'
  <2>1. replies' = <<c>>
    BY <1>2, <1>6, ShortLists, ZenonT(60) DEF Transfer
  <2> QED BY <1>6, <2>1 DEF Transfer
<1>7. ASSUME QuitLeft, Serves(c) PROVE QuitLeft'
  <2>1. Head(inbox).cmd = "QUIT" /\ inbox' = <<>> /\ replies = <<>>
    BY <1>7 DEF QuitLeft, IsQuit, IInv, TypeOK
  <2>2. c = 221
    BY <1>7, <2>1 DEF RepliesTo
  <2> QED BY <1>2, <1>7, <2>1, <2>2, ShortLists DEF QuitLeft
<1>8. ASSUME QuitAfterRetr, pc = "quit" PROVE QuitAfterRetr'
  <2>1. CASE Ends(c)
    <3>1. IsQuit(inbox) /\ replies' = <<c>>
      BY <1>2, <1>8, <2>1, ShortLists, ZenonT(60) DEF QuitAfterRetr
    <3> QED BY <2>1, <3>1 DEF QuitAfterRetr, IsQuit
  <2>2. CASE Serves(c)
    <3>1. IsQuit(inbox) /\ (replies = <<226>> \/ replies = <<426>>)
      BY <1>8, <2>2 DEF QuitAfterRetr
    <3>2. Head(inbox).cmd = "QUIT" /\ inbox' = <<>>
      BY <2>2, <3>1 DEF IsQuit, IInv, TypeOK
    <3>3. c = 221
      BY <2>2, <3>2 DEF RepliesTo
    <3>4. replies' = <<226, 221>> \/ replies' = <<426, 221>>
      <4>1. PICK a \in {226, 426} : replies = <<a>>
        BY <3>1
      <4>2. replies' = <<a, c>>
        <5>1. Append(<<a>>, c) = <<a, c>>
          BY ShortLists, ZenonT(60)
        <5> QED BY <1>2, <4>1, <5>1
      <4> QED BY <3>3, <4>2
    <3> QED BY <2>2, <3>2, <3>3, <3>4 DEF QuitAfterRetr
  <2> QED BY <1>2, <2>1, <2>2
<1>9. ASSUME Awaited, pc \in CommandPcs PROVE Awaited'
  <2>1. Asked' = Asked /\ call.file # "no"
    BY <1>1, <1>9, FtpAssumption DEF Asked, IInv, Control
  <2>2. RepliesTo(Asked)' = RepliesTo(Asked)
    BY <1>1, <2>1, SameReplies
  <2>3. CASE Ends(c)
    <3>1. inbox = <<>> /\ replies = <<150>> /\ 150 \in RepliesTo(Asked)
      BY <1>9, <2>3 DEF Awaited
    <3>2. replies' = <<150, 226>> \/ replies' = <<150, 426>>
      <4>1. replies' = <<150, c>>
        <5>1. Append(<<150>>, c) = <<150, c>>
          BY ShortLists
        <5> QED BY <1>2, <3>1, <5>1
      <4> QED BY <2>3, <4>1
    <3> QED BY <2>1, <2>3, <2>2, <3>1, <3>2 DEF Awaited
  <2>4. CASE Serves(c)
    <3>1. inbox = <<Asked>> /\ replies = <<>>
      BY <1>9, <2>4 DEF Awaited
    <3>2. Head(inbox) = Asked /\ inbox' = <<>> /\ replies' = <<c>>
      BY <1>2, <2>4, <3>1, ShortLists
    <3>3. Asked.file = call.file
      BY DEF Asked
    <3> QED BY <1>1, <2>1, <2>4, <2>2, <3>2, <3>3 DEF Awaited
  <2> QED BY <1>2, <2>3, <2>4
<1>10. UnderWay'
  <2>1. ASSUME pc \in {"idle", "cleanup"}
        PROVE  cleanup /\ (Transfer' \/ (start_count = 0 /\ QuitLeft'))
    BY <1>1, <1>2, <1>6, <1>7, <2>1 DEF IInv, UnderWay, Quiet, Transfer, QuitLeft
  <2>2. ASSUME pc = "quit" PROVE QuitLeft' \/ (cleanup /\ QuitAfterRetr')
    BY <1>1, <1>2, <1>7, <1>8, <2>2 DEF IInv, UnderWay, QuitLeft
  <2>3. ASSUME pc \in CommandPcs PROVE Awaited'
    BY <1>1, <1>9, <2>3 DEF IInv, UnderWay
  <2> QED BY <1>1, <2>1, <2>2, <2>3 DEF UnderWay
<1>11. FlagFresh'
  <2>1. Transfer => Transfer'
    BY <1>2, <1>6 DEF Transfer
  <2> QED BY <1>1, <2>1 DEF IInv, FlagFresh, Undisturbed
<1> QED BY <1>1, <1>3, <1>4, <1>5, <1>10, <1>11, AnswerKept DEF IInv

LEMMA DropInv == ASSUME IInv, Drop, UNCHANGED <<careful, sizes>> PROVE IInv'
<1>1. /\ ftp = "up" /\ ftp' = "down" /\ drops' = drops + 1 /\ drops < MaxDrop
      /\ inbox' = <<>> /\ replies' = <<>> /\ sending' = "no"
      /\ UNCHANGED <<start_count, cleanup, call, pc, answer, reader, careful, sizes>>
  BY DEF Drop
<1>2. inbox' \in Seq(Message) /\ replies' \in Seq(Code) /\ DOMAIN replies' = {}
  BY <1>1
<1>3. drops \in Nat /\ drops' \in 0 .. MaxDrop /\ drops' # 0
  BY <1>1, FtpAssumption DEF IInv, TypeOK
<1>4. TypeOK'
  BY <1>1, <1>2, <1>3 DEF IInv, TypeOK, States
<1>5. Control' /\ UnderWay' /\ NoneAborted' /\ FlagFresh'
  BY <1>1, <1>2, <1>3
  DEF IInv, Control, UnderWay, NoneAborted, FlagFresh, Undisturbed, CommandPcs
<1> QED BY <1>1, <1>4, <1>5, AnswerKept DEF IInv

-----------------------------------------------------------------------------

LEMMA NextInv == IInv /\ [Next]_vars => IInv'
<1> SUFFICES ASSUME IInv, [Next]_vars PROVE IInv'
  OBVIOUS
<1>1. CASE UNCHANGED vars
  <2>1. UNCHANGED <<start_count, cleanup, ftp, call, pc, answer, inbox, replies, sending, reader, drops, careful, sizes>>
    BY <1>1 DEF vars, accessor, server, peers
  <2>2. TypeOK' /\ Control' /\ NoneAborted'
    BY <2>1 DEF IInv, TypeOK, Control, NoneAborted
  <2>3. UnderWay' /\ FlagFresh'
    <3>1. Asked' = Asked
      BY <2>1 DEF Asked
    <3>2. RepliesTo(Asked)' = RepliesTo(Asked)
      BY <2>1, <3>1, SameReplies
    <3>3. Awaited => Awaited'
      BY <2>1, <3>1, <3>2 DEF Awaited
    <3> QED BY <2>1, <3>3 DEF IInv, UnderWay, FlagFresh, Undisturbed, Quiet, Transfer, QuitLeft,
                              QuitAfterRetr
  <2> QED BY <2>1, <2>2, <2>3, AnswerKept DEF IInv
<1>2. CASE Next
  <2>1. UNCHANGED <<careful, sizes>> /\ Step
    BY <1>2 DEF Next, peers
  <2>2. CASE Connect \/ StartAgain \/ FinishOne \/ Quit \/ Drain \/ Close
    BY <2>1, <2>2, ConnectInv, BookkeepingInv, QuitInv
  <2>3. CASE \E op \in {"access", "open", "write"}, f \in File : Call(op, f) \/ CallUnstarted(op, f)
    BY <2>1, <2>3, CallInv, CallUnstartedInv
  <2>4. CASE Client
    BY <2>1, <2>4, QuittedInv, CleanedUpInv, RefusedInv, RepliesInv, OpenedInv, LostInv DEF Client
  <2>5. CASE Server \/ Drop
    BY <2>1, <2>5, ServerInv, DropInv DEF Server
  <2> QED BY <2>1, <2>2, <2>3, <2>4, <2>5 DEF Step
<1> QED BY <1>1, <1>2

LEMMA Invariance == Spec => []IInv
BY InitInv, NextInv, PTL DEF Spec

(* Whatever is aborted, lost or refused, no command is sent while a reply  *)
(* is still to come: FTPAccessor reads every reply where it belongs.       *)
THEOREM StaysInStep == Spec => []InStep
<1>1. IInv => InStep
  <2> SUFFICES ASSUME IInv, inbox # <<>>, pc # "quit" PROVE replies = <<>> /\ sending = "no"
    BY DEF InStep, IInv
  <2>1. CASE ftp = "up"
    BY <2>1 DEF IInv, TypeOK, UnderWay, Quiet, Transfer, QuitLeft, Awaited, CommandPcs
  <2>2. CASE ftp # "up"
    BY <2>2 DEF IInv, TypeOK, States, UnderWay, Quiet
  <2> QED BY <2>1, <2>2
<1> QED BY <1>1, Invariance, PTL

(* access() answers True only for what the server has, and, undisturbed,   *)
(* False only for what it does not have or when it is not connected, or if *)
(* the server is one that may refuse to tell a size.                       *)
THEOREM AccessIsTruthful == Spec => []AccessTruthful
<1>1. IInv => AccessTruthful
  BY DEF IInv
<1> QED BY <1>1, Invariance, PTL

(* Between calls of an undisturbed program the cleanup flag is set exactly *)
(* if the second reply of a RETR is still to be read.                      *)
THEOREM CleanupIsExact == Spec => []CleanupIsDue
<1>1. IInv => CleanupIsDue
  <2> SUFFICES ASSUME IInv, Undisturbed, pc = "idle", ftp = "up", start_count > 0
               PROVE  cleanup <=> sending # "no" \/ replies # <<>>
    BY DEF CleanupIsDue
  <2>1. ~cleanup => Quiet
    BY DEF IInv, UnderWay
  <2>2. cleanup => Transfer
    BY DEF IInv, FlagFresh
  <2>3. Transfer => sending # "no" \/ replies # <<>>
    BY ShortLists DEF Transfer
  <2> QED BY <2>1, <2>2, <2>3 DEF Quiet
<1> QED BY <1>1, Invariance, PTL

=============================================================================
