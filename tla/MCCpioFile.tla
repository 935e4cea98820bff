----------------------------- MODULE MCCpioFile -----------------------------
(* CpioFile for TLC: a directory with a file and an empty directory, two   *)
(* links of one file, another file, an empty one that has another name     *)
(* elsewhere, the archive itself, and an archive whose links carry the     *)
(* data last.                                                              *)
EXTENDS CpioFile

Dir(i)      == [dir |-> TRUE, ino |-> i, nlink |-> 2, size |-> 0]
File(i, l)  == [dir |-> FALSE, ino |-> i, nlink |-> l, size |-> 1]
Empty(i)    == [dir |-> FALSE, ino |-> i, nlink |-> 2, size |-> 0]

Files ==
  (<<1>>    :> Dir(1)) @@ (<<1, 1>> :> File(2, 2)) @@ (<<1, 2>> :> Dir(3)) @@
  (<<2>>    :> File(4, 1)) @@ (<<3>> :> File(2, 2)) @@ (<<4>> :> File(5, 1)) @@
  (<<5>>    :> Empty(6))
Itself == <<4>>

(* As cpio writes them: the data of the two links come with the second.    *)
LinksLast ==
  <<Header(<<3>>, 0), Header(<<1, 2>>, 0), Header(<<2>>, 1), DataOf(<<2>>),
    Header(<<1, 1>>, 1), DataOf(<<1, 1>>), Trailer>>
AsCpioWrites == {LinksLast}

Targets == {<<8>>, <<9>>}
=============================================================================
