----------------------------- MODULE MCBootloader -----------------------------
(* Boot menus of Bootloader for TLC. *)
EXTENDS Bootloader

Entry(says, k)       == [title |-> [says |-> says, added |-> <<>>], kernel |-> k, clears |-> FALSE]
Config(es, d, loads) == [entries |-> es, default |-> d, named |-> None, load |-> loads]

(* Only k1 has a version in its name. *)
OneVersion == [k \in Kernels |-> IF k = "k1" THEN "-4.19" ELSE "old"]

Xe       == Entry("brand", "k1")
Fallback == Entry("slash", "k2")
Safe     == Entry("safe", "k1")
Linux    == Entry("linux", "k2")
Memtest  == Entry("memtest", "k1")
Backup   == [Xe EXCEPT !.title.added = <<"-4.19">>]

(* Like tests/data/grub.cfg: an entry and one for the fallback kernel, and  *)
(* the same after the user has made the latter the default.                *)
Shipped  == {Config(<<Xe, Fallback>>, n, "none") : n \in 0 .. 1}

(* Like tests/data/grub-linux.cfg, without a line for the default. *)
NoLine   == {Config(<<Safe>>, None, "none")}

(* A menu of which only the backup is left, and menus of other programs.   *)
Renewed  == {Config(<<Backup>>, 0, "override")}
Foreign  == {Config(<<Linux, Memtest>>, 0, "env")}
Odd      == {Config(<<>>, 0, "none"), Config(<<Xe>>, 1, "none")}

AllDisks == Shipped \cup NoLine \cup Renewed \cup Foreign \cup Odd

Upgrade  == {[label |-> <<"upgrade">>, entry |-> Entry("upgrade", "k2")]}
=============================================================================
