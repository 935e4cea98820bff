----------------------------- MODULE RenamePlan -----------------------------
(***************************************************************************)
(* What the renaming logic promises the program that carries its result    *)
(* out: a list of "ip link set <src> name <dst>" commands every one of     *)
(* which the kernel can accept.  The logic first observes the links, then  *)
(* adds commands to the plan; it keeps, for every link, the name the link  *)
(* will have when the plan so far has been carried out.  A command is      *)
(* added only for the name some link will then have, and only towards a    *)
(* name no link will then have.                                            *)
(***************************************************************************)
EXTENDS NicNames, Sequences

VARIABLES
  link,   \* the name every observed link has once the plan is carried out
  plan    \* the (source, destination) commands so far

vars == <<link, plan>>

Held(name)     == \E i \in DOMAIN link : link[i] = name
AllDistinct(f) == \A i, j \in DOMAIN f : f[i] = f[j] => i = j

Init == DOMAIN link = {} /\ plan = <<>>

(* The links of the machine are observed, under pairwise distinct names. *)
Observe ==
  /\ DOMAIN link = {} /\ plan = <<>>
  /\ link' \in [DOMAIN link' -> Name]
  /\ AllDistinct(link')
  /\ UNCHANGED plan

(* One command: link i takes a name nobody holds. *)
RenameFree(i) ==
  /\ link'[i] \in Name
  /\ ~Held(link'[i])
  /\ plan' = Append(plan, <<link[i], link'[i]>>)
  /\ link' = [link EXCEPT ![i] = link'[i]]

(* Two commands: link j, which holds the name link i is to have, is moved  *)
(* sideways to a name nobody holds, then link i takes its name.            *)
RenameOver(i, j) ==
  /\ i # j
  /\ link'[j] \in Name
  /\ ~Held(link'[j])
  /\ plan' = plan \o << <<link[j], link'[j]>>, <<link[i], link[j]>> >>
  /\ link' = [link EXCEPT ![j] = link'[j], ![i] = link[j]]

Next ==
  \/ Observe
  \/ \E i \in DOMAIN link : RenameFree(i)
  \/ \E i, j \in DOMAIN link : RenameOver(i, j)

Spec == Init /\ [][Next]_vars

=============================================================================
