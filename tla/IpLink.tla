-------------------------------- MODULE IpLink --------------------------------
(***************************************************************************)
(* xcp/net/ip.py: ip_link_set_name(), called for one transaction after the *)
(* other, and the kernel's links it works on.  A call runs up to four "ip" *)
(* commands:                                                               *)
(*   show     ip link show src             is the link up?                 *)
(*   down     ip link set src down         if it is                        *)
(*   rename   ip link set src name dst                                     *)
(*   up       ip link set dst up           if it was                       *)
(* A command that exits with an error ends the call; the next call goes on *)
(* regardless.                                                             *)
(***************************************************************************)
EXTENDS NicNames, Sequences

CONSTANT MaxFail  \* bound: commands that fail though the kernel could do them

VARIABLES
  name,     \* the kernel's links: their names,
  up,       \* and whether they are up
  todo,     \* the transactions whose call has not ended
  step,     \* the command to run next
  isup,     \* the local variable
  failed,   \* history: the commands that failed though the kernel could do them
  refused   \* history: the kernel refused a command

links  == <<name, up>>
ipvars == <<name, up, todo, step, isup, failed, refused>>

Command == {"show", "down", "rename", "up"}

Src       == todo[1][1]
Dst       == todo[1][2]
Called(n) == {l \in DOMAIN name : name[l] = n}

Running(s) == todo # <<>> /\ step = s
Return     == todo' = Tail(todo) /\ step' = "show"

(* What the kernel refuses: to find a link nobody has, to rename a link    *)
(* that is up, or to a name that is taken.                                 *)
Refuses ==
  \/ step # "up" /\ Called(Src) = {}
  \/ step = "rename" /\ (Called(Dst) # {} \/ \E l \in Called(Src) : up[l])
  \/ step = "up" /\ Called(Dst) = {}

(* Faults: a link that is up is renamed as it is; it is forgotten that the *)
(* link was up.                                                            *)
ShowNoDown(l) ==
  /\ Running("show") /\ ~Refuses
  /\ l \in Called(Src)
  /\ isup' = up[l] /\ step' = "rename"
  /\ UNCHANGED <<links, todo, failed, refused>>
ShowForgets(l) ==
  /\ Running("show") /\ ~Refuses
  /\ l \in Called(Src)
  /\ isup' = FALSE
  /\ step' = IF up[l] THEN "down" ELSE "rename"
  /\ UNCHANGED <<links, todo, failed, refused>>

Show(l) ==
  /\ Running("show") /\ ~Refuses
  /\ l \in Called(Src)
  /\ isup' = up[l]
  /\ step' = IF up[l] THEN "down" ELSE "rename"
  /\ UNCHANGED <<links, todo, failed, refused>>

Down(l) ==
  /\ Running("down") /\ ~Refuses
  /\ l \in Called(Src)
  /\ up' = [up EXCEPT ![l] = FALSE]
  /\ step' = "rename"
  /\ UNCHANGED <<name, todo, isup, failed, refused>>

Rename(l) ==
  /\ Running("rename") /\ ~Refuses
  /\ l \in Called(Src)
  /\ name' = [name EXCEPT ![l] = Dst]
  /\ \/ isup /\ step' = "up" /\ UNCHANGED todo
     \/ ~isup /\ Return
  /\ UNCHANGED <<up, isup, failed, refused>>

Up(l) ==
  /\ Running("up") /\ ~Refuses
  /\ l \in Called(Dst)
  /\ up' = [up EXCEPT ![l] = TRUE]
  /\ Return
  /\ UNCHANGED <<name, isup, failed, refused>>

(* Fault: what the kernel refuses is tried again for ever. *)
GiveUpRetry ==
  /\ todo # <<>>
  /\ \/ Refuses /\ refused' = TRUE /\ UNCHANGED <<todo, step, failed>>
     \/ /\ ~Refuses /\ Len(failed) < MaxFail
        /\ failed' = Append(failed, step) /\ Return /\ UNCHANGED refused
  /\ UNCHANGED <<links, isup>>

(* The early returns: whatever was done so far stays. *)
GiveUp ==
  /\ todo # <<>>
  /\ \/ Refuses /\ refused' = TRUE /\ UNCHANGED failed
     \/ /\ ~Refuses /\ Len(failed) < MaxFail
        /\ failed' = Append(failed, step) /\ UNCHANGED refused
  /\ Return
  /\ UNCHANGED <<links, isup>>

IpNext ==
  \/ \E l \in DOMAIN name : Show(l) \/ Down(l) \/ Rename(l) \/ Up(l)
  \/ GiveUp

IpInit ==
  /\ todo = <<>> /\ step = "show" /\ isup = FALSE
  /\ failed = <<>> /\ refused = FALSE

=============================================================================
