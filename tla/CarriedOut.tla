------------------------------ MODULE CarriedOut ------------------------------
(***************************************************************************)
(* Any plan RenamePlan allows, carried out by IpLink on the links it was   *)
(* made for: what the caller of rename() and ip_link_set_name() does.  As  *)
(* Rename implements RenamePlan, what holds here holds of its plans.       *)
(***************************************************************************)
EXTENDS IpLink, Naturals

CONSTANTS
  Links,   \* the links of the machine
  Names,   \* the names they have and get
  MaxPlan  \* bound: commands of a plan

ASSUME CarriedOutAssumption == Names \subseteq Name /\ MaxPlan \in Nat /\ MaxFail \in Nat

VARIABLES
  link, plan,  \* the plan, as in RenamePlan
  stages,      \* history: the names of the links as the plan goes on
  before,      \* history: the links that were up
  phase        \* "observe", "plan" or "run"

vars == <<ipvars, link, plan, stages, before, phase>>

Plan == INSTANCE RenamePlan

Init ==
  /\ name \in [Links -> Names] /\ Plan!AllDistinct(name)
  /\ up \in [Links -> BOOLEAN]
  /\ IpInit
  /\ link = <<>> /\ plan = <<>>
  /\ stages = <<>> /\ before = up /\ phase = "observe"

Observe ==
  /\ phase = "observe"
  /\ link' = name
  /\ phase' = "plan"
  /\ stages' = <<name>>
  /\ UNCHANGED <<ipvars, plan, before>>

RenameFree(i, n) ==
  /\ phase = "plan" /\ Len(plan) < MaxPlan
  /\ link' = [link EXCEPT ![i] = n]
  /\ Plan!RenameFree(i)
  /\ stages' = Append(stages, link')
  /\ UNCHANGED <<ipvars, before, phase>>

RenameOver(i, j, n) ==
  /\ phase = "plan" /\ Len(plan) + 1 < MaxPlan
  /\ link' = [link EXCEPT ![j] = n, ![i] = link[j]]
  /\ Plan!RenameOver(i, j)
  /\ stages' = stages \o <<[link EXCEPT ![j] = n], link'>>
  /\ UNCHANGED <<ipvars, before, phase>>

Start ==
  /\ phase = "plan"
  /\ phase' = "run"
  /\ todo' = plan
  /\ UNCHANGED <<links, step, isup, failed, refused, link, plan, stages, before>>

Run == phase = "run" /\ IpNext /\ UNCHANGED <<link, plan, stages, before, phase>>

Next ==
  \/ Observe
  \/ \E i \in Links, n \in Names : RenameFree(i, n)
  \/ \E i, j \in Links, n \in Names : RenameOver(i, j, n)
  \/ Start \/ Run

Spec     == Init /\ [][Next]_vars
FairSpec == Spec /\ WF_vars(Start) /\ WF_vars(Run)

-----------------------------------------------------------------------------
(* Properties *)

Ended == phase = "run" /\ todo = <<>>

(* Types of the variables. *)
TypeOK ==
  /\ name \in [Links -> Names] /\ up \in [Links -> BOOLEAN] /\ before \in [Links -> BOOLEAN]
  /\ todo \in Seq(Names \X Names) /\ plan \in Seq(Names \X Names)
  /\ step \in Command /\ isup \in BOOLEAN
  /\ failed \in Seq(Command) /\ refused \in BOOLEAN
  /\ stages \in Seq([Links -> Names])
  /\ phase \in {"observe", "plan", "run"}
  /\ phase # "observe" => link \in [Links -> Names]

(* As long as no command failed for a reason of its own, the kernel finds  *)
(* every source, down, and no link under the destination: the plan, made   *)
(* before the first command ran, fits the links as they are when its turn  *)
(* comes.                                                                  *)
NeverRefused == TypeOK /\ (refused => failed # <<>>)

(* Then every link ends up with its planned name and is up again if it was *)
(* up before, though links that are renamed twice go down and up twice.    *)
(* Whatever fails to be found or to go down, no link is left down: only a  *)
(* failed rename, a failed up or a refusal does that.                      *)
Arrives ==
  Ended /\ ~refused /\ {failed[k] : k \in DOMAIN failed} \subseteq {"show", "down"} =>
    up = before /\ (failed = <<>> => name = link)

(* The calls all return. *)
Ends == [](phase = "run" => <>Ended)

=============================================================================
