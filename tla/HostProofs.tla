------------------------------ MODULE HostProofs ------------------------------
(***************************************************************************)
(* Proofs about the two things of a running host that programs change in   *)
(* place, its links and its boot menu.                                     *)
(* CarriedOut: a plan of any length, for any number of links, is never     *)
(* refused by the kernel, and all links arrive under their planned names,  *)
(* up if they were up.  As BootProofs shows that Rename makes such plans,  *)
(* that is so for the plans of rename().                                   *)
(* Bootloader: whatever programs do to menus of any length, the next boot  *)
(* is of the entry asked for, replaced kernels stay bootable and commits   *)
(* leave the default alone, as long as readGrub2() tells entries apart.    *)
(***************************************************************************)
EXTENDS CarriedOut, Bootloader, FiniteSetTheorems, SequenceTheorems, WellFoundedInduction, TLAPS

-----------------------------------------------------------------------------
LEMMA TwoMore ==
  ASSUME NEW S, NEW s \in Seq(S), NEW a \in S, NEW b \in S
  PROVE  s \o <<a, b>> = Append(Append(s, a), b)
OBVIOUS

-----------------------------------------------------------------------------
(* The inductive invariant.  stages[k] is how the plan sees the links      *)
(* before its k-th command: one command leads from one stage to the next,  *)
(* and while nothing has failed the kernel's links are at the stage of the *)
(* command that runs.  The links' states are followed more closely: a link *)
(* is down for the call that renames it, and only until that call ends.    *)

Injective(f) == \A i, j \in Links : f[i] = f[j] => i = j

(* Command c leads from stage f to stage g. *)
Leads(f, c, g) ==
  \E i \in Links :
    f[i] = c[1] /\ g = [f EXCEPT ![i] = c[2]] /\ \A j \in Links : f[j] # c[2]

Staged ==
  phase # "observe" =>
    /\ Injective(link)
    /\ Len(stages) = Len(plan) + 1 /\ stages[Len(stages)] = link
    /\ \A k \in 1 .. Len(plan) : Leads(stages[k], plan[k], stages[k + 1])

NotStarted ==
  /\ phase # "run" => todo = <<>> /\ failed = <<>> /\ ~refused /\ up = before
  /\ phase = "observe" => plan = <<>>
  /\ phase = "plan" => name = stages[1]

(* The command that runs. *)
Pos == Len(plan) - Len(todo) + 1

InOrder ==
  /\ Injective(name)
  /\ todo = <<>> => step = "show"
  /\ phase = "run" =>
       /\ Len(todo) <= Len(plan)
       /\ \A k \in 1 .. Len(todo) : todo[k] = plan[Pos + k - 1]

OnStage ==
  phase = "run" /\ failed = <<>> =>
    ~refused /\ name = stages[IF step = "up" THEN Pos + 1 ELSE Pos]

DownFor(l) == up = [before EXCEPT ![l] = FALSE] /\ isup = before[l]
UpsKept ==
  phase = "run" /\ ~refused /\ {failed[k] : k \in DOMAIN failed} \subseteq {"show", "down"} =>
    /\ step = "show"   => up = before
    /\ step = "down"   => up = before /\ isup /\ \E l \in Called(Src) : up[l]
    /\ step = "rename" => \E l \in Called(Src) : DownFor(l)
    /\ step = "up"     => isup /\ \E l \in Called(Dst) : DownFor(l)

IInv == TypeOK /\ Staged /\ NotStarted /\ InOrder /\ OnStage /\ UpsKept

-----------------------------------------------------------------------------
(* Making the plan *)

LEMMA InitInv == Init => IInv
<1> SUFFICES ASSUME Init PROVE IInv
  OBVIOUS
<1>1. todo = <<>> /\ plan = <<>> /\ failed = <<>> /\ stages = <<>>
      /\ step = "show" /\ refused = FALSE /\ phase = "observe" /\ before = up
  BY DEF Init, IpInit
<1>2. TypeOK
  <2>1. name \in [Links -> Names] /\ up \in [Links -> BOOLEAN] /\ isup \in BOOLEAN
    BY DEF Init, IpInit
  <2>2. /\ todo \in Seq(Names \X Names) /\ plan \in Seq(Names \X Names)
        /\ failed \in Seq(Command) /\ stages \in Seq([Links -> Names])
    BY <1>1
  <2> QED BY <1>1, <2>1, <2>2 DEF TypeOK, Command
<1>3. InOrder
  BY <1>1 DEF Init, InOrder, Injective, Plan!AllDistinct
<1> QED BY <1>1, <1>2, <1>3 DEF IInv, Staged, NotStarted, OnStage, UpsKept

LEMMA ObserveInv == IInv /\ Observe => IInv'
<1> SUFFICES ASSUME IInv, Observe PROVE IInv'
  OBVIOUS
<1>1. /\ phase = "observe" /\ phase' = "plan" /\ link' = name /\ stages' = <<name>>
      /\ UNCHANGED <<name, up, todo, step, isup, failed, refused, plan, before>>
  BY DEF Observe, ipvars
<1>2. name \in [Links -> Names] /\ plan = <<>> /\ stages' \in Seq([Links -> Names])
      /\ Len(stages') = 1 /\ stages'[1] = name
  BY <1>1 DEF IInv, TypeOK, NotStarted
<1>3. TypeOK'
  BY <1>1, <1>2 DEF IInv, TypeOK
<1>4. Staged' /\ NotStarted'
  BY <1>1, <1>2 DEF IInv, InOrder, Injective, Staged, NotStarted
<1>5. InOrder' /\ OnStage' /\ UpsKept'
  BY <1>1 DEF IInv, InOrder, OnStage, UpsKept, Injective
<1> QED BY <1>3, <1>4, <1>5 DEF IInv

(* A stage and a command more. *)
LEMMA OneMore ==
  ASSUME NEW ss \in Seq([Links -> Names]), NEW cs \in Seq(Names \X Names),
         Len(ss) = Len(cs) + 1,
         \A k \in 1 .. Len(cs) : Leads(ss[k], cs[k], ss[k + 1]),
         NEW c \in Names \X Names, NEW g \in [Links -> Names],
         Leads(ss[Len(ss)], c, g)
  PROVE  /\ Append(ss, g) \in Seq([Links -> Names]) /\ Append(cs, c) \in Seq(Names \X Names)
         /\ Len(Append(ss, g)) = Len(Append(cs, c)) + 1
         /\ Append(ss, g)[Len(Append(ss, g))] = g /\ Append(ss, g)[1] = ss[1]
         /\ \A k \in 1 .. Len(Append(cs, c)) :
              Leads(Append(ss, g)[k], Append(cs, c)[k], Append(ss, g)[k + 1])
<1> DEFINE s2 == Append(ss, g)
           c2 == Append(cs, c)
<1>1. /\ s2 \in Seq([Links -> Names]) /\ c2 \in Seq(Names \X Names)
      /\ Len(s2) = Len(ss) + 1 /\ Len(c2) = Len(cs) + 1
      /\ s2[Len(ss) + 1] = g /\ c2[Len(cs) + 1] = c
      /\ \A k \in 1 .. Len(ss) : s2[k] = ss[k]
      /\ \A k \in 1 .. Len(cs) : c2[k] = cs[k]
  OBVIOUS
<1>2. ASSUME NEW k \in 1 .. Len(c2) PROVE Leads(s2[k], c2[k], s2[k + 1])
  <2>1. CASE k \in 1 .. Len(cs)
    <3>1. k \in 1 .. Len(ss) /\ k + 1 \in 1 .. Len(ss)
      BY <2>1
    <3> QED BY <1>1, <2>1, <3>1
  <2>2. CASE k = Len(cs) + 1
    <3>1. s2[k] = ss[Len(ss)] /\ c2[k] = c /\ s2[k + 1] = g
      BY <1>1, <2>2
    <3> QED BY <3>1
  <2> QED BY <1>1, <2>1, <2>2
<1>3. 1 \in 1 .. Len(ss)
  OBVIOUS
<1> QED BY <1>1, <1>2, <1>3

(* The plan goes on, and nothing has run yet. *)
LEMMA PlanInv ==
  ASSUME IInv, phase = "plan", UNCHANGED <<ipvars, before, phase>>,
         link' \in [Links -> Names], Injective(link'),
         stages' \in Seq([Links -> Names]), plan' \in Seq(Names \X Names),
         Len(stages') = Len(plan') + 1, stages'[Len(stages')] = link', stages'[1] = stages[1],
         \A k \in 1 .. Len(plan') : Leads(stages'[k], plan'[k], stages'[k + 1])
  PROVE  IInv'
<1>1. TypeOK' /\ Staged'
  BY DEF IInv, TypeOK, Staged, ipvars
<1>2. NotStarted' /\ InOrder' /\ OnStage' /\ UpsKept'
  BY DEF IInv, NotStarted, InOrder, OnStage, UpsKept, Injective, ipvars
<1> QED BY <1>1, <1>2 DEF IInv

LEMMA RenameFreeInv ==
  ASSUME IInv, NEW i \in Links, NEW n \in Names, RenameFree(i, n) PROVE IInv'
<1> DEFINE c == <<link[i], n>>
<1>1. /\ phase = "plan" /\ link \in [Links -> Names] /\ Injective(link)
      /\ stages \in Seq([Links -> Names]) /\ plan \in Seq(Names \X Names)
      /\ Len(stages) = Len(plan) + 1 /\ stages[Len(stages)] = link
      /\ \A k \in 1 .. Len(plan) : Leads(stages[k], plan[k], stages[k + 1])
  BY DEF RenameFree, IInv, TypeOK, Staged
<1>2. /\ link' = [link EXCEPT ![i] = n] /\ link'[i] = n
      /\ \A j \in Links : link[j] # n
      /\ plan' = Append(plan, c) /\ stages' = Append(stages, link')
      /\ UNCHANGED <<ipvars, before, phase>>
  BY <1>1 DEF RenameFree, Plan!RenameFree, Plan!Held
<1>3. link' \in [Links -> Names] /\ Injective(link')
  BY <1>1, <1>2 DEF Injective
<1>4. Leads(stages[Len(stages)], c, link')
  BY <1>1, <1>2 DEF Leads
<1>5. c \in Names \X Names
  BY <1>1
<1> HIDE DEF c
<1>6. /\ stages' \in Seq([Links -> Names]) /\ plan' \in Seq(Names \X Names)
      /\ Len(stages') = Len(plan') + 1
      /\ stages'[Len(stages')] = link' /\ stages'[1] = stages[1]
      /\ \A k \in 1 .. Len(plan') : Leads(stages'[k], plan'[k], stages'[k + 1])
  <2>1. stages \in Seq([Links -> Names]) /\ plan \in Seq(Names \X Names)
        /\ link' \in [Links -> Names] /\ c \in Names \X Names
    BY <1>1, <1>3, <1>5
  <2>2. Len(stages) = Len(plan) + 1 /\ Leads(stages[Len(stages)], c, link')
        /\ \A k \in 1 .. Len(plan) : Leads(stages[k], plan[k], stages[k + 1])
    BY <1>1, <1>4
  <2>3. plan' = Append(plan, c) /\ stages' = Append(stages, link')
    BY <1>2
  <2> HIDE DEF Leads
  <2> QED BY <2>1, <2>2, <2>3, OneMore
<1> QED BY <1>1, <1>2, <1>3, <1>6, PlanInv

LEMMA RenameOverInv ==
  ASSUME IInv, NEW i \in Links, NEW j \in Links, NEW n \in Names, RenameOver(i, j, n)
  PROVE  IInv'
<1> DEFINE mid == [link EXCEPT ![j] = n]
           c1  == <<link[j], n>>
           c2  == <<link[i], link[j]>>
<1>1. /\ phase = "plan" /\ link \in [Links -> Names] /\ Injective(link)
      /\ stages \in Seq([Links -> Names]) /\ plan \in Seq(Names \X Names)
      /\ Len(stages) = Len(plan) + 1 /\ stages[Len(stages)] = link
      /\ \A k \in 1 .. Len(plan) : Leads(stages[k], plan[k], stages[k + 1])
  BY DEF RenameOver, IInv, TypeOK, Staged
<1>2. /\ i # j /\ link' = [link EXCEPT ![j] = n, ![i] = link[j]] /\ link'[j] = n
      /\ \A h \in Links : link[h] # n
      /\ plan' = plan \o <<c1, c2>> /\ stages' = stages \o <<mid, link'>>
      /\ UNCHANGED <<ipvars, before, phase>>
  BY <1>1 DEF RenameOver, Plan!RenameOver, Plan!Held
<1>3. link' \in [Links -> Names] /\ Injective(link') /\ mid \in [Links -> Names]
  BY <1>1, <1>2 DEF Injective
<1>4. c1 \in Names \X Names /\ c2 \in Names \X Names
  BY <1>1
<1>6. Leads(stages[Len(stages)], c1, mid)
  BY <1>1, <1>2 DEF Leads
<1>7. Leads(mid, c2, link')
  <2>1. mid[i] = link[i] /\ link' = [mid EXCEPT ![i] = link[j]]
    BY <1>1, <1>2
  <2>2. \A h \in Links : mid[h] # link[j]
    BY <1>1, <1>2 DEF Injective
  <2> QED BY <2>1, <2>2 DEF Leads
<1> HIDE DEF mid, c1, c2
<1>5. plan' = Append(Append(plan, c1), c2) /\ stages' = Append(Append(stages, mid), link')
  <2>1. plan \o <<c1, c2>> = Append(Append(plan, c1), c2)
    BY <1>1, <1>4, TwoMore
  <2>2. stages \o <<mid, link'>> = Append(Append(stages, mid), link')
    BY <1>1, <1>3, TwoMore
  <2> QED BY <1>2, <2>1, <2>2
<1>8. /\ Append(stages, mid) \in Seq([Links -> Names])
      /\ Append(plan, c1) \in Seq(Names \X Names)
      /\ Len(Append(stages, mid)) = Len(Append(plan, c1)) + 1
      /\ Append(stages, mid)[Len(Append(stages, mid))] = mid
      /\ Append(stages, mid)[1] = stages[1]
      /\ \A k \in 1 .. Len(Append(plan, c1)) :
           Leads(Append(stages, mid)[k], Append(plan, c1)[k], Append(stages, mid)[k + 1])
  BY <1>1, <1>3, <1>4, <1>6, OneMore
<1>9. /\ stages' \in Seq([Links -> Names]) /\ plan' \in Seq(Names \X Names)
      /\ Len(stages') = Len(plan') + 1
      /\ stages'[Len(stages')] = link' /\ stages'[1] = stages[1]
      /\ \A k \in 1 .. Len(plan') : Leads(stages'[k], plan'[k], stages'[k + 1])
  <2> DEFINE ss == Append(stages, mid)
             cs == Append(plan, c1)
             g == link'
  <2>1. /\ ss \in Seq([Links -> Names]) /\ cs \in Seq(Names \X Names) /\ Len(ss) = Len(cs) + 1
        /\ \A k \in 1 .. Len(cs) : Leads(ss[k], cs[k], ss[k + 1])
        /\ ss[Len(ss)] = mid /\ ss[1] = stages[1]
    BY <1>8
  <2>2. c2 \in Names \X Names /\ g \in [Links -> Names] /\ stages' = Append(ss, g) /\ plan' = Append(cs, c2)
    BY <1>3, <1>4, <1>5
  <2> HIDE DEF ss, cs, g
  <2>3. Leads(ss[Len(ss)], c2, g)
    BY <1>7, <2>1 DEF g
  <2>4. /\ Append(ss, g) \in Seq([Links -> Names]) /\ Append(cs, c2) \in Seq(Names \X Names)
        /\ Len(Append(ss, g)) = Len(Append(cs, c2)) + 1
        /\ Append(ss, g)[Len(Append(ss, g))] = g /\ Append(ss, g)[1] = ss[1]
        /\ \A k \in 1 .. Len(Append(cs, c2)) :
             Leads(Append(ss, g)[k], Append(cs, c2)[k], Append(ss, g)[k + 1])
    BY <2>1, <2>2, <2>3, OneMore
  <2> QED BY <2>1, <2>2, <2>4 DEF g
<1> QED BY <1>1, <1>2, <1>3, <1>9, PlanInv

LEMMA StartInv == IInv /\ Start => IInv'
<1> SUFFICES ASSUME IInv, Start PROVE IInv'
  OBVIOUS
<1>1. /\ phase = "plan" /\ phase' = "run" /\ todo' = plan
      /\ UNCHANGED <<name, up, step, isup, failed, refused, link, plan, stages, before>>
  BY DEF Start, links
<1>2. /\ step = "show" /\ failed = <<>> /\ ~refused /\ up = before /\ name = stages[1]
      /\ plan \in Seq(Names \X Names)
  BY <1>1 DEF IInv, TypeOK, NotStarted, InOrder
<1>3. TypeOK' /\ Staged' /\ NotStarted'
  BY <1>1 DEF IInv, TypeOK, Staged, NotStarted
<1>4. Pos' = 1
  BY <1>1, <1>2 DEF Pos
<1>5. InOrder' /\ OnStage' /\ UpsKept'
  BY <1>1, <1>2, <1>4 DEF IInv, InOrder, OnStage, UpsKept, Injective
<1> QED BY <1>3, <1>5 DEF IInv

-----------------------------------------------------------------------------
(* Carrying it out *)

(* The command that runs leads from its stage to the next. *)
LEMMA Current ==
  ASSUME IInv, phase = "run", todo # <<>>
  PROVE  /\ Pos \in 1 .. Len(plan) /\ Pos + 1 \in 1 .. Len(stages)
         /\ Leads(stages[Pos], todo[1], stages[Pos + 1])
         /\ todo[1] \in Names \X Names /\ Src \in Names /\ Dst \in Names
<1>1. /\ todo \in Seq(Names \X Names) /\ plan \in Seq(Names \X Names)
      /\ Len(todo) <= Len(plan) /\ \A k \in 1 .. Len(todo) : todo[k] = plan[Pos + k - 1]
      /\ Len(stages) = Len(plan) + 1
      /\ \A k \in 1 .. Len(plan) : Leads(stages[k], plan[k], stages[k + 1])
  BY DEF IInv, TypeOK, InOrder, Staged
<1>2. 1 \in 1 .. Len(todo) /\ Pos \in 1 .. Len(plan) /\ Pos + 1 - 1 = Pos
  BY <1>1 DEF Pos
<1>3. todo[1] = plan[Pos]
  BY <1>1, <1>2
<1>4. Leads(stages[Pos], todo[1], stages[Pos + 1])
  BY <1>1, <1>2, <1>3
<1> QED BY <1>1, <1>2, <1>4 DEF Src, Dst

(* What the end of a call does to the order. *)
LEMMA Returned ==
  ASSUME IInv, phase = "run", todo # <<>>, Return, UNCHANGED <<plan, phase>>,
         Injective(name')
  PROVE  /\ InOrder' /\ todo' \in Seq(Names \X Names) /\ step' = "show" /\ Pos' = Pos + 1
<1>1. /\ todo \in Seq(Names \X Names) /\ plan \in Seq(Names \X Names)
      /\ Len(todo) <= Len(plan) /\ \A k \in 1 .. Len(todo) : todo[k] = plan[Pos + k - 1]
  BY DEF IInv, TypeOK, InOrder
<1>2. /\ todo' \in Seq(Names \X Names) /\ Len(todo') = Len(todo) - 1 /\ step' = "show"
      /\ \A k \in 1 .. Len(todo') : todo'[k] = todo[k + 1]
  BY <1>1 DEF Return
<1>3. Pos' = Pos + 1
  BY <1>1, <1>2 DEF Pos
<1>4. \A k \in 1 .. Len(todo') : todo'[k] = plan'[Pos' + k - 1]
  <2> SUFFICES ASSUME NEW k \in 1 .. Len(todo') PROVE todo'[k] = plan'[Pos' + k - 1]
    OBVIOUS
  <2>1. k + 1 \in 1 .. Len(todo) /\ Pos' + k - 1 = Pos + (k + 1) - 1
    BY <1>1, <1>2, <1>3 DEF Pos
  <2> QED BY <1>1, <1>2, <2>1
<1> QED BY <1>1, <1>2, <1>3, <1>4 DEF InOrder

(* While nothing has failed, the kernel refuses nothing. *)
LEMMA NoRefusal ==
  ASSUME IInv, phase = "run", todo # <<>>, failed = <<>>
  PROVE  ~Refuses
<1>1. ~refused /\ name = stages[IF step = "up" THEN Pos + 1 ELSE Pos]
  BY DEF IInv, OnStage
<1>2. PICK i \in Links : /\ stages[Pos][i] = Src
                        /\ stages[Pos + 1] = [stages[Pos] EXCEPT ![i] = Dst]
                        /\ \A j \in Links : stages[Pos][j] # Dst
  BY Current DEF Leads, Src, Dst
<1>3. name \in [Links -> Names] /\ Injective(name) /\ step \in Command
  BY DEF IInv, TypeOK, InOrder
<1>4. /\ step = "rename" => \E l \in Called(Src) : DownFor(l)
      /\ step = "up"     => \E l \in Called(Dst) : DownFor(l)
  BY <1>1 DEF IInv, UpsKept
<1>5. step # "up" => i \in Called(Src)
  BY <1>1, <1>2, <1>3 DEF Called
<1>6. step = "rename" => Called(Dst) = {}
  BY <1>1, <1>2, <1>3 DEF Called
<1>7. step = "rename" => \A l \in Called(Src) : ~up[l]
  <2> SUFFICES ASSUME step = "rename", NEW l \in Called(Src) PROVE ~up[l]
    OBVIOUS
  <2>1. PICK h \in Called(Src) : DownFor(h)
    BY <1>4
  <2>2. h = l /\ h \in Links
    BY <1>3 DEF Called, Injective
  <2> QED BY <2>1, <2>2 DEF DownFor, IInv, TypeOK
<1> QED BY <1>4, <1>5, <1>6, <1>7 DEF Refuses

LEMMA ShowInv ==
  ASSUME IInv, phase = "run", UNCHANGED <<link, plan, stages, before, phase>>,
         NEW l \in Links, Show(l)
  PROVE  IInv'
<1>1. /\ todo # <<>> /\ step = "show" /\ l \in Called(Src)
      /\ isup' = up[l] /\ step' = IF up[l] THEN "down" ELSE "rename"
      /\ UNCHANGED <<name, up, todo, failed, refused>>
  BY DEF Show, Running, links
<1>2. TypeOK' /\ Staged' /\ NotStarted' /\ InOrder' /\ OnStage'
  BY <1>1 DEF IInv, TypeOK, Command, Staged, NotStarted, InOrder, OnStage, Pos, Injective
<1>3. UpsKept'
  <2> SUFFICES ASSUME ~refused, {failed[k] : k \in DOMAIN failed} \subseteq {"show", "down"}
               PROVE  /\ step' = "down"   => up' = before' /\ isup' /\ \E h \in Called(Src)' : up'[h]
                      /\ step' = "rename" => \E h \in Called(Src)' : DownFor(h)'
    BY <1>1 DEF UpsKept
  <2>1. up = before /\ Called(Src)' = Called(Src)
    BY <1>1 DEF IInv, UpsKept, Called, Src
  <2>2. ASSUME ~up[l] PROVE before = [before EXCEPT ![l] = FALSE]
    <3>1. before \in [Links -> BOOLEAN] /\ before[l] = FALSE
      BY <2>1, <2>2 DEF IInv, TypeOK
    <3> QED BY <3>1
  <2> QED BY <1>1, <2>1, <2>2 DEF DownFor
<1> QED BY <1>2, <1>3 DEF IInv

LEMMA DownInv ==
  ASSUME IInv, phase = "run", UNCHANGED <<link, plan, stages, before, phase>>,
         NEW l \in Links, Down(l)
  PROVE  IInv'
<1>1. /\ todo # <<>> /\ step = "down" /\ step' = "rename" /\ l \in Called(Src)
      /\ up' = [up EXCEPT ![l] = FALSE]
      /\ UNCHANGED <<name, todo, isup, failed, refused>>
  BY DEF Down, Running
<1>2. TypeOK' /\ Staged' /\ NotStarted' /\ InOrder' /\ OnStage'
  BY <1>1 DEF IInv, TypeOK, Command, Staged, NotStarted, InOrder, OnStage, Pos, Injective
<1>3. UpsKept'
  <2> SUFFICES ASSUME ~refused, {failed[k] : k \in DOMAIN failed} \subseteq {"show", "down"}
               PROVE  \E h \in Called(Src)' : DownFor(h)'
    BY <1>1 DEF UpsKept
  <2>1. up = before /\ isup /\ Called(Src)' = Called(Src) /\ \E h \in Called(Src) : up[h]
    BY <1>1 DEF IInv, UpsKept, Called, Src
  <2>2. \A h \in Called(Src) : h = l
    BY <1>1 DEF IInv, TypeOK, InOrder, Injective, Called
  <2> QED BY <1>1, <2>1, <2>2 DEF DownFor, IInv, TypeOK
<1> QED BY <1>2, <1>3 DEF IInv

LEMMA RenameInv ==
  ASSUME IInv, phase = "run", UNCHANGED <<link, plan, stages, before, phase>>,
         NEW l \in Links, Rename(l)
  PROVE  IInv'
<1>1. /\ todo # <<>> /\ step = "rename" /\ l \in Called(Src) /\ Called(Dst) = {}
      /\ name' = [name EXCEPT ![l] = Dst]
      /\ UNCHANGED <<up, isup, failed, refused>>
      /\ \/ isup /\ step' = "up" /\ UNCHANGED todo
         \/ ~isup /\ Return
  BY DEF Rename, Running, Refuses
<1>2. name \in [Links -> Names] /\ Injective(name) /\ Src \in Names /\ Dst \in Names
  BY <1>1, Current DEF IInv, TypeOK, InOrder
<1>3. name' \in [Links -> Names] /\ Injective(name') /\ name'[l] = Dst
  BY <1>1, <1>2 DEF Injective, Called
<1>4. InOrder' /\ todo' \in Seq(Names \X Names) /\ step' \in {"show", "up"}
      /\ Pos' = IF isup THEN Pos ELSE Pos + 1
  <2>1. CASE isup
    BY <1>1, <1>3, <2>1 DEF IInv, TypeOK, InOrder, Pos
  <2>2. CASE ~isup
    BY <1>1, <1>3, <2>2, Returned
  <2> QED BY <2>1, <2>2
<1>5. TypeOK' /\ Staged' /\ NotStarted'
  BY <1>1, <1>3, <1>4 DEF IInv, TypeOK, Command, Staged, NotStarted
<1>6. OnStage'
  <2> SUFFICES ASSUME failed = <<>>
               PROVE  ~refused /\ name' = stages[IF step' = "up" THEN Pos' + 1 ELSE Pos']
    BY <1>1 DEF OnStage
  <2>1. ~refused /\ name = stages[Pos]
    BY <1>1 DEF IInv, OnStage
  <2>2. PICK i \in Links : /\ stages[Pos][i] = Src
                          /\ stages[Pos + 1] = [stages[Pos] EXCEPT ![i] = Dst]
    BY <1>1, Current DEF Leads, Src, Dst
  <2>3. i = l
    BY <1>1, <1>2, <2>1, <2>2 DEF Called, Injective
  <2>4. name' = stages[Pos + 1]
    BY <1>1, <2>1, <2>2, <2>3
  <2> QED BY <1>1, <1>4, <2>1, <2>4 DEF Return
<1>7. UpsKept'
  <2> SUFFICES ASSUME ~refused, {failed[k] : k \in DOMAIN failed} \subseteq {"show", "down"}
               PROVE  /\ step' = "show" => up' = before
                      /\ step' = "up" => isup' /\ \E h \in Called(Dst)' : DownFor(h)'
    BY <1>1, <1>4 DEF UpsKept
  <2>1. PICK h \in Called(Src) : DownFor(h)
    BY <1>1 DEF IInv, UpsKept
  <2>2. h = l /\ before \in [Links -> BOOLEAN]
    BY <1>1, <1>2, <2>1 DEF Called, Injective, IInv, TypeOK
  <2>3. CASE isup
    <3>1. step' = "up" /\ l \in Called(Dst)' /\ DownFor(l)'
      BY <1>1, <1>3, <2>1, <2>2, <2>3 DEF Return, Called, Dst, DownFor
    <3> QED BY <1>1, <2>3, <3>1
  <2>4. CASE ~isup
    <3>1. step' = "show" /\ before[l] = FALSE
      BY <1>1, <2>1, <2>2, <2>4 DEF Return, DownFor
    <3>2. up = before
      BY <2>1, <2>2, <3>1 DEF DownFor
    <3> QED BY <1>1, <3>1, <3>2
  <2> QED BY <2>3, <2>4
<1> QED BY <1>4, <1>5, <1>6, <1>7 DEF IInv

LEMMA UpInv ==
  ASSUME IInv, phase = "run", UNCHANGED <<link, plan, stages, before, phase>>,
         NEW l \in Links, Up(l)
  PROVE  IInv'
<1>1. /\ todo # <<>> /\ step = "up" /\ l \in Called(Dst) /\ up' = [up EXCEPT ![l] = TRUE]
      /\ Return /\ UNCHANGED <<name, isup, failed, refused>>
  BY DEF Up, Running
<1>2. name \in [Links -> Names] /\ Injective(name')
  BY <1>1 DEF IInv, TypeOK, InOrder, Injective
<1>3. InOrder' /\ todo' \in Seq(Names \X Names) /\ step' = "show" /\ Pos' = Pos + 1
  BY <1>1, <1>2, Returned
<1>4. TypeOK' /\ Staged' /\ NotStarted' /\ OnStage'
  BY <1>1, <1>3 DEF IInv, TypeOK, Command, Staged, NotStarted, OnStage
<1>5. UpsKept'
  <2> SUFFICES ASSUME ~refused, {failed[k] : k \in DOMAIN failed} \subseteq {"show", "down"}
               PROVE  up' = before
    BY <1>1, <1>3 DEF UpsKept
  <2>1. isup /\ \E h \in Called(Dst) : DownFor(h)
    BY <1>1 DEF IInv, UpsKept
  <2>2. DownFor(l)
    BY <1>1, <1>2, <2>1 DEF Called, Injective
  <2>3. before \in [Links -> BOOLEAN] /\ before[l] = TRUE /\ up = [before EXCEPT ![l] = FALSE]
    BY <2>1, <2>2 DEF DownFor, IInv, TypeOK
  <2> QED BY <1>1, <2>3
<1> QED BY <1>3, <1>4, <1>5 DEF IInv

LEMMA GiveUpInv ==
  ASSUME IInv, phase = "run", UNCHANGED <<link, plan, stages, before, phase>>, GiveUp
  PROVE  IInv'
<1>1. todo # <<>> /\ Return /\ UNCHANGED <<name, up, isup>> /\ Injective(name')
  BY DEF GiveUp, links, IInv, InOrder, Injective
<1>2. InOrder' /\ todo' \in Seq(Names \X Names) /\ step' = "show" /\ Pos' = Pos + 1
  BY <1>1, Returned
<1>3. CASE Refuses /\ refused' = TRUE /\ UNCHANGED failed
  <2>1. TypeOK' /\ Staged' /\ NotStarted'
    BY <1>1, <1>2, <1>3 DEF IInv, TypeOK, Command, Staged, NotStarted
  <2>2. failed' # <<>>
    BY <1>1, <1>3, NoRefusal
  <2> QED BY <1>2, <1>3, <2>1, <2>2 DEF IInv, OnStage, UpsKept
<1>4. CASE failed' = Append(failed, step) /\ UNCHANGED refused
  <2>0. failed \in Seq(Command) /\ step \in Command
    BY DEF IInv, TypeOK
  <2>1. /\ failed' \in Seq(Command) /\ failed' # <<>> /\ DOMAIN failed' = 1 .. Len(failed) + 1
        /\ failed'[Len(failed) + 1] = step /\ \A k \in DOMAIN failed : failed'[k] = failed[k]
    BY <1>4, <2>0
  <2>2. TypeOK' /\ Staged' /\ NotStarted'
    BY <1>1, <1>2, <1>4, <2>1 DEF IInv, TypeOK, Command, Staged, NotStarted
  <2>3. UpsKept'
    <3> SUFFICES ASSUME ~refused,
                        {failed'[k] : k \in DOMAIN failed'} \subseteq {"show", "down"}
                 PROVE  up = before
      BY <1>1, <1>2, <1>4 DEF UpsKept
    <3>1. step \in {"show", "down"}
      BY <2>1
    <3>2. {failed[k] : k \in DOMAIN failed} \subseteq {"show", "down"}
      BY <2>1, SMTT(30)
    <3> QED BY <3>1, <3>2 DEF IInv, UpsKept
  <2> QED BY <1>2, <2>1, <2>2, <2>3 DEF IInv, OnStage
<1> QED BY <1>3, <1>4 DEF GiveUp

LEMMA NextInv == IInv /\ [Next]_vars => IInv'
<1> SUFFICES ASSUME IInv, [Next]_vars PROVE IInv'
  OBVIOUS
<1>1. CASE Observe \/ Start
  BY <1>1, ObserveInv, StartInv
<1>2. CASE \E i \in Links, n \in Names : RenameFree(i, n)
  BY <1>2, RenameFreeInv
<1>3. CASE \E i, j \in Links, n \in Names : RenameOver(i, j, n)
  BY <1>3, RenameOverInv
<1>4. CASE Run
  <2>1. phase = "run" /\ UNCHANGED <<link, plan, stages, before, phase>> /\ DOMAIN name = Links
    BY <1>4 DEF Run, IInv, TypeOK
  <2>2. GiveUp \/ \E l \in Links : Show(l) \/ Down(l) \/ Rename(l) \/ Up(l)
    BY <1>4, <2>1 DEF Run, IpNext
  <2> QED BY <2>1, <2>2, ShowInv, DownInv, RenameInv, UpInv, GiveUpInv
<1>5. CASE UNCHANGED vars
  <2>1. TypeOK' /\ Staged' /\ NotStarted'
    BY <1>5 DEF vars, ipvars, IInv, TypeOK, Staged, NotStarted
  <2>2. InOrder' /\ OnStage'
    BY <1>5 DEF vars, ipvars, IInv, InOrder, OnStage, Pos, Injective
  <2>3. UpsKept'
    BY <1>5 DEF vars, ipvars, IInv, UpsKept, Called, Src, Dst, DownFor
  <2> QED BY <2>1, <2>2, <2>3 DEF IInv
<1> QED BY <1>1, <1>2, <1>3, <1>4, <1>5 DEF Next

LEMMA Invariance == Spec => []IInv
BY InitInv, NextInv, PTL DEF Spec

-----------------------------------------------------------------------------

(* A plan is made before its first command runs and carried out one command*)
(* after the other: the kernel refuses none of them unless one failed for  *)
(* a reason of its own.                                                    *)
THEOREM PlansAreAccepted == Spec => []NeverRefused
<1>1. IInv => NeverRefused
  BY DEF IInv, OnStage, NotStarted, TypeOK, NeverRefused
<1> QED BY <1>1, Invariance, PTL

(* ip_link_set_name() takes links down to rename them: when all the calls  *)
(* have ended, the links are up that were, unless a rename or an up failed *)
(* or was refused, and if nothing failed they have the planned names.      *)
THEOREM LinksArrive == Spec => []Arrives
<1>1. IInv => Arrives
  <2> SUFFICES ASSUME IInv, Ended, ~refused,
                      {failed[k] : k \in DOMAIN failed} \subseteq {"show", "down"}
               PROVE  up = before /\ (failed = <<>> => name = link)
    BY DEF Arrives
  <2>1. phase = "run" /\ todo = <<>> /\ step = "show"
    BY DEF Ended, IInv, InOrder
  <2>2. up = before
    BY <2>1 DEF IInv, UpsKept
  <2>3. ASSUME failed = <<>> PROVE name = link
    <3>1. Pos = Len(stages) /\ stages[Len(stages)] = link
      BY <2>1 DEF Pos, IInv, TypeOK, Staged
    <3>2. name = stages[Pos]
      BY <2>1, <2>3 DEF IInv, OnStage
    <3> QED BY <3>1, <3>2
  <2> QED BY <2>2, <2>3
<1> QED BY <1>1, Invariance, PTL

-----------------------------------------------------------------------------
(* Labels *)

(* Up to i, a set has at most i numbers; up to a larger one that is in it, *)
(* it has more of them.                                                    *)
UpTo(I, i) == {j \in 1 .. i : j \in I}

LEMMA Counted ==
  ASSUME NEW I, NEW i \in Nat
  PROVE  IsFiniteSet(UpTo(I, i)) /\ Cardinality(UpTo(I, i)) \in 0 .. i
<1>1. IsFiniteSet(1 .. i) /\ Cardinality(1 .. i) = i
  <2>1. 1 \in Int /\ i \in Int
    OBVIOUS
  <2>2. IsFiniteSet(1 .. i) /\ Cardinality(1 .. i) = IF 1 > i THEN 0 ELSE i - 1 + 1
    BY <2>1, FS_Interval
  <2> QED BY <2>2
<1>2. UpTo(I, i) \in SUBSET (1 .. i)
  BY DEF UpTo
<1>3. IsFiniteSet(UpTo(I, i)) /\ Cardinality(UpTo(I, i)) <= i
  BY <1>1, <1>2, FS_Subset
<1>4. Cardinality(UpTo(I, i)) \in Nat
  BY <1>3, FS_CardinalityType
<1> QED BY <1>3, <1>4

LEMMA CountsGrow ==
  ASSUME NEW I, NEW i \in Nat, NEW k \in Nat, k \in I, i < k
  PROVE  Cardinality(UpTo(I, i)) < Cardinality(UpTo(I, k))
<1>1. k \in UpTo(I, k) /\ UpTo(I, i) \subseteq UpTo(I, k) \ {k}
  BY DEF UpTo
<1>2. IsFiniteSet(UpTo(I, k)) /\ Cardinality(UpTo(I, k)) \in Nat /\ Cardinality(UpTo(I, i)) \in Nat
  BY Counted
<1> DEFINE A == UpTo(I, i)
           B == UpTo(I, k)
<1> HIDE DEF A, B
<1>3. IsFiniteSet(B \ {k}) /\ Cardinality(B \ {k}) = Cardinality(B) - 1
  BY <1>1, <1>2, FS_RemoveElement DEF B
<1>4. Cardinality(A) <= Cardinality(B \ {k})
  BY <1>1, <1>3, FS_Subset DEF A, B
<1> QED BY <1>2, <1>3, <1>4 DEF A, B

(* A set of numbers has a least one, a set of the first ones a largest.    *)
LEMMA LeastNat ==
  ASSUME NEW S \in SUBSET Nat, S # {}
  PROVE  \E m \in S : \A n \in S : m <= n
<1> DEFINE R == {p \in Nat \X Nat : p[1] < p[2]}
<1>1. IsWellFoundedOn(R, Nat)
  BY NatLessThanWellFounded DEF OpToRel
<1> HIDE DEF R
<1>2. PICK m \in S : \A n \in S : ~(<<n, m>> \in R)
  BY <1>1, WFMin
<1>3. \A n \in S : ~(n < m)
  BY <1>2 DEF R
<1> QED BY <1>3

LEMMA LargestNat ==
  ASSUME NEW N \in Nat, NEW S \in SUBSET (1 .. N), S # {}
  PROVE  \E m \in S : \A n \in S : m >= n
<1> DEFINE T == {i \in 0 .. N : N - i \in S}
<1>1. T \in SUBSET Nat
  OBVIOUS
<1>2. T # {}
  <2>1. PICK s \in S : TRUE
    OBVIOUS
  <2>2. N - s \in 0 .. N /\ N - (N - s) = s
    OBVIOUS
  <2>3. N - s \in T
    BY <2>1, <2>2
  <2> QED BY <2>3
<1>3. PICK t \in T : \A n \in T : t <= n
  BY <1>1, <1>2, LeastNat
<1>4. N - t \in S /\ t \in 0 .. N
  BY <1>3
<1>5. ASSUME NEW n \in S PROVE N - t >= n
  <2>1. N - n \in 0 .. N /\ N - (N - n) = n
    OBVIOUS
  <2>2. N - n \in T
    BY <2>1
  <2>3. t <= N - n
    BY <1>3, <2>2
  <2> QED BY <1>4, <2>1, <2>3
<1> QED BY <1>4, <1>5

(* The first and the last place of an element of a list.                   *)
LEMMA FirstIs ==
  ASSUME NEW s, Len(s) \in Nat, NEW i \in 1 .. Len(s)
  PROVE  LET p == SelectInSeq(s, LAMBDA x : x = s[i]) IN p \in 1 .. Len(s) /\ s[p] = s[i]
<1> DEFINE I == {j \in 1 .. Len(s) : s[j] = s[i]}
<1>1. I \in SUBSET Nat /\ I # {}
  OBVIOUS
<1>2. SelectInSeq(s, LAMBDA x : x = s[i]) = IF I # {} THEN Min(I) ELSE 0
  BY DEF SelectInSeq
<1> HIDE DEF I
<1>3. \E m \in I : \A n \in I : m <= n
  BY <1>1, LeastNat
<1>4. Min(I) \in I
  BY <1>3 DEF Min
<1> QED BY <1>1, <1>2, <1>4 DEF I

LEMMA LastIs ==
  ASSUME NEW s, Len(s) \in Nat, NEW i \in 1 .. Len(s)
  PROVE  LET p == SelectLastInSeq(s, LAMBDA x : x = s[i]) IN p \in 1 .. Len(s) /\ s[p] = s[i]
<1> DEFINE I == {j \in 1 .. Len(s) : s[j] = s[i]}
<1>1. I \in SUBSET (1 .. Len(s)) /\ I # {}
  OBVIOUS
<1>2. SelectLastInSeq(s, LAMBDA x : x = s[i]) = IF I # {} THEN Max(I) ELSE 0
  BY DEF SelectLastInSeq
<1> HIDE DEF I
<1>3. \E m \in I : \A n \in I : m >= n
  BY <1>1, LargestNat
<1>4. Max(I) \in I
  BY <1>3 DEF Max
<1> QED BY <1>1, <1>2, <1>4 DEF I

(* A list without repetition. *)
OnceEach(s) == \A i, j \in 1 .. Len(s) : s[i] = s[j] => i = j

LEMMA ShortLabels ==
  /\ \A a, b : <<"label", a>> = <<"label", b>> => a = b
  /\ \A a, s : <<"label", a>> # <<s>>
  /\ \A a, b : <<a>> = <<b>> => a = b
<1>1. \A a, s : Len(<<"label", a>>) = 2 /\ Len(<<s>>) = 1
  OBVIOUS
<1> QED BY <1>1

(* The label reading gives to an entry with the title t. *)
GoodLabel(l, t) == IF Numbered(t) THEN \E n \in 1 .. MaxMenu : l = <<"label", n>> ELSE l = <<t.says>>

LEMMA PlainTitle ==
  ASSUME NEW t \in Title, ~Numbered(t)
  PROVE  t.says \in Known /\ (t.says \in Slashed \/ t.added = <<>>)
BY DEF Title, Numbered

LEMMA GoodLabelIs ==
  ASSUME NEW l, NEW t \in Title, GoodLabel(l, t)
  PROVE  l \in Labels
<1>1. CASE Numbered(t)
  BY <1>1 DEF GoodLabel, Labels
<1>2. CASE ~Numbered(t)
  BY <1>2, PlainTitle DEF GoodLabel, Labels
<1> QED BY <1>1, <1>2

LEMMA LabelsAre ==
  ASSUME NEW es \in Seq(EntryT), Len(es) <= MaxMenu
  PROVE  /\ Len(LabelsOf(es)) = Len(es) /\ DOMAIN LabelsOf(es) = 1 .. Len(es) /\ DOMAIN es = 1 .. Len(es)
         /\ \A i \in 1 .. Len(es) : es[i] \in EntryT /\ es[i].title \in Title
         /\ \A i \in 1 .. Len(es) : GoodLabel(LabelsOf(es)[i], es[i].title) /\ LabelsOf(es)[i] \in Labels
         /\ Apart(es) => OnceEach(LabelsOf(es))
<1> DEFINE I == {j \in DOMAIN es : Numbered(es[j].title)}
           ls == LabelsOf(es)
           N(i) == Cardinality(UpTo(I, i))
<1>1. DOMAIN es = 1 .. Len(es) /\ Len(es) \in Nat /\ \A i \in DOMAIN es : es[i] \in EntryT /\ es[i].title \in Title
  <2>1. \A i \in DOMAIN es : es[i] \in EntryT
    OBVIOUS
  <2> QED BY <2>1 DEF EntryT
<1>2. \A i \in DOMAIN es : {j \in 1 .. i : Numbered(es[j].title)} = UpTo(I, i)
  BY <1>1 DEF UpTo
<1>3. ls = [i \in DOMAIN es |-> Label(es[i].title, N(i))]
  BY <1>2 DEF LabelsOf
<1> HIDE DEF ls
<1>4. Len(ls) = Len(es) /\ DOMAIN ls = DOMAIN es
  BY <1>1, <1>3
<1>5. \A i \in DOMAIN es : N(i) \in Nat /\ N(i) <= Len(es)
  BY <1>1, Counted
<1>6. \A i \in DOMAIN es : i \in I => N(i) > 0
  <2> SUFFICES ASSUME NEW i \in DOMAIN es, i \in I PROVE N(i) > 0
    OBVIOUS
  <2>1. 0 \in Nat /\ i \in Nat /\ 0 < i
    BY <1>1
  <2>2. Cardinality(UpTo(I, 0)) < N(i)
    BY <2>1, CountsGrow
  <2>3. Cardinality(UpTo(I, 0)) \in Nat
    BY Counted
  <2> QED BY <1>5, <2>2, <2>3
<1> HIDE DEF N
<1>7. ASSUME NEW i \in DOMAIN es PROVE GoodLabel(ls[i], es[i].title)
  <2>1. ls[i] = Label(es[i].title, N(i))
    BY <1>3
  <2>2. CASE i \in I
    <3>1. N(i) \in 1 .. MaxMenu
      BY <1>1, <1>5, <1>6, <2>2, BootloaderAssumption
    <3> QED BY <2>1, <2>2, <3>1 DEF GoodLabel, Label
  <2>3. CASE i \notin I
    BY <2>1, <2>3 DEF GoodLabel, Label
  <2> QED BY <2>2, <2>3
<1>8. Apart(es) => OnceEach(ls)
  BY <1>1, <1>4 DEF Apart, IsInjective, OnceEach, ls
<1>9. \A i \in DOMAIN es : ls[i] \in Labels
  BY <1>1, <1>7, GoodLabelIs
<1> QED BY <1>1, <1>4, <1>7, <1>8, <1>9 DEF ls

-----------------------------------------------------------------------------
(* Lists picked from lists: DynamicProofs has the facts. *)

Picking == INSTANCE DynamicProofs WITH
  Entry <- {}, Lists <- {}, Files <- {}, MaxList <- 0,
  file <- 0, lastboot <- 0, old <- 0, saving <- 0, result <- 0, kept <- 0

LEMMA SamePicking ==
  /\ \A I : Cardinality(I) = Picking!Cardinality(I) /\ IsFiniteSet(I) = Picking!IsFiniteSet(I)
  /\ \A I, n : Nth(I, n) = Picking!Nth(I, n)
  /\ \A s, I : Those(s, I) = Picking!Those(s, I)
<1>1. \A I : Cardinality(I) = Picking!Cardinality(I)
  BY DEF Cardinality, Picking!Cardinality, IsFiniteSet, Picking!IsFiniteSet
<1>2. \A I : IsFiniteSet(I) = Picking!IsFiniteSet(I)
  BY DEF IsFiniteSet, Picking!IsFiniteSet
<1>3. \A I, n : Nth(I, n) = Picking!Nth(I, n)
  BY <1>1 DEF Nth, Picking!Nth
<1>4. \A s, I : Those(s, I) = Picking!Those(s, I)
  BY <1>1, <1>3 DEF Those, Picking!Those
<1> QED BY <1>1, <1>2, <1>3, <1>4

LEMMA ThoseIs ==
  ASSUME NEW X, NEW s \in Seq(X), NEW I, I \subseteq DOMAIN s
  PROVE  /\ Those(s, I) \in Seq(X) /\ DOMAIN Those(s, I) = 1 .. Cardinality(I)
         /\ IsFiniteSet(I) /\ I \subseteq Nat
         /\ \A n \in DOMAIN Those(s, I) : Nth(I, n) \in I /\ Those(s, I)[n] = s[Nth(I, n)]
<1>1. /\ Picking!Those(s, I) \in Seq(X)
      /\ DOMAIN Picking!Those(s, I) = 1 .. Picking!Cardinality(I)
      /\ Picking!IsFiniteSet(I)
      /\ \A n \in DOMAIN Picking!Those(s, I) :
           Picking!Nth(I, n) \in I /\ Picking!Those(s, I)[n] = s[Picking!Nth(I, n)]
  BY Picking!ThoseAre
<1>2. I \subseteq Nat
  <2>1. DOMAIN s = 1 .. Len(s)
    OBVIOUS
  <2> QED BY <2>1
<1> QED BY <1>1, <1>2, SamePicking

-----------------------------------------------------------------------------
(* Files and objects *)

Loads == {"none", "env", "override"}

Fields(o) == o = [menu |-> o.menu, order |-> o.order, default |-> o.default, load |-> o.load, block |-> o.block]

Entries(o) == [i \in 1 .. Len(o.order) |-> o.menu[o.order[i]]]

(* What every object is.  One that was read has a default.                 *)
TypedObj(o) ==
  /\ Fields(o)
  /\ o.order \in Seq(Labels) /\ Len(o.order) <= MaxMenu
  /\ DOMAIN o.menu \subseteq Range(o.order) /\ o.menu \in [DOMAIN o.menu -> EntryT]
  /\ o.default \in Labels \cup {None} /\ o.load \in Loads /\ o.block \in BOOLEAN
  /\ o.block => o.default # None

(* While no two entries share a label, each label is in the order once,    *)
(* has an entry, and fits its title.                                       *)
GoodObj(o) ==
  /\ TypedObj(o)
  /\ OnceEach(o.order) /\ DOMAIN o.menu = Range(o.order)
  /\ \A i \in 1 .. Len(o.order) : GoodLabel(o.order[i], o.menu[o.order[i]].title)

LEMMA OrderIs ==
  ASSUME NEW o, TypedObj(o)
  PROVE  /\ Len(o.order) \in Nat /\ DOMAIN o.order = 1 .. Len(o.order)
         /\ Range(o.order) = {o.order[i] : i \in 1 .. Len(o.order)} /\ Range(o.order) \subseteq Labels
         /\ \A l \in DOMAIN o.menu : o.menu[l] \in EntryT /\ o.menu[l].title \in Title
<1>1. o.order \in Seq(Labels) /\ o.menu \in [DOMAIN o.menu -> EntryT]
  BY DEF TypedObj
<1>2. Len(o.order) \in Nat /\ DOMAIN o.order = 1 .. Len(o.order)
  BY <1>1
<1>3. Range(o.order) = {o.order[i] : i \in 1 .. Len(o.order)}
  BY <1>2 DEF Range
<1>4. \A i \in 1 .. Len(o.order) : o.order[i] \in Labels
  BY <1>1
<1>5. \A l \in DOMAIN o.menu : o.menu[l] \in EntryT
  BY <1>1
<1> QED BY <1>2, <1>3, <1>4, <1>5 DEF EntryT

LEMMA NoneIsNoObject ==
  ASSUME NEW o, TypedObj(o)
  PROVE  o # None
<1> DEFINE M == UNION {[L -> EntryT] : L \in SUBSET Labels}
<1>1. DOMAIN o.menu \in SUBSET Labels
  BY OrderIs DEF TypedObj
<1>2. o.menu \in M
  <2> DEFINE D == DOMAIN o.menu
  <2>1. o.menu \in [D -> EntryT] /\ D \in SUBSET Labels
    BY <1>1 DEF TypedObj
  <2> HIDE DEF D
  <2> QED BY <2>1
<1> HIDE DEF M
<1>3. o \in [menu : M, order : Seq(Labels), default : Labels \cup {None}, load : Loads, block : BOOLEAN]
  <2> DEFINE a == o.menu
             b == o.order
             c == o.default
             d == o.load
             e == o.block
  <2>1. /\ o = [menu |-> a, order |-> b, default |-> c, load |-> d, block |-> e]
        /\ a \in M /\ b \in Seq(Labels) /\ c \in Labels \cup {None} /\ d \in Loads /\ e \in BOOLEAN
    BY <1>2 DEF TypedObj, Fields
  <2> HIDE DEF a, b, c, d, e
  <2> QED BY <2>1
<1>4. o \in ObjectT
  BY <1>3 DEF ObjectT, M, Loads
<1> QED BY <1>4, BootloaderAssumption

(* readGrub2(), of any file *)
LEMMA ParsedTypes ==
  ASSUME NEW d, ConfigT(d), ~BadDefault(d)
  PROVE  LET o == Parsed(d)
             N == Len(d.entries)
         IN /\ TypedObj(o) /\ Len(o.order) = N /\ N \in Nat /\ N <= MaxMenu /\ DOMAIN o.menu = Range(o.order)
            /\ o.order = LabelsOf(d.entries) /\ o.block = TRUE
            /\ \A l \in DOMAIN o.menu : \E i \in 1 .. N : o.order[i] = l /\ o.menu[l] = d.entries[i]
            /\ \A i \in 1 .. N : d.entries[i] \in EntryT /\ GoodLabel(o.order[i], d.entries[i].title)
            /\ o.load = (IF d.entries = <<>> THEN "none" ELSE IF d.load = "none" THEN "override" ELSE d.load)
            /\ d.named # None => o.default = d.named
            /\ d.named = None => Place(d) + 1 \in 1 .. N /\ Place(d) \in Nat /\ o.default = o.order[Place(d) + 1]
<1> DEFINE es == d.entries
           ls == LabelsOf(es)
           o == Parsed(d)
           N == Len(es)
           last(l) == SelectLastInSeq(ls, LAMBDA x : x = l)
<1>1. es \in Seq(EntryT) /\ N <= MaxMenu /\ N \in Nat
  BY DEF ConfigT
<1>2. /\ Len(ls) = N /\ DOMAIN ls = 1 .. N
      /\ \A i \in 1 .. N : es[i] \in EntryT /\ GoodLabel(ls[i], es[i].title) /\ ls[i] \in Labels
  BY <1>1, LabelsAre
<1> HIDE DEF ls, es
<1>3. ASSUME NEW i \in 1 .. N PROVE last(ls[i]) \in 1 .. N /\ ls[last(ls[i])] = ls[i]
  <2>1. Len(ls) \in Nat /\ i \in 1 .. Len(ls) /\ 1 .. Len(ls) = 1 .. N
    BY <1>1, <1>2
  <2>2. last(ls[i]) \in 1 .. Len(ls) /\ ls[last(ls[i])] = ls[i]
    BY <2>1, LastIs
  <2> QED BY <2>1, <2>2
<1>4. /\ o.order = ls /\ o.menu = [l \in Range(ls) |-> es[last(l)]]
      /\ o.default = (IF d.named # None THEN d.named ELSE ls[Place(d) + 1])
      /\ o.load = (IF es = <<>> THEN "none" ELSE IF d.load = "none" THEN "override" ELSE d.load)
      /\ o.block = TRUE /\ Fields(o)
  BY DEF Parsed, Fields, es, ls
<1> HIDE DEF o, last, N
<1>5. Range(ls) = {ls[i] : i \in 1 .. N}
  BY <1>2 DEF Range
<1>6. ASSUME NEW l \in Range(ls)
      PROVE  last(l) \in 1 .. N /\ ls[last(l)] = l /\ o.menu[l] = es[last(l)]
  <2>1. PICK i \in 1 .. N : l = ls[i]
    BY <1>5
  <2> QED BY <1>3, <1>4, <2>1
<1>7. o.menu \in [Range(ls) -> EntryT] /\ DOMAIN o.menu = Range(ls)
  <2>1. \A l \in Range(ls) : es[last(l)] \in EntryT
    BY <1>2, <1>6
  <2> HIDE DEF Range
  <2> QED BY <1>4, <2>1
<1>8. ls \in Seq(Labels)
  <2>1. ls = [i \in 1 .. N |-> ls[i]]
    <3>1. DOMAIN es = 1 .. N
      BY <1>1 DEF N
    <3> QED BY <1>2, <3>1 DEF ls, LabelsOf
  <2>2. ls \in [1 .. N -> Labels]
    BY <1>2, <2>1
  <2> QED BY <1>1, <2>2
<1>9. ASSUME d.named = None
      PROVE  Place(d) + 1 \in 1 .. N /\ Place(d) \in Nat /\ o.default = ls[Place(d) + 1]
  <2>1. Place(d) \in Nat
    BY DEF ConfigT, Place
  <2>2. Place(d) < N
    BY <1>1, <1>9, <2>1 DEF BadDefault, N, es
  <2> QED BY <1>1, <1>4, <1>9, <2>1, <2>2
<1>10. o.default \in Labels
  <2>1. CASE d.named = None
    BY <1>2, <1>9, <2>1
  <2>2. CASE d.named # None
    BY <1>4, <2>2 DEF ConfigT
  <2> QED BY <2>1, <2>2
<1>11. o.load \in Loads
  BY <1>4 DEF ConfigT, Loads
<1>12. None \notin Labels
  BY BootloaderAssumption
<1>13. TypedObj(o)
  BY <1>1, <1>2, <1>4, <1>7, <1>8, <1>10, <1>11, <1>12 DEF TypedObj, N
<1>14. d.named # None => o.default = d.named
  BY <1>4
<1> QED BY <1>1, <1>2, <1>4, <1>6, <1>7, <1>9, <1>13, <1>14 DEF o, es, ls, N

(* readGrub2(), of one that tells its entries apart *)
LEMMA ParsedIs ==
  ASSUME NEW d, ConfigT(d), ~BadDefault(d), Apart(d.entries)
  PROVE  GoodObj(Parsed(d)) /\ Entries(Parsed(d)) = d.entries
<1> DEFINE o == Parsed(d)
           es == d.entries
           N == Len(es)
<1>1. /\ TypedObj(o) /\ Len(o.order) = N /\ N \in Nat /\ DOMAIN o.menu = Range(o.order)
      /\ o.order = LabelsOf(es)
      /\ \A l \in DOMAIN o.menu : \E i \in 1 .. N : o.order[i] = l /\ o.menu[l] = es[i]
      /\ \A i \in 1 .. N : GoodLabel(o.order[i], es[i].title)
  BY ParsedTypes
<1>2. es \in Seq(EntryT) /\ N <= MaxMenu
  BY DEF ConfigT
<1>3. OnceEach(o.order)
  BY <1>1, <1>2, LabelsAre
<1> HIDE DEF o, es, N
<1>4. ASSUME NEW i \in 1 .. N PROVE o.menu[o.order[i]] = es[i]
  <2>1. o.order[i] \in DOMAIN o.menu
    <3>1. Range(o.order) = {o.order[j] : j \in 1 .. Len(o.order)}
      BY <1>1, OrderIs
    <3>2. o.order[i] \in Range(o.order)
      BY <1>1, <3>1
    <3> QED BY <1>1, <3>2
  <2>2. PICK j \in 1 .. N : o.order[j] = o.order[i] /\ o.menu[o.order[i]] = es[j]
    BY <1>1, <2>1
  <2>3. i = j
    BY <1>1, <1>3, <2>2 DEF OnceEach
  <2> QED BY <2>2, <2>3
<1>5. GoodObj(o)
  BY <1>1, <1>3, <1>4 DEF GoodObj
<1>6. Entries(o) = es
  <2>1. Entries(o) = [i \in 1 .. N |-> es[i]]
    BY <1>1, <1>4 DEF Entries
  <2>2. es = [i \in 1 .. N |-> es[i]]
    BY <1>2 DEF N
  <2> QED BY <2>1, <2>2
<1> QED BY <1>5, <1>6 DEF o, es

(* writeGrub2(), of an object with an entry for each label of its order    *)
CanWrite(o) ==
  /\ Len(o.order) \in Nat /\ Len(o.order) <= MaxMenu /\ DOMAIN o.order = 1 .. Len(o.order)
  /\ \A i \in 1 .. Len(o.order) : o.menu[o.order[i]] \in EntryT
  /\ o.default \in Labels \cup {None} /\ o.load \in Loads

LEMMA WrittenTypes ==
  ASSUME NEW o, CanWrite(o)
  PROVE  /\ ConfigT(Written(o)) /\ Written(o).entries = Entries(o) /\ Len(Entries(o)) = Len(o.order)
         /\ DOMAIN Entries(o) = 1 .. Len(o.order)
         /\ Written(o).load = (IF o.order = <<>> THEN "none" ELSE o.load)
         /\ o.default \notin Range(o.order) => Written(o).default = None /\ Written(o).named = o.default
         /\ o.default \in Range(o.order) =>
              /\ Written(o).default \in Nat /\ Written(o).named = None
              /\ Written(o).default + 1 \in 1 .. Len(o.order)
              /\ o.order[Written(o).default + 1] = o.default
<1> DEFINE w == Written(o)
           ls == o.order
           N == Len(ls)
           es == Entries(o)
<1>1. /\ N \in Nat /\ DOMAIN ls = 1 .. N /\ N <= MaxMenu
      /\ Range(ls) = {ls[i] : i \in 1 .. N}
      /\ \A i \in 1 .. N : o.menu[ls[i]] \in EntryT
  BY DEF CanWrite, Range
<1>2. /\ w.entries = es
      /\ w.default = (IF o.default \in Range(ls) THEN IndexOf(o.default, ls) - 1 ELSE None)
      /\ w.named = (IF o.default \in Range(ls) THEN None ELSE o.default)
      /\ w.load = (IF ls = <<>> THEN "none" ELSE o.load)
  BY <1>1 DEF Written, Entries
<1> HIDE DEF w, ls, N
<1>3. es = [i \in 1 .. N |-> o.menu[ls[i]]]
  BY DEF Entries, ls, N
<1>4. es \in Seq(EntryT) /\ Len(es) = N /\ DOMAIN es = 1 .. N
  <2> HIDE DEF es
  <2>1. es \in [1 .. N -> EntryT]
    BY <1>1, <1>3
  <2> QED BY <1>1, <2>1
<1> HIDE DEF es
<1>5. ASSUME o.default \in Range(ls)
      PROVE  /\ w.default \in Nat /\ w.default + 1 \in 1 .. N /\ ls[w.default + 1] = o.default /\ w.named = None
  <2>1. PICK i \in 1 .. N : ls[i] = o.default
    BY <1>1, <1>5
  <2> DEFINE p == IndexOf(ls[i], ls)
  <2>2. p \in 1 .. N /\ ls[p] = ls[i]
    BY <1>1, FirstIs DEF IndexOf, N
  <2>3. w.default = p - 1
    BY <1>2, <1>5, <2>1
  <2> HIDE DEF p
  <2> QED BY <1>1, <1>2, <1>5, <2>1, <2>2, <2>3
<1>6. o.default \notin Range(ls) => w.default = None /\ w.named = o.default
  BY <1>2
<1>7. ConfigT(w)
  <2>1. w.load \in Loads /\ o.default \in Labels \cup {None}
    BY <1>2 DEF CanWrite, Loads
  <2>2. /\ w.default \in Nat \cup {None} /\ w.named \in Labels \cup {None}
        /\ w.default # None => w.named = None
    BY <1>5, <1>6, <2>1
  <2> QED BY <1>1, <1>2, <1>4, <2>1, <2>2 DEF ConfigT, Loads
<1> QED BY <1>2, <1>4, <1>5, <1>6, <1>7 DEF w, es, ls, N

LEMMA CanWriteIt ==
  ASSUME NEW o, TypedObj(o), Range(o.order) \subseteq DOMAIN o.menu
  PROVE  CanWrite(o)
<1>1. /\ Len(o.order) \in Nat /\ DOMAIN o.order = 1 .. Len(o.order)
      /\ Range(o.order) = {o.order[i] : i \in 1 .. Len(o.order)}
      /\ \A l \in DOMAIN o.menu : o.menu[l] \in EntryT
  BY OrderIs
<1>2. \A i \in 1 .. Len(o.order) : o.menu[o.order[i]] \in EntryT
  BY <1>1
<1> QED BY <1>1, <1>2 DEF CanWrite, TypedObj

-----------------------------------------------------------------------------
(* newDefault() *)

(* The labels of backups tell what they are backups of, and are no labels  *)
(* that reading gives.                                                     *)
LEMMA FrontOf ==
  ASSUME NEW S, NEW l \in Seq(S), NEW k \in S
  PROVE  /\ Front(l \o <<k>>) = l /\ Len(l \o <<k>>) = Len(l) + 1
         /\ \A i \in 1 .. Len(l) : (l \o <<k>>)[i] = l[i]
<1> DEFINE c == l \o <<k>>
<1>1. c \in Seq(S) /\ Len(c) = Len(l) + 1 /\ Len(l) \in Nat /\ \A i \in 1 .. Len(l) : c[i] = l[i]
  OBVIOUS
<1> HIDE DEF c
<1>2. Len(c) - 1 = Len(l)
  BY <1>1
<1>3. Front(c) = SubSeq(c, 1, Len(l))
  BY <1>2 DEF Front
<1>4. SubSeq(c, 1, Len(l)) = [i \in 1 .. Len(l) |-> c[i]]
  BY <1>1
<1>5. l = [i \in 1 .. Len(l) |-> l[i]]
  OBVIOUS
<1>6. [i \in 1 .. Len(l) |-> c[i]] = [i \in 1 .. Len(l) |-> l[i]]
  BY <1>1
<1> QED BY <1>1, <1>3, <1>4, <1>5, <1>6 DEF c

LEMMA CopyOf ==
  ASSUME NEW l \in Labels, NEW v
  PROVE  Front(l \o <<v>>) = l /\ l \o <<v>> \notin Labels
<1> DEFINE c == l \o <<v>>
<1>1. ASSUME NEW n \in 1 .. MaxMenu, l = <<"label", n>>
      PROVE  Front(c) = l /\ Len(c) = 3
  <2> DEFINE S == {"label", n, v}
  <2>1. "label" \in S /\ n \in S /\ v \in S
    OBVIOUS
  <2> HIDE DEF S
  <2>2. l \in Seq(S) /\ Len(l) = 2
    BY <1>1, <2>1
  <2>3. Front(l \o <<v>>) = l /\ Len(l \o <<v>>) = Len(l) + 1
    BY <2>1, <2>2, FrontOf
  <2> QED BY <2>2, <2>3
<1>2. ASSUME NEW s \in Known, l = <<s>>
      PROVE  Front(c) = l /\ Len(c) = 2 /\ c[1] # "label"
  <2> DEFINE S == {s, v}
  <2>1. s \in S /\ v \in S
    OBVIOUS
  <2> HIDE DEF S
  <2>2. l \in Seq(S) /\ Len(l) = 1 /\ l[1] = s
    BY <1>2, <2>1
  <2>3. /\ Front(l \o <<v>>) = l /\ Len(l \o <<v>>) = Len(l) + 1
        /\ \A i \in 1 .. Len(l) : (l \o <<v>>)[i] = l[i]
    BY <2>1, <2>2, FrontOf
  <2>4. s # "label"
    BY DEF Known
  <2> QED BY <2>2, <2>3, <2>4
<1> HIDE DEF c
<1>3. ASSUME c \in Labels PROVE (Len(c) = 2 /\ c[1] = "label") \/ Len(c) = 1
  <2>1. CASE \E n \in 1 .. MaxMenu : c = <<"label", n>>
    BY <2>1
  <2>2. CASE \E s \in Known : c = <<s>>
    BY <2>2
  <2> QED BY <1>3, <2>1, <2>2 DEF Labels
<1> QED BY <1>1, <1>2, <1>3 DEF Labels, c

(* What becomes of an entry, and the copy of one.                          *)
WithKernel(e, old, new) == IF e.kernel = old THEN [e EXCEPT !.kernel = new] ELSE e
Copy(e, old)            == [e EXCEPT !.title.added = Append(@, Version[old])]

LEMMA ChangedTypes ==
  ASSUME NEW e \in EntryT, NEW old \in Kernels, NEW new \in Kernels
  PROVE  /\ WithKernel(e, old, new) \in EntryT
         /\ WithKernel(e, old, new).title = e.title /\ WithKernel(e, old, new).clears = e.clears
         /\ WithKernel(e, old, new).kernel = (IF e.kernel = old THEN new ELSE e.kernel)
         /\ Copy(e, old) \in EntryT /\ Copy(e, old).kernel = e.kernel
         /\ Copy(e, old).title.added = Append(e.title.added, Version[old])
         /\ Last(Copy(e, old).title.added) = Version[old] /\ Version[old] \in Range(Copy(e, old).title.added)
<1> DEFINE t == e.title
           a == t.added
           V == {Version[k] : k \in Kernels}
           b == Append(a, Version[old])
           c == Copy(e, old)
<1>1. /\ t \in Title /\ e.kernel \in Kernels /\ e.clears \in BOOLEAN
      /\ e = [title |-> t, kernel |-> e.kernel, clears |-> e.clears]
  BY DEF EntryT
<1>2. a \in Seq(V) /\ t.says \in Known \cup Others /\ t = [says |-> t.says, added |-> a]
  BY <1>1 DEF Title
<1>3. Version[old] \in V
  OBVIOUS
<1>4. b \in Seq(V) /\ Len(b) = Len(a) + 1 /\ b[Len(b)] = Version[old] /\ Len(a) \in Nat
  <2> HIDE DEF V, a
  <2> QED BY <1>2, <1>3
<1>5. c = [title |-> [says |-> t.says, added |-> b], kernel |-> e.kernel, clears |-> e.clears]
  <2> HIDE DEF V
  <2>1. c = [e EXCEPT !.title = [t EXCEPT !.added = b]]
    BY DEF Copy
  <2>2. [t EXCEPT !.added = b] = [says |-> t.says, added |-> b]
    <3> HIDE DEF b
    <3> QED BY <1>2
  <2> HIDE DEF b, t
  <2> QED BY <1>1, <2>1, <2>2
<1>6. c \in EntryT
  <2>1. [says |-> t.says, added |-> b] \in Title
    <3> HIDE DEF b
    <3> QED BY <1>2, <1>4 DEF Title
  <2> HIDE DEF b
  <2> QED BY <1>1, <1>5, <2>1 DEF EntryT
<1>7. c.kernel = e.kernel /\ c.title.added = b
  BY <1>5
<1>8. Last(b) = Version[old] /\ Version[old] \in Range(b)
  <2>1. Len(b) \in DOMAIN b
    <3> HIDE DEF b
    <3> QED BY <1>4
  <2> HIDE DEF b
  <2> QED BY <1>4, <2>1 DEF Last, Range
<1>9. /\ WithKernel(e, old, new) \in EntryT
      /\ WithKernel(e, old, new).title = e.title /\ WithKernel(e, old, new).clears = e.clears
      /\ WithKernel(e, old, new).kernel = (IF e.kernel = old THEN new ELSE e.kernel)
  <2>1. CASE e.kernel = old
    BY <2>1 DEF WithKernel, EntryT
  <2>2. CASE e.kernel # old
    BY <2>2 DEF WithKernel
  <2> QED BY <2>1, <2>2
<1> QED BY <1>6, <1>7, <1>8, <1>9

(* The labels of the entries that boot a kernel. *)
LEMMA UsingIs ==
  ASSUME NEW o, TypedObj(o), DOMAIN o.menu = Range(o.order), NEW k
  PROVE  LET u == Using(o, k) IN
         /\ u \in Seq(Labels) /\ Len(u) \in Nat /\ DOMAIN u = 1 .. Len(u)
         /\ \A n \in 1 .. Len(u) : u[n] \in DOMAIN o.menu /\ u[n] \in Labels /\ o.menu[u[n]].kernel = k
         /\ OnceEach(o.order) /\ (\E l \in DOMAIN o.menu : o.menu[l].kernel = k) => Len(u) > 0
<1> DEFINE u == Using(o, k)
           I == {i \in DOMAIN o.order : o.menu[o.order[i]].kernel = k /\ \A j \in 1 .. i - 1 : o.order[j] # o.order[i]}
<1>1. /\ o.order \in Seq(Labels) /\ Len(o.order) \in Nat /\ DOMAIN o.order = 1 .. Len(o.order)
      /\ Range(o.order) = {o.order[i] : i \in 1 .. Len(o.order)}
      /\ Range(o.order) \subseteq Labels
  BY OrderIs DEF TypedObj
<1>2. I \subseteq DOMAIN o.order /\ \A i \in I : o.menu[o.order[i]].kernel = k
  OBVIOUS
<1>3. u = Those(o.order, I)
  BY DEF Using
<1>4. OnceEach(o.order) /\ (\E l \in DOMAIN o.menu : o.menu[l].kernel = k) => I # {}
  <2> SUFFICES ASSUME OnceEach(o.order), NEW l \in DOMAIN o.menu, o.menu[l].kernel = k PROVE I # {}
    OBVIOUS
  <2>1. PICK i \in 1 .. Len(o.order) : o.order[i] = l
    BY <1>1
  <2>2. \A j \in 1 .. i - 1 : o.order[j] # o.order[i]
    BY <1>1 DEF OnceEach
  <2>3. i \in I
    BY <1>1, <2>1, <2>2
  <2> QED BY <2>3
<1> HIDE DEF I, u
<1>5. /\ u \in Seq(Labels) /\ DOMAIN u = 1 .. Cardinality(I) /\ IsFiniteSet(I) /\ I \subseteq Nat
      /\ \A n \in DOMAIN u : Nth(I, n) \in I /\ u[n] = o.order[Nth(I, n)]
  BY <1>1, <1>2, <1>3, ThoseIs
<1>6. Cardinality(I) \in Nat /\ (I # {} => Cardinality(I) > 0)
  <2>1. Cardinality(I) \in Nat
    BY <1>5, FS_CardinalityType
  <2>2. Cardinality(I) = 0 <=> I = {}
    BY <1>5, FS_EmptySet
  <2> QED BY <2>1, <2>2
<1>7. Len(u) = Cardinality(I)
  BY <1>5, <1>6
<1>8. \A n \in 1 .. Len(u) : u[n] \in DOMAIN o.menu /\ u[n] \in Labels /\ o.menu[u[n]].kernel = k
  <2> SUFFICES ASSUME NEW n \in 1 .. Len(u)
               PROVE  u[n] \in DOMAIN o.menu /\ u[n] \in Labels /\ o.menu[u[n]].kernel = k
    OBVIOUS
  <2>1. Nth(I, n) \in I /\ u[n] = o.order[Nth(I, n)]
    BY <1>5, <1>7
  <2>2. Nth(I, n) \in 1 .. Len(o.order) /\ o.menu[u[n]].kernel = k
    BY <1>1, <1>2, <2>1
  <2>3. u[n] \in Range(o.order)
    BY <1>1, <2>1, <2>2
  <2> QED BY <1>1, <2>2, <2>3
<1> QED BY <1>4, <1>5, <1>6, <1>7, <1>8 DEF u

(* The entries stay where they are, and the copies follow.                 *)
LEMMA ReplacedParts ==
  ASSUME NEW o, TypedObj(o), DOMAIN o.menu = Range(o.order), NEW old, NEW new
  PROVE  LET u  == Using(o, old)
             r  == Replaced(o, old, new)
             N  == Len(o.order)
             M  == Len(u)
         IN /\ N \in Nat /\ M \in Nat /\ Len(r.order) = N + M /\ DOMAIN r.order = 1 .. N + M
            /\ \A n \in 1 .. M : u[n] \in DOMAIN o.menu /\ o.menu[u[n]].kernel = old
            /\ \A i \in 1 .. N : /\ r.order[i] = o.order[i] /\ r.order[i] \in DOMAIN o.menu
                                 /\ r.menu[r.order[i]] = WithKernel(o.menu[o.order[i]], old, new)
            /\ \A n \in 1 .. M : /\ r.order[N + n] \notin Labels
                                 /\ r.menu[r.order[N + n]] = Copy(o.menu[u[n]], old)
            /\ r.default = o.default /\ r.load = o.load
<1> DEFINE v == <<Version[old]>>
           u == Using(o, old)
           copies == {l \o v : l \in Range(u)}
           r == Replaced(o, old, new)
           rs == r.order
           ls == o.order
           N == Len(ls)
           M == Len(u)
           more == [i \in DOMAIN u |-> u[i] \o v]
<1>1. /\ N \in Nat /\ DOMAIN ls = 1 .. N /\ Range(ls) = {ls[i] : i \in 1 .. N}
      /\ Range(ls) \subseteq Labels /\ ls \in Seq(Labels) /\ Fields(o)
  BY OrderIs DEF TypedObj
<1>2. /\ M \in Nat /\ DOMAIN u = 1 .. M
      /\ \A n \in 1 .. M : u[n] \in DOMAIN o.menu /\ u[n] \in Labels /\ o.menu[u[n]].kernel = old
  BY UsingIs
<1> HIDE DEF u, N, ls
<1>3. /\ r.order = ls \o more
      /\ r.menu = [l \in DOMAIN o.menu \cup copies |->
                     IF l \in copies THEN [o.menu[Front(l)] EXCEPT !.title.added = Append(@, Version[old])]
                     ELSE IF o.menu[l].kernel = old THEN [o.menu[l] EXCEPT !.kernel = new]
                     ELSE o.menu[l]]
      /\ r.default = o.default /\ r.load = o.load
  BY <1>1 DEF Replaced, Fields, ls, u
<1>4. copies = {u[n] \o v : n \in 1 .. M}
  <2>1. Range(u) = {u[n] : n \in 1 .. M}
    BY <1>2 DEF Range
  <2> QED BY <2>1
<1> HIDE DEF r, copies, M
<1>5. /\ Len(rs) = N + M /\ DOMAIN rs = 1 .. N + M
      /\ \A i \in 1 .. N : rs[i] = ls[i]
      /\ \A n \in 1 .. M : rs[N + n] = u[n] \o v
  <2> DEFINE R == Range(more)
  <2>1. DOMAIN more = 1 .. M /\ \A n \in 1 .. M : more[n] = u[n] \o v /\ more[n] \in R
    BY <1>2 DEF Range
  <2>2. more = [n \in 1 .. M |-> more[n]]
    BY <1>2
  <2>3. rs = ls \o more
    BY <1>3
  <2> HIDE DEF more, R, rs, v
  <2>4. more \in [1 .. M -> R]
    BY <2>1, <2>2
  <2>5. more \in Seq(R) /\ Len(more) = M
    BY <1>2, <2>4
  <2> DEFINE S == Labels \cup R
  <2>6. ls \in Seq(S) /\ more \in Seq(S)
    BY <1>1, <2>5
  <2> HIDE DEF S
  <2>7. rs \in Seq(S) /\ Len(rs) = Len(ls) + Len(more)
    BY <2>3, <2>6
  <2>8. Len(rs) = N + M
    BY <2>5, <2>7 DEF N
  <2>9. \A i \in 1 .. N : rs[i] = ls[i]
    BY <1>1, <2>3, <2>5, <2>6 DEF N
  <2>10. \A n \in 1 .. M : rs[N + n] = more[n]
    BY <1>1, <1>2, <2>3, <2>5, <2>6 DEF N
  <2> QED BY <2>1, <2>7, <2>8, <2>9, <2>10
<1> HIDE DEF rs, v
<1>6. \A n \in 1 .. M : Front(u[n] \o v) = u[n] /\ u[n] \o v \notin Labels
  BY <1>2, CopyOf DEF v
<1>7. ASSUME NEW i \in 1 .. N
      PROVE  rs[i] \in DOMAIN o.menu /\ r.menu[rs[i]] = WithKernel(o.menu[ls[i]], old, new)
  <2> DEFINE l == ls[i]
  <2>1. rs[i] = l /\ l \in DOMAIN o.menu /\ l \in Labels
    BY <1>1, <1>5 DEF ls
  <2>2. l \notin copies
    BY <1>4, <1>6, <2>1
  <2> HIDE DEF l
  <2>3. r.menu[l] = IF o.menu[l].kernel = old THEN [o.menu[l] EXCEPT !.kernel = new] ELSE o.menu[l]
    BY <1>3, <2>1, <2>2
  <2>4. r.menu[l] = WithKernel(o.menu[l], old, new)
    BY <2>3 DEF WithKernel
  <2> QED BY <2>1, <2>4 DEF l
<1>8. ASSUME NEW n \in 1 .. M
      PROVE  rs[N + n] \notin Labels /\ r.menu[rs[N + n]] = Copy(o.menu[u[n]], old)
  <2> DEFINE c == u[n] \o v
  <2>1. rs[N + n] = c /\ c \in copies /\ Front(c) = u[n] /\ c \notin Labels
    BY <1>4, <1>5, <1>6
  <2> HIDE DEF c
  <2>2. r.menu[c] = [o.menu[Front(c)] EXCEPT !.title.added = Append(@, Version[old])]
    BY <1>3, <2>1
  <2> QED BY <2>1, <2>2 DEF Copy
<1> QED BY <1>1, <1>2, <1>3, <1>5, <1>7, <1>8 DEF r, rs, ls, u, N, M


(* The file newDefault() writes. *)
FileFrom(d, old, new) == Written(Replaced(Parsed(d), old, new))

(* An entry of it is one there was, with the new kernel, or a copy of one. *)
Derives(e, es, old, new) ==
  \E j \in 1 .. Len(es) : e = WithKernel(es[j], old, new) \/ (es[j].kernel = old /\ e = Copy(es[j], old))

LEMMA ReplacedTypes ==
  ASSUME NEW d, ConfigT(d), ~BadDefault(d), NEW old \in Kernels, NEW new \in Kernels, InBounds(Parsed(d), old)
  PROVE  LET r == Replaced(Parsed(d), old, new)
             w == FileFrom(d, old, new)
         IN /\ CanWrite(r) /\ ConfigT(w) /\ w.entries = Entries(r)
            /\ \A i \in 1 .. Len(r.order) : Derives(r.menu[r.order[i]], d.entries, old, new)
            /\ \A e \in Range(w.entries) : Derives(e, d.entries, old, new)
<1> DEFINE o == Parsed(d)
           r == Replaced(o, old, new)
           es == d.entries
           N == Len(o.order)
           u == Using(o, old)
           M == Len(u)
<1>1. /\ TypedObj(o) /\ Len(es) = N /\ N \in Nat /\ DOMAIN o.menu = Range(o.order)
      /\ \A l \in DOMAIN o.menu : \E i \in 1 .. N : o.menu[l] = es[i]
      /\ \A i \in 1 .. N : es[i] \in EntryT
  BY ParsedTypes
<1>2. N + M <= MaxMenu
  BY DEF InBounds
<1>3. /\ M \in Nat /\ Len(r.order) = N + M /\ DOMAIN r.order = 1 .. N + M
      /\ \A n \in 1 .. M : u[n] \in DOMAIN o.menu /\ o.menu[u[n]].kernel = old
      /\ \A i \in 1 .. N : /\ r.order[i] = o.order[i] /\ r.order[i] \in DOMAIN o.menu
                           /\ r.menu[r.order[i]] = WithKernel(o.menu[o.order[i]], old, new)
      /\ \A n \in 1 .. M : r.menu[r.order[N + n]] = Copy(o.menu[u[n]], old)
      /\ r.default = o.default /\ r.load = o.load
  BY <1>1, ReplacedParts
<1> HIDE DEF o, r, es, u, N, M
<1>4. ASSUME NEW i \in 1 .. N + M PROVE Derives(r.menu[r.order[i]], es, old, new)
  <2>1. CASE i \in 1 .. N
    <3>1. PICK j \in 1 .. N : o.menu[o.order[i]] = es[j]
      BY <1>1, <1>3, <2>1
    <3>2. j \in 1 .. Len(es) /\ r.menu[r.order[i]] = WithKernel(es[j], old, new)
      BY <1>1, <1>3, <2>1, <3>1
    <3> QED BY <3>2 DEF Derives
  <2>2. CASE i \notin 1 .. N
    <3>1. i - N \in 1 .. M /\ N + (i - N) = i
      BY <1>1, <1>3, <2>2
    <3>2. PICK n \in 1 .. M : i = N + n
      BY <3>1
    <3>3. u[n] \in DOMAIN o.menu /\ o.menu[u[n]].kernel = old /\ r.menu[r.order[i]] = Copy(o.menu[u[n]], old)
      BY <1>3, <3>2
    <3>4. PICK j \in 1 .. N : o.menu[u[n]] = es[j]
      BY <1>1, <3>3
    <3>5. j \in 1 .. Len(es) /\ es[j].kernel = old /\ r.menu[r.order[i]] = Copy(es[j], old)
      BY <1>1, <3>3, <3>4
    <3> QED BY <3>5 DEF Derives
  <2> QED BY <2>1, <2>2
<1>5. ASSUME NEW e, Derives(e, es, old, new) PROVE e \in EntryT
  <2>1. PICK j \in 1 .. Len(es) : e = WithKernel(es[j], old, new) \/ (es[j].kernel = old /\ e = Copy(es[j], old))
    BY <1>5 DEF Derives
  <2>2. es[j] \in EntryT
    BY <1>1
  <2>3. WithKernel(es[j], old, new) \in EntryT /\ Copy(es[j], old) \in EntryT
    BY <2>2, ChangedTypes
  <2> QED BY <2>1, <2>3
<1>6. CanWrite(r)
  <2>1. o.default \in Labels \cup {None} /\ o.load \in Loads
    BY <1>1 DEF TypedObj
  <2>2. \A i \in 1 .. N + M : r.menu[r.order[i]] \in EntryT
    BY <1>4, <1>5
  <2>3. N + M \in Nat
    BY <1>1, <1>3
  <2> QED BY <1>2, <1>3, <2>1, <2>2, <2>3 DEF CanWrite
<1>7. /\ ConfigT(Written(r)) /\ Written(r).entries = Entries(r)
      /\ DOMAIN Entries(r) = 1 .. Len(r.order)
  BY <1>6, WrittenTypes
<1>8. \A i \in 1 .. N + M : Entries(r)[i] = r.menu[r.order[i]]
  BY <1>3 DEF Entries
<1>9. \A e \in Range(Entries(r)) : Derives(e, es, old, new)
  <2> SUFFICES ASSUME NEW e \in Range(Entries(r)) PROVE Derives(e, es, old, new)
    OBVIOUS
  <2>1. PICK i \in DOMAIN Entries(r) : e = Entries(r)[i]
    BY DEF Range
  <2>2. i \in 1 .. N + M
    BY <1>3, <1>7
  <2> QED BY <1>4, <1>8, <2>1, <2>2
<1> QED BY <1>3, <1>4, <1>6, <1>7, <1>9 DEF FileFrom, o, r, es

(* There is an entry for k that says so. *)
Backed(es, k) == \E i \in DOMAIN es : es[i].kernel = k /\ Version[k] \in Range(es[i].title.added)

(* The default stays where it is, and so do the titles before it and after *)
(* it; the old kernel gets a backup, and the others keep theirs: one more  *)
(* entry for the old kernel is made before the entry loses it.             *)
LEMMA ReplacedApart ==
  ASSUME NEW d, ConfigT(d), ~BadDefault(d), Apart(d.entries), NEW new \in Kernels,
         LET old == DefaultKernel(Parsed(d)) IN old # None /\ old # new /\ InBounds(Parsed(d), old)
  PROVE  LET old == DefaultKernel(Parsed(d))
             w   == FileFrom(d, old, new)
             N   == Len(d.entries)
             K   == Len(w.entries)
         IN /\ old \in Kernels
            /\ N \in Nat /\ K \in Nat /\ N <= K /\ DOMAIN w.entries = 1 .. K
            /\ \A i \in 1 .. N : /\ w.entries[i].title = d.entries[i].title
                                 /\ w.entries[i].clears = d.entries[i].clears
            /\ d.named = None => w.named = None /\ w.default = Place(d)
            /\ w.load = Parsed(d).load
            /\ Backed(w.entries, old)
            /\ \A k : Backed(d.entries, k) => Backed(w.entries, k)
<1> DEFINE o == Parsed(d)
           old == DefaultKernel(o)
           r == Replaced(o, old, new)
           w == FileFrom(d, old, new)
           es == d.entries
           N == Len(o.order)
           u == Using(o, old)
           M == Len(u)
           ws == w.entries
<1>1. /\ TypedObj(o) /\ Len(es) = N /\ N \in Nat /\ DOMAIN o.menu = Range(o.order)
      /\ \A l \in DOMAIN o.menu : \E i \in 1 .. N : o.order[i] = l /\ o.menu[l] = es[i]
      /\ \A i \in 1 .. N : es[i] \in EntryT
      /\ d.named = None => Place(d) + 1 \in 1 .. N /\ Place(d) \in Nat /\ o.default = o.order[Place(d) + 1]
  BY ParsedTypes
<1>2. GoodObj(o) /\ Entries(o) = es
  BY ParsedIs
<1>3. o.default \in DOMAIN o.menu /\ old = o.menu[o.default].kernel
  BY DEF DefaultKernel
<1>4. old \in Kernels
  <2>1. o.menu[o.default] \in EntryT
    BY <1>1, <1>3, OrderIs
  <2> QED BY <1>3, <2>1 DEF EntryT
<1>5. /\ CanWrite(r) /\ ws = Entries(r)
  <2>1. InBounds(Parsed(d), old)
    OBVIOUS
  <2> HIDE DEF old
  <2> QED BY <1>4, <2>1, ReplacedTypes
<1>6. /\ M \in Nat /\ Len(r.order) = N + M /\ DOMAIN r.order = 1 .. N + M
      /\ \A n \in 1 .. M : u[n] \in DOMAIN o.menu /\ o.menu[u[n]].kernel = old
      /\ \A i \in 1 .. N : /\ r.order[i] = o.order[i]
                           /\ r.menu[r.order[i]] = WithKernel(o.menu[o.order[i]], old, new)
      /\ \A n \in 1 .. M : /\ r.order[N + n] \notin Labels
                           /\ r.menu[r.order[N + n]] = Copy(o.menu[u[n]], old)
      /\ r.default = o.default /\ r.load = o.load
  <2>1. TypedObj(o) /\ DOMAIN o.menu = Range(o.order)
    BY <1>1
  <2> HIDE DEF o, old
  <2> QED BY <2>1, ReplacedParts
<1>7. M > 0
  <2>1. OnceEach(o.order) /\ \E l \in DOMAIN o.menu : o.menu[l].kernel = old
    BY <1>2, <1>3 DEF GoodObj
  <2> QED BY <1>1, <2>1, UsingIs
<1>8. /\ w.load = (IF r.order = <<>> THEN "none" ELSE r.load)
      /\ r.default \in Range(r.order) =>
           /\ w.default \in Nat /\ w.named = None
           /\ w.default + 1 \in 1 .. Len(r.order) /\ r.order[w.default + 1] = r.default
      /\ Len(ws) = Len(r.order) /\ DOMAIN ws = 1 .. Len(r.order)
  BY <1>5, WrittenTypes DEF FileFrom
<1>13. o.default \in Labels
  BY <1>1, <1>3, OrderIs
<1>14. OnceEach(o.order) /\ Range(o.order) = {o.order[i] : i \in 1 .. N}
  BY <1>1, <1>2, OrderIs DEF GoodObj
<1>21. \A i \in 1 .. N : Entries(o)[i] = o.menu[o.order[i]]
  BY DEF Entries
<1>22. \A i \in 1 .. N + M : ws[i] = r.menu[r.order[i]]
  BY <1>5, <1>6 DEF Entries
<1>23. DOMAIN es = 1 .. N
  BY <1>1 DEF ConfigT
<1> HIDE DEF o, old, r, w, es, N, u, M, ws
<1>9. Len(ws) = N + M /\ DOMAIN ws = 1 .. N + M /\ Len(ws) \in Nat /\ N <= Len(ws)
  BY <1>1, <1>6, <1>8
<1>10. \A i \in 1 .. N : ws[i] = WithKernel(es[i], old, new) /\ es[i] = o.menu[o.order[i]]
  BY <1>1, <1>2, <1>6, <1>21, <1>22
<1>11. \A i \in 1 .. N : /\ ws[i].title = es[i].title /\ ws[i].clears = es[i].clears
                         /\ ws[i].kernel = (IF es[i].kernel = old THEN new ELSE es[i].kernel)
  <2>1. TAKE i \in 1 .. N
  <2>2. es[i] \in EntryT /\ ws[i] = WithKernel(es[i], old, new)
    BY <1>1, <1>10
  <2> DEFINE e == es[i]
  <2> HIDE DEF e
  <2>3. e \in EntryT /\ ws[i] = WithKernel(e, old, new)
    BY <2>2 DEF e
  <2>4. /\ WithKernel(e, old, new).title = e.title /\ WithKernel(e, old, new).clears = e.clears
        /\ WithKernel(e, old, new).kernel = (IF e.kernel = old THEN new ELSE e.kernel)
    BY <1>4, <2>3, ChangedTypes
  <2>5. /\ ws[i].title = e.title /\ ws[i].clears = e.clears
        /\ ws[i].kernel = (IF e.kernel = old THEN new ELSE e.kernel)
    BY <2>3, <2>4
  <2> QED BY <2>5 DEF e
<1>12. ASSUME NEW n \in 1 .. M
       PROVE  ws[N + n].kernel = old /\ Version[old] \in Range(ws[N + n].title.added)
  <2>1. u[n] \in DOMAIN o.menu /\ o.menu[u[n]].kernel = old
    BY <1>6
  <2>2. o.menu[u[n]] \in EntryT
    BY <1>1, <2>1
  <2>3. ws[N + n] = Copy(o.menu[u[n]], old)
    <3>1. N + n \in 1 .. N + M
      BY <1>1, <1>6
    <3>2. ws[N + n] = r.menu[r.order[N + n]]
      BY <1>22, <3>1
    <3> QED BY <1>6, <3>2
  <2> DEFINE e == o.menu[u[n]]
  <2> HIDE DEF e
  <2>4. e \in EntryT /\ e.kernel = old
    BY <2>1, <2>2 DEF e
  <2>5. Copy(e, old).kernel = e.kernel /\ Version[old] \in Range(Copy(e, old).title.added)
    BY <1>4, <2>4, ChangedTypes
  <2>6. ws[N + n] = Copy(e, old)
    BY <2>3 DEF e
  <2> QED BY <2>4, <2>5, <2>6
<1>15. ASSUME d.named = None PROVE w.named = None /\ w.default = Place(d)
  <2> DEFINE p == Place(d) + 1
             q == w.default + 1
  <2>1. p \in 1 .. N /\ Place(d) \in Nat /\ o.default = o.order[p]
    BY <1>1, <1>15
  <2>2. r.order[p] = r.default /\ p \in DOMAIN r.order
    BY <1>1, <1>6, <2>1
  <2>3. r.default \in Range(r.order)
    BY <2>2 DEF Range
  <2>4. w.default \in Nat /\ w.named = None /\ q \in 1 .. N + M /\ r.order[q] = o.default
    BY <1>6, <1>8, <2>3
  <2> HIDE DEF p, q
  <2>5. q \in 1 .. N
    <3> SUFFICES ASSUME q \notin 1 .. N PROVE FALSE
      OBVIOUS
    <3>1. q - N \in 1 .. M /\ q = N + (q - N)
      BY <1>1, <1>6, <2>4
    <3>2. PICK n \in 1 .. M : q = N + n
      BY <3>1
    <3> QED BY <1>6, <1>13, <2>4, <3>2
  <2>6. q = p
    BY <1>6, <1>14, <2>1, <2>4, <2>5 DEF OnceEach, N
  <2> QED BY <2>1, <2>4, <2>6 DEF p, q
<1>16. w.load = o.load
  <2>1. r.order # <<>>
    BY <1>1, <1>6, <1>7
  <2> QED BY <1>6, <1>8, <2>1
<1>17. Backed(ws, old)
  <2>1. 1 \in 1 .. M /\ N + 1 \in 1 .. N + M
    BY <1>1, <1>6, <1>7
  <2>2. ws[N + 1].kernel = old /\ Version[old] \in Range(ws[N + 1].title.added)
    BY <1>12, <2>1
  <2> QED BY <1>9, <2>1, <2>2 DEF Backed
<1>18. ASSUME NEW k, Backed(es, k) PROVE Backed(ws, k)
  <2>1. PICK i \in 1 .. N : es[i].kernel = k /\ Version[k] \in Range(es[i].title.added)
    BY <1>18, <1>23 DEF Backed
  <2>2. CASE k = old
    BY <1>17, <2>2
  <2>3. CASE k # old
    <3>1. ws[i].kernel = k /\ ws[i].title = es[i].title
      BY <1>11, <2>1, <2>3
    <3>2. i \in DOMAIN ws
      BY <1>1, <1>6, <1>9
    <3> QED BY <2>1, <3>1, <3>2 DEF Backed
  <2> QED BY <2>2, <2>3
<1> QED BY <1>1, <1>4, <1>9, <1>11, <1>15, <1>16, <1>17, <1>18 DEF o, old, w, es, N, ws

-----------------------------------------------------------------------------
(* append(), remove(), setNextBoot() *)

(* append() of an entry under its label: the others stay where they are. *)
Appended(o, l, e) ==
  [o EXCEPT !.menu = [x \in DOMAIN @ \cup {l} |-> IF x = l THEN e ELSE @[x]],
            !.order = Append(@, l)]

LEMMA AppendedIs ==
  ASSUME NEW o, TypedObj(o), NEW a \in Added, a.label \notin DOMAIN o.menu, Len(o.order) < MaxMenu
  PROVE  LET l == a.label
             q == Appended(o, l, a.entry)
             N == Len(o.order)
         IN /\ TypedObj(q) /\ q.load = o.load /\ q.default = o.default /\ q.block = o.block
            /\ N \in Nat /\ Len(q.order) = N + 1
            /\ DOMAIN q.menu = DOMAIN o.menu \cup {l} /\ q.menu[l] = a.entry
            /\ \A x \in DOMAIN o.menu : q.menu[x] = o.menu[x]
            /\ GoodObj(o) => GoodObj(q) /\ \A i \in 1 .. N : Entries(q)[i] = Entries(o)[i]
<1> DEFINE l == a.label
           e == a.entry
           q == Appended(o, l, e)
           ls == o.order
           N == Len(ls)
           qs == q.order
<1>1. /\ N \in Nat /\ DOMAIN ls = 1 .. N /\ Range(ls) = {ls[i] : i \in 1 .. N}
      /\ DOMAIN o.menu \subseteq Range(ls) /\ o.menu \in [DOMAIN o.menu -> EntryT]
      /\ ls \in Seq(Labels) /\ Fields(o)
  BY OrderIs DEF TypedObj
<1>2. /\ e \in EntryT /\ e.title.says \in Known \ Slashed /\ e.title.added = <<>>
      /\ l = <<e.title.says>> /\ l \in Labels /\ l \notin DOMAIN o.menu
  BY BootloaderAssumption DEF Labels
<1>3. N < MaxMenu
  OBVIOUS
<1>20. /\ o.default \in Labels \cup {None} /\ o.load \in Loads /\ o.block \in BOOLEAN
       /\ o.block => o.default # None
  BY DEF TypedObj
<1> HIDE DEF l, e, ls, N
<1>4. /\ qs = Append(ls, l) /\ q.default = o.default /\ q.load = o.load /\ q.block = o.block
      /\ q.menu = [x \in DOMAIN o.menu \cup {l} |-> IF x = l THEN e ELSE o.menu[x]]
      /\ Fields(q)
  <2> DEFINE m == [x \in DOMAIN o.menu \cup {l} |-> IF x = l THEN e ELSE o.menu[x]]
             s == Append(o.order, l)
  <2>1. q = [o EXCEPT !.menu = m, !.order = s]
    BY DEF Appended
  <2>2. Fields(o)
    BY <1>1
  <2> HIDE DEF m, s, q
  <2>3. q.menu = m /\ q.order = s /\ q.default = o.default /\ q.load = o.load /\ q.block = o.block /\ Fields(q)
    <3>1. q = [menu |-> m, order |-> s, default |-> o.default, load |-> o.load, block |-> o.block]
      BY <2>1, <2>2 DEF Fields
    <3> QED BY <3>1 DEF Fields
  <2> QED BY <2>3 DEF m, s, ls
<1> HIDE DEF q
<1>5. /\ qs \in Seq(Labels) /\ Len(qs) = N + 1 /\ DOMAIN qs = 1 .. N + 1
      /\ qs[N + 1] = l /\ \A i \in 1 .. N : qs[i] = ls[i]
  BY <1>1, <1>2, <1>4 DEF N
<1>6. \A i \in 1 .. N + 1 : i \in 1 .. N \/ i = N + 1
  BY <1>1
<1>7. N + 1 \in 1 .. N + 1 /\ N + 1 <= MaxMenu /\ \A i \in 1 .. N : i \in 1 .. N + 1
  BY <1>1, <1>3, BootloaderAssumption
<1>8. Range(qs) = Range(ls) \cup {l}
  <2>1. Range(qs) = {qs[i] : i \in 1 .. N + 1}
    BY <1>5 DEF Range
  <2>2. Range(qs) \subseteq Range(ls) \cup {l}
    BY <1>1, <1>5, <1>6, <2>1
  <2>3. Range(ls) \cup {l} \subseteq Range(qs)
    BY <1>1, <1>5, <1>7, <2>1
  <2> QED BY <2>2, <2>3
<1>9. DOMAIN q.menu = DOMAIN o.menu \cup {l} /\ q.menu[l] = e /\ \A x \in DOMAIN o.menu : q.menu[x] = o.menu[x]
  <2>1. DOMAIN q.menu = DOMAIN o.menu \cup {l} /\ q.menu[l] = e
    BY <1>4
  <2>2. \A x \in DOMAIN o.menu : x # l
    BY <1>2
  <2> QED BY <1>4, <2>1, <2>2
<1>10. q.menu \in [DOMAIN q.menu -> EntryT]
  <2>1. \A x \in DOMAIN q.menu : q.menu[x] \in EntryT
    BY <1>1, <1>2, <1>9
  <2>2. q.menu = [x \in DOMAIN q.menu |-> q.menu[x]]
    BY <1>4
  <2> QED BY <2>1, <2>2
<1>11. TypedObj(q)
  <2>1. DOMAIN q.menu \subseteq Range(qs)
    BY <1>1, <1>8, <1>9
  <2> QED BY <1>4, <1>5, <1>7, <1>10, <1>20, <2>1 DEF TypedObj
<1>12. ASSUME GoodObj(o) PROVE GoodObj(q) /\ \A i \in 1 .. N : Entries(q)[i] = Entries(o)[i]
  <2>1. /\ OnceEach(ls) /\ DOMAIN o.menu = Range(ls)
        /\ \A i \in 1 .. N : GoodLabel(ls[i], o.menu[ls[i]].title)
    BY <1>12 DEF GoodObj, ls, N
  <2>2. \A i \in 1 .. N : ls[i] \in DOMAIN o.menu /\ ls[i] # l
    BY <1>1, <1>2, <2>1
  <2>3. \A i \in 1 .. N : q.menu[qs[i]] = o.menu[ls[i]]
    BY <1>5, <1>9, <2>2
  <2>4. OnceEach(qs)
    <3> SUFFICES ASSUME NEW i \in 1 .. N + 1, NEW j \in 1 .. N + 1, qs[i] = qs[j] PROVE i = j
      BY <1>5 DEF OnceEach
    <3>1. CASE i \in 1 .. N /\ j \in 1 .. N
      BY <1>1, <1>5, <2>1, <3>1 DEF OnceEach, N
    <3> QED BY <1>5, <1>6, <2>2, <3>1
  <2>5. GoodLabel(l, e.title)
    BY <1>2, BootloaderAssumption DEF Numbered, GoodLabel
  <2>6. \A i \in 1 .. N + 1 : GoodLabel(qs[i], q.menu[qs[i]].title)
    BY <1>5, <1>6, <1>9, <2>1, <2>3, <2>5
  <2>7. GoodObj(q)
    BY <1>5, <1>8, <1>9, <1>11, <2>1, <2>4, <2>6 DEF GoodObj
  <2>8. /\ \A i \in 1 .. N + 1 : Entries(q)[i] = q.menu[qs[i]]
        /\ \A i \in 1 .. N : Entries(o)[i] = o.menu[ls[i]]
    BY <1>5 DEF Entries, ls, N
  <2> QED BY <1>7, <2>3, <2>7, <2>8
<1> QED BY <1>1, <1>4, <1>5, <1>9, <1>11, <1>12 DEF q, l, e, ls, N

(* remove(): the entries behind move up. *)
Removed(o, l) ==
  [o EXCEPT !.menu = [x \in DOMAIN @ \ {l} |-> @[x]],
            !.order = RemoveFirst(@, l)]

LEMMA Joined ==
  ASSUME NEW S, NEW x \in Seq(S), NEW y \in Seq(S)
  PROVE  x \o y \in Seq(S) /\ Len(x \o y) = Len(x) + Len(y)
OBVIOUS

(* A list without one x. *)
Without(r, s, x, S) ==
  \E p \in 1 .. Len(s) :
    /\ s[p] = x /\ r \in Seq(S) /\ Len(r) = Len(s) - 1
    /\ \A i \in 1 .. Len(s) - 1 : r[i] = s[IF i < p THEN i ELSE i + 1]

LEMMA RemoveFirstIs ==
  ASSUME NEW S, NEW s \in Seq(S), NEW i0 \in 1 .. Len(s), NEW x, s[i0] = x
  PROVE  Without(RemoveFirst(s, x), s, x, S)
<1>1. Len(s) \in Nat
  OBVIOUS
<1>2. i0 \in 1 .. Len(s) /\ s[i0] = x
  OBVIOUS
<1> DEFINE p == SelectInSeq(s, LAMBDA v : v = s[i0])
<1>3. p \in 1 .. Len(s) /\ s[p] = x
  BY <1>1, <1>2, FirstIs
<1>4. RemoveFirst(s, s[i0]) = RemoveAt(s, p)
  <2>1. p > 0
    BY <1>1, <1>3
  <2> QED BY <2>1 DEF RemoveFirst
<1> HIDE DEF p
<1> DEFINE a == SubSeq(s, 1, p - 1)
           b == SubSeq(s, p + 1, Len(s))
<1>5. /\ a \in Seq(S) /\ Len(a) = p - 1 /\ \A i \in 1 .. p - 1 : a[i] = s[i]
  BY <1>1, <1>3
<1>6. b \in Seq(S) /\ Len(b) = Len(s) - p /\ \A i \in 1 .. Len(s) - p : b[i] = s[p + i]
  BY <1>1, <1>3
<1>7. RemoveAt(s, p) = a \o b
  BY DEF RemoveAt
<1> HIDE DEF a, b
<1>8. a \o b \in Seq(S) /\ Len(a \o b) = Len(s) - 1
  <2>1. a \o b \in Seq(S) /\ Len(a \o b) = Len(a) + Len(b)
    BY <1>5, <1>6, Joined
  <2>2. (p - 1) + (Len(s) - p) = Len(s) - 1
    BY <1>1, <1>3
  <2> QED BY <1>5, <1>6, <2>1, <2>2
<1>9. ASSUME NEW i \in 1 .. Len(s) - 1 PROVE (a \o b)[i] = s[IF i < p THEN i ELSE i + 1]
  <2>1. CASE i < p
    BY <1>1, <1>3, <1>5, <1>6, <2>1
  <2>2. CASE ~(i < p)
    <3>1. (a \o b)[i] = b[i - (p - 1)]
      BY <1>1, <1>3, <1>5, <1>6, <2>2
    <3>2. i - (p - 1) \in 1 .. Len(s) - p /\ p + (i - (p - 1)) = i + 1
      BY <1>1, <1>3, <2>2
    <3>3. b[i - (p - 1)] = s[i + 1]
      BY <1>6, <3>2
    <3> QED BY <2>2, <3>1, <3>3
  <2> QED BY <2>1, <2>2
<1>10. RemoveFirst(s, x) = a \o b
  BY <1>2, <1>4, <1>7
<1> QED BY <1>3, <1>8, <1>9, <1>10 DEF Without

LEMMA RemovedIs ==
  ASSUME NEW o, TypedObj(o), NEW l \in DOMAIN o.menu
  PROVE  LET q == Removed(o, l) IN
         /\ TypedObj(q) /\ q.load = o.load /\ q.default = o.default /\ q.block = o.block
         /\ DOMAIN q.menu = DOMAIN o.menu \ {l}
         /\ \A x \in DOMAIN q.menu : q.menu[x] = o.menu[x]
         /\ GoodObj(o) => /\ GoodObj(q)
                          /\ \A k : k # o.menu[l].kernel /\ Backed(Entries(o), k) => Backed(Entries(q), k)
<1> DEFINE q == Removed(o, l)
           ls == o.order
           N == Len(ls)
           qs == q.order
<1>1. /\ N \in Nat /\ DOMAIN ls = 1 .. N /\ Range(ls) = {ls[i] : i \in 1 .. N}
      /\ DOMAIN o.menu \subseteq Range(ls) /\ o.menu \in [DOMAIN o.menu -> EntryT]
      /\ ls \in Seq(Labels) /\ Fields(o) /\ N <= MaxMenu
  BY OrderIs DEF TypedObj
<1>20. /\ o.default \in Labels \cup {None} /\ o.load \in Loads /\ o.block \in BOOLEAN
       /\ o.block => o.default # None
  BY DEF TypedObj
<1> HIDE DEF ls, N
<1>2. /\ qs = RemoveFirst(ls, l) /\ q.default = o.default /\ q.load = o.load /\ q.block = o.block
      /\ q.menu = [x \in DOMAIN o.menu \ {l} |-> o.menu[x]]
      /\ Fields(q)
  <2> DEFINE m == [x \in DOMAIN o.menu \ {l} |-> o.menu[x]]
             s == RemoveFirst(o.order, l)
  <2>1. q = [o EXCEPT !.menu = m, !.order = s]
    BY DEF Removed
  <2>2. Fields(o)
    BY <1>1
  <2> HIDE DEF m, s, q
  <2>3. q.menu = m /\ q.order = s /\ q.default = o.default /\ q.load = o.load /\ q.block = o.block /\ Fields(q)
    <3>1. q = [menu |-> m, order |-> s, default |-> o.default, load |-> o.load, block |-> o.block]
      BY <2>1, <2>2 DEF Fields
    <3> QED BY <3>1 DEF Fields
  <2> QED BY <2>3 DEF m, s, ls
<1> HIDE DEF q
<1>3. PICK p \in 1 .. N :
        /\ ls[p] = l /\ qs \in Seq(Labels) /\ Len(qs) = N - 1
        /\ \A i \in 1 .. N - 1 : qs[i] = ls[IF i < p THEN i ELSE i + 1]
  <2>1. PICK j \in 1 .. Len(ls) : ls[j] = l
    BY <1>1 DEF N
  <2>2. Without(RemoveFirst(ls, l), ls, l, Labels)
    BY <1>1, <2>1, RemoveFirstIs
  <2> HIDE DEF qs
  <2> QED BY <1>2, <2>2 DEF Without, N
<1> DEFINE at(i) == IF i < p THEN i ELSE i + 1
<1>4. qs \in Seq(Labels) /\ Len(qs) = N - 1 /\ DOMAIN qs = 1 .. N - 1 /\ \A i \in 1 .. N - 1 : qs[i] = ls[at(i)]
  BY <1>3
<1>5. N \in Nat /\ p \in 1 .. N
  BY <1>1, <1>3
<1>6. \A i \in 1 .. N - 1 : at(i) \in 1 .. N /\ at(i) # p
  BY <1>5
<1>7. \A i, j \in 1 .. N - 1 : at(i) = at(j) => i = j
  BY <1>5
<1>8. \A y \in 1 .. N : y # p => \E i \in 1 .. N - 1 : at(i) = y
  <2> SUFFICES ASSUME NEW y \in 1 .. N, y # p PROVE \E i \in 1 .. N - 1 : at(i) = y
    OBVIOUS
  <2>1. CASE y < p
    <3>1. y \in 1 .. N - 1 /\ at(y) = y
      BY <1>5, <2>1
    <3> QED BY <3>1
  <2>2. CASE ~(y < p)
    <3>1. y - 1 \in 1 .. N - 1 /\ at(y - 1) = y
      BY <1>5, <2>2
    <3> QED BY <3>1
  <2> QED BY <2>1, <2>2
<1> HIDE DEF at
<1>9. Range(qs) = {qs[i] : i \in 1 .. N - 1}
  BY <1>4 DEF Range
<1>10. ASSUME NEW x \in Range(ls), x # l PROVE x \in Range(qs)
  <2>1. PICK y \in 1 .. N : x = ls[y]
    BY <1>1, <1>10
  <2>2. PICK i \in 1 .. N - 1 : at(i) = y
    BY <1>3, <1>8, <1>10, <2>1
  <2> QED BY <1>4, <1>9, <2>1, <2>2
<1>11. DOMAIN q.menu = DOMAIN o.menu \ {l} /\ \A x \in DOMAIN q.menu : q.menu[x] = o.menu[x]
  BY <1>2
<1>12. q.menu \in [DOMAIN q.menu -> EntryT]
  <2>1. \A x \in DOMAIN q.menu : q.menu[x] \in EntryT
    BY <1>1, <1>11
  <2>2. q.menu = [x \in DOMAIN q.menu |-> q.menu[x]]
    BY <1>2
  <2> QED BY <2>1, <2>2
<1>13. TypedObj(q)
  <2>1. DOMAIN q.menu \subseteq Range(qs)
    BY <1>1, <1>10, <1>11
  <2>2. N - 1 <= MaxMenu
    BY <1>1, BootloaderAssumption
  <2> QED BY <1>2, <1>4, <1>12, <1>20, <2>1, <2>2 DEF TypedObj
<1>14. ASSUME GoodObj(o)
       PROVE  /\ GoodObj(q)
              /\ \A k : k # o.menu[l].kernel /\ Backed(Entries(o), k) => Backed(Entries(q), k)
  <2>1. /\ OnceEach(ls) /\ DOMAIN o.menu = Range(ls)
        /\ \A i \in 1 .. N : GoodLabel(ls[i], o.menu[ls[i]].title)
    BY <1>14 DEF GoodObj, ls, N
  <2>2. \A i \in 1 .. N - 1 : ls[at(i)] \in DOMAIN o.menu /\ ls[at(i)] # l
    BY <1>1, <1>3, <1>6, <2>1 DEF OnceEach, N
  <2>3. \A i \in 1 .. N - 1 : qs[i] \in DOMAIN q.menu /\ q.menu[qs[i]] = o.menu[ls[at(i)]]
    BY <1>4, <1>11, <2>2
  <2>4. OnceEach(qs)
    <3> SUFFICES ASSUME NEW i \in 1 .. N - 1, NEW j \in 1 .. N - 1, qs[i] = qs[j] PROVE i = j
      BY <1>4 DEF OnceEach
    <3>1. at(i) = at(j)
      BY <1>4, <1>6, <2>1 DEF OnceEach, N
    <3> QED BY <1>7, <3>1
  <2>5. \A i \in 1 .. N - 1 : GoodLabel(qs[i], q.menu[qs[i]].title)
    BY <1>4, <1>6, <2>1, <2>3
  <2>6. DOMAIN q.menu = Range(qs)
    BY <1>9, <1>10, <1>11, <2>1, <2>3
  <2>7. GoodObj(q)
    BY <1>4, <1>13, <2>4, <2>5, <2>6 DEF GoodObj
  <2>8. Entries(q) = [i \in 1 .. N - 1 |-> q.menu[qs[i]]] /\ Entries(o) = [i \in 1 .. N |-> o.menu[ls[i]]]
    BY <1>4 DEF Entries, ls, N
  <2>9. ASSUME NEW k, k # o.menu[l].kernel, Backed(Entries(o), k) PROVE Backed(Entries(q), k)
    <3>1. PICK y \in 1 .. N : o.menu[ls[y]].kernel = k /\ Version[k] \in Range(o.menu[ls[y]].title.added)
      BY <2>8, <2>9 DEF Backed
    <3>2. y # p
      BY <1>3, <2>9, <3>1
    <3>3. PICK i \in 1 .. N - 1 : at(i) = y
      BY <1>8, <3>2
    <3>4. q.menu[qs[i]] = o.menu[ls[y]]
      BY <2>3, <3>3
    <3> QED BY <2>8, <3>1, <3>4 DEF Backed
  <2> QED BY <2>7, <2>9
<1> QED BY <1>2, <1>11, <1>13, <1>14 DEF q

(* setNextBoot(): the entry will clear the variable. *)
Clearing(o, l) == [o EXCEPT !.menu[l].clears = TRUE]

LEMMA ClearingIs ==
  ASSUME NEW o, TypedObj(o), NEW l \in DOMAIN o.menu
  PROVE  LET q == Clearing(o, l)
             p == IndexOf(l, o.order)
         IN /\ TypedObj(q) /\ q.order = o.order /\ q.default = o.default /\ q.load = o.load /\ q.block = o.block
            /\ DOMAIN q.menu = DOMAIN o.menu
            /\ \A x \in DOMAIN o.menu :
                 /\ q.menu[x].title = o.menu[x].title /\ q.menu[x].kernel = o.menu[x].kernel
                 /\ o.menu[x].clears => q.menu[x].clears
            /\ p \in 1 .. Len(o.order) /\ o.order[p] = l /\ q.menu[l].clears
            /\ o.menu[l].title \in Title
            /\ GoodObj(o) => GoodObj(q)
<1> DEFINE q == Clearing(o, l)
           p == IndexOf(l, o.order)
           ls == o.order
           N == Len(ls)
<1>1. /\ N \in Nat /\ DOMAIN ls = 1 .. N /\ Range(ls) = {ls[i] : i \in 1 .. N}
      /\ DOMAIN o.menu \subseteq Range(ls) /\ o.menu \in [DOMAIN o.menu -> EntryT]
      /\ ls \in Seq(Labels) /\ Fields(o) /\ N <= MaxMenu
  BY OrderIs DEF TypedObj
<1>20. /\ o.default \in Labels \cup {None} /\ o.load \in Loads /\ o.block \in BOOLEAN
       /\ o.block => o.default # None
  BY DEF TypedObj
<1> HIDE DEF ls, N, p
<1>2. /\ q.order = ls /\ q.default = o.default /\ q.load = o.load /\ q.block = o.block
      /\ q.menu = [o.menu EXCEPT ![l].clears = TRUE] /\ Fields(q)
  <2> DEFINE m == [o.menu EXCEPT ![l].clears = TRUE]
             s == o.order
  <2>1. Fields(o)
    BY <1>1
  <2>2. q = [o EXCEPT !.menu = m, !.order = s]
    <3>1. q = [o EXCEPT !.menu = m]
      BY DEF Clearing
    <3> HIDE DEF m, q
    <3> QED BY <2>1, <3>1 DEF Fields
  <2> HIDE DEF m, s, q
  <2>3. q.menu = m /\ q.order = s /\ q.default = o.default /\ q.load = o.load /\ q.block = o.block /\ Fields(q)
    <3>1. q = [menu |-> m, order |-> s, default |-> o.default, load |-> o.load, block |-> o.block]
      BY <2>1, <2>2 DEF Fields
    <3> QED BY <3>1 DEF Fields
  <2> QED BY <2>3 DEF m, s, ls
<1> HIDE DEF q
<1>3. ASSUME NEW x \in DOMAIN o.menu
      PROVE  /\ q.menu[x] \in EntryT /\ q.menu[x].title = o.menu[x].title /\ q.menu[x].kernel = o.menu[x].kernel
             /\ o.menu[x].clears => q.menu[x].clears
             /\ x = l => q.menu[x].clears
  <2> DEFINE e == o.menu[x]
  <2>1. e \in EntryT
    BY <1>1
  <2>2. q.menu[x] = IF x = l THEN [e EXCEPT !.clears = TRUE] ELSE e
    BY <1>2
  <2> HIDE DEF e
  <2> QED BY <2>1, <2>2 DEF EntryT, e
<1>4. DOMAIN q.menu = DOMAIN o.menu
  BY <1>2
<1>5. q.menu \in [DOMAIN q.menu -> EntryT]
  <2>1. q.menu = [x \in DOMAIN q.menu |-> q.menu[x]]
    BY <1>2
  <2> QED BY <1>3, <1>4, <2>1
<1>6. TypedObj(q)
  BY <1>1, <1>2, <1>4, <1>5, <1>20 DEF TypedObj, N
<1>7. ASSUME GoodObj(o) PROVE GoodObj(q)
  <2>1. /\ OnceEach(ls) /\ DOMAIN o.menu = Range(ls)
        /\ \A i \in 1 .. N : GoodLabel(ls[i], o.menu[ls[i]].title)
    BY <1>7 DEF GoodObj, ls, N
  <2>2. \A i \in 1 .. N : GoodLabel(ls[i], q.menu[ls[i]].title)
    BY <1>1, <1>3, <2>1
  <2> QED BY <1>2, <1>4, <1>6, <2>1, <2>2 DEF GoodObj, N
<1>8. PICK i \in 1 .. N : ls[i] = l
  BY <1>1
<1>9. p \in 1 .. N /\ ls[p] = l
  <2>1. IndexOf(ls[i], ls) \in 1 .. N /\ ls[IndexOf(ls[i], ls)] = ls[i]
    BY <1>1, FirstIs DEF IndexOf, N
  <2> QED BY <1>8, <2>1 DEF p, ls
<1>10. o.menu[l].title \in Title
  BY OrderIs
<1> QED BY <1>2, <1>3, <1>4, <1>6, <1>7, <1>9, <1>10 DEF q, p, ls, N

-----------------------------------------------------------------------------
(* The inductive invariant *)

(* What newDefault() is about to make grub.cfg. *)
Replaceable(d, old, new) == old # None /\ old # new /\ InBounds(Parsed(d), old)

NewFile(w) ==
  \E new \in Kernels :
    LET old == DefaultKernel(Parsed(disk)) IN Replaceable(disk, old, new) /\ w = FileFrom(disk, old, new)

Files ==
  /\ ConfigT(disk)
  /\ pc \in {"idle", "rename", "default"} /\ (pc = "idle" => tmp = None)
  /\ obj # None => TypedObj(obj)
  /\ pc = "rename" => obj # None /\ Range(obj.order) \subseteq DOMAIN obj.menu /\ tmp = Written(obj)
  /\ pc = "default" => obj = None /\ ~BadDefault(disk) /\ NewFile(tmp)

(* Titles tell which kernel an entry boots, in the file and in the object. *)
Told ==
  ~mixed => /\ \A e \in Range(disk.entries) : Tells(e)
            /\ obj # None => \A l \in DOMAIN obj.menu : Tells(obj.menu[l])

(* grub will boot the entry with title t from this menu, and only once. *)
Will(es, load, v, t) ==
  load = "override" /\ v \in Nat /\ v + 1 \in 1 .. Len(es) /\ es[v + 1].title = t /\ es[v + 1].clears

(* Before setNextBoot() is committed the object has what the file will.    *)
Override ==
  /\ armed => wanted # None /\ Will(disk.entries, disk.load, env, wanted)
  /\ obj = None /\ wanted # None => armed
  /\ obj # None /\ wanted # None => Will(Entries(obj), obj.load, env, wanted)

Backups ==
  \A k \in past : Backed(disk.entries, k) /\ (obj # None => Backed(Entries(obj), k))

(* The default of an object that was read is that of the file, or has gone *)
(* from the object; what is appended under its label is the same again.    *)
DefaultTitle(d) == d.entries[Place(d) + 1].title

Same(o, d) ==
  o.block /\ d.named = None =>
    /\ ~BadDefault(d) /\ GoodLabel(o.default, DefaultTitle(d))
    /\ o.default \in DOMAIN o.menu => o.menu[o.default].title = DefaultTitle(d)

DefaultSame == obj # None => Same(obj, disk)

(* What holds while entries have labels of their own.                      *)
Unique ==
  ~twins => /\ Apart(disk.entries) /\ (obj # None => GoodObj(obj))
            /\ Override /\ Backups /\ DefaultSame

Small ==
  /\ env \in Nat \cup {None} /\ raised \in {"none", "IndexError", "KeyError", "RuntimeError"}
  /\ wanted \in Title \cup {None} /\ armed \in BOOLEAN /\ past \subseteq Kernels
  /\ twins \in BOOLEAN /\ mixed \in BOOLEAN

MenuInv == Files /\ Told /\ Unique /\ Small

LEMMA MenuInitInv == MenuInit => MenuInv
<1> SUFFICES ASSUME MenuInit PROVE MenuInv
  OBVIOUS
<1>1. /\ disk \in Disks /\ env = None /\ tmp = None /\ obj = None /\ pc = "idle" /\ raised = "none"
      /\ wanted = None /\ armed = FALSE /\ past = {}
      /\ twins = ~Apart(disk.entries) /\ mixed = \E e \in Range(disk.entries) : ~Tells(e)
  BY DEF MenuInit
<1>2. Files
  BY <1>1, BootloaderAssumption DEF Files
<1>3. Told
  BY <1>1 DEF Told
<1>4. Override /\ Backups /\ DefaultSame
  BY <1>1 DEF Override, Backups, DefaultSame
<1>5. Unique
  BY <1>1, <1>4 DEF Unique
<1>6. Small
  <2>1. Apart(disk.entries) \in BOOLEAN
    BY DEF Apart, IsInjective
  <2> QED BY <1>1, <2>1 DEF Small
<1> QED BY <1>2, <1>3, <1>5, <1>6 DEF MenuInv

LEMMA ReadInv == MenuInv /\ Read => MenuInv'
<1> SUFFICES ASSUME MenuInv, Read PROVE MenuInv'
  OBVIOUS
<1>1. /\ pc = "idle" /\ obj = None /\ UNCHANGED <<disk, env, tmp, pc, armed, past, twins, mixed>>
      /\ \/ ~BadDefault(disk) /\ obj' = Parsed(disk) /\ raised' = "none"
         \/ obj' = None /\ raised' = "IndexError"
      /\ wanted' = IF armed THEN wanted ELSE None
      /\ ConfigT(disk)
  BY DEF Read, file, told, MenuInv, Files
<1>2. Small'
  BY <1>1 DEF MenuInv, Small
<1>3. CASE obj' = None
  <2>1. Files' /\ Told'
    BY <1>1, <1>3 DEF MenuInv, Files, Told
  <2>2. Unique'
    BY <1>1, <1>3 DEF MenuInv, Unique, Override, Backups, DefaultSame
  <2> QED BY <1>2, <2>1, <2>2 DEF MenuInv
<1>4. CASE ~BadDefault(disk) /\ obj' = Parsed(disk)
  <2> DEFINE o == Parsed(disk)
             d == disk
             N == Len(d.entries)
  <2>1. /\ TypedObj(o) /\ Len(o.order) = N /\ DOMAIN o.menu = Range(o.order)
        /\ \A l \in DOMAIN o.menu : \E i \in 1 .. N : o.menu[l] = d.entries[i]
        /\ o.load = (IF d.entries = <<>> THEN "none" ELSE IF d.load = "none" THEN "override" ELSE d.load)
        /\ d.named = None => Place(d) + 1 \in 1 .. N /\ o.default = o.order[Place(d) + 1]
    BY <1>1, <1>4, ParsedTypes
  <2>2. DOMAIN d.entries = 1 .. N /\ N \in Nat
    BY <1>1 DEF ConfigT
  <2>3. obj' = o /\ obj' # None
    BY <1>4, <2>1, NoneIsNoObject
  <2>8. Apart(d.entries) => GoodObj(o) /\ Entries(o) = d.entries
    BY <1>1, <1>4, ParsedIs
  <2> HIDE DEF o
  <2>4. Files'
    BY <1>1, <2>1, <2>3 DEF MenuInv, Files
  <2>5. Told'
    <3> SUFFICES ASSUME ~mixed, NEW l \in DOMAIN o.menu PROVE Tells(o.menu[l])
      BY <1>1, <2>3 DEF MenuInv, Told
    <3>1. PICK i \in 1 .. N : o.menu[l] = d.entries[i]
      BY <2>1
    <3>2. d.entries[i] \in Range(d.entries)
      BY <2>2 DEF Range
    <3> QED BY <3>1, <3>2 DEF MenuInv, Told
  <2>6. Unique'
    <3> SUFFICES ASSUME ~twins PROVE (Apart(disk.entries) /\ (obj # None => GoodObj(obj)) /\ Override /\ Backups /\ DefaultSame)'
      BY <1>1 DEF Unique
    <3>1. Apart(d.entries) /\ Override /\ Backups
      BY DEF MenuInv, Unique
    <3>2. GoodObj(o) /\ Entries(o) = d.entries
      BY <2>8, <3>1
    <3>3. Override'
      <4>1. ASSUME wanted' # None PROVE Will(Entries(o), o.load, env', wanted')
        <5>1. Will(d.entries, d.load, env, wanted) /\ wanted' = wanted
          BY <1>1, <3>1, <4>1 DEF Override
        <5>2. d.entries # <<>> /\ d.load = "override"
          BY <5>1 DEF Will
        <5>3. o.load = "override"
          BY <2>1, <5>2
        <5> QED BY <1>1, <3>2, <5>1, <5>3 DEF Will
      <4> QED BY <1>1, <2>3, <3>1, <4>1 DEF Override
    <3>4. Backups'
      BY <1>1, <2>3, <3>1, <3>2 DEF Backups
    <3>5. Same(o, d)
      <4> SUFFICES ASSUME d.named = None
                   PROVE  /\ GoodLabel(o.default, DefaultTitle(d))
                          /\ o.default \in DOMAIN o.menu => o.menu[o.default].title = DefaultTitle(d)
        BY <1>4 DEF Same
      <4> DEFINE i == Place(d) + 1
      <4>1. i \in 1 .. N /\ o.default = o.order[i]
        BY <2>1
      <4>2. o.menu[o.order[i]] = d.entries[i]
        <5>1. Entries(o)[i] = o.menu[o.order[i]]
          BY <2>1, <4>1 DEF Entries
        <5> QED BY <3>2, <5>1
      <4>3. GoodLabel(o.order[i], o.menu[o.order[i]].title)
        BY <2>1, <3>2, <4>1 DEF GoodObj
      <4> QED BY <4>1, <4>2, <4>3 DEF DefaultTitle
    <3>6. DefaultSame'
      BY <1>1, <2>3, <3>5 DEF DefaultSame
    <3> QED BY <1>1, <2>3, <3>1, <3>2, <3>3, <3>4, <3>6
  <2> QED BY <1>2, <2>4, <2>5, <2>6 DEF MenuInv
<1> QED BY <1>1, <1>3, <1>4

LEMMA NewInv == MenuInv /\ New => MenuInv'
<1> SUFFICES ASSUME MenuInv, New PROVE MenuInv'
  OBVIOUS
<1> DEFINE o == [menu |-> <<>>, order |-> <<>>, default |-> None, load |-> "none", block |-> FALSE]
<1>1. /\ obj' = o /\ UNCHANGED <<disk, env, tmp, pc, raised, twins, mixed>> /\ pc = "idle"
      /\ wanted' = None /\ armed' = FALSE /\ past' = {}
  BY DEF New, file
<1>2. o.menu = <<>> /\ o.order = <<>> /\ o.default = None /\ o.load = "none" /\ o.block = FALSE /\ Fields(o)
  BY DEF Fields
<1> HIDE DEF o
<1>3. DOMAIN o.menu = {} /\ DOMAIN o.order = {} /\ Len(o.order) = 0 /\ o.order \in Seq(Labels)
  BY <1>2
<1>4. Range(o.order) = {}
  BY <1>3 DEF Range
<1>5. TypedObj(o)
  <2>1. o.menu \in [{} -> EntryT]
    BY <1>2
  <2>2. 0 <= MaxMenu
    BY BootloaderAssumption
  <2> QED BY <1>2, <1>3, <1>4, <2>1, <2>2 DEF TypedObj, Loads
<1>6. GoodObj(o)
  <2>1. OnceEach(o.order) /\ \A i \in 1 .. Len(o.order) : FALSE
    BY <1>3 DEF OnceEach
  <2> QED BY <1>3, <1>4, <1>5, <2>1 DEF GoodObj
<1>7. Files'
  BY <1>1, <1>5 DEF MenuInv, Files
<1>8. Told'
  BY <1>1, <1>3 DEF MenuInv, Told
<1>9. Same(o, disk)
  BY <1>2 DEF Same
<1>10. Override' /\ Backups' /\ DefaultSame'
  BY <1>1, <1>9 DEF Override, Backups, DefaultSame
<1>11. Unique'
  BY <1>1, <1>6, <1>10 DEF MenuInv, Unique
<1>12. Small'
  BY <1>1 DEF MenuInv, Small
<1> QED BY <1>7, <1>8, <1>11, <1>12 DEF MenuInv

(* What is appended under the label of the default has its title.          *)
LEMMA AppendedSame ==
  ASSUME NEW o, TypedObj(o), NEW d, ConfigT(d), Same(o, d), NEW a \in Added, a.label \notin DOMAIN o.menu,
         Len(o.order) < MaxMenu
  PROVE  Same(Appended(o, a.label, a.entry), d)
<1> DEFINE l == a.label
           e == a.entry
           q == Appended(o, l, e)
           t == DefaultTitle(d)
<1>1. /\ q.default = o.default /\ q.block = o.block
      /\ DOMAIN q.menu = DOMAIN o.menu \cup {l} /\ q.menu[l] = e /\ \A x \in DOMAIN o.menu : q.menu[x] = o.menu[x]
  BY AppendedIs
<1>2. /\ e.title.says \in Known \ Slashed /\ e.title.added = <<>> /\ e.title \in Title /\ l = <<e.title.says>>
  BY BootloaderAssumption DEF EntryT
<1> HIDE DEF q, l, e
<1> SUFFICES ASSUME o.block, d.named = None
             PROVE  /\ ~BadDefault(d) /\ GoodLabel(q.default, t)
                    /\ q.default \in DOMAIN q.menu => q.menu[q.default].title = t
  BY <1>1 DEF Same, q, l, e
<1>3. /\ ~BadDefault(d) /\ GoodLabel(o.default, t)
      /\ o.default \in DOMAIN o.menu => o.menu[o.default].title = t
  BY DEF Same
<1>4. t \in Title
  <2> DEFINE es == d.entries
             i == Place(d) + 1
  <2>1. es \in Seq(EntryT) /\ Place(d) \in Nat
    BY DEF ConfigT, Place
  <2>2. i \in 1 .. Len(es)
    BY <1>3, <2>1 DEF BadDefault
  <2> HIDE DEF es, i
  <2>3. es[i] \in EntryT
    BY <2>1, <2>2
  <2> QED BY <2>3 DEF EntryT, DefaultTitle, es, i
<1> HIDE DEF t
<1>5. ASSUME o.default = l PROVE e.title = t
  <2>1. ~Numbered(t)
    <3> SUFFICES ASSUME Numbered(t) PROVE FALSE
      OBVIOUS
    <3>1. PICK n \in 1 .. MaxMenu : <<e.title.says>> = <<"label", n>>
      BY <1>2, <1>3, <1>5 DEF GoodLabel
    <3> QED BY <3>1, ShortLabels
  <2>2. <<t.says>> = <<e.title.says>>
    BY <1>2, <1>3, <1>5, <2>1 DEF GoodLabel
  <2>3. t.says = e.title.says
    BY <2>2, ShortLabels
  <2>4. t.added = <<>>
    BY <1>2, <1>4, <2>1, <2>3, PlainTitle
  <2>5. t = [says |-> t.says, added |-> t.added] /\ e.title = [says |-> e.title.says, added |-> e.title.added]
    BY <1>2, <1>4 DEF Title
  <2> QED BY <1>2, <2>3, <2>4, <2>5
<1>6. q.default \in DOMAIN q.menu => q.menu[q.default].title = t
  <2>1. CASE o.default = l
    BY <1>1, <1>5, <2>1
  <2>2. CASE o.default # l
    BY <1>1, <1>3, <2>2
  <2> QED BY <2>1, <2>2
<1> QED BY <1>1, <1>3, <1>6

LEMMA AppendInv ==
  ASSUME NEW a \in Added, MenuInv, AppendEntry(a.label, a.entry)
  PROVE  MenuInv'
<1> DEFINE o == obj
           q == Appended(o, a.label, a.entry)
           N == Len(o.order)
           es == Entries(o)
           qs == Entries(q)
<1>1. /\ o # None /\ TypedObj(o) /\ ConfigT(disk) /\ Len(o.order) < MaxMenu /\ a.label \notin DOMAIN o.menu
      /\ obj' = q /\ UNCHANGED <<disk, env, tmp, pc, raised, wanted, armed, past, twins, mixed>> /\ pc = "idle"
  BY DEF MenuInv, Files, AppendEntry, HasObject, Appended, file, history, told
<1> HIDE DEF o, q
<1>3. /\ TypedObj(q) /\ q.load = o.load /\ N \in Nat /\ Len(q.order) = N + 1
      /\ DOMAIN q.menu = DOMAIN o.menu \cup {a.label} /\ q.menu[a.label] = a.entry
      /\ \A x \in DOMAIN o.menu : q.menu[x] = o.menu[x]
      /\ GoodObj(o) => GoodObj(q) /\ \A i \in 1 .. N : qs[i] = es[i]
  BY <1>1, AppendedIs DEF q
<1>4. Len(qs) = N + 1 /\ Len(es) = N /\ DOMAIN qs = 1 .. N + 1 /\ DOMAIN es = 1 .. N
  BY <1>3 DEF Entries
<1>5. Same(o, disk) => Same(q, disk)
  BY <1>1, AppendedSame DEF q
<1>6. \A i \in 1 .. N : i \in 1 .. N + 1
  BY <1>3
<1> HIDE DEF N, es, qs
<1>7. Files'
  BY <1>1, <1>3 DEF MenuInv, Files
<1>8. Told'
  <2> SUFFICES ASSUME ~mixed, NEW l \in DOMAIN q.menu PROVE Tells(q.menu[l])
    BY <1>1 DEF MenuInv, Told
  <2>1. CASE l = a.label
    BY <1>3, <2>1, BootloaderAssumption DEF Tells
  <2>2. CASE l \in DOMAIN o.menu
    BY <1>1, <1>3, <2>2 DEF MenuInv, Told, o
  <2> QED BY <1>3, <2>1, <2>2
<1>9. ASSUME ~twins PROVE (Apart(disk.entries) /\ (obj # None => GoodObj(obj)) /\ Override /\ Backups /\ DefaultSame)'
  <2>1. /\ Apart(disk.entries) /\ GoodObj(o) /\ Backups /\ Same(o, disk)
        /\ armed => wanted # None /\ Will(disk.entries, disk.load, env, wanted)
        /\ wanted # None => Will(es, o.load, env, wanted)
    BY <1>1, <1>9 DEF MenuInv, Unique, Override, DefaultSame, o, es
  <2>2. GoodObj(q) /\ \A i \in 1 .. N : qs[i] = es[i]
    BY <1>3, <2>1
  <2>3. q # None
    BY <1>3, NoneIsNoObject
  <2>4. Override'
    <3>1. \A v, t : Will(es, o.load, v, t) => Will(qs, q.load, v, t)
      BY <1>3, <1>4, <1>6, <2>2 DEF Will
    <3>2. wanted # None => Will(Entries(obj'), obj'.load, env', wanted')
      BY <1>1, <2>1, <3>1 DEF qs
    <3> QED BY <1>1, <2>1, <2>3, <3>2 DEF Override
  <2>5. Backups'
    <3>1. \A k : Backed(es, k) => Backed(qs, k)
      BY <1>4, <1>6, <2>2 DEF Backed
    <3> QED BY <1>1, <2>1, <3>1 DEF Backups, es, qs, o
  <2>6. DefaultSame'
    BY <1>1, <1>5, <2>1 DEF DefaultSame
  <2> QED BY <1>1, <2>1, <2>2, <2>4, <2>5, <2>6
<1>10. Unique'
  BY <1>1, <1>9 DEF Unique
<1>11. Small'
  BY <1>1 DEF MenuInv, Small
<1> QED BY <1>7, <1>8, <1>10, <1>11 DEF MenuInv

LEMMA RemoveInv ==
  ASSUME MenuInv, obj # None, NEW l \in DOMAIN obj.menu, RemoveEntry(l)
  PROVE  MenuInv'
<1> DEFINE o == obj
           q == Removed(o, l)
<1>1. /\ o # None /\ TypedObj(o) /\ l \in DOMAIN o.menu
      /\ obj' = q /\ UNCHANGED <<disk, env, tmp, pc, raised, twins, mixed>> /\ pc = "idle"
      /\ wanted' = None /\ armed' = FALSE /\ past' = past \ {o.menu[l].kernel}
  BY DEF MenuInv, Files, RemoveEntry, HasObject, Removed, file
<1> HIDE DEF o, q
<1>2. /\ TypedObj(q) /\ q.default = o.default /\ q.block = o.block
      /\ DOMAIN q.menu = DOMAIN o.menu \ {l} /\ \A x \in DOMAIN q.menu : q.menu[x] = o.menu[x]
      /\ GoodObj(o) => /\ GoodObj(q)
                       /\ \A k : k # o.menu[l].kernel /\ Backed(Entries(o), k) => Backed(Entries(q), k)
  BY <1>1, RemovedIs DEF q
<1>3. Files'
  BY <1>1, <1>2 DEF MenuInv, Files
<1>4. Told'
  BY <1>1, <1>2 DEF MenuInv, Told, o
<1>5. ASSUME ~twins PROVE (Apart(disk.entries) /\ (obj # None => GoodObj(obj)) /\ Override /\ Backups /\ DefaultSame)'
  <2>1. /\ Apart(disk.entries) /\ GoodObj(o) /\ Same(o, disk)
        /\ \A k \in past : Backed(disk.entries, k) /\ Backed(Entries(o), k)
    BY <1>1, <1>5 DEF MenuInv, Unique, DefaultSame, Backups, o
  <2>2. Override'
    BY <1>1 DEF Override
  <2>3. Backups'
    BY <1>1, <1>2, <2>1 DEF Backups
  <2>4. Same(q, disk)
    BY <1>2, <2>1 DEF Same
  <2>5. DefaultSame'
    BY <1>1, <2>4 DEF DefaultSame
  <2> QED BY <1>1, <1>2, <2>1, <2>2, <2>3, <2>5
<1>6. Unique'
  BY <1>1, <1>5 DEF Unique
<1>7. Small'
  BY <1>1 DEF MenuInv, Small
<1> QED BY <1>3, <1>4, <1>6, <1>7 DEF MenuInv

LEMMA SetNextBootInv ==
  ASSUME MenuInv, obj # None, NEW l \in DOMAIN obj.menu, SetNextBoot(l)
  PROVE  MenuInv'
<1> DEFINE o == obj
           q == Clearing(o, l)
           p == IndexOf(l, o.order)
           N == Len(o.order)
           es == Entries(o)
           qs == Entries(q)
<1>1. /\ o # None /\ TypedObj(o) /\ l \in DOMAIN o.menu
      /\ obj' = q /\ UNCHANGED <<disk, tmp, pc, raised, past, twins, mixed>> /\ pc = "idle"
      /\ \/ env' = p - 1 /\ armed' = FALSE /\ wanted' = (IF o.load = "override" THEN o.menu[l].title ELSE None)
         \/ UNCHANGED <<env, wanted, armed>>
  BY DEF MenuInv, Files, SetNextBoot, HasObject, Clearing, told
<1> HIDE DEF o, q, p
<1>2. /\ TypedObj(q) /\ q.order = o.order /\ q.default = o.default /\ q.load = o.load /\ q.block = o.block
      /\ DOMAIN q.menu = DOMAIN o.menu
      /\ \A x \in DOMAIN o.menu :
           /\ q.menu[x].title = o.menu[x].title /\ q.menu[x].kernel = o.menu[x].kernel
           /\ o.menu[x].clears => q.menu[x].clears
      /\ p \in 1 .. N /\ o.order[p] = l /\ q.menu[l].clears /\ o.menu[l].title \in Title
      /\ GoodObj(o) => GoodObj(q)
  BY <1>1, ClearingIs DEF q, p
<1>3. N \in Nat /\ Len(es) = N /\ Len(qs) = N /\ DOMAIN es = 1 .. N /\ DOMAIN qs = 1 .. N
  <2>1. N \in Nat
    BY <1>1, OrderIs
  <2> QED BY <1>2, <2>1 DEF Entries
<1>4. \A i \in 1 .. N : es[i] = o.menu[o.order[i]] /\ qs[i] = q.menu[o.order[i]]
  BY <1>2 DEF Entries
<1>5. Range(o.order) = {o.order[i] : i \in 1 .. N}
  BY <1>1, OrderIs
<1> HIDE DEF N, es, qs
<1>6. Files'
  BY <1>1, <1>2 DEF MenuInv, Files
<1>7. Told'
  BY <1>1, <1>2 DEF MenuInv, Told, Tells, o
<1>8. ASSUME ~twins PROVE (Apart(disk.entries) /\ (obj # None => GoodObj(obj)) /\ Override /\ Backups /\ DefaultSame)'
  <2>1. /\ Apart(disk.entries) /\ GoodObj(o) /\ Same(o, disk) /\ Backups
        /\ armed => wanted # None /\ Will(disk.entries, disk.load, env, wanted)
        /\ wanted # None => Will(es, o.load, env, wanted)
    BY <1>1, <1>8 DEF MenuInv, Unique, Override, DefaultSame, o, es
  <2>2. \A i \in 1 .. N : /\ qs[i].title = es[i].title /\ qs[i].kernel = es[i].kernel
                          /\ es[i].clears => qs[i].clears
    <3>1. \A i \in 1 .. N : o.order[i] \in DOMAIN o.menu
      BY <1>5, <2>1 DEF GoodObj
    <3> QED BY <1>2, <1>4, <3>1
  <2>3. obj' # None
    BY <1>1, <1>2, NoneIsNoObject
  <2>4. Override'
    <3>1. \A v, t : Will(es, o.load, v, t) => Will(qs, q.load, v, t)
      BY <1>2, <1>3, <2>2 DEF Will
    <3>2. CASE env' = p - 1 /\ armed' = FALSE /\ wanted' = (IF o.load = "override" THEN o.menu[l].title ELSE None)
      <4>1. ASSUME wanted' # None PROVE Will(qs, q.load, env', wanted')
        <5>1. o.load = "override" /\ wanted' = o.menu[l].title
          BY <3>2, <4>1
        <5>2. p - 1 \in Nat /\ (p - 1) + 1 = p
          BY <1>2, <1>3
        <5>3. qs[p] = q.menu[l] /\ q.menu[l].title = o.menu[l].title
          BY <1>1, <1>2, <1>4
        <5>4. q.load = "override"
          BY <1>2, <5>1
        <5> QED BY <1>2, <1>3, <3>2, <5>1, <5>2, <5>3, <5>4 DEF Will
      <4> QED BY <1>1, <2>3, <3>2, <4>1 DEF Override, qs
    <3>3. CASE UNCHANGED <<env, wanted, armed>>
      <4>1. wanted' # None => Will(Entries(obj'), obj'.load, env', wanted')
        BY <1>1, <2>1, <3>1, <3>3 DEF qs
      <4> QED BY <1>1, <2>1, <2>3, <3>3, <4>1 DEF Override
    <3> QED BY <1>1, <3>2, <3>3
  <2>5. Backups'
    <3>1. \A k : Backed(es, k) => Backed(qs, k)
      BY <1>3, <2>2 DEF Backed
    <3> QED BY <1>1, <2>1, <3>1 DEF Backups, es, qs, o
  <2>6. Same(q, disk)
    BY <1>2, <2>1 DEF Same
  <2>7. DefaultSame'
    BY <1>1, <2>6 DEF DefaultSame
  <2> QED BY <1>1, <1>2, <2>1, <2>4, <2>5, <2>7
<1>9. Unique'
  BY <1>1, <1>8 DEF Unique
<1>10. Small'
  <2>1. env' \in Nat \cup {None}
    BY <1>1, <1>2, <1>3 DEF MenuInv, Small
  <2>2. wanted' \in Title \cup {None} /\ armed' \in BOOLEAN
    BY <1>1, <1>2 DEF MenuInv, Small
  <2> QED BY <1>1, <2>1, <2>2 DEF MenuInv, Small
<1> QED BY <1>6, <1>7, <1>9, <1>10 DEF MenuInv

LEMMA CommitInv == MenuInv /\ Commit => MenuInv'
<1> SUFFICES ASSUME MenuInv, Commit PROVE MenuInv'
  OBVIOUS
<1>1. /\ obj # None /\ pc = "idle" /\ UNCHANGED <<disk, env, obj, wanted, armed, past, twins, mixed>>
      /\ \/ Range(obj.order) \subseteq DOMAIN obj.menu /\ tmp' = Written(obj) /\ pc' = "rename" /\ raised' = "none"
         \/ raised' = "KeyError" /\ UNCHANGED <<tmp, pc>>
  BY DEF Commit, HasObject, history, told
<1>2. Files'
  BY <1>1 DEF MenuInv, Files
<1>3. Told' /\ Small'
  BY <1>1 DEF MenuInv, Told, Small
<1>4. Unique'
  BY <1>1 DEF MenuInv, Unique, Override, Backups, DefaultSame
<1> QED BY <1>2, <1>3, <1>4 DEF MenuInv

LEMMA ExitInv == MenuInv /\ Exit => MenuInv'
<1> SUFFICES ASSUME MenuInv, Exit PROVE MenuInv'
  OBVIOUS
<1>1. obj' = None /\ pc' = "idle" /\ tmp' = None /\ raised' = "none"
      /\ wanted' = (IF armed THEN wanted ELSE None) /\ UNCHANGED <<disk, env, armed, past, twins, mixed>>
  BY DEF Exit, told
<1>2. Files'
  BY <1>1 DEF MenuInv, Files
<1>3. Told' /\ Small'
  BY <1>1 DEF MenuInv, Told, Small
<1>4. Unique'
  BY <1>1 DEF MenuInv, Unique, Override, Backups, DefaultSame
<1> QED BY <1>2, <1>3, <1>4 DEF MenuInv

LEMMA BootInv == MenuInv /\ Boot => MenuInv'
<1> SUFFICES ASSUME MenuInv, Boot PROVE MenuInv'
  OBVIOUS
<1>1. /\ pc = "idle" /\ obj = None /\ env' \in {env, None} /\ wanted' = None /\ armed' = FALSE /\ raised' = "none"
      /\ UNCHANGED <<disk, tmp, obj, pc, past, twins, mixed>>
  BY DEF Boot, told
<1>2. Files'
  BY <1>1 DEF MenuInv, Files
<1>3. Told' /\ Small'
  BY <1>1 DEF MenuInv, Told, Small
<1>4. Unique'
  BY <1>1 DEF MenuInv, Unique, Override, Backups, DefaultSame
<1> QED BY <1>2, <1>3, <1>4 DEF MenuInv

LEMMA NewDefaultInv ==
  ASSUME MenuInv, NEW new \in Kernels, NewDefault(new)
  PROVE  MenuInv'
<1> DEFINE old == DefaultKernel(Parsed(disk))
<1>1. /\ pc = "idle" /\ obj = None /\ UNCHANGED <<disk, env, obj, wanted, armed, past, twins, mixed>>
      /\ \/ /\ ~BadDefault(disk) /\ old # None /\ old # new /\ InBounds(Parsed(disk), old)
            /\ tmp' = FileFrom(disk, old, new) /\ pc' = "default" /\ raised' = "none"
         \/ raised' \in {"none", "IndexError", "KeyError", "RuntimeError"} /\ UNCHANGED <<tmp, pc>>
  BY DEF NewDefault, history, told, FileFrom
<1> HIDE DEF old
<1>2. Told' /\ Small'
  <2>1. raised' \in {"none", "IndexError", "KeyError", "RuntimeError"}
    BY <1>1
  <2> QED BY <1>1, <2>1 DEF MenuInv, Told, Small
<1>3. Unique'
  BY <1>1 DEF MenuInv, Unique, Override, Backups, DefaultSame
<1>4. Files'
  <2>1. CASE UNCHANGED <<tmp, pc>>
    BY <1>1, <2>1 DEF MenuInv, Files
  <2>2. CASE /\ ~BadDefault(disk) /\ old # None /\ old # new /\ InBounds(Parsed(disk), old)
             /\ tmp' = FileFrom(disk, old, new) /\ pc' = "default"
    <3>1. NewFile(tmp')
      BY <2>2 DEF NewFile, Replaceable, old
    <3>2. NewFile(tmp)'
      BY <1>1, <3>1 DEF NewFile
    <3> QED BY <1>1, <2>2, <3>2 DEF MenuInv, Files
  <2> QED BY <1>1, <2>1, <2>2
<1> QED BY <1>2, <1>3, <1>4 DEF MenuInv

(* A program's commit(): the file gets what the object has. *)
LEMMA RenamedIs ==
  ASSUME MenuInv, RenameFile, pc = "rename"
  PROVE  /\ ConfigT(disk') /\ obj # None /\ disk' = Written(obj) /\ disk'.entries = Entries(obj)
         /\ past' = past /\ mixed' = mixed
         /\ ~mixed => \A e \in Range(disk'.entries) : Tells(e)
         /\ ~twins =>
              /\ Same(obj, disk')
              /\ obj.block /\ disk.named = None /\ disk'.named = None =>
                   Place(disk') < Len(disk'.entries) /\ DefaultTitle(disk') = DefaultTitle(disk)
              /\ wanted # None => Will(disk'.entries, disk'.load, env, wanted)
<1> DEFINE o == obj
           w == disk'
           N == Len(o.order)
<1>1. /\ o # None /\ TypedObj(o) /\ Range(o.order) \subseteq DOMAIN o.menu
      /\ w = Written(o) /\ past' = past /\ mixed' = mixed
  BY DEF RenameFile, MenuInv, Files
<1>2. CanWrite(o)
  BY <1>1, CanWriteIt
<1>3. /\ ConfigT(w) /\ w.entries = Entries(o) /\ Len(w.entries) = N /\ DOMAIN w.entries = 1 .. N
      /\ w.load = (IF o.order = <<>> THEN "none" ELSE o.load)
      /\ o.default \notin Range(o.order) => w.default = None /\ w.named = o.default
      /\ o.default \in Range(o.order) =>
           /\ w.default \in Nat /\ w.named = None
           /\ w.default + 1 \in 1 .. N /\ o.order[w.default + 1] = o.default
  BY <1>1, <1>2, WrittenTypes
<1>4. N \in Nat /\ Range(o.order) = {o.order[i] : i \in 1 .. N}
  BY <1>1, OrderIs
<1>5. \A i \in 1 .. N : w.entries[i] = o.menu[o.order[i]] /\ o.order[i] \in DOMAIN o.menu
  BY <1>1, <1>3, <1>4 DEF Entries
<1> HIDE DEF o, w, N
<1>6. ASSUME ~mixed, NEW e \in Range(w.entries) PROVE Tells(e)
  <2>1. PICK i \in 1 .. N : e = w.entries[i]
    BY <1>3 DEF Range
  <2> QED BY <1>1, <1>5, <1>6, <2>1 DEF MenuInv, Told, o
<1>7. ASSUME ~twins
      PROVE  /\ Same(o, w)
             /\ o.block /\ disk.named = None /\ w.named = None =>
                  Place(w) < Len(w.entries) /\ DefaultTitle(w) = DefaultTitle(disk)
             /\ wanted # None => Will(w.entries, w.load, env, wanted)
  <2>1. /\ GoodObj(o) /\ Same(o, disk)
        /\ wanted # None => Will(Entries(o), o.load, env, wanted)
    BY <1>1, <1>7 DEF MenuInv, Unique, Override, DefaultSame, o
  <2>2. ASSUME o.block, w.named = None
        PROVE  /\ ~BadDefault(w) /\ Place(w) < Len(w.entries) /\ GoodLabel(o.default, DefaultTitle(w))
               /\ o.default \in DOMAIN o.menu /\ o.menu[o.default].title = DefaultTitle(w)
    <3>1. o.default # None
      BY <1>1, <2>2 DEF TypedObj
    <3>2. o.default \in Range(o.order)
      BY <1>3, <2>2, <3>1
    <3> DEFINE i == w.default + 1
    <3>3. w.default \in Nat /\ i \in 1 .. N /\ o.order[i] = o.default
      BY <1>3, <3>2
    <3>4. Place(w) = w.default /\ Place(w) < Len(w.entries)
      <4>1. w.default # None
        BY <3>3, BootloaderAssumption
      <4> QED BY <1>3, <1>4, <3>3, <4>1 DEF Place
    <3>5. ~BadDefault(w)
      BY <1>3, <1>4, <3>3, <3>4 DEF BadDefault
    <3>6. DefaultTitle(w) = o.menu[o.order[i]].title /\ o.order[i] \in DOMAIN o.menu
      BY <1>5, <3>3, <3>4 DEF DefaultTitle
    <3>7. GoodLabel(o.order[i], o.menu[o.order[i]].title)
      BY <2>1, <3>3 DEF GoodObj, N
    <3> QED BY <3>3, <3>4, <3>5, <3>6, <3>7
  <2>3. Same(o, w)
    BY <2>2 DEF Same
  <2>4. ASSUME o.block, disk.named = None, w.named = None
        PROVE  Place(w) < Len(w.entries) /\ DefaultTitle(w) = DefaultTitle(disk)
    BY <2>1, <2>2, <2>4 DEF Same
  <2>5. ASSUME wanted # None PROVE Will(w.entries, w.load, env, wanted)
    <3>1. Will(Entries(o), o.load, env, wanted) /\ Len(Entries(o)) = N
      BY <1>3, <2>1, <2>5
    <3>2. N > 0
      BY <1>4, <3>1 DEF Will
    <3>3. o.order # <<>>
      BY <3>2 DEF N
    <3>4. w.load = o.load /\ w.entries = Entries(o)
      BY <1>3, <3>3
    <3> QED BY <3>1, <3>4 DEF Will
  <2> QED BY <2>3, <2>4, <2>5
<1> QED BY <1>1, <1>3, <1>6, <1>7 DEF o, w

(* newDefault(): of a file whose entries have labels of their own.         *)
LEMMA DefaultIs ==
  ASSUME MenuInv, RenameFile, pc = "default"
  PROVE  LET old == DefaultKernel(Parsed(disk)) IN
         /\ ConfigT(disk') /\ obj = None /\ ~BadDefault(disk) /\ old \in Kernels
         /\ past' = past \cup {old}
         /\ ~mixed' => ~mixed /\ \A e \in Range(disk'.entries) : Tells(e)
         /\ ~twins =>
              /\ disk.named = None =>
                   Place(disk') < Len(disk'.entries) /\ DefaultTitle(disk') = DefaultTitle(disk)
              /\ Backed(disk'.entries, old)
              /\ \A k : Backed(disk.entries, k) => Backed(disk'.entries, k)
              /\ wanted # None => Will(disk'.entries, disk'.load, env, wanted)
<1> DEFINE d == disk
           w == disk'
           old == DefaultKernel(Parsed(d))
           N == Len(d.entries)
<1>1. /\ ConfigT(d) /\ obj = None /\ ~BadDefault(d) /\ w = tmp /\ past' = past \cup {old} /\ NewFile(tmp)
      /\ mixed' = (mixed \/ \E e \in Range(d.entries) : e.title.added # <<>> /\ e.kernel = old)
      /\ mixed \in BOOLEAN
  BY DEF RenameFile, MenuInv, Files, Small
<1>2. PICK new \in Kernels : Replaceable(d, old, new) /\ w = FileFrom(d, old, new)
  BY <1>1 DEF NewFile
<1>3. old # None /\ old # new /\ InBounds(Parsed(d), old)
  BY <1>2 DEF Replaceable
<1>4. old \in Kernels
  <2>1. TypedObj(Parsed(d))
    BY <1>1, ParsedTypes
  <2> DEFINE o == Parsed(d)
  <2> HIDE DEF o
  <2>2. o.default \in DOMAIN o.menu /\ old = o.menu[o.default].kernel
    BY <1>3 DEF DefaultKernel, o
  <2>3. o.menu[o.default] \in EntryT
    BY <2>1, <2>2, OrderIs DEF o
  <2> QED BY <2>2, <2>3 DEF EntryT
<1>15. /\ d.load = "override" /\ d.entries # <<>> => Parsed(d).load = "override"
       /\ d.named = None => Place(d) \in Nat /\ Place(d) + 1 \in 1 .. N
       /\ DOMAIN d.entries = 1 .. N /\ N \in Nat /\ d.entries \in Seq(EntryT)
  <2>1. /\ Parsed(d).load = (IF d.entries = <<>> THEN "none" ELSE IF d.load = "none" THEN "override" ELSE d.load)
        /\ d.named = None => Place(d) \in Nat /\ Place(d) + 1 \in 1 .. N
    BY <1>1, ParsedTypes
  <2>2. DOMAIN d.entries = 1 .. N /\ N \in Nat /\ d.entries \in Seq(EntryT)
    BY <1>1 DEF ConfigT
  <2> QED BY <2>1, <2>2
<1>14. Apart(d.entries) =>
         /\ N <= Len(w.entries) /\ Len(w.entries) \in Nat
         /\ \A i \in 1 .. N : w.entries[i].title = d.entries[i].title /\ w.entries[i].clears = d.entries[i].clears
         /\ d.named = None => w.named = None /\ w.default = Place(d)
         /\ w.load = Parsed(d).load
         /\ Backed(w.entries, old)
         /\ \A k : Backed(d.entries, k) => Backed(w.entries, k)
  BY <1>1, <1>2, <1>3, ReplacedApart
<1> HIDE DEF d, w, old
<1>5. ConfigT(w) /\ \A e \in Range(w.entries) : Derives(e, d.entries, old, new)
  BY <1>1, <1>2, <1>3, <1>4, ReplacedTypes
<1>6. ASSUME ~mixed' PROVE ~mixed /\ \A e \in Range(w.entries) : Tells(e)
  <2>1. ~mixed /\ \A e \in Range(d.entries) : e.title.added # <<>> => e.kernel # old
    BY <1>1, <1>6
  <2>2. \A e \in Range(d.entries) : Tells(e)
    BY <2>1 DEF MenuInv, Told, d
  <2>3. ASSUME NEW e \in Range(w.entries) PROVE Tells(e)
    <3>1. PICK j \in 1 .. N : e = WithKernel(d.entries[j], old, new) \/ (d.entries[j].kernel = old /\ e = Copy(d.entries[j], old))
      BY <1>5, <2>3 DEF Derives, N
    <3> DEFINE f == d.entries[j]
    <3>2. f \in Range(d.entries) /\ f \in EntryT
      BY <1>15 DEF Range
    <3>3. Tells(f) /\ (f.title.added # <<>> => f.kernel # old)
      BY <2>1, <2>2, <3>2
    <3>4. e = WithKernel(f, old, new) \/ (f.kernel = old /\ e = Copy(f, old))
      BY <3>1
    <3> HIDE DEF f
    <3>5. CASE e = WithKernel(f, old, new)
      <4>1. e.title = f.title /\ e.kernel = (IF f.kernel = old THEN new ELSE f.kernel)
        BY <1>4, <3>2, <3>5, ChangedTypes
      <4> QED BY <3>3, <4>1 DEF Tells
    <3>6. CASE f.kernel = old /\ e = Copy(f, old)
      <4>1. e.kernel = old /\ Last(e.title.added) = Version[old]
        BY <1>4, <3>2, <3>6, ChangedTypes
      <4> QED BY <4>1 DEF Tells
    <3> QED BY <3>4, <3>5, <3>6
  <2> QED BY <2>1, <2>3
<1>7. ASSUME ~twins
      PROVE  /\ d.named = None => Place(w) < Len(w.entries) /\ DefaultTitle(w) = DefaultTitle(d)
             /\ Backed(w.entries, old)
             /\ \A k : Backed(d.entries, k) => Backed(w.entries, k)
             /\ wanted # None => Will(w.entries, w.load, env, wanted)
  <2>1. Apart(d.entries) /\ (wanted # None => Will(d.entries, d.load, env, wanted))
    BY <1>1, <1>7 DEF MenuInv, Unique, Override, d
  <2>2. /\ N <= Len(w.entries) /\ Len(w.entries) \in Nat
        /\ \A i \in 1 .. N : w.entries[i].title = d.entries[i].title /\ w.entries[i].clears = d.entries[i].clears
        /\ d.named = None => w.named = None /\ w.default = Place(d)
        /\ w.load = Parsed(d).load
        /\ Backed(w.entries, old)
        /\ \A k : Backed(d.entries, k) => Backed(w.entries, k)
    BY <1>14, <2>1
  <2>3. ASSUME d.named = None PROVE Place(w) < Len(w.entries) /\ DefaultTitle(w) = DefaultTitle(d)
    <3>1. Place(d) \in Nat /\ Place(d) + 1 \in 1 .. N /\ w.default = Place(d)
      BY <1>15, <2>2, <2>3
    <3>2. Place(w) = Place(d)
      BY <3>1, BootloaderAssumption DEF Place
    <3> QED BY <1>15, <2>2, <3>1, <3>2 DEF DefaultTitle
  <2>4. ASSUME wanted # None PROVE Will(w.entries, w.load, env, wanted)
    <3>1. /\ d.load = "override" /\ env \in Nat /\ env + 1 \in 1 .. N
          /\ d.entries[env + 1].title = wanted /\ d.entries[env + 1].clears
      BY <2>1, <2>4 DEF Will, N
    <3>2. w.load = "override"
      <4>1. d.entries # <<>>
        BY <3>1 DEF N
      <4> QED BY <1>15, <2>2, <3>1, <4>1
    <3>3. w.entries[env + 1].title = wanted /\ w.entries[env + 1].clears /\ env + 1 \in 1 .. Len(w.entries)
      BY <1>15, <2>2, <3>1
    <3> QED BY <3>1, <3>2, <3>3 DEF Will
  <2> QED BY <2>2, <2>3, <2>4
<1> QED BY <1>1, <1>4, <1>5, <1>6, <1>7 DEF d, w, old

LEMMA RenameFileInv == MenuInv /\ RenameFile => MenuInv'
<1> SUFFICES ASSUME MenuInv, RenameFile PROVE MenuInv'
  OBVIOUS
<1>1. /\ pc \in {"rename", "default"} /\ disk' = tmp
      /\ tmp' = None /\ pc' = "idle" /\ armed' = (wanted # None) /\ UNCHANGED <<env, obj, raised, wanted>>
      /\ twins' = (twins \/ ~Apart(tmp.entries))
      /\ mixed \in BOOLEAN /\ mixed' \in BOOLEAN /\ (~mixed' => ~mixed)
  BY DEF RenameFile, MenuInv, Files, Small
<1>2. /\ ConfigT(disk') /\ past' \subseteq Kernels
      /\ ~mixed' => \A e \in Range(disk'.entries) : Tells(e)
  <2>1. CASE pc = "rename"
    BY <1>1, <2>1, RenamedIs DEF MenuInv, Small
  <2>2. CASE pc = "default"
    BY <2>2, DefaultIs DEF MenuInv, Small
  <2> QED BY <1>1, <2>1, <2>2
<1>3. Files'
  BY <1>1, <1>2 DEF MenuInv, Files
<1>4. Told'
  BY <1>1, <1>2 DEF MenuInv, Told
<1>5. Small'
  <2>1. twins' \in BOOLEAN /\ armed' \in BOOLEAN
    BY <1>1 DEF MenuInv, Small, Apart, IsInjective
  <2> QED BY <1>1, <1>2, <2>1 DEF MenuInv, Small
<1>6. ASSUME ~twins' PROVE (Apart(disk.entries) /\ (obj # None => GoodObj(obj)) /\ Override /\ Backups /\ DefaultSame)'
  <2>1. /\ ~twins /\ Apart(disk'.entries) /\ (obj # None => GoodObj(obj)) /\ Override /\ Backups
    BY <1>1, <1>6 DEF MenuInv, Unique
  <2>2. wanted # None => Will(disk'.entries, disk'.load, env, wanted)
    <3>1. CASE pc = "rename"
      BY <2>1, <3>1, RenamedIs
    <3>2. CASE pc = "default"
      BY <2>1, <3>2, DefaultIs
    <3> QED BY <1>1, <3>1, <3>2
  <2>3. Override'
    BY <1>1, <2>1, <2>2 DEF Override
  <2>4. Backups'
    <3>1. CASE pc = "rename"
      <4>1. obj # None /\ disk'.entries = Entries(obj) /\ past' = past
        BY <3>1, RenamedIs
      <4> QED BY <1>1, <2>1, <4>1 DEF Backups
    <3>2. CASE pc = "default"
      <4> DEFINE old == DefaultKernel(Parsed(disk))
      <4>1. /\ obj = None /\ past' = past \cup {old} /\ Backed(disk'.entries, old)
            /\ \A k : Backed(disk.entries, k) => Backed(disk'.entries, k)
        BY <2>1, <3>2, DefaultIs
      <4> HIDE DEF old
      <4> QED BY <1>1, <2>1, <4>1 DEF Backups
    <3> QED BY <1>1, <3>1, <3>2
  <2>5. DefaultSame'
    <3>1. CASE pc = "rename"
      BY <1>1, <2>1, <3>1, RenamedIs DEF DefaultSame
    <3>2. CASE pc = "default"
      BY <1>1, <3>2, DefaultIs DEF DefaultSame
    <3> QED BY <1>1, <3>1, <3>2
  <2> QED BY <1>1, <2>1, <2>3, <2>4, <2>5
<1>7. Unique'
  BY <1>6 DEF Unique
<1> QED BY <1>3, <1>4, <1>5, <1>7 DEF MenuInv

LEMMA MenuNextInv == MenuInv /\ [MenuNext]_menuvars => MenuInv'
<1> SUFFICES ASSUME MenuInv, [MenuNext]_menuvars PROVE MenuInv'
  OBVIOUS
<1>1. ASSUME NEW a \in Added, AppendEntry(a.label, a.entry) PROVE MenuInv'
  BY <1>1, AppendInv
<1>2. ASSUME obj # None, NEW l \in DOMAIN obj.menu, RemoveEntry(l) PROVE MenuInv'
  BY <1>2, RemoveInv
<1>3. ASSUME obj # None, NEW l \in DOMAIN obj.menu, SetNextBoot(l) PROVE MenuInv'
  BY <1>3, SetNextBootInv
<1>4. ASSUME NEW k \in Kernels, NewDefault(k) PROVE MenuInv'
  BY <1>4, NewDefaultInv
<1>5. CASE UNCHANGED menuvars
  <2>1. UNCHANGED <<disk, env, tmp, obj, pc, raised, wanted, armed, past, twins, mixed>>
    BY <1>5 DEF menuvars, file, history, told
  <2>2. Files' /\ Told' /\ Small'
    BY <2>1 DEF MenuInv, Files, NewFile, Told, Small
  <2>3. Unique'
    BY <2>1 DEF MenuInv, Unique, Override, Backups, DefaultSame
  <2> QED BY <2>2, <2>3 DEF MenuInv
<1> QED BY <1>1, <1>2, <1>3, <1>4, <1>5, ReadInv, NewInv, CommitInv, RenameFileInv, ExitInv, BootInv DEF MenuNext

LEMMA MenuInvariance == MenuSpec => []MenuInv
<1> QED BY MenuInitInv, MenuNextInv, PTL DEF MenuSpec

-----------------------------------------------------------------------------
(* Whatever menus there are, with or without a line for the default or one *)
(* that looks for an override, and whatever programs do to them in         *)
(* whatever order, ended or crashed anywhere: once setNextBoot() of a menu *)
(* that looks for an override is committed the next boot is of the entry   *)
(* it was called for, and only the next, as long as grub.cfg has had no    *)
(* two entries that create_label() gives one label.                        *)
THEOREM NextBootIsWanted == MenuSpec => []OverrideOnce
<1>1. MenuInv => OverrideOnce
  <2> SUFFICES ASSUME MenuInv, armed, ~twins PROVE OverrideOnce
    BY DEF OverrideOnce
  <2>1. Will(disk.entries, disk.load, env, wanted) /\ Len(disk.entries) \in Nat
    BY DEF MenuInv, Unique, Override, Files, ConfigT
  <2>2. env # None /\ env < Len(disk.entries)
    BY <2>1, BootloaderAssumption DEF Will
  <2> QED BY <2>1, <2>2 DEF OverrideOnce, Will
<1> QED BY <1>1, MenuInvariance, PTL

LEMMA Types == MenuInv => MenuTypes
<1> SUFFICES ASSUME MenuInv PROVE MenuTypes
  OBVIOUS
<1>1. ConfigT(disk)
  BY DEF MenuInv, Files
<1>2. tmp # None => ConfigT(tmp)
  <2>1. CASE pc = "idle"
    BY <2>1 DEF MenuInv, Files
  <2>2. CASE pc = "rename"
    <3>1. TypedObj(obj) /\ Range(obj.order) \subseteq DOMAIN obj.menu /\ tmp = Written(obj)
      BY <2>2 DEF MenuInv, Files
    <3>2. CanWrite(obj)
      BY <3>1, CanWriteIt
    <3> QED BY <3>1, <3>2, WrittenTypes
  <2>3. CASE pc = "default"
    <3> DEFINE old == DefaultKernel(Parsed(disk))
    <3>1. ~BadDefault(disk) /\ NewFile(tmp)
      BY <2>3 DEF MenuInv, Files
    <3>2. PICK new \in Kernels : old # None /\ InBounds(Parsed(disk), old) /\ tmp = FileFrom(disk, old, new)
      BY <3>1 DEF NewFile, Replaceable
    <3>3. old \in Kernels
      <4> DEFINE o == Parsed(disk)
      <4>1. TypedObj(o)
        BY <1>1, <3>1, ParsedTypes
      <4>2. old = DefaultKernel(o)
        OBVIOUS
      <4> HIDE DEF o, old
      <4>3. o.default \in DOMAIN o.menu /\ old = o.menu[o.default].kernel
        BY <3>2, <4>2 DEF DefaultKernel
      <4>4. o.menu[o.default] \in EntryT
        BY <4>1, <4>3, OrderIs
      <4> QED BY <4>3, <4>4 DEF EntryT
    <3> HIDE DEF old
    <3> QED BY <1>1, <3>1, <3>2, <3>3, ReplacedTypes
  <2> QED BY <2>1, <2>2, <2>3 DEF MenuInv, Files
<1>3. obj # None => \A l \in DOMAIN obj.menu : obj.menu[l] \in EntryT
  BY OrderIs DEF MenuInv, Files
<1>4. /\ env \in Nat \cup {None} /\ pc \in {"idle", "rename", "default"} /\ (pc = "idle" => tmp = None)
      /\ raised \in {"none", "IndexError", "KeyError", "RuntimeError"}
      /\ wanted \in Title \cup {None} /\ armed \in BOOLEAN /\ past \subseteq Kernels
      /\ twins \in BOOLEAN /\ mixed \in BOOLEAN
  BY DEF MenuInv, Files, Small
<1> QED BY <1>1, <1>2, <1>3, <1>4 DEF MenuTypes

(* The kernels newDefault() replaced stay bootable, from entries that say  *)
(* so, until they are removed, as long as no two entries have had one      *)
(* label; titles with versions are true until newDefault() replaces a      *)
(* kernel that has a backup.                                               *)
THEOREM BackupsAreKept == MenuSpec => []BackupKept
<1>1. MenuInv => BackupKept
  <2> SUFFICES ASSUME MenuInv PROVE BackupKept
    OBVIOUS
  <2>1. ASSUME ~twins, NEW k \in past
        PROVE  \E e \in Range(disk.entries) : e.kernel = k /\ Version[k] \in Range(e.title.added)
    <3>1. PICK i \in DOMAIN disk.entries : disk.entries[i].kernel = k /\ Version[k] \in Range(disk.entries[i].title.added)
      BY <2>1 DEF MenuInv, Unique, Backups, Backed
    <3>2. disk.entries[i] \in Range(disk.entries)
      BY DEF Range
    <3> QED BY <3>1, <3>2
  <2>2. ~mixed => \A e \in Range(disk.entries) : Tells(e)
    BY DEF MenuInv, Told
  <2> QED BY <2>1, <2>2, Types DEF BackupKept
<1> QED BY <1>1, MenuInvariance, PTL

(* No commit, of a menu a program has read or by newDefault(), makes       *)
(* another entry the default, or leaves grub an index that is no entry's,  *)
(* as long as no two entries have had one label.                           *)
THEOREM DefaultIsKept == MenuSpec => DefaultStays
<1> DEFINE A == (pc = "default" \/ (pc = "rename" /\ obj.block)) /\ pc' = "idle" /\ obj' = obj
                  /\ ~twins /\ disk.named = None /\ disk'.named = None =>
                  /\ Place(disk') < Len(disk'.entries)
                  /\ disk'.entries[Place(disk') + 1].title = disk.entries[Place(disk) + 1].title
<1>1. MenuInv /\ [MenuNext]_menuvars => [A]_menuvars
  <2> SUFFICES ASSUME MenuInv, MenuNext, pc = "default" \/ (pc = "rename" /\ obj.block), pc' = "idle", obj' = obj,
                      ~twins, disk.named = None, disk'.named = None
               PROVE  Place(disk') < Len(disk'.entries) /\ DefaultTitle(disk') = DefaultTitle(disk)
    BY DEF DefaultTitle
  <2>1. RenameFile \/ (pc = "default" /\ disk' = disk)
    <3>1. RenameFile \/ Exit
      BY DEF MenuNext, Read, New, AppendEntry, RemoveEntry, Commit, SetNextBoot, NewDefault, Boot, HasObject
    <3>2. ASSUME Exit PROVE pc = "default" /\ disk' = disk
      <4>1. obj' = None /\ disk' = disk
        BY <3>2 DEF Exit
      <4> QED BY <4>1 DEF MenuInv, Files
    <3> QED BY <3>1, <3>2
  <2>2. CASE RenameFile /\ pc = "rename"
    BY <2>2, RenamedIs
  <2>3. CASE RenameFile /\ pc = "default"
    BY <2>3, DefaultIs
  <2>4. CASE pc = "default" /\ disk' = disk
    <3>1. ~BadDefault(disk) /\ ConfigT(disk)
      BY <2>4 DEF MenuInv, Files
    <3>2. Place(disk) \in Nat /\ Len(disk.entries) \in Nat
      BY <3>1 DEF ConfigT, Place
    <3>3. Place(disk) < Len(disk.entries)
      BY <3>1, <3>2 DEF BadDefault
    <3> QED BY <2>4, <3>3
  <2> QED BY <2>1, <2>2, <2>3, <2>4
<1> QED BY <1>1, MenuInvariance, PTL DEF MenuSpec, DefaultStays

=============================================================================
