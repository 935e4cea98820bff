---------------------------- MODULE MCDynamicRules ----------------------------
(* Lists and files of DynamicRules for TLC. *)
EXTENDS DynamicRules

CONSTANTS e1, e2

UpTo1(S) == {<<>>} \cup {<<x>> : x \in S}

(* One item of any form, or two of which the first may be dropped. *)
MCLists ==
  UpTo1({As(f, e1) : f \in {"list", "typed", "bad", "noname"}})
  \cup {<<As(f, e1), As("list", e2)>> : f \in {"list", "bad"}}
MCFiles ==
  {Blank, Corrupt}
  \cup {Rules(l, o) : l \in {<<As("bad", e1), As("list", e2)>>, <<As("list", e1)>>},
                      o \in UpTo1({As("list", e2)})}

=============================================================================
