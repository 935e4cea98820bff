------------------------------ MODULE NicNames ------------------------------
(***************************************************************************)
(* The interface names the renaming code tells apart, by the regular       *)
(* expressions of logic.py (VALID_CUR_STATE_KNAME, VALID_IBFT_NAME) and of *)
(* ifrename/__init__.py (VALID_ETH_NAME):                                  *)
(*   eth<num>              kind "eth"                                      *)
(*   side-<rn>-eth<num>    kind "side", the temporary names                *)
(*   ibft<num>             kind "ibft", interfaces booted from             *)
(*   eth<foo>              kind "ethfoo": starts with "eth", not eth<num>  *)
(***************************************************************************)
EXTENDS Naturals

Name == [kind : {"eth", "side", "ibft", "ethfoo"}, rn : Nat, num : Nat]

Eth(n)     == [kind |-> "eth", rn |-> 0, num |-> n]
Side(r, n) == [kind |-> "side", rn |-> r, num |-> n]
Ibft(n)    == [kind |-> "ibft", rn |-> 0, num |-> n]
EthFoo     == [kind |-> "ethfoo", rn |-> 0, num |-> 0]

IsEth(name)       == name.kind = "eth"
IsIbft(name)      == name.kind = "ibft"
IsCurKname(name)  == name.kind \in {"eth", "side"}
StartsEth(name)   == name.kind \in {"eth", "ethfoo"}

=============================================================================
