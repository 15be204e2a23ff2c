---------------------------- MODULE MCFreezeThaw ----------------------------
(***************************************************************************)
(* Trees of three bits with an IPv4 subtree of two addresses, an alias of  *)
(* it and a reserved network, and values that cannot be merged.            *)
(***************************************************************************)
EXTENDS FreezeThaw

MCKeys == {"a", "b"}
MCMerge == [m \in Strategies \X MCKeys \X MCKeys |-> IF m[2] = m[3] THEN m[2] ELSE Mismatch]
MCInserts ==
    {[nets |-> <<n>>, key |-> "a", strategy |-> "none"] : n \in {<<0, 0, 0>>, << >>}}
    \cup {[nets |-> << <<1>> >>, key |-> "b", strategy |-> "recurse"]}
MCOptions == {[alias |-> TRUE, reserved |-> TRUE], [alias |-> FALSE, reserved |-> FALSE]}
MCRoot == <<0, 0>>
MCAliases == << <<1, 0>> >>
MCReserved == << <<1, 1, 1>> >>

=============================================================================
