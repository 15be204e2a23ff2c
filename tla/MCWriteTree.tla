---------------------------- MODULE MCWriteTree ----------------------------
(***************************************************************************)
(* Trees of three bits with an IPv4 subtree of two addresses and an alias  *)
(* of it, written twice.                                                   *)
(***************************************************************************)
EXTENDS VisualizeTree

MCKeys == {"a", "b"}
MCMerge == [m \in Strategies \X MCKeys \X MCKeys |-> m[2]]
MCInserts ==
    {[nets |-> <<n>>, key |-> "a", strategy |-> "none"] : n \in {<<0, 0, 0>>, <<1>>}}
    \cup {[nets |-> <<n>>, key |-> "b", strategy |-> "none"] : n \in {<<1>>, <<0, 1>>}}
MCOptions == {[alias |-> TRUE, reserved |-> FALSE]}
MCRoot == <<0, 0>>
MCAliases == << <<1, 0>> >>
MCReserved == << >>
MCSize == [k \in MCKeys |-> IF k = "a" THEN 3 ELSE 2]

=============================================================================
