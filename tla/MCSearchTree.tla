---------------------------- MODULE MCSearchTree ----------------------------
(***************************************************************************)
(* Small instances of SearchTree for TLC.                                  *)
(***************************************************************************)
EXTENDS TreeRefinesMap

M == INSTANCE MergeData

Single == {<<n>> : n \in Prefix}
Calls(nets, keys, strats) == [nets : nets, key : keys, strategy : strats]

-----------------------------------------------------------------------------
(* Merging.  Two addresses' worth of bits, so that a tree has up to three  *)
(* nodes.  The data is named by keys; what merging two of them gives is    *)
(* computed by MergeData from the values they stand for.                   *)

Obj(f) == M!Hash(f)
One == M!Scalar(1)
ValueOf == [
    a  |-> Obj([x |-> One]),
    b  |-> Obj([y |-> One]),
    ab |-> Obj([x |-> One, y |-> One]),
    s  |-> One,
    h  |-> Obj([x |-> Obj([y |-> One])])]

MergeTable(keys) ==
    [m \in Strategies \X keys \X keys |->
        LET v == IF m[2] = m[3] THEN ValueOf[m[2]]
                 ELSE M!MergeHashesForKeys(m[1], ValueOf[m[2]], ValueOf[m[3]])
        IN  IF M!Croaked(v) THEN v.croak ELSE CHOOSE k \in keys : ValueOf[k] = v]

\* insert_range of the addresses 1-2 and 1-3.
Ranges == { << <<0, 1>>, <<1, 0>> >>, << <<0, 1>>, <<1>> >> }

MergeKeys == {"a", "b", "ab", "s"}
MergeMerge == MergeTable(MergeKeys)
MergeInserts ==
    Calls(Single, {"a"}, {"recurse"}) \cup Calls(Ranges, {"b"}, {"recurse"})
        \cup Calls({<< << >> >>, << <<0>> >>}, {"b"}, {"recurse"})
        \cup Calls({<< <<1>> >>}, {"s"}, {"none"})
MergeOptions == {[alias |-> FALSE, reserved |-> FALSE], [alias |-> TRUE, reserved |-> TRUE]}
MergeRoot == <<0>>
MergeAliases == << <<1>> >>
MergeReserved == << <<0, 1>> >>

\* Hashes whose merge fails below the top level.
CroakKeys == {"a", "h"}
CroakMerge == MergeTable(CroakKeys)
CroakInserts == Calls(Single, CroakKeys, {"recurse"})

-----------------------------------------------------------------------------
(* Aliases and reserved networks.  Four bits: an IPv4 subtree of two       *)
(* addresses, one of them reserved; an alias as deep as its root, as       *)
(* ::ffff:0:0/96 is, and one less deep, as 2002::/16; a reserved network   *)
(* outside.                                                                *)

AliasKeys == {"a"}
AliasMerge == MergeTable(AliasKeys)
AliasInserts == Calls(Single, AliasKeys, {"recurse"})
AliasOptions == {[alias |-> TRUE, reserved |-> TRUE]}
AliasRoot == <<0, 0, 0>>
AliasAliases == << <<0, 0, 1>>, <<1, 0>> >>
AliasReserved == << <<0, 0, 0, 1>>, <<1, 1, 1>> >>

=============================================================================
