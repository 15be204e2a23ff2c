----------------------------- MODULE MergeData -----------------------------
(***************************************************************************)
(* How two values are merged (tree.c: merge_hashes_for_keys, merge_hashes, *)
(* merge_new_from_hash_into_hash, merge_values and merge_arrays).          *)
(*                                                                         *)
(* A value is a Perl scalar, a reference to a hash or one to an array.     *)
(* The order in which a hash is iterated does not show in the result.      *)
(***************************************************************************)
EXTENDS Integers, Sequences

Scalar(v) == [scalar |-> v]
Hash(f) == [hash |-> f]
Array(s) == [array |-> s]
IsHash(v) == "hash" \in DOMAIN v
IsArray(v) == "array" \in DOMAIN v
IsRef(v) == IsHash(v) \/ IsArray(v)          \* SvROK

NotHashes == [croak |-> "not_hashes"]
Mismatch == [croak |-> "mismatch"]
Croaked(v) == "croak" \in DOMAIN v

RECURSIVE MergeValues(_, _, _)

MergeHashesAddingAll(s, from, into) ==
    LET merged  == [k \in DOMAIN into \cup DOMAIN from |->
                      CASE k \notin DOMAIN from -> into[k]
                        [] k \notin DOMAIN into -> from[k]
                        [] s \in {"recurse", "add_only"} -> MergeValues(s, from[k], into[k])
                        [] OTHER -> from[k]]
    IN  IF \E k \in DOMAIN merged : Croaked(merged[k]) THEN Mismatch ELSE Hash(merged)

\* A new hash: a copy of `into', over which `from' is laid.
MergeHashes(s, from, into) ==
    LET skipped == {k \in DOMAIN from \ DOMAIN into : s = "add_only" /\ IsRef(from[k])}
        merged  == [k \in DOMAIN into \cup (DOMAIN from \ skipped) |->
                      CASE k \notin DOMAIN from -> into[k]
                        [] k \notin DOMAIN into -> from[k]
                        [] s \in {"recurse", "add_only"} -> MergeValues(s, from[k], into[k])
                        [] OTHER -> from[k]]
    IN  IF \E k \in DOMAIN merged : Croaked(merged[k]) THEN Mismatch ELSE Hash(merged)

AppendArrays(s, from, into) == Array(into \o from)
CutArrays(s, from, into) ==
    Array([i \in 1..Len(from) |->
              IF i > Len(into) THEN from[i] ELSE MergeValues(s, from[i], into[i])])

\* Elements are merged by position; with add_only the first new reference
\* ends the array.
MergeArrays(s, from, into) ==
    LET longest == IF Len(from) > Len(into) THEN Len(from) ELSE Len(into)
        stops   == {i \in Len(into) + 1..Len(from) : s = "add_only" /\ IsRef(from[i])}
        merged  == [i \in {j \in 1..longest : \A k \in stops : j < k} |->
                      CASE i > Len(from) -> into[i]
                        [] i > Len(into) -> from[i]
                        [] OTHER -> MergeValues(s, from[i], into[i])]
    IN  IF \E i \in DOMAIN merged : Croaked(merged[i]) THEN Mismatch ELSE Array(merged)

MergeValues(s, from, into) ==
    CASE IsRef(from) # IsRef(into) -> Mismatch
      [] ~IsRef(from) /\ ~IsRef(into) -> from
      [] IsHash(from) /\ IsHash(into) -> MergeHashes(s, from.hash, into.hash)
      [] IsArray(from) /\ IsArray(into) -> MergeArrays(s, from.array, into.array)
      [] OTHER -> Mismatch

MergeHashesForKeys(s, from, into) ==
    IF IsHash(from) /\ IsHash(into) THEN MergeHashes(s, from.hash, into.hash)
    ELSE NotHashes

=============================================================================
