---------------------------- MODULE MCTreeObject ----------------------------
(***************************************************************************)
(* Two objects and two C trees.  The arguments have every way to name a    *)
(* merge strategy, and the ip_version and record sizes that are refused or *)
(* cut; the networks are of both families, reserved or not, with prefixes  *)
(* that are in range, out of it, cut to eight bits, or no numbers.  Trees  *)
(* with data in reserved networks come from the old file.                  *)
(***************************************************************************)
EXTENDS TreeObject, TLC

Base == [ip_version |-> 6, record_size |-> 24, database_type |-> "A"]
MCGiven ==
    {Base @@ [merge_strategy |-> "recurse"],
     Base @@ [merge_strategy |-> "none", merge_record_collisions |-> TRUE],
     [ip_version |-> 260] @@ Base @@ [merge_record_collisions |-> TRUE],
     [ip_version |-> 5] @@ Base, [record_size |-> 36] @@ Base}

MCOverrides ==
    {<< >>, [record_size |-> 36],
     [merge_strategy |-> "none", database_type |-> "B", record_size |-> 28]}

MCOldFiles ==
    {[ip_version |-> 260] @@ Base @@ [merge_record_collisions |-> TRUE]}

Net(f, is, v, r) ==
    [family |-> f, prefix |-> [is |-> is, value |-> v], reserved |-> r]
MCNamed ==
    {Net(4, "number", 24, TRUE), Net(4, "number", 33, FALSE), Net(4, "number", -1, FALSE),
     Net(6, "number", 128, FALSE), Net(6, "number", 280, FALSE), Net(6, "fraction", 24, FALSE),
     Net(4, "undef", 0, TRUE), Net(4, "no number", 0, FALSE)}

MCOptions ==
    {<< >>, [merge_strategy |-> "all"], [insert_only_if_parent_exists |-> TRUE],
     [force_overwrite |-> TRUE], [force_overwrite |-> TRUE, merge_strategy |-> "recurse"]}

Symmetry == Permutations(Object) \cup Permutations(Handle)

=============================================================================
