---------------------------- MODULE MergeRecord ----------------------------
(***************************************************************************)
(* One DATA record of the tree and the values that are inserted over it,   *)
(* one after the other: maybe_merge_records and the merge functions.       *)
(***************************************************************************)
EXTENDS MergeData

CONSTANTS
    Values,     \* the values that are inserted
    Strategy    \* the merge strategies they are inserted with

VARIABLES
    record,     \* its value
    last        \* the last insert: strategy, value, and what it was merged into

vars == <<record, last>>

Init == record \in Values /\ last = << >>

\* maybe_merge_records: a strategy of none, or the same data again, replaces;
\* a merge that croaks leaves the record alone.
Insert(s, v) ==
    LET merged == IF s = "none" \/ v = record THEN v ELSE MergeHashesForKeys(s, v, record)
    IN  /\ record' = IF Croaked(merged) THEN record ELSE merged
        /\ last' = IF Croaked(merged) THEN << >> ELSE <<s, v, record>>

Next == \E s \in Strategy, v \in Values : Insert(s, v)

Spec == Init /\ [][Next]_vars

-----------------------------------------------------------------------------
(* Properties *)

Children(v) ==
    CASE IsHash(v) -> v.hash [] IsArray(v) -> v.array [] OTHER -> << >>

\* The paths of a value that lead to a reference, and to a scalar.
RECURSIVE Paths(_, _)
Paths(v, refs) ==
    (IF IsRef(v) = refs THEN {<< >>} ELSE {})
    \cup UNION {{<<c>> \o p : p \in Paths(Children(v)[c], refs)} : c \in DOMAIN Children(v)}

RECURSIVE Follow(_, _)
Follow(v, p) == IF p = << >> THEN v ELSE Follow(Children(v)[Head(p)], Tail(p))

Merging(s) == last # << >> /\ last[1] = s /\ last[2] # last[3]
from == last[2]
into == last[3]

\* A recursive merge has the references and scalars of both values and no
\* others, and every scalar of the inserted value; the rest are the old ones.
RecurseJoins ==
    Merging("recurse") =>
        /\ \A refs \in BOOLEAN : Paths(record, refs) = Paths(from, refs) \cup Paths(into, refs)
        /\ \A p \in Paths(record, FALSE) :
              Follow(record, p) =
                  IF p \in Paths(from, FALSE) THEN Follow(from, p) ELSE Follow(into, p)

\* "no new hash or array references will be created within the data record for
\* the new data" (Tree.pm:648), and nothing the record had is lost.
AddOnlyAddsNoReference ==
    Merging("add_only") =>
        /\ Paths(record, TRUE) = Paths(into, TRUE)
        /\ Paths(into, FALSE) \subseteq Paths(record, FALSE)
        /\ \A p \in Paths(record, FALSE) :
              Follow(record, p) =
                  IF p \in Paths(from, FALSE) THEN Follow(from, p) ELSE Follow(into, p)

\* To insert a value again at once changes nothing, whatever the strategy: the
\* record's children after a split, and the networks insert_range covers
\* twice, do not depend on how often they are merged.
InsertTwiceIsInsertOnce ==
    last # << >> /\ last[1] # "none" /\ from # record =>
        MergeHashesForKeys(last[1], from, record) = record

=============================================================================
