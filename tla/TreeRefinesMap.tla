--------------------------- MODULE TreeRefinesMap ---------------------------
(***************************************************************************)
(* The search tree implements AddressMap: the mapping from tree states to  *)
(* map states.                                                             *)
(***************************************************************************)
EXTENDS SearchTree

LeafTypes == {"EMPTY", "DATA", "FIXED_EMPTY", "ALIAS"}

\* The key of the leaf record that address a lies in, aliases not followed.
KeyAt(a) ==
    IF op = "freed" THEN NoKey
    ELSE LET n == CHOOSE n \in 0..W : recs[SubSeq(a, 1, n)].type \in LeafTypes
         IN  recs[SubSeq(a, 1, n)].key

\* What new_tree's options lock.
Listed(s) == {s[i] : i \in 1..Len(s)}
LockedBy ==
    [o \in Options |->
        LET nets == (IF o.alias THEN Listed(Aliases) ELSE {})
                        \cup (IF o.reserved THEN Listed(Reserved) ELSE {})
        IN  {a \in Address : \E n \in nets : Covers(n, a)}]
ClosedBy ==
    [o \in Options |->
        {n \in Prefix : o.alias /\ \E l \in Listed(Aliases) : Covers(l, n)}]

InUse == op \notin {"freed", "new_tree"}
Locked == IF InUse THEN LockedBy[opts] ELSE {}
Closed == IF InUse THEN ClosedBy[opts] ELSE {}

Job ==
    CASE op = "insert" -> [kind |-> "insert", key |-> new.key, strategy |-> strategy]
      [] op = "remove" -> [kind |-> "remove"]
      [] OTHER -> [kind |-> "none"]
Busy == op \in {"insert", "remove"}
Nets == IF Busy THEN [i \in 1..Len(queue) |-> queue[i].net] ELSE << >>

\* Address a comes after `at' in the order of the traversal, right first.
Later(a) ==
    \E i \in 1..Len(at) :
        at[i] = 1 /\ a[i] = 0 /\ \A j \in 1..(i - 1) : a[j] = at[j]
Remaining(a) == Covers(net, a) /\ (Later(a) \/ (dir = "down" /\ Covers(at, a)))
Todo == IF Busy THEN {a \in Address \ Locked : Remaining(a)} ELSE {}

AddressKeys == [a \in Address |-> KeyAt(a)]
Status == IF ~InUse THEN "absent" ELSE IF Busy THEN "busy" ELSE "idle"

Map == INSTANCE AddressMap
    WITH amap   <- AddressKeys,
         locked <- Locked,
         closed <- Closed,
         status <- Status,
         job    <- Job,
         nets   <- Nets,
         todo   <- Todo

\* Whatever the shape of the tree and the order of the recursion, a call
\* combines its record exactly once with every address of its networks that
\* is neither reserved nor aliased, changes no other address, and splitting
\* and trimming change none.
ImplementsMap == Map!Spec

=============================================================================
