----------------------------- MODULE SearchTree -----------------------------
(***************************************************************************)
(* The binary search tree of c/tree.c and its reference-counted data       *)
(* table: new_tree, insert_network, insert_range, remove_network and       *)
(* free_tree.  One step is one activation of the recursive                 *)
(* insert_record_into_next_node (down) or its return (up), so that the     *)
(* states between the parts of one insert are visible.                     *)
(*                                                                         *)
(* A record is named by its position, the sequence of bits that leads from *)
(* the root to it.  A NODE or FIXED_NODE record at p owns the two records  *)
(* at p's children; every other position below a leaf is ABSENT.           *)
(***************************************************************************)
EXTENDS Integers, Sequences, FiniteSets

CONSTANTS
    W,              \* bits of an address (32 or 128 in the code)
    Key,            \* the data: each key is the digest of one value
    NoKey,          \* no key
    Merge,          \* [strategy, inserted key, present key] -> merged key or croak
    Inserts,        \* the insert calls made: networks, key, merge strategy
    V4Root,         \* position of the IPv4 subtree (::/96 in the code)
    Aliases,        \* ipv4_aliases: positions that alias V4Root
    Reserved,       \* reserved_networks_ipv4/6: positions of reserved networks
    Options         \* the new_tree options in use: [alias, reserved]

Bit == {0, 1}
Prefix == UNION {[1..n -> Bit] : n \in 0..W}
Address == [1..W -> Bit]

Strategies == {"none", "toplevel", "recurse", "add_only"}

\* Outcomes of a merge that are not a key: the croak of
\* merge_hashes_for_keys, and the croaks of the functions it calls.
NotHashes == "not_hashes"
Mismatch == "mismatch"

ASSUME WidthAssumption == W \in Nat \ {0}
ASSUME KeyAssumption ==
    /\ NoKey \notin Key \cup {NotHashes, Mismatch}
    /\ NotHashes \notin Key /\ Mismatch \notin Key
ASSUME MergeAssumption ==
    Merge \in [Strategies \X Key \X Key -> Key \cup {NotHashes, Mismatch}]
ASSUME NetworkAssumption ==
    /\ V4Root \in Prefix /\ Len(V4Root) < W
    /\ Aliases \in Seq(Prefix)
    /\ Reserved \in Seq(Prefix)
ASSUME InsertAssumption ==
    Inserts \subseteq [nets : Seq(Prefix) \ {<< >>}, key : Key, strategy : Strategies]
ASSUME OptionAssumption == Options \subseteq [alias : BOOLEAN, reserved : BOOLEAN]

-----------------------------------------------------------------------------
(* Positions *)

Covers(p, q) == Len(p) <= Len(q) /\ \A i \in 1..Len(p) : p[i] = q[i]
Below(p, q) == Covers(p, q) /\ Len(p) < Len(q)
Child(p, b) == Append(p, b)
Parent(p) == SubSeq(p, 1, Len(p) - 1)

\* ipv4_aliases (tree.c:575-581): no alias is longer than the IPv4 root, ::/96,
\* which is not the root and lies in none of them, and none lies in another.
ASSUME AliasAssumption ==
    /\ V4Root # << >> /\ \A i \in 1..Len(V4Root) : V4Root[i] = 0
    /\ \A i \in 1..Len(Aliases) :
          Len(Aliases[i]) <= Len(V4Root) /\ ~Covers(Aliases[i], V4Root)
    /\ \A i, j \in 1..Len(Aliases) : i # j => ~Covers(Aliases[i], Aliases[j])

-----------------------------------------------------------------------------
(* Records *)

FixedTypes == {"FIXED_EMPTY", "FIXED_NODE", "ALIAS"}
PlainTypes == {"ABSENT", "EMPTY", "NODE"} \cup FixedTypes
Record == [type : PlainTypes, key : {NoKey}] \cup [type : {"DATA"}, key : Key]

Plain(t) == [type |-> t, key |-> NoKey]
Data(k) == [type |-> "DATA", key |-> k]
HasNode(r) == r.type \in {"NODE", "FIXED_NODE"}

\* What the insert loop is given: a network and the record to put there.
Item == [net : Prefix, rec : Record]
Items(nets, r) == [i \in 1..Len(nets) |-> [net |-> nets[i], rec |-> r]]

Running == {"new_tree", "insert", "remove"}

VARIABLES
    recs,       \* the tree: a record for every position
    table,      \* data_table: reference count and whether data_sv is set
    cache,      \* merge_cache
    opts,       \* the options this tree was made with
    op,         \* the call in progress, "idle", or "freed"
    strategy,   \* its merge strategy
    held,       \* the key insert_network stored and holds a reference to
    queue,      \* the records the call still has to insert, current one first
    at,         \* the record insert_record_into_next_node is at
    dir         \* "down" on entry to that record, "up" on return from it

vars == <<recs, table, cache, opts, op, strategy, held, queue, at, dir>>

-----------------------------------------------------------------------------
(* The data table.  An entry exists while its count is positive; one       *)
(* created by increment alone has no data_sv yet.                          *)

Inc(t, k) == [t EXCEPT ![k].count = @ + 1]
Store(t, k) == [t EXCEPT ![k] = [count |-> @.count + 1, sv |-> TRUE]]
Drop(t, n) ==
    [k \in Key |-> [count |-> t[k].count - n[k],
                    sv |-> t[k].sv /\ t[k].count # n[k]]]
Dec(t, k) == Drop(t, [j \in Key |-> IF j = k THEN 1 ELSE 0])

\* free_record_value on the record at p: one reference less for every DATA
\* record in its subtree.
Release(t, p) ==
    Drop(t, [k \in Key |-> Cardinality({q \in Prefix : Covers(p, q) /\ recs[q] = Data(k)})])

-----------------------------------------------------------------------------
(* Reshaping the tree *)

GraftKeepsNode(p, r) == [recs EXCEPT ![p] = r]

\* Put r at p and drop what was below it; a new FIXED_NODE brings the two
\* EMPTY records of new_node.
Graft(p, r) ==
    [q \in Prefix |->
        IF q = p THEN r
        ELSE IF ~Covers(p, q) THEN recs[q]
        ELSE IF r.type = "FIXED_NODE" /\ Len(q) = Len(p) + 1 THEN Plain("EMPTY")
        ELSE Plain("ABSENT")]

\* new_node_from_record: a leaf at p becomes a node of type t whose records
\* are both copies of it.
Split(p, t) ==
    [recs EXCEPT ![p] = Plain(t), ![Child(p, 0)] = recs[p], ![Child(p, 1)] = recs[p]]

-----------------------------------------------------------------------------
(* The call in progress *)

new == Head(queue).rec
net == Head(queue).net

\* Is the whole of the record at `at' inside the network to insert?
Inside == Len(at) >= Len(net)

NoTree == [p \in Prefix |-> Plain("ABSENT")]

\* The call returns to Perl.
Return ==
    /\ op' = "idle" /\ strategy' = "none" /\ held' = NoKey
    /\ queue' = << >> /\ at' = << >> /\ dir' = "down"

\* insert_network and insert_range drop the reference they hold on return.
TableKept == table
TableOnReturn == IF held = NoKey THEN table ELSE Dec(table, held)

\* The call ends with a status; a failing new_tree leaves no tree.
EndCall(failed) ==
    /\ op' = IF failed /\ op = "new_tree" THEN "freed" ELSE "idle"
    /\ recs' = IF failed /\ op = "new_tree" THEN NoTree ELSE recs
    /\ table' = TableOnReturn
    /\ strategy' = "none" /\ held' = NoKey
    /\ queue' = << >> /\ at' = << >> /\ dir' = "down"
    /\ UNCHANGED <<cache, opts>>

-----------------------------------------------------------------------------
(* new_tree: the root is EMPTY; the IPv4 root and its aliases are inserted  *)
(* first, the reserved networks after them.                                *)

AliasItems(o) ==
    IF o.alias
    THEN Items(<<V4Root>>, Plain("FIXED_NODE")) \o Items(Aliases, Plain("ALIAS"))
    ELSE << >>
ReservedItems(o) == IF o.reserved THEN Items(Reserved, Plain("FIXED_EMPTY")) ELSE << >>
NewTreeQueue(o) == AliasItems(o) \o ReservedItems(o)

EmptyTree == [p \in Prefix |-> Plain(IF p = << >> THEN "EMPTY" ELSE "ABSENT")]
EmptyTable == [k \in Key |-> [count |-> 0, sv |-> FALSE]]
EmptyCache == [m \in Strategies \X Key \X Key |-> NoKey]

Init ==
    /\ opts \in Options
    /\ recs = EmptyTree /\ table = EmptyTable /\ cache = EmptyCache
    /\ queue = NewTreeQueue(opts)
    /\ op = IF queue = << >> THEN "idle" ELSE "new_tree"
    /\ strategy = "none" /\ held = NoKey /\ at = << >> /\ dir = "down"

NewTree ==
    /\ op = "freed"
    /\ opts' \in Options
    /\ recs' = EmptyTree /\ table' = EmptyTable /\ cache' = EmptyCache
    /\ queue' = NewTreeQueue(opts')
    /\ op' = IF queue' = << >> THEN "idle" ELSE "new_tree"
    /\ strategy' = "none" /\ held' = NoKey /\ at' = << >> /\ dir' = "down"

-----------------------------------------------------------------------------
(* The calls *)

\* insert_network and insert_range: store the data, holding one reference,
\* and insert it at each network in turn.
InsertNetworks(c) ==
    /\ op = "idle"
    /\ op' = "insert" /\ strategy' = c.strategy /\ held' = c.key
    /\ table' = Store(table, c.key)
    /\ queue' = Items(c.nets, Data(c.key))
    /\ UNCHANGED <<recs, cache, opts, at, dir>>

RemoveNetwork(n) ==
    /\ op = "idle"
    /\ op' = "remove" /\ strategy' = "none"
    /\ queue' = Items(<<n>>, Plain("EMPTY"))
    /\ UNCHANGED <<recs, table, cache, opts, held, at, dir>>

\* free_tree frees every record, whatever its type, and the merge cache.
FreeTree ==
    /\ op = "idle"
    /\ op' = "freed"
    /\ table' = Release(table, << >>)
    /\ recs' = NoTree
    /\ cache' = EmptyCache
    /\ UNCHANGED <<opts, strategy, held, queue, at, dir>>

-----------------------------------------------------------------------------
(* insert_record_into_next_node on the way down *)

Down == op \in Running /\ dir = "down"

SettlesBelow ==
    /\ Down /\ Len(at) > Len(net)
    /\ \/ recs[at].type \in {"EMPTY", "DATA"}
       \/ recs[at].type = "NODE" /\ strategy = "none"

SettlesOnFixed ==
    /\ Down /\ Inside
    /\ \/ recs[at].type \in {"EMPTY", "DATA"}
       \/ HasNode(recs[at]) /\ strategy = "none"

\* The record belongs here and may be replaced.
Settles ==
    /\ Down /\ Inside
    /\ \/ recs[at].type \in {"EMPTY", "DATA"}
       \/ recs[at].type = "NODE" /\ strategy = "none"

SkipsEmpty == recs[at].type = "EMPTY" /\ strategy = "add_only"

\* maybe_merge_records has two different values to merge.
Merges ==
    /\ new.type = "DATA" /\ strategy # "none"
    /\ recs[at].type = "DATA" /\ recs[at].key # new.key

\* insert_record_into_current_record without a merge: what was here is
\* freed, then the new record takes its own reference.
SetRecord ==
    /\ Settles /\ ~SkipsEmpty /\ ~Merges
    /\ recs' = Graft(at, new)
    /\ table' = LET t == Release(table, at)
                IN  IF new.type = "DATA" THEN Inc(t, new.key) ELSE t
    /\ dir' = "up"
    /\ UNCHANGED <<cache, opts, op, strategy, held, queue, at>>

MergeArgs == <<strategy, new.key, recs[at].key>>
CacheHitUnchecked == cache[MergeArgs] # NoKey
CacheHit == cache[MergeArgs] # NoKey /\ table[cache[MergeArgs]].count > 0
Merged == IF CacheHit THEN cache[MergeArgs] ELSE Merge[MergeArgs]

\* The merged value is stored, or found in the table through the cache, and
\* referenced before the old value is released; that reference is given back
\* once the record has its own.
MergeRecord ==
    /\ Settles /\ Merges /\ Merged \in Key
    /\ LET stored   == IF CacheHit THEN Inc(table, Merged) ELSE Store(table, Merged)
           released == Release(stored, at)
       IN  table' = Dec(Inc(released, Merged), Merged)
    /\ recs' = Graft(at, Data(Merged))
    /\ cache' = [cache EXCEPT ![MergeArgs] = Merged]
    /\ dir' = "up"
    /\ UNCHANGED <<opts, op, strategy, held, queue, at>>

\* The merge croaks: control leaves the call at once, past the trimming and
\* past the caller's own release.  Only merge_hashes_for_keys gives back the
\* caller's reference first.
MergeCroaks ==
    /\ Settles /\ Merges /\ Merged \notin Key
    /\ table' = IF Merged = NotHashes THEN Dec(table, new.key) ELSE table
    /\ cache' = [cache EXCEPT ![MergeArgs] = NoKey]
    /\ Return
    /\ UNCHANGED <<recs, opts>>

\* Success with nothing done: add-only on an EMPTY record, any record in or
\* around a reserved network, an alias inside the network.
Ignore ==
    /\ Down
    /\ \/ Settles /\ SkipsEmpty
       \/ recs[at].type = "FIXED_EMPTY"
       \/ recs[at].type = "ALIAS" /\ Len(at) > Len(net)
    /\ dir' = "up"
    /\ UNCHANGED <<recs, table, cache, opts, op, strategy, held, queue, at>>

\* The statuses other than success, which unwind the recursion untouched:
\* a fixed node on a fixed node, an alias overwritten or inserted into.
Refused ==
    \/ recs[at].type = "ALIAS" /\ Len(at) <= Len(net)
    \/ recs[at].type = "FIXED_NODE" /\ new.type = "FIXED_NODE" /\ Len(at) = Len(net)

Refuse == Down /\ Refused /\ EndCall(TRUE)

\* The nodes above an alias, a fixed node or a reserved network become fixed.
NodeTypeUnmarked == IF recs[at].type = "FIXED_NODE" THEN "FIXED_NODE" ELSE "NODE"
NodeType ==
    IF new.type \in FixedTypes \/ recs[at].type = "FIXED_NODE" THEN "FIXED_NODE" ELSE "NODE"

\* A leaf that is split refers to its data twice where it did once.
CountBothCopies ==
    IF recs[at].type = "DATA" THEN Inc(Inc(table, recs[at].key), recs[at].key) ELSE table
CountCopy == IF recs[at].type = "DATA" THEN Inc(table, recs[at].key) ELSE table

\* Go on to the next node, making one of a leaf.  Inside the network both
\* records are visited, the right one first.
Descend ==
    /\ Down /\ ~Settles /\ ~Refused
    /\ recs[at].type \in {"EMPTY", "DATA", "NODE", "FIXED_NODE"}
    /\ recs' = IF HasNode(recs[at])
               THEN [recs EXCEPT ![at] = Plain(NodeType)] ELSE Split(at, NodeType)
    /\ table' = CountCopy
    /\ at' = Child(at, IF Inside THEN 1 ELSE net[Len(at) + 1])
    /\ UNCHANGED <<cache, opts, op, strategy, held, queue, dir>>

-----------------------------------------------------------------------------
(* ... and on the way up *)

Up == op \in Running /\ dir = "up" /\ at # << >>

LeftIsNextBelow == at[Len(at)] = 1 /\ Len(Parent(at)) > Len(net)
LeftIsNextAgain == Len(Parent(at)) >= Len(net)
LeftIsNext == at[Len(at)] = 1 /\ Len(Parent(at)) >= Len(net)

GoLeft ==
    /\ Up /\ LeftIsNext
    /\ at' = Child(Parent(at), 0)
    /\ dir' = "down"
    /\ UNCHANGED <<recs, table, cache, opts, op, strategy, held, queue>>

IdenticalData(p) ==
    /\ recs[Child(p, 0)] = recs[Child(p, 1)]
    /\ recs[Child(p, 0)].type = "DATA"

\* The node's two records say the same: both EMPTY, or the same data.
Identical(p) ==
    /\ recs[Child(p, 0)] = recs[Child(p, 1)]
    /\ recs[Child(p, 0)].type \in {"EMPTY", "DATA"}
Trimmable(p) == recs[p].type = "NODE" /\ Identical(p)

\* Trim upwards: the record takes the value of its node's records, whose
\* reference it takes before the node is freed.
Trim ==
    /\ Up /\ ~LeftIsNext
    /\ LET p == Parent(at)
           r == recs[Child(p, 0)]
       IN  IF Trimmable(p)
           THEN /\ recs' = Graft(p, r)
                /\ table' = Release(IF r.type = "DATA" THEN Inc(table, r.key) ELSE table, p)
           ELSE UNCHANGED <<recs, table>>
    /\ at' = Parent(at)
    /\ UNCHANGED <<cache, opts, op, strategy, held, queue, dir>>

\* The insert of one record has returned from the root.
NextRecord ==
    /\ op \in Running /\ dir = "up" /\ at = << >> /\ Len(queue) > 1
    /\ queue' = Tail(queue) /\ dir' = "down"
    /\ UNCHANGED <<recs, table, cache, opts, op, strategy, held, at>>

Finish ==
    /\ op \in Running /\ dir = "up" /\ at = << >> /\ Len(queue) = 1
    /\ EndCall(FALSE)

-----------------------------------------------------------------------------
\* The steps of a call once it has begun.
Step ==
    \/ SetRecord \/ MergeRecord \/ MergeCroaks \/ Ignore \/ Refuse \/ Descend
    \/ GoLeft \/ Trim \/ NextRecord \/ Finish

Call ==
    \/ \E c \in Inserts : InsertNetworks(c)
    \/ \E n \in Prefix : RemoveNetwork(n)
    \/ FreeTree
    \/ NewTree

Next == Step \/ Call

\* A call runs on its caller's thread until it returns; callers owe nothing.
Spec == Init /\ [][Next]_vars /\ WF_vars(Step)

-----------------------------------------------------------------------------
(* Lookup: lookup_ip_address and find_record_for_network *)

OnwardStopsAtAlias(p, b) == IF HasNode(recs[p]) THEN Child(p, b) ELSE p
OnwardKeepsBit(p, b) ==
    CASE HasNode(recs[p]) -> Child(p, b)
      [] recs[p].type = "ALIAS" -> V4Root
      [] OTHER -> p

\* From the record at p by bit b: an alias goes on in the IPv4 subtree, a leaf
\* ends the walk.
Onward(p, b) ==
    CASE HasNode(recs[p]) -> Child(p, b)
      [] recs[p].type = "ALIAS" -> Child(V4Root, b)
      [] OTHER -> p

\* The positions visited on the way to address a.
Walk(a) ==
    LET w[i \in 0..W] == IF i = 0 THEN << >> ELSE Onward(w[i - 1], a[i])
    IN  w
FoundRecord(a) == recs[Walk(a)[W]]

-----------------------------------------------------------------------------
(* Properties *)

\* Every variable has its type; counts may be any integer, so that one
\* decrement too many would show.
TypeOK ==
    /\ recs \in [Prefix -> Record]
    /\ table \in [Key -> [count : Int, sv : BOOLEAN]]
    /\ cache \in [Strategies \X Key \X Key -> Key \cup {NoKey}]
    /\ opts \in [alias : BOOLEAN, reserved : BOOLEAN]
    /\ op \in Running \cup {"idle", "freed"}
    /\ strategy \in Strategies
    /\ held \in Key \cup {NoKey}
    /\ queue \in Seq(Item)
    /\ at \in Prefix
    /\ dir \in {"down", "up"}

\* The records form one tree: a position has a record exactly when it is the
\* root or its parent has a node.  A node freed and still pointed to, or
\* replaced and never freed, breaks it (free_node_and_subnodes).
Shape ==
    \A p \in Prefix :
        recs[p].type # "ABSENT" <=>
            op # "freed" /\ (p = << >> \/ HasNode(recs[Parent(p)]))

\* Above a fixed record there are only fixed nodes, so no NODE that an insert
\* replaces or a trim frees holds one: the statuses "Attempted to free a
\* fixed node. This should never happen" (tree.c:2182-2189) never arise.
FixedPath ==
    \A p, q \in Prefix :
        Below(p, q) /\ recs[q].type \in FixedTypes => recs[p].type = "FIXED_NODE"

KeepsFixed ==
    \A p \in Prefix :
        recs[p].type \in FixedTypes /\ op' # "freed" => recs'[p] = recs[p]

\* Aliases keep their target and reserved networks stay reserved: no step of
\* any call but free_tree changes a record once it is fixed.
FixedForever == [][KeepsFixed]_vars

References(k) == Cardinality({p \in Prefix : recs[p] = Data(k)})

\* The reference count of a data table entry is at every moment the number of
\* records that point to it, plus the reference insert_network holds: the
\* value is neither freed while in use nor kept when no record is left.
CountsExact ==
    \A k \in Key : table[k].count = References(k) + (IF held = k THEN 1 ELSE 0)

\* Every DATA record has its value in the table: no entry is deleted and made
\* anew, without a value, by increment_data_reference_count (tree.c:454-475).
DataStored == \A p \in Prefix : recs[p].type = "DATA" => table[recs[p].key].sv

\* Between calls no node is left whose two records are both empty or hold the
\* same data: such a node has been replaced by its record (tree.c:919-965,
\* Tree.t:213-215).
Trimmed ==
    op = "idle" =>
        \A p \in Prefix :
            recs[p].type = "NODE" /\ recs[Child(p, 0)] = recs[Child(p, 1)] =>
                HasNode(recs[Child(p, 0)])

\* A lookup ends at a leaf, never at the node or alias on which
\* lookup_ip_address croaks (tree.c:1267-1274) - also between the steps of
\* an insert.
LookupEndsAtLeaf ==
    op \notin {"freed", "new_tree"} =>
        \A a \in Address : FoundRecord(a).type \in {"EMPTY", "FIXED_EMPTY", "DATA"}

\* An address in an aliased network has the data of the IPv4 address in the
\* bits after the alias, whenever that data was inserted.
AliasesAgree ==
    op \notin {"freed", "new_tree"} /\ opts.alias =>
        \A i \in 1..Len(Aliases), a, b \in Address :
            /\ Covers(Aliases[i], a) /\ Covers(V4Root, b)
            /\ \A j \in 1..(W - Len(V4Root)) : a[Len(Aliases[i]) + j] = b[Len(V4Root) + j]
            => FoundRecord(a) = FoundRecord(b)

\* free_tree leaves nothing in the data table (tree.c:2121-2125).
NothingLeft == op = "freed" => \A k \in Key : table[k].count = 0

\* Every call returns.
CallsReturn == (op \in Running) ~> (op \in {"idle", "freed"})

=============================================================================
