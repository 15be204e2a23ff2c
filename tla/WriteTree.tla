----------------------------- MODULE WriteTree -----------------------------
(***************************************************************************)
(* What is done with a tree between inserts: write_tree of Tree.pm with    *)
(* write_search_tree of c/tree.c, which number the nodes, encode their     *)
(* records and have the serializer store the data; node_count; and         *)
(* iterate, whose callbacks may call all of these again, or die.  What a   *)
(* callback that changes the tree does is left out: the recursion goes on  *)
(* with the nodes it has.                                                  *)
(*                                                                         *)
(* The metadata's node_count numbers the same tree once more and is the    *)
(* number of nodes written.  The values are maps the serializer can store; *)
(* those it dies of are in Serializer.                                     *)
(***************************************************************************)
EXTENDS TreeIteration

CONSTANTS
    Size,           \* bytes each value takes in the data section
    PointerSize,    \* bytes of a pointer
    MaxRecord,      \* max_record_value: the largest that record_size can hold
    Word,           \* 2^32
    WriteLimit,     \* bound: how often one tree is written
    NestLimit       \* bound: calls within callbacks of iterate within each other

\* A key is a digest, of a fixed length.
ASSUME DigestAssumption == IsFiniteSet(Key)
ASSUME SizeAssumption == Size \in [Key -> Nat \ {0}] /\ PointerSize \in Nat \ {0}
ASSUME RecordAssumption == MaxRecord \in Nat /\ Word \in Nat /\ MaxRecord < Word

DATA_SECTION_SEPARATOR_SIZE == 16

VARIABLES
    task,       \* "none", "number", "write", "written" or "iterate"
    purpose,    \* what the nodes are numbered for
    stack,      \* the frames of iterate_tree
    number,     \* node->number
    node_count,
    file,       \* the nodes written: pairs of record values
    section,    \* the serializer's buffer, kept from one write to the next
    pointers,   \* data_pointer_cache of this write
    seen,       \* what iterate has reported
    calls,      \* callbacks of the node due that were called, the last one not returned
    outer,      \* the iterations whose callbacks made the call in progress
    writes      \* how often this tree has been written

tvars == <<task, purpose, stack>>
ivars == <<seen, calls, outer>>
wvars == <<tvars, number, node_count, file, section, pointers, ivars, writes>>

None == -1
Rest ==
    /\ task' = "none" /\ purpose' = "none" /\ stack' = << >>
    /\ file' = << >> /\ pointers' = [k \in Key |-> None]
    /\ seen' = << >> /\ calls' = 0 /\ outer' = << >>
    /\ UNCHANGED <<number, node_count>>

\* The call that ends was made by a callback, which returns to its iteration.
Resume ==
    /\ task' = "iterate" /\ purpose' = "iterate"
    /\ stack' = Head(outer).stack /\ seen' = Head(outer).seen
    /\ calls' = Head(outer).calls /\ outer' = Tail(outer)
    /\ file' = << >> /\ pointers' = [k \in Key |-> None]
    /\ UNCHANGED <<number, node_count>>

Ends == IF outer = << >> THEN Rest ELSE Resume
\* An error is caught by the callback, or ends its iteration too.
Croaks == Ends \/ Rest

WriteInit ==
    /\ Init
    /\ task = "none" /\ purpose = "none" /\ stack = << >>
    /\ number = [p \in Prefix |-> 0] /\ node_count = 0
    /\ file = << >> /\ pointers = [k \in Key |-> None]
    /\ seen = << >> /\ calls = 0 /\ outer = << >>
    /\ section = << >> /\ writes = 0

\* A node that remains keeps its number, whatever has become of those around
\* it; a new one has number 0 (new_node).
NumbersKept ==
    [p \in Prefix |-> IF HasNode(recs[p]) /\ HasNode(recs'[p]) THEN number[p] ELSE 0]

\* The tree changes as SearchTree says; a new one has a new serializer.
TreeStep ==
    /\ task = "none"
    /\ Next
    /\ section' = IF op' = "freed" THEN << >> ELSE section
    /\ writes' = IF op' = "freed" THEN 0 ELSE writes
    /\ number' = NumbersKept
    /\ node_count' = IF op' = "freed" THEN 0 ELSE node_count
    /\ UNCHANGED <<tvars, file, pointers, ivars>>

-----------------------------------------------------------------------------
(* assign_node_numbers: every node is given a number, whether or not a     *)
(* former numbering has left one in it.                                    *)

FirstNumber(p) == IF number[p] = 0 THEN node_count ELSE number[p]
NewNumber(p) == node_count

\* node_count, write_tree and iterate all number the nodes first.
Numbering(for) ==
    /\ CanIterate
    /\ for = "write" => writes < WriteLimit
    /\ task' = "number" /\ purpose' = for
    /\ stack' = <<RootFrame>> /\ node_count' = 0
    /\ writes' = IF for = "write" THEN writes + 1 ELSE writes

Begin(for) ==
    /\ task = "none"
    /\ Numbering(for)
    /\ UNCHANGED <<vars, number, file, section, pointers, ivars>>

\* A callback of iterate makes the call.
BeginWithin(for) ==
    /\ task = "iterate" /\ calls > 0 /\ Len(outer) < NestLimit
    /\ Numbering(for)
    /\ outer' = <<[stack |-> stack, seen |-> seen, calls |-> calls]>> \o outer
    /\ seen' = << >> /\ calls' = 0
    /\ UNCHANGED <<vars, number, file, section, pointers>>

Top == Head(stack)

EnterNode ==
    /\ stack # << >> /\ ~Top.due
    /\ stack' = Enter(Top, task = "iterate") \o Tail(stack)
    /\ UNCHANGED <<vars, task, purpose, number, node_count, file, section, pointers, ivars, writes>>

Number ==
    /\ task = "number" /\ stack # << >> /\ Top.due
    /\ number' = [number EXCEPT ![Top.at] = NewNumber(Top.at)]
    /\ node_count' = node_count + 1
    /\ stack' = Tail(stack)
    /\ UNCHANGED <<vars, task, purpose, file, section, pointers, ivars, writes>>

Numbered ==
    /\ task = "number" /\ stack = << >> /\ purpose # "count"
    /\ task' = purpose
    /\ stack' = <<RootFrame>>
    /\ UNCHANGED <<vars, purpose, number, node_count, file, section, pointers, ivars, writes>>

\* node_count returns, or "Node count exceeds record size limit".
Counted ==
    /\ task = "number" /\ stack = << >> /\ purpose = "count"
    /\ IF node_count > MaxRecord THEN Croaks ELSE Ends
    /\ UNCHANGED <<vars, section, writes>>

-----------------------------------------------------------------------------
(* The serializer's store_data for a value of the tree, a map: one stored  *)
(* before becomes a pointer to where it was stored.                        *)

BufferLength(s) == IF s = << >> THEN 0 ELSE s[Len(s)].at + s[Len(s)].size
Values(s, k) == {i \in DOMAIN s : s[i].key = k}
Value(s, k) == [at |-> BufferLength(s), size |-> Size[k], key |-> k, to |-> None]
Pointer(s, k) ==
    [at   |-> BufferLength(s), size |-> PointerSize, key |-> NoKey,
     to   |-> s[CHOOSE i \in Values(s, k) : TRUE].at]

StoreDataAgain(s, k) == Append(s, Value(s, k))
StoreData(s, k) == Append(s, IF Values(s, k) = {} THEN Value(s, k) ELSE Pointer(s, k))

-----------------------------------------------------------------------------
(* encode_node *)

PointToSection(w, k) == BufferLength(w.section) + DATA_SECTION_SEPARATOR_SIZE
PointTo(w, k) ==
    (BufferLength(w.section) + node_count + DATA_SECTION_SEPARATOR_SIZE) % Word

\* The data of the record at p is stored, unless this write has stored it;
\* w has the section and the pointers so far.
Stored(w, p) ==
    LET k == recs[p].key
    IN  IF recs[p].type = "DATA" /\ w.pointers[k] = None
        THEN [section  |-> StoreData(w.section, k),
              pointers |-> [w.pointers EXCEPT ![k] = PointTo(w, k)]]
        ELSE w

\* record_value_as_number, once the data is stored.
RecordValue(w, p) ==
    CASE recs[p].type \in {"EMPTY", "FIXED_EMPTY"} -> node_count
      [] HasNode(recs[p]) -> number[p]
      [] recs[p].type = "ALIAS" -> number[V4Root]
      [] recs[p].type = "DATA" -> w.pointers[recs[p].key]

LeftStored == Stored([section |-> section, pointers |-> pointers], Child(Top.at, 0))
BothStored == Stored(LeftStored, Child(Top.at, 1))
LeftValue == RecordValue(LeftStored, Child(Top.at, 0))
RightValue == RecordValue(BothStored, Child(Top.at, 1))

AtNode == task = "write" /\ stack # << >> /\ Top.due

WriteNode ==
    /\ AtNode
    /\ LeftValue <= MaxRecord /\ RightValue <= MaxRecord
    /\ section' = BothStored.section /\ pointers' = BothStored.pointers
    /\ file' = Append(file, <<LeftValue, RightValue>>)
    /\ stack' = Tail(stack)
    /\ UNCHANGED <<vars, task, purpose, number, node_count, ivars, writes>>

\* "Node value exceeds the record size", or the node cannot be printed: the
\* file ends here, but what the serializer has stored stays in its buffer.
WriteCroaks ==
    /\ AtNode
    /\ \/ LeftValue > MaxRecord /\ section' = LeftStored.section
       \/ LeftValue <= MaxRecord /\ section' = BothStored.section
    /\ Croaks
    /\ UNCHANGED <<vars, writes>>

Written ==
    /\ task = "write" /\ stack = << >>
    /\ task' = "written"
    /\ UNCHANGED <<vars, purpose, stack, number, node_count, file, section, pointers, ivars, writes>>

Close ==
    /\ task = "written"
    /\ Ends
    /\ UNCHANGED <<vars, section, writes>>

-----------------------------------------------------------------------------
(* iterate: call_perl_object and call_iteration_method report both records  *)
(* of a node, each with the number of the node it leads to, if any.        *)

NumberOfNode(p) ==
    CASE HasNode(recs[p]) -> number[p]
      [] recs[p].type = "ALIAS" -> number[V4Root]
      [] OTHER -> None

Report(b) ==
    LET h == Half(Top, b)
    IN  [node |-> number[Top.at], is_right |-> b,
         node_network |-> Top.network, node_prefix_length |-> Len(Top.at),
         network |-> h.network, prefix_length |-> Len(h.at),
         record |-> recs[h.at], leads_to |-> NumberOfNode(h.at)]

AtNodeOfIterate == task = "iterate" /\ stack # << >> /\ Top.due

ReportRecord ==
    /\ AtNodeOfIterate /\ calls < 2
    /\ seen' = Append(seen, Report(calls))
    /\ calls' = calls + 1
    /\ UNCHANGED <<vars, tvars, number, node_count, file, section, pointers, outer, writes>>

NodeReported ==
    /\ AtNodeOfIterate /\ calls = 2
    /\ stack' = Tail(stack) /\ calls' = 0
    /\ UNCHANGED <<vars, task, purpose, number, node_count, file, section, pointers, seen, outer, writes>>

CallbackDies ==
    /\ task = "iterate" /\ calls > 0
    /\ Croaks
    /\ UNCHANGED <<vars, section, writes>>

Iterated ==
    /\ task = "iterate" /\ stack = << >>
    /\ Ends
    /\ UNCHANGED <<vars, section, writes>>

WriteNext ==
    \/ TreeStep
    \/ \E for \in {"count", "write", "iterate"} : Begin(for) \/ BeginWithin(for)
    \/ EnterNode \/ Number \/ Numbered \/ Counted
    \/ WriteNode \/ WriteCroaks \/ Written \/ Close
    \/ ReportRecord \/ NodeReported \/ CallbackDies \/ Iterated

WriteSpec == WriteInit /\ [][WriteNext]_<<vars, wvars>>

-----------------------------------------------------------------------------
(* A reader of the file, by the MaxMind DB format: a value below the number *)
(* of nodes is a node, that number is no data, and what is past it, less    *)
(* the separator, is where the data section has a value or a pointer to one.*)

Followed(a) ==
    LET v[i \in 0..W] ==
            IF i = 0 THEN 0
            ELSE IF v[i - 1] < Len(file) THEN file[v[i - 1] + 1][a[i] + 1] ELSE v[i - 1]
    IN  v[W]

HasValue(pos, k) == \E i \in Values(section, k) : section[i].at = pos
HasPointer(pos, k) ==
    \E i \in Values(section, NoKey) : section[i].at = pos /\ HasValue(section[i].to, k)
Reads(a, k) ==
    LET pos == Followed(a) - Len(file) - DATA_SECTION_SEPARATOR_SIZE
    IN  IF k = NoKey THEN Followed(a) = Len(file) ELSE HasValue(pos, k) \/ HasPointer(pos, k)

-----------------------------------------------------------------------------
(* Properties *)

\* A reader of the file finds for every address the data that
\* lookup_ip_address finds in the tree, through aliases too, in the first
\* file written and in every later one, which shares the serializer's buffer.
ReaderFindsWhatLookupFinds ==
    task = "written" => \A a \in Address : Reads(a, FoundRecord(a).key)

\* A node is written where its number says it is, after the nodes above it
\* and before those below: check_record_sanity never croaks
\* (tree.c:1840-1871).
NodesLieWhereNumbered ==
    task = "write" =>
        /\ AtNode => number[Top.at] = Len(file)
        /\ \A p \in Prefix : HasNode(recs[p]) => number[p] < node_count
        /\ \A p \in Prefix \ {<< >>} :
              HasNode(recs[p]) => number[p] > number[Parent(p)]
        /\ opts.alias => number[V4Root] > 0

\* Every value is in the data section once, however many records and files
\* refer to it, and one write refers to it at one place.
DataStoredOnce ==
    /\ \A k \in Key : Cardinality(Values(section, k)) <= 1
    /\ Cardinality(Values(section, NoKey)) <= Cardinality(Key) * writes

IterationEnds == task = "iterate" /\ stack = << >>

\* "it visits each network in order" (Tree.pm:794): the networks iterate
\* reports, nodes left out, begin on their boundaries, one after the other, and
\* have every address of the address space once, each with the record a lookup
\* finds there, also when callbacks number, write or iterate over the same tree
\* in between.
Leaves == {i \in DOMAIN seen : ~HasNode(seen[i].record)}
InNetwork(a, r) == \A i \in 1..r.prefix_length : a[i] = r.network[i]
Less(a, b) == \E i \in 1..W : a[i] < b[i] /\ \A j \in 1..(i - 1) : a[j] = b[j]
NetworksInOrder ==
    IterationEnds =>
        /\ \A i \in Leaves : \A j \in (seen[i].prefix_length + 1)..W : seen[i].network[j] = 0
        /\ \A i, j \in Leaves : i < j => Less(seen[i].network, seen[j].network)
        /\ \A a \in Address : \E i \in Leaves :
              /\ \A j \in Leaves : InNetwork(a, seen[j]) <=> j = i
              /\ seen[i].record.type # "ALIAS" => FoundRecord(a) = seen[i].record

\* "The writer now throw an error when writing out the database if it would
\* try to write a record value in the search tree that is larger than the
\* search tree can handle" (Changes:279-281): a data pointer that is written
\* lies past the separator.
PointersPastTheTree ==
    task \in {"write", "written"} =>
        \A k \in Key :
            pointers[k] # None => pointers[k] >= node_count + DATA_SECTION_SEPARATOR_SIZE

=============================================================================
