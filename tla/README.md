# MaxMind DB Writer: specification and proofs

This directory holds TLA+ models of the MaxMind DB writer (`c/tree.c` and the
Perl modules around it), the TLC configurations that check them on small
instances, and theorems about them that TLAPS checks for every value of their
constants.  Line numbers refer to `c/tree.c` unless another file is named.

## The system

The program keeps a binary search tree of networks in memory, puts data into
it, and writes it out as a MaxMind DB file.

| Part | State it keeps | Operations | What makes it correct |
|---|---|---|---|
| Search tree (`tree.c`, `tree.h`) | nodes of two records; a record is EMPTY, DATA, NODE, or fixed: FIXED_EMPTY, FIXED_NODE, ALIAS | `new_tree`, `insert_network`, `insert_range`, `remove_network`, `free_tree`, `lookup_ip_address` | it is one tree; it maps every address to what was inserted for it; no node has two identical records; what is fixed is never replaced or freed |
| Data table | per key (digest of a value): the value and a reference count | store, increment, decrement | the count is the number of records with that key; the value is there as long as a record needs it, and not longer |
| Merge cache | per strategy and pair of keys: the key of the merged value | lookup, store, free | never gives a value that has left the data table |
| Merging of values | none | `merge_hashes_for_keys`, `merge_hashes`, `merge_values`, `merge_arrays` | what each strategy keeps, replaces, adds; the values merged are not changed |
| Ranges | none | `insert_range`, `prefix_length_for_largest_subnet` | the networks cover the range exactly, in the fewest pieces, and the loop ends |
| Aliases, reserved networks | in the tree | set up in `new_tree` | lookups through an alias see the IPv4 subtree; reserved networks never hold data |
| Numbering and writing (1390-1402, 1761-1966) | number in every node, data pointers of one write | `assign_node_numbers`, `write_search_tree` | a reader of the file finds what the tree holds; values too large for a record are refused |
| Iteration (1968-2040, `Tree.xs`) | the recursion's stack | `iterate` | every record once, with its own network |
| Freeze and thaw (1416-1759) | the file | `freeze_tree`, `thaw_tree` | the thawed tree holds what the frozen one held |
| Serializer (`Serializer.pm`) | buffer, positions by digest | `store_data` | what is written decodes to what was stored |
| Perl objects (`Tree.pm`, `Tree.xs`) | attributes, build epoch, C tree | `new`, `insert_network`, `insert_range`, `remove_network`, `write_tree`, `freeze_tree`, `new_from_frozen_tree`, `DEMOLISH` | one C tree per object, freed once; the attributes describe the tree; what is thawed is what was frozen |
| Drawing (`VisualizeTree.pm`) | labels by node number, edges | `process_node_record`, `process_data_record` | numbers and networks as reported are enough to draw the tree |

Everything runs on one thread.  The hard behaviour is inside a call: the
insert is a recursion that splits, descends into one or both halves, replaces
and merges, and trims on its way back, while counts, cache and tree are
changed a step at a time; a merge may `croak`, which leaves all of the
recursion at once and runs no cleanup; other failures unwind it with a status
and leave what was done so far.  Several pointers must stay good across all of
this: the key an insert holds, the node the recursion is in, the IPv4 root that
aliases point at, the values the merge cache names.  Between calls it is state
that outlives them: node numbers, the serializer's buffer, frozen files of this and
of earlier versions; and the callbacks of `iterate`, which may call into the tree
that is being iterated.

`PROJECT.json` lists the hazards line by line with the properties that cover
them.

## Modules

| Module | What it is |
|---|---|
| `SearchTree` | the tree, data table, merge cache, aliases, reserved networks, lookup: the core |
| `AddressMap` | what the tree promises: a map from addresses to data, changed by calls that may fail half way |
| `TreeRefinesMap` | the refinement mapping from `SearchTree` to `AddressMap` |
| `MCSearchTree` | small instances of it for TLC |
| `MergeData` | the merge functions as recursive operators |
| `MergeRecord`, `MCMergeRecord` | a record and the values inserted over it |
| `InsertRange` | how a range is broken into networks |
| `TreeIteration` | the recursion that numbering, writing, iterating and freezing share |
| `WriteTree`, `MCWriteTree` | `SearchTree` composed with `write_tree` and `iterate`, and instances |
| `VisualizeTree` | what `VisualizeTree.pm` draws of what `WriteTree` reports |
| `FreezeThaw`, `MCFreezeThaw` | `SearchTree` composed with `freeze_tree` and `thaw_tree`, and an instance |
| `Serializer`, `MCSerializer` | the data section: values, pointers, control bytes, and instances |
| `TreeObject`, `MCTreeObject` | the Perl objects, their C trees and the file they are frozen into, and an instance |
| `SearchTree_proofs` | types, the fixed records, the shape of the tree, the reference counts and trimming, proved |
| `Lookup_proofs` | lookups, through aliases too, proved; lemmas on walks through the tree |
| `FreezeThaw_proofs` | every property of `FreezeThaw`, proved |
| `TreeRefinesMap_proofs` | that the tree implements `AddressMap`, proved |
| `WriteTree_proofs` | the file written: numbers, data section and reader, proved |
| `VisualizeTree_proofs` | what iterations report, and what is drawn of it, proved |
| `InsertRange_proofs` | every property of `InsertRange`, proved |
| `TreeObject_proofs` | every property of `TreeObject`, proved |

### SearchTree

A record is named by its position, the bits on the path to it; `recs` maps
every position to its record, ABSENT where there is none.  A NODE's two records
are those at its children, so that sharing or losing a node shows as a broken
`Shape`.  Data is named by its key.  `table` has a count and whether the value
(`data_sv`) is set; an entry exists while its count is positive.  Counts are
integers, so that one decrement too many shows.  `Merge` gives the key of a
merged value, or which function croaks.

A call is a sequence of steps.  `queue` holds the records it still has to
insert with their networks (several for `insert_range` and for `new_tree`'s
aliases and reserved networks); `at` and `dir` are the recursion:
`dir = "down"` is the entry of `insert_record_into_next_node` at record `at`,
`"up"` its return with success.  The stack of the recursion needs no variable:
who called whom follows from `at`, and whether the left half is still to do
(`LeftIsNext`) from the last bit and the length of the network.

| Action | Code |
|---|---|
| `InsertNetworks` | `insert_network`, `insert_range` up to the first insert: the data is stored with one reference held |
| `RemoveNetwork`, `FreeTree`, `NewTree` | the functions of that name; `remove_network` inserts an EMPTY record |
| `SetRecord`, `MergeRecord`, `MergeCroaks` | `insert_record_into_current_record` with the three outcomes of `maybe_merge_records` |
| `Ignore`, `Refuse` | the early returns with success and with another status |
| `Descend` | splitting a leaf, marking nodes fixed, the recursive call |
| `GoLeft`, `Trim` | the second recursive call; trimming and return |
| `NextRecord`, `Finish` | the loop over networks; the end of the call |

The statuses `MMDBW_FREED_*` have no action: they arise only if a record that
may be replaced has a fixed one below it, and that none has is `FixedPath`,
checked and proved.  `Release`, which frees a subtree, is therefore total.

Left out: the text of addresses; merge strategies by name (an insert has one;
that an insert without one takes the tree's is a default); statuses are told
apart only as far as the state depends on them; memory that runs out aborts.

### AddressMap and the refinement

`AddressMap` is a map from addresses to keys with a set of locked addresses. A
call combines its record with the value of each address of its networks, once
each and in any grouping; it may stop only where a merge fails or where its
network lies in an alias, and what it did stays.  `TreeRefinesMap` maps a tree
to the key of the leaf each address lies in, and the position of the recursion
to the set of addresses still to do.  `ImplementsMap` then says that splitting,
trimming and marking change no address, that no address is combined twice or
left out (which shows only for merges), and that nothing outside the networks
changes.

### MergeData, MergeRecord

A value is a scalar, a hash (a function from names) or an array (a sequence).
A merge gives a value or one of the two croaks.  `merge_hashes` builds a new
hash from the old one and lays the new one over it; in the model the result is a
new value as it is in the code.  The order of hash iteration is left out: the
entries are independent, and a croak of one is a croak of all.  `MergeRecord`
inserts values from a set one after the other over one record.
`MCSearchTree` takes its `Merge` table from the same operators.

### InsertRange

Integers stand for `uint128_t`, `% 2^M` where the code shifts or adds. Masks are
of the form 2^k - 1, so the bit operations are arithmetic.  The loop that sizes
a network is one step per iteration.  Powers of two are a recursive function,
`Pow2`, of which more can be proved than of `^`.

### TreeIteration, WriteTree, VisualizeTree

`iterate_tree` calls itself for both records of a node with a callback before or
between them.  What is left to do is a stack of frames, a node to enter or a
node whose callback is due; `Enter` is one activation.  An activation for a
record that is no node returns at once and leaves no frame (`IfNode`).  A network is its
first address, as the sequence of its bits, and a length; `FlipBit` sets the bit at which
the right half begins.

`WriteTree` adds to `SearchTree` what happens between its calls.  `Begin`
starts `assign_node_numbers` for `write_tree`, `iterate` or `node_count`; `Number`
and `WriteNode` are the callbacks; `WriteNode` is `encode_node` with the data it
stores on the way; `WriteCroaks` is a record value that is too large or a failed
print.  The serializer's buffer outlives a write, the data pointers of a write
do not.  A node keeps its number, and the tree its `node_count`, until the next
numbering, through inserts, removals and failed writes; a node that an insert makes has
number 0 (`NumbersKept`).  In this module the buffer is a sequence of values and pointers of given sizes (`StoreData`);
`Serializer` has the detail.  The reader of the file is a definition of its own,
from the format, not from the writer.

`iterate` reports one record per step (`ReportRecord`), and between two of them a
callback may call `node_count`, `write_tree` or `iterate` on the same tree
(`BeginWithin`), or die (`CallbackDies`).  The iteration it interrupts waits in
`outer` and goes on when the inner call ends; a croak leaves all of them.

`VisualizeTree` is a processor: it computes labels and edges from the reports
alone (`Edges`).  A report mentions the number of its node and, if it leads to one, that
of another (`Mentions`), in this order; the network of a number's first mention is its
label for good (`Labels`).  `TrueEdges` are the edges of the tree.

### FreezeThaw

A frozen file is the options, the networks of the DATA records with their keys,
and the keys and values of the data table.  Thawing makes a tree as `new_tree` does,
inserts the networks with no strategy and no reference held, and then gives the
entries their values.  Both trees use the variables of `SearchTree`, one after
the other; `was` remembers what the first one held.  `ThawNetwork` is a `Step` of
`SearchTree`, so the thawing insert is the insert.  A status other than success
would stop the model there (`thaw_tree` croaks): that the run ends in no deadlock
shows that it does not happen.

Freezing may end at any point (`FreezeStops`) and has no node to freeze where the
root is a leaf (`FreezeWithoutNodes`); either leaves a beginning of the file.
`thaw_tree` reads such a file as if zeros followed, so it takes the networks there
are and then looks for the separator.  Of the data hash it copies as many bytes as were
recorded when the file was written, whatever the file still has of them, and nothing
tells it that some are missing: a hash that was cut (`DataBegun`) may decode, to any of the
frozen keys, with their values or with others, or it may not, or name a key that no
network has, or lie beyond the mapping, where the process dies (all of these `ThawCroaks`).  The
variable `lost` has the keys of the thawed tree that are left without their frozen
value.

### Serializer

`todo` is the recursion of `store_data` through the encoders: values to store
and positions to save.  A value is known by its text, since the cache key is a
digest of that.  `Encode` writes control bytes and payload and puts the parts
first; `SavePosition` comes after them; `Die` leaves what is written.  Positions
and bytes are real numbers, so thresholds are checked at their places.
The decoder (`Control`, `PointedAt`, `EndOf`, `Decodes`) is written from the
format; `Misread` is what it finds with another type than was stored.

### TreeObject

`objects` are the Perl objects that are live, `trees` the C trees that are not
freed.  Hashes are functions on the keys that exist, so that a missing key and an
undefined value are not the same.

| Action | Code |
|---|---|
| `New` | `BUILDARGS` with the deprecated `merge_record_collisions`, defaults, type constraints, `_build_tree`, the checks of `new_tree` |
| `InsertNetwork`, `InsertRange`, `RemoveNetwork` | the checks of the prefix, the conversion to `uint8_t`, `_merge_strategy` and the typemap, `verify_ip`, `resolve_network`, the default strategy of the tree |
| `Write` | reading the metadata, which sets the build epoch |
| `Freeze`, `FreezeStops`, `FreezeStopsInData` | `freeze_tree` of every attribute with an `init_arg`; it may stop, within its data or before |
| `OldVersionFreezes` | external: a file from before `merge_strategy`, or with data in reserved networks |
| `Thaw`, `ThawDies` | `new_from_frozen_tree`: overrides, old options, `_thaw_tree`, and `new`; either may die once a C tree was made |
| `Destroy` | `DEMOLISH` and `free_tree`, which croaks of an entry left in the table before it frees the tree |

Of a tree it keeps the options and whether there are data in networks that are
reserved and in others: that is all that options decide about what is thawed.  It also
keeps whether a merge has failed below the top level (`leaks`), which takes data at the
place of the insert and a strategy that merges so deep: the run `leak` shows what
that leaves in the table.  From there on `free_tree` croaks; and a file that is frozen of
such a tree may have a key that none of its networks has (`unknown`), which
`set_stored_data_in_tree` dies of, after the new C tree was made.
What the C functions do is in the other modules.  `++` stands for Perl's
`(%b, %a)`; it is a definition of the module because the provers do not know the
operator of `TLC`.

## What TLC checks

| Run | Module | Result |
|---|---|---|
| `merge` | `MCSearchTree` | pass |
| `alias` | `MCSearchTree` | pass |
| `untrimmed` | `MCSearchTree` | `Trimmed` is violated |
| `leak` | `MCSearchTree` | `NothingLeft` is violated |
| `merge_data` | `MCMergeRecord` | pass |
| `range` | `InsertRange` | pass |
| `write` | `MCWriteTree` | pass |
| `write_wrap` | `MCWriteTree` | `PointersPastTheTree` is violated |
| `freeze` | `MCFreezeThaw` | pass |
| `serializer` | `MCSerializer` | pass |
| `control_bytes` | `MCSerializer` | `StoredDataDecodes` is violated |
| `object` | `MCTreeObject` | pass |

**merge.**  Two bits, so trees of up to three nodes: enough for a leaf to be
split twice, for a node to be trimmed into another that is trimmed, and for a
network to span records of every kind.  Four keys: two hashes that merge into a
third, and a scalar that merges with none (the croak of
`merge_hashes_for_keys`).  Inserts of single networks and of ranges, with
`recurse` and `none`; removals; frees and new trees; with and without an alias
and a reserved network.  The instance has no merge that croaks below the top
level: that is the run `leak`.  `Trimmed` is not checked here because croaks
leave untrimmed nodes: that is the run `untrimmed`.

**alias.**  Four bits: an IPv4 subtree of two addresses below `000`, an alias
as deep as its root (as `::ffff:0:0/96` is) and one less deep (as `2002::/16`),
a reserved network in the IPv4 subtree and one outside, inserted after the
aliases.  Every network is inserted and removed in every order.  With one key
no merge happens; the merges are the other run's.

**merge_data.**  Hashes of up to two names whose values are scalars, hashes and
arrays, two levels deep with every pairing of kinds, and a scalar.  All four
strategies, one after the other.

**range.**  Words of five bits with an IPv4 width of three: every start and
end, also the whole space of either family, so the wrap of the next start and
the overflow of the mask both happen.  `LargestNetworksOnce` excepts the whole of
IPv6, see below.

**write.**  Three bits, an IPv4 subtree of two addresses and its alias at the same
depth, so that an aliased node is numbered before the record that points at it
is written and also has data of its own.  Two values of different length; every
sequence of inserts, removals, two writes (`WriteLimit`), iterations and counts,
and within an iteration one more call (`NestLimit`): a second level would interrupt
an iteration that is like the first.  Removing a part of what was inserted splits leaves
and inserting it again joins them, so nodes come and go between two numberings, and what
is numbered has numbers of former trees.  The
largest record value is such that writes succeed, and that the second one fails
for trees with many nodes: a failed write leaves its data in the buffer for the
next.  No sum wraps in this instance; **write_wrap** has a word as wide as the
records, as `record_size` 32 has.

**freeze.**  The same tree with and without a reserved network, values that
cannot be merged, so that merges croak, leave untrimmed nodes and leak; an insert
begins only while every key has less than `CountLimit` = 5 references, which
bounds the leaks.
Comparing record for record is limited to trees without untrimmed nodes, which
thawing trims.  Freezing stops after every network, before and after the separator and within the
data, and what it leaves is thawed.  A tree that was thawed without some of its values is
only freed (a guard of `TreeStep`, `Freeze` and `FreezeWithoutNodes`): the merge table of
the instance is one of frozen values.

**serializer.**  A string for every class of sizes, at both sides of each
boundary save 285 and 65821, which are the run **control_bytes**; one of 16 MB, the
largest, and one a byte longer, which dies.  Paddings fill the buffer up to the last
position of each pointer length or the first of the next, so that the value stored
next and its pointer are at the boundary.  Three calls (`CallLimit`): padding, value,
value again.  A map that dies after a pair and shares a part with a later one; a
double whose text is that of a string, and integers as long as a year or a 64-bit
number whose text is that of a string: `MisreadIsALongText` says which of them may
be read with another's type.

**object.**  Two objects and two C trees, so that an object is thawed beside the one
it was frozen from, or after it; more would add no pair.  One object comes from
outside (`NewLimit`), all others are thawed, also again from what was thawed.  The
clock makes one tick (`LastSecond`), at any time: before or after the epoch is set.
Arguments have every way to name a strategy, an `ip_version` and a record size that
are refused or cut; overrides are none, a record size that is refused, and a strategy
with another record size.  The old file has a tree that merges, and data in reserved
networks: it does not say that they are to be left out, so that trees with such data are
made, and frozen again, of it alone.  Prefixes are in range, out of it, fractions,
missing and no numbers.  Objects are alike, and so are pointers, hence the symmetry.

**Deadlock** is checked except in the runs of `InsertRange`, which ends with its
range, of `Serializer`, which ends when its calls are used up, and of `TreeObject`,
which ends when all trees are lost to thaws that died.

**Fairness.**  `Spec` has `WF_vars(Step)`: a call that has begun runs on its
caller's thread and nothing in it waits, so its next step always happens.  No
fairness is assumed of the calls: a program need not make one.  `CallsReturn`
uses it.  There is no other liveness in this code.

### Where the code differs from what it says

* `leak`: `merge_values` croaks without giving back the reference the insert
  holds, unlike `merge_hashes_for_keys` (1097-1101).  `free_tree` then finds the
  entry and croaks (2121-2125).
* `untrimmed`: a croak leaves the nodes that were split on the way down with
  two identical records; `Tree.t:213-215` says such a node is removed.
* `write_wrap`: the 32-bit sum of position, node count and separator (1941)
  wraps before it is compared with the largest record value, which for
  `record_size` 32 nothing exceeds; `Changes:279-281` says a value too large is an
  error.
* `control_bytes`: `<=` at `Serializer.pm:545` and `550`, where 542 has `<`: a size of
  285 or 65821 overflows the bytes it is packed into and is read as 29 or 285.

Seen while modelling, with the models following the code:

* For the whole of IPv6 the mask of `insert_range` overflows while it is widened, so
  that "one shift" back (422) is not enough: `::/0` is inserted and then `8000::/1`
  again.  This changes no data (`InsertTwiceIsInsertOnce`).
* A frozen file with `merge_record_collisions` false and no `merge_strategy` cannot be
  thawed: `Tree.pm:417` looks at whether the option is true, `_thaw_tree` is given no
  strategy, and `new_tree` croaks "Unknown merge_strategy encountered".
* A file without `remove_reserved_networks` is thawed to a C tree without reserved
  networks whose attribute says it has them (`MetadataDescribesTree` allows that one
  difference), and what is frozen of it next may not thaw (`AsSaid`).
* `ip_version` is an `Int` that C cuts to eight bits: 260 is taken for 4.
* `remove_network` without a prefix length, or with one whose low eight bits are 0,
  removes the whole address family; an insert whose prefix is no number
  (`1.2.3.0/`) is one into `/0`.
* Equal texts of different types share the first one's encoding
  (`Serializer.pm:104`), although "the MaxMind DB file format is strongly typed"
  (`Tree.pm:945`).

## What is proved

Every theorem is of the form `S => []P` or `S => [][A]_vars` for a specification
`S` of one of the modules, and holds for every width, key set, merge table, set of
inserts, IPv4 root, list of aliases and reserved networks and set of options that the
named assumptions allow.  What matters in these:

* `KeyAssumption`: keys differ from the marks for croaks.
* `AliasAssumption`: the IPv4 root is all zeros, and neither the whole tree nor a full
  address; no alias is longer than it, and none covers it or another alias.  The addresses in
  `tree.c` (74-79) are so.
* `DigestAssumption`: there are finitely many keys, as digests have a fixed length.
* `SizeAssumption`, `RecordAssumption`: values and pointers take room in the data
  section, and a record is narrower than the word of the sum.
* `WidthAssumption` (`InsertRange`): IPv4 addresses are narrower than a word.
* `ArgumentAssumption` (`TreeObject`): what Moose and `validated_list` check before.

| Theorems | Inductive invariant | Why it is needed |
|---|---|---|
| `TypeCorrect`, `FixedPathAlways`, `FixedForeverHolds` | `Inv` | below |
| `ShapeAlways`, `DataStoredAlways`, `CountsExactAlways`, `NothingLeftAlways` | `TableInv` | below |
| `TrimmedAlways` | `PathUntrimmed` | only on the path of the recursion may nodes have equal records |
| `LookupEndsAtLeafAlways`, `AliasesAgreeAlways` | `LookupInv` | below |
| `TreeImplementsMap` | `MapInv` | below |
| `NodesLieWhereNumberedAlways` | `OrderInv` | below |
| `DataStoredOnceAlways` | `StoreInv` | below |
| `ReaderFindsAlways` | `ReaderInv` | below |
| `NetworksInOrderAlways`, `DrawsTheTreeAlways` | `IterationInv` | below |
| `CoversTheRangeAlways`, `AtMostTwoPerBitAlways`, `LargestNetworksOnceAlways` | `RangeInv` | below |
| `NeverReplacesOnThawAlways` | `FInv` | below |
| `ThawedTreeIsFrozenTreeHolds`, `ThawFailsOnlyAfterLeakHolds` | `FInv`, `ThawInv` | below |
| the seven of `TreeObject_proofs` | `ObjectInv` | below |

**Fixed records.**  `SearchTree_proofs` proves `TypeOK`, `FixedPath` and
`FixedForever`.  None of the three is inductive alone.  `Inv` adds
that a freed tree is empty (`FreedEmpty`), that a running call has something to
insert and an idle one nothing (`QueueOK`, `CursorOK`), that the recursion is
only below nodes, which makes `at` stay within the width (`Depth`), and that
once the recursion of an alias, fixed node or reserved network has gone below a
node, that node is fixed (`PathFixed`): this is what makes `FixedPath` hold at
the step that sets the fixed record.

**Shape and counts.**  `SearchTree_proofs` also proves `Shape`, `DataStored`, `CountsExact`
and `NothingLeft` from `TableInv`, which adds that the key of the record to insert
is the key held (`HeldOK`), that a count is at least the number of references
and exactly that number if no merge croaks below the top level (`CountsOK`),
and that entries in use have their value (`StoredOK`).  Its main lemmas count
records: how `References` changes when a subtree is replaced (`GraftFacts`,
`SplitFacts`, `CountBelow`).  `CountsExact` and `NothingLeft` are proved under
`NoMismatch`, that no merge croaks below the top level of its values.  The run `leak`
shows that they fail without it.  `Shape` and `DataStored` need no such assumption.

**Trimming.**  `Trimmed` is proved under `NoCroak`, that no merge croaks at all: the run
`untrimmed` shows that any croak may leave untrimmed nodes.

**Lookup.**  `LookupInv` says of the aliases what the set-up of the tree has done so
far: those still in the queue, those done, and that what is at the IPv4 root when an
alias is set is a fixed node and remains one.  An alias leads to it in one step, so a
lookup that goes through an alias goes on in the subtree as one that starts there.

**The map.**  `TreeImplementsMap` is the refinement: the initial states map to initial
states, and each action of `SearchTree` maps to one of `AddressMap` or to a stutter.
`MapInv` says that the addresses still to do, as read off the position of the
recursion, are those below the records it will still enter.  Descending, returning
and trimming are stutters because a split record keeps its data on both halves and
only records equal to each other are joined.  No assumption about merges is made: a
croak is the abstract call that stops.

**Numbers.**  Numbering and writing are two runs of the same recursion with callbacks of
iterations and whole calls in between.  `OrderInv` says that the frames on the stack stand for
disjoint sets of nodes, each before the next in the order of the recursion
(`InOrder`), so that the nodes done are those before the first frame.  A number
is then how many nodes are before (`Rank`), and the file has as many entries as nodes are
done.  Of nodes that a numbering has not come to yet it says nothing: their numbers are
those of any earlier numbering, of a tree that may have been another one.

**The data section.**  `StoreInv` says that each value is in the section once and that
pointers are at most the number of keys for each finished write, plus the keys this write has
kept (`SectionOK`); also after writes that failed.

**The reader.**  `ReaderInv` says of each node written that its two entries are what its
records are to be read as, and that every data pointer kept leads to its value or to a
pointer at it (`Leads`).  From this and `LookupInv` a reader's walk through the
file and a lookup's walk through the tree go through the same nodes, also through an alias.
`ReaderFindsAlways` has the hypothesis `[]SumFits`: the 32-bit sum of position, number of
nodes and separator does not wrap.  The run `write_wrap` shows that it can for
`record_size` 32, and the run `write` is one in which it does not.

**Iterations.**  `NetworksInOrder` speaks of the end of an iteration and says nothing of
the way there.  `IterationInv` says for the iteration in progress and for each that waits in
`outer` that the frames left stand for nodes whose turns come one after the other, a
node's turn being between its halves (`InTurn`); that what was reported is what the
tree has at that place (`ReportOf`), in that order; and that a record is reported if and
only if its node's turn is over (`Remains`).  Numbers are part of a report, so the
invariant also says that after any call a callback made they are the same again: a number
is the node's place in the order of `OrderInv`, and the tree is the same.  That iterate
visits the networks in order follows because of two nodes whose turns differ, the records
that are no nodes lie in the same order (`LeavesInOrder`): if one node is in a half of the
other, that half is a node and no such record.

For the drawing, two nodes never have one number (`OneNodePerNumber`), so a number can come
with a foreign network only where an alias leads to the IPv4 root.  The root lies at zeros
only, and no alias is longer than it, so the record that owns the root is reported before
every alias (`RootBeforeAliases`).

**Freeze and thaw.**  The file has none of the fixed records: `new_tree` makes them
again, from the options, before the networks are inserted.  So `FInv` says of every tree
that its fixed records are those its options make (`SetupInv`, `AsMade`), whatever was
done with it since; of a file that its networks are data records of one tree with its
options, each once (`FileInv`); and of a tree being thawed that it has, besides what
`new_tree` has made so far, the networks done, and nothing yet where the others go
(`ThawPart`).  It holds for any beginning of a file, since a freeze may stop anywhere.

`ThawInv` adds the table.  Thawing inserts without holding a key, so `TableInv` does not
apply to it; instead each count is exactly the number of references (`Exact`), no
entry has its value yet (`NoValues`), and only the path of the recursion may be
untrimmed.  Between freezing and the end of thawing it says of the frozen tree that it was
made of the same items, that `was.found` is what lookups found in it, that a file
whose networks are all there lists all its data, and that one whose freezing has got to its
end also has all its keys (`IsWhole`).  When the last network is in, each
tree thus has the data of the other in the same places, and fixed records that the same
items made, so every address has the same leaf in both (`SameLeaves`) and lookups
agree.  If neither has anything to trim, they are equal: where one had a leaf and the other a
node, all leaves below that node would be the same, and the lowest of those nodes could be
trimmed.  `set_stored_data_in_tree` dies of a key that no record of the thawed
tree has; then none of the frozen tree had it either, which is a leak.  Values are claimed
only of a file whose freezing got to its end: there nothing is `lost` (`LostPart`).

**Ranges.**  `RangeInv` follows one network as it is sized (`Sizing`): the mask is 2^k - 1
with k the host bits so far, except after the last bit of IPv6.  The networks already inserted
cover what lies before `start_ip`, have no gaps, rise in size to
some point and fall from there (`Rising`, `Falling`), each strictly but for one
repetition.  `AtMostTwoPerBit` follows from that, and `LargestNetworksOnce` from each
network being one that could not be doubled (`AllLargest`).

**Objects.**  `TreeObject_proofs` proves all seven properties of `TreeObject`:
types and that no two objects share a tree, `MetadataDescribesTree`,
`MergesAsDocumented`, `InsertsNamedNetwork`, `ThawedObjectIsFrozenObject`,
`FreedWithItsObject` and `OldFilesKeepTheirFlag`.  They depend on what an object may
leave in a file, so `ObjectInv` adds that live attributes have no deprecated option
and every key with a default (`Settled`), that reserved networks hold no data
(`DataOK`), and that a file that was frozen from an object, to its end or into its data
hash, has its parameters and data, and keys that none of its networks has only if the tree
leaks (`WasOK`).  The proof that a thaw does not lose its tree is the converse of
the hard case: with a whole file of a tree without leaks no disjunct of `ThawDies` can
happen (`FrozenParams`, `FrozenData`).

Only model-checked:

* `CallsReturn`: liveness under fairness is out of the prover's reach.
* The properties of `MergeRecord` and of `Serializer`: the merge functions and the decoder
  are recursive operators over values of any depth.

## Not modelled

* Callbacks of `iterate` that insert or remove: the node the recursion is at may be
  freed while it is used, and there is no bound on what follows.
* A caller that changes a value after it was inserted: the table keeps the caller's
  scalar (491), and no later behaviour of the program is promised.
* The ranges of integers (`Serializer.pm:484` tests a 64-bit value that is an object
  against twice its range, and one that is text only for digits): a statement about
  arithmetic on payloads, of which the models have the lengths only.
* Calls that are given something that is not a tree, a missing file, or memory that
  runs out: they end the call or the process before anything changes.
* What Sereal makes of a data hash that was cut: `FreezeThaw` lets it decode to any of
  the frozen keys with any values, and says nothing of them.  A document that decodes to a
  reference to something else than a hash (`thaw_data_hash` casts it unchecked) is taken
  for a hash without keys, or for the death of the process.
* The death of the process when `thaw_tree` reads beyond the mapping of a cut file is in
  `FreezeThaw`; `TreeObject`, where it would end every object, has the croak only.
* The text of addresses (`getaddrinfo`, `inet_pton`), the bytes of a frozen file, the
  metadata's contents but for what has to agree with the tree, GraphViz output.
* Vendored and platform code: `ppport.h` and `uthash.h` (19,400 lines, six sevenths of
  the C and Perl code in `src/`), `perl_math_int*.c`, the mmap of `windows_mman.c`.  They
  are copies of other projects; what `tree.c` relies on is modelled with `tree.c`.
