----------------------------- MODULE TreeObject -----------------------------
(***************************************************************************)
(* The Perl object of Tree.pm and the C tree it owns, through Tree.xs:     *)
(* new, insert_network, insert_range, remove_network, write_tree,          *)
(* freeze_tree, new_from_frozen_tree and DEMOLISH.  What the C functions   *)
(* do to a tree is the subject of SearchTree, WriteTree and FreezeThaw;    *)
(* here it is which tree they are given, made with which options, and      *)
(* which network and merge strategy.                                       *)
(*                                                                         *)
(* Perl hashes are functions whose domain is the keys that exist.  Of the  *)
(* attributes that only go into the metadata, database_type stands for     *)
(* those that may be overridden.  A call that dies before it changed       *)
(* anything is no step, nor is the death of the process.                   *)
(***************************************************************************)
EXTENDS Integers, FiniteSets

CONSTANTS
    Object, Handle,     \* Perl objects; pointers to C trees
    Given,              \* the arguments of new
    Overrides,          \* the arguments of new_from_frozen_tree
    OldFiles,           \* the parameters that earlier versions have frozen
    Named,              \* what networks insert and remove are asked for
    Options,            \* the last argument of insert_network, insert_range
    NewLimit,           \* bound: calls of new, from outside
    LastSecond          \* bound: the time at which the clock stops

VARIABLES
    objects,    \* the live objects: attributes and _tree
    trees,      \* the C trees that are not freed
    disk,       \* the file: how much of it there is, parameters, networks, and
                \* whether its data hash has a key that none of them has
    was,        \* the object whose freezing has made the file
    made,       \* calls of new
    now

ovars == <<objects, trees, disk, was, made, now>>

NoFile == [state |-> "none"]
Nobody == [attrs |-> << >>]

\* The keys of f, and of g those that f has not.
f ++ g == [x \in DOMAIN f \cup DOMAIN g |-> IF x \in DOMAIN f THEN f[x] ELSE g[x]]

\* The option v of p, undef where there is none.
Value(p, v, undef) == IF v \in DOMAIN p THEN p[v] ELSE undef

\* What the type constraints of Moose and of validated_list let through, and
\* the encodings chosen here.
ASSUME ArgumentAssumption ==
    /\ \A p \in Given \cup OldFiles :
        /\ {"ip_version", "record_size"} \subseteq DOMAIN p
        /\ \A a \in {"alias_ipv6_to_ipv4", "remove_reserved_networks", "merge_record_collisions"} :
            a \in DOMAIN p => p[a] \in BOOLEAN
    /\ \A p \in Overrides : DOMAIN p \subseteq {"database_type", "merge_strategy", "record_size"}
    /\ \A net \in Named :
        net.family \in {4, 6} /\ net.prefix.value \in Int /\ net.reserved \in BOOLEAN
    /\ \A opts \in Options : IsFiniteSet(DOMAIN opts)
    /\ LastSecond \in Nat

-----------------------------------------------------------------------------
(* Making a tree *)

Strategies == {"none", "toplevel", "recurse", "add-only-if-parent-exists"}

\* BUILDARGS: merge_record_collisions and merge_strategy disagree.
NeverInConflict(args) == FALSE
InConflict(args) ==
    /\ {"merge_strategy", "merge_record_collisions"} \subseteq DOMAIN args
    /\ (args.merge_strategy = "none") = args.merge_record_collisions

BuildArgs(args) ==
    LET strategy == IF args.merge_record_collisions THEN "toplevel" ELSE "none"
        given    == [a \in DOMAIN args \ {"merge_record_collisions"} |-> args[a]]
    IN  IF "merge_record_collisions" \in DOMAIN args
        THEN given ++ [merge_strategy |-> strategy] ELSE args

Defaults == [merge_strategy |-> "none", remove_reserved_networks |-> TRUE,
             alias_ipv6_to_ipv4 |-> FALSE]
Attributes(args) == BuildArgs(args) ++ Defaults

\* The type constraints of the attributes.
Typed(a) ==
    /\ a.record_size % 4 = 0 /\ a.record_size \in 24..128
    /\ a.merge_strategy \in Strategies

\* What new_tree is given, by _create_tree or thaw_tree: an undef is a
\* strategy it does not know, or false; ip_version is cut to eight bits.
CTree(p) ==
    [ip_version     |-> p.ip_version % 256,
     record_size    |-> p.record_size,
     merge_strategy |-> Value(p, "merge_strategy", "unknown"),
     alias          |-> Value(p, "alias_ipv6_to_ipv4", FALSE),
     reserved       |-> Value(p, "remove_reserved_networks", FALSE),
     data           |-> {},
     leaks          |-> FALSE]      \* whether its table counts a reference too many

SupportedSize(t) == t.merge_strategy \in Strategies /\ t.record_size \in {24, 28, 32}

\* new_tree croaks of what it does not support.
Supported(t) ==
    /\ t.merge_strategy \in Strategies
    /\ t.ip_version \in {4, 6} /\ t.record_size \in {24, 28, 32}

New(o, args) ==
    /\ made < NewLimit /\ made' = made + 1
    /\ o \notin DOMAIN objects /\ ~InConflict(args)
    /\ Typed(Attributes(args)) /\ Supported(CTree(Attributes(args)))
    /\ \E h \in Handle \ DOMAIN trees :
        /\ trees' = trees ++ [x \in {h} |-> CTree(Attributes(args))]
        /\ objects' = objects ++ [x \in {o} |-> [attrs |-> Attributes(args), tree |-> h]]
    /\ UNCHANGED <<disk, was, now>>

TreeOf(o) == trees[objects[o].tree]

ForgetTree(o) == trees

\* DEMOLISH frees the tree; but free_tree croaks of an entry that is left in the
\* table, before it comes to the tree itself.
Demolish(o) ==
    IF TreeOf(o).leaks THEN trees ELSE [h \in DOMAIN trees \ {objects[o].tree} |-> trees[h]]

Destroy(o) ==
    /\ o \in DOMAIN objects
    /\ objects' = [x \in DOMAIN objects \ {o} |-> objects[x]]
    /\ trees' = Demolish(o)
    /\ UNCHANGED <<disk, was, made, now>>

-----------------------------------------------------------------------------
(* Inserting and removing.  A network is the family of its address, the    *)
(* text after the slash, whether it is reserved; of the text what Perl     *)
(* makes of it counts: [is : {"undef", "number", "fraction", "no number"}, *)
(* value : Int], a fraction truncated, what is no number cut after its     *)
(* leading digits.                                                         *)

\* insert_network: "Invalid network inserted".
WholeNumber(prefix) == prefix.is \in {"number", "no number"}
Valid(prefix) == prefix.is \in {"number", "no number"} /\ prefix.value \in 0..128

\* Passed to C the prefix length is a uint8_t.
Cut(prefix) == prefix.value % 256

\* verify_ip and resolve_network.
Croaks(t, net, length) ==
    \/ t.ip_version = 4 /\ net.family = 6
    \/ length > (IF net.family = 4 THEN 32 ELSE 128)
Resolve(t, net, length) ==
    IF t.ip_version = 6 /\ net.family = 4 THEN length + 96 ELSE length

\* _merge_strategy; an empty string is no strategy that the typemap knows.
Dies(opts) ==
    \/ Cardinality(DOMAIN opts) > 1
    \/ Value(opts, "merge_strategy", "none") \notin Strategies
AskedStrategy(opts) ==
    CASE "insert_only_if_parent_exists" \in DOMAIN opts -> "add-only-if-parent-exists"
      [] "force_overwrite" \in DOMAIN opts -> "none"
      [] OTHER -> Value(opts, "merge_strategy", "unknown")

\* insert_record_for_network: an unknown strategy is the tree's own.
NoneIfUnknown(t, s) == IF s = "unknown" THEN "none" ELSE s
StrategyUsed(t, s) == IF s = "unknown" THEN t.merge_strategy ELSE s

\* What C is asked to insert or to remove, and how.
Length(o, net) == Resolve(TreeOf(o), net, Cut(net.prefix))
Strategy(o, opts) == StrategyUsed(TreeOf(o), AskedStrategy(opts))

Place(net) == IF net.reserved THEN "reserved" ELSE "open"

\* What is reserved stays empty; elsewhere a strategy may insert nothing.
Filled(t, net, strategy) ==
    IF t.reserved /\ net.reserved THEN {t.data}
    ELSE {t.data \cup {Place(net)}}
         \cup IF strategy = "add-only-if-parent-exists" THEN {t.data} ELSE {}

\* A merge that fails below the top level leaves the call at once, past the
\* release of the reference that it holds.
Inserted(t, net, strategy) ==
    {[t EXCEPT !.data = d] : d \in Filled(t, net, strategy)}
    \cup IF strategy \in {"recurse", "add-only-if-parent-exists"} /\ Place(net) \in t.data
         THEN {[t EXCEPT !.leaks = TRUE]} ELSE {}

CanInsert(o, net) ==
    o \in DOMAIN objects /\ Valid(net.prefix) /\ ~Croaks(TreeOf(o), net, Cut(net.prefix))

InsertNetwork(o, net, opts) ==
    /\ CanInsert(o, net) /\ ~Dies(opts)
    /\ \E t \in Inserted(TreeOf(o), net, Strategy(o, opts)) :
        trees' = [trees EXCEPT ![objects[o].tree] = t]
    /\ UNCHANGED <<objects, disk, was, made, now>>

\* A range is written without a prefix.
InsertRange(o, net, opts) ==
    /\ o \in DOMAIN objects /\ net.prefix.is = "undef" /\ ~Dies(opts)
    /\ ~Croaks(TreeOf(o), net, 0)
    /\ \E t \in Inserted(TreeOf(o), net, Strategy(o, opts)) :
        trees' = [trees EXCEPT ![objects[o].tree] = t]
    /\ UNCHANGED <<objects, disk, was, made, now>>

\* The prefix is cut without a check.
CanRemove(o, net) == o \in DOMAIN objects /\ ~Croaks(TreeOf(o), net, Cut(net.prefix))

\* Other data may be left in the place.
RemoveNetwork(o, net) ==
    /\ CanRemove(o, net)
    /\ \E d \in {TreeOf(o).data, TreeOf(o).data \ {Place(net)}} :
        trees' = [trees EXCEPT ![objects[o].tree].data = d]
    /\ UNCHANGED <<objects, disk, was, made, now>>

-----------------------------------------------------------------------------
(* Writing, freezing and thawing *)

\* The lazy default of _build_epoch, when it is first read.
WithEpoch(a) == a ++ [_build_epoch |-> now]

\* write_tree: the metadata is encoded, of the attributes.
Write(o) ==
    /\ o \in DOMAIN objects
    /\ objects' = [objects EXCEPT ![o].attrs = WithEpoch(@)]
    /\ UNCHANGED <<trees, disk, was, made, now>>

FrozenAsSet(o) == objects[o].attrs

\* freeze_tree reads every attribute that has an init_arg, but for the
\* callback and _tree.
Frozen(o) == WithEpoch(objects[o].attrs)

\* Opening has removed the file there was.  The reference too many may be one to
\* a key that no record has any more.
Freeze(o) ==
    /\ o \in DOMAIN objects
    /\ objects' = [objects EXCEPT ![o].attrs = WithEpoch(@)]
    /\ \E unknown \in {FALSE, TreeOf(o).leaks} :
        disk' = [state |-> "whole", params |-> Frozen(o), data |-> TreeOf(o).data,
                 unknown |-> unknown]
    /\ was' = [attrs |-> objects'[o].attrs, tree |-> TreeOf(o)]
    /\ UNCHANGED <<trees, made, now>>

\* It stops after the parameters: there is no node, a write fails, or the
\* process dies.
FreezeStops(o) ==
    /\ o \in DOMAIN objects
    /\ objects' = [objects EXCEPT ![o].attrs = WithEpoch(@)]
    /\ disk' = [state |-> "cut", params |-> Frozen(o), data |-> {}, unknown |-> FALSE]
    /\ was' = Nobody
    /\ UNCHANGED <<trees, made, now>>

\* It stops within the data hash, which is the last thing in the file.
FreezeStopsInData(o) ==
    /\ o \in DOMAIN objects
    /\ objects' = [objects EXCEPT ![o].attrs = WithEpoch(@)]
    /\ disk' = [state |-> "cut in data", params |-> Frozen(o), data |-> TreeOf(o).data,
                unknown |-> FALSE]
    /\ was' = [attrs |-> objects'[o].attrs, tree |-> TreeOf(o)]
    /\ UNCHANGED <<trees, made, now>>

\* A file that an earlier version has left, from before merge_strategy or when
\* reserved networks were only left out of what is written.
OldVersionFreezes ==
    /\ disk.state = "none"
    /\ \E p \in OldFiles, d \in SUBSET {"open", "reserved"}, unknown \in BOOLEAN :
        disk' = [state |-> "whole", params |-> p, data |-> d, unknown |-> unknown]
    /\ UNCHANGED <<objects, trees, was, made, now>>

OldStrategy(p) ==
    IF Value(p, "merge_record_collisions", FALSE)
    THEN [merge_strategy |-> "toplevel"] ++ p ELSE p

\* The parameters of the file and what the caller overrides.
Params(given) ==
    given ++ (IF "merge_strategy" \in DOMAIN given THEN disk.params ELSE OldStrategy(disk.params))

ParamsOfFile(given) == OldStrategy(disk.params)

\* The parameters _thaw_tree is given.
TreeParams(given) == Params(given)

\* Networks that the new tree has fixed are passed over.
ThawedData(t) == IF t.reserved THEN disk.data \ {"reserved"} ELSE disk.data

\* A data hash that was cut may decode.
Thaw(o, given) ==
    /\ o \notin DOMAIN objects
    /\ disk.state \in {"cut in data", "whole"} /\ ~disk.unknown
    /\ LET t == CTree(TreeParams(given))
       IN  /\ Supported(t) /\ ~InConflict(Params(given))
           /\ \E h \in Handle \ DOMAIN trees :
                /\ trees' = trees ++ [x \in {h} |-> [t EXCEPT !.data = ThawedData(t)]]
                /\ objects' = objects ++ [x \in {o} |-> [attrs |-> Attributes(Params(given)), tree |-> h]]
    /\ UNCHANGED <<disk, was, made, now>>

\* thaw_tree has made a tree and croaks of the rest of the file, or of a value
\* whose key the tree has not (no network had it, or it was passed over wherever
\* it was), or new dies of the parameters: nobody has the tree.
ThawDies(given) ==
    /\ disk.state # "none"
    /\ LET t == CTree(TreeParams(given))
       IN  /\ Supported(t)
           /\ \/ disk.state \in {"cut", "cut in data"} \/ disk.unknown
              \/ ThawedData(t) # disk.data
              \/ InConflict(Params(given))
           /\ \E h \in Handle \ DOMAIN trees : trees' = trees ++ [x \in {h} |-> t]
    /\ UNCHANGED <<objects, disk, was, made, now>>

Tick ==
    /\ now < LastSecond /\ now' = now + 1
    /\ UNCHANGED <<objects, trees, disk, was, made>>

ObjectInit ==
    /\ objects = << >> /\ trees = << >> /\ disk = NoFile /\ was = Nobody
    /\ made = 0 /\ now = 0

ObjectNext ==
    \/ \E o \in Object :
        \/ \E args \in Given : New(o, args)
        \/ \E net \in Named, opts \in Options :
            InsertNetwork(o, net, opts) \/ InsertRange(o, net, opts)
        \/ \E net \in Named : RemoveNetwork(o, net)
        \/ \E given \in Overrides : Thaw(o, given)
        \/ Write(o) \/ Freeze(o) \/ FreezeStops(o) \/ FreezeStopsInData(o) \/ Destroy(o)
    \/ \E given \in Overrides : ThawDies(given)
    \/ OldVersionFreezes \/ Tick

ObjectSpec == ObjectInit /\ [][ObjectNext]_ovars

-----------------------------------------------------------------------------
(* Properties *)

Tree == [ip_version : {4, 6}, record_size : {24, 28, 32}, merge_strategy : Strategies,
         alias : BOOLEAN, reserved : BOOLEAN, data : SUBSET {"open", "reserved"},
         leaks : BOOLEAN]

Owned == {objects[o].tree : o \in DOMAIN objects}
Ownerless == DOMAIN trees \ Owned

\* Of objects and trees, and that every object has a tree of its own.
TypeOK ==
    /\ DOMAIN objects \subseteq Object /\ DOMAIN trees \subseteq Handle
    /\ \A h \in DOMAIN trees : trees[h] \in Tree
    /\ \A o \in DOMAIN objects : objects[o].tree \in DOMAIN trees
    /\ \A o, x \in DOMAIN objects : objects[o].tree = objects[x].tree => o = x
    /\ now \in 0..LastSecond

\* The metadata are written of the attributes, the search tree of the C tree:
\* they are of the same record size, so that readers find the nodes, and of the
\* same address family, however the object came about.  ip_version counts up to
\* the eight bits that C keeps of it, and a file that says nothing about
\* reserved networks is thawed to a tree without them.
MetadataDescribesTree ==
    \A o \in DOMAIN objects :
        LET a == objects[o].attrs
            t == trees[objects[o].tree]
        IN  /\ a.record_size = t.record_size /\ a.ip_version % 256 = t.ip_version
            /\ a.merge_strategy = t.merge_strategy /\ a.alias_ipv6_to_ipv4 = t.alias
            /\ t.reserved => a.remove_reserved_networks

\* Reserved networks are in the tree as its attributes say: the tree is not one
\* from an old file.
AsSaid(x) == x # Nobody /\ x.attrs.remove_reserved_networks = x.tree.reserved

\* Thawing gives the object that was frozen, as Tree-freeze-thaw.t and
\* freeze-thaw-record-size.t compare for a file thawed at once: with its build
\* epoch, whenever it is thawed, its data, and every attribute that was not
\* overridden.
ThawedObjectIsFrozenObject ==
    [][\A o \in DOMAIN objects' \ DOMAIN objects, given \in Overrides :
        Thaw(o, given) /\ was # Nobody =>
            /\ objects'[o].attrs = given ++ was.attrs
            /\ AsSaid(was) => trees'[objects'[o].tree].data = was.tree.data
      ]_ovars

\* An insert merges as its options ask and otherwise as the object's
\* merge_strategy says, which may have been overridden when it was thawed.
MergesAsDocumented ==
    \A o \in DOMAIN objects, opts \in {x \in Options : ~Dies(x)} :
        Strategy(o, opts) =
            CASE "merge_strategy" \in DOMAIN opts -> opts.merge_strategy
              [] "force_overwrite" \in DOMAIN opts -> "none"
              [] "insert_only_if_parent_exists" \in DOMAIN opts -> "add-only-if-parent-exists"
              [] OTHER -> objects[o].attrs.merge_strategy

\* "prefix length too large", "negative prefix length" (Tree.t:281, 286): the
\* network inserted is the one that was named, and lies in the tree's address
\* space.  So is the one removed, if it was named with a prefix length there is:
\* remove_network does not look.
InsertsNamedNetwork ==
    \A o \in DOMAIN objects, net \in Named :
        LET v6 == objects[o].attrs.ip_version % 256 = 6
            named == net.prefix.is = "number" /\ net.prefix.value \in 0..128
        IN  /\ CanInsert(o, net) /\ net.prefix.is = "number" => named
            /\ CanInsert(o, net) \/ CanRemove(o, net) =>
                /\ named => Length(o, net) = net.prefix.value
                                + (IF v6 /\ net.family = 4 THEN 96 ELSE 0)
                /\ Length(o, net) <= (IF v6 THEN 128 ELSE 32)

\* A tree is freed with its object, unless a merge has failed in it below the
\* top level.  A tree is made that never has an owner only if a file is thawed
\* that a freeze has not finished, that goes back to an earlier version, or that
\* was frozen of a tree in which such a merge had failed.
FreedWithItsObject ==
    [][\A h \in Ownerless' \ Ownerless :
        IF h \in DOMAIN trees THEN trees[h].leaks
        ELSE disk.state # "whole" \/ ~AsSaid(was) \/ was.tree.leaks
      ]_ovars

\* "This is for backwards compatibility with frozen trees created before
\* merge_strategy was added" (Tree.pm:419): such a tree merges if and only if
\* it did so then, and an override that says otherwise is refused.
OldFilesKeepTheirFlag ==
    [][\A o \in DOMAIN objects' \ DOMAIN objects, given \in Overrides :
        Thaw(o, given) /\ "merge_record_collisions" \in DOMAIN disk.params =>
            (objects'[o].attrs.merge_strategy # "none") = disk.params.merge_record_collisions
      ]_ovars

=============================================================================
