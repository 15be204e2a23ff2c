-------------------------- MODULE TreeObject_proofs --------------------------
(***************************************************************************)
(* Objects and their C trees agree, and a tree is freed with its object    *)
(* unless a merge has failed in it below the top level: for any arguments  *)
(* of the constructors, any files of earlier versions, any networks and    *)
(* options.                                                                *)
(*                                                                         *)
(* The properties are not inductive: what is thawed depends on what an     *)
(* object may leave in a file, so ObjectInv has the keys that a live       *)
(* object's attributes always or never have, and relates the file to the   *)
(* object it was frozen from.                                              *)
(***************************************************************************)
EXTENDS TreeObject, FiniteSetTheorems, TLAPS

Flags == {"alias_ipv6_to_ipv4", "remove_reserved_networks", "merge_record_collisions"}

\* What a tree can be made of.
Parameters(p) ==
    /\ {"ip_version", "record_size"} \subseteq DOMAIN p
    /\ \A a \in Flags : a \in DOMAIN p => p[a] \in BOOLEAN

\* What an object can be frozen as: the deprecated option is gone, and nothing
\* is left to a default.
Settled(p) ==
    /\ Parameters(p) /\ "merge_record_collisions" \notin DOMAIN p
    /\ {"merge_strategy", "alias_ipv6_to_ipv4", "remove_reserved_networks"} \subseteq DOMAIN p

AttributesOK ==
    \A o \in DOMAIN objects :
        /\ objects[o] = [attrs |-> objects[o].attrs, tree |-> objects[o].tree]
        /\ Settled(objects[o].attrs)

\* The attributes a describe the tree t, as MetadataDescribesTree says.
Describes(a, t) ==
    /\ a.record_size = t.record_size /\ a.ip_version % 256 = t.ip_version
    /\ a.merge_strategy = t.merge_strategy /\ a.alias_ipv6_to_ipv4 = t.alias
    /\ t.reserved => a.remove_reserved_networks

\* The tree of an object has data only where it is not reserved.
DataOK(t) == t.reserved => "reserved" \notin t.data
TreesOK == \A h \in DOMAIN trees : DataOK(trees[h])

DiskOK ==
    /\ disk.state \in {"none", "cut", "cut in data", "whole"}
    /\ disk.state # "none" =>
        Parameters(disk.params) /\ disk.data \in SUBSET {"open", "reserved"}

\* The file is the object that was frozen into it, and knows all its keys if the
\* frozen tree had no reference too many.
WasOK ==
    was # Nobody =>
        /\ disk.state \in {"cut in data", "whole"}
        /\ disk.unknown => was.tree.leaks
        /\ disk.params = was.attrs /\ disk.data = was.tree.data
        /\ Settled(was.attrs) /\ DataOK(was.tree)

\* The trees that this step leaves to nobody: see FreedWithItsObject.
Abandons ==
    \A h \in Ownerless' \ Ownerless :
        IF h \in DOMAIN trees THEN trees[h].leaks
        ELSE disk.state # "whole" \/ ~AsSaid(was) \/ was.tree.leaks

ObjectInv ==
    TypeOK /\ MetadataDescribesTree /\ AttributesOK /\ TreesOK /\ DiskOK /\ WasOK

-----------------------------------------------------------------------------
(* Hashes *)

\* What ++ is: the keys of both, and the first hash wins.
LEMMA Joined ==
    ASSUME NEW f, NEW g
    PROVE  /\ DOMAIN (f ++ g) = DOMAIN f \cup DOMAIN g
           /\ \A x \in DOMAIN f : (f ++ g)[x] = f[x]
           /\ \A x \in DOMAIN g \ DOMAIN f : (f ++ g)[x] = g[x]
BY DEF ++

\* Nothing is added by what is there already.
LEMMA JoinedTwice ==
    ASSUME NEW f, NEW g, NEW h, DOMAIN h \subseteq DOMAIN f \cup DOMAIN g
    PROVE  (f ++ g) ++ h = f ++ g
BY DEF ++

-----------------------------------------------------------------------------
(* Parameters and attributes *)

\* The attributes with defaults.
LEMMA DefaultKeys ==
    /\ DOMAIN Defaults = {"merge_strategy", "remove_reserved_networks", "alias_ipv6_to_ipv4"}
    /\ Defaults.remove_reserved_networks = TRUE /\ Defaults.alias_ipv6_to_ipv4 = FALSE
BY DEF Defaults

\* BUILDARGS changes no option but the two that name a merge strategy.
LEMMA BuildArgsFacts ==
    ASSUME NEW p
    PROVE  /\ "merge_record_collisions" \notin DOMAIN BuildArgs(p)
           /\ DOMAIN p \ {"merge_record_collisions"} \subseteq DOMAIN BuildArgs(p)
           /\ DOMAIN BuildArgs(p) \subseteq DOMAIN p \cup {"merge_strategy"}
           /\ \A a \in DOMAIN p \ {"merge_record_collisions"} : BuildArgs(p)[a] = p[a]
           /\ "merge_record_collisions" \notin DOMAIN p => BuildArgs(p) = p
BY DEF BuildArgs, ++

\* Attributes of good parameters are settled, and are those parameters.
LEMMA AttributesFacts ==
    ASSUME NEW p, Parameters(p)
    PROVE  /\ Settled(Attributes(p))
           /\ \A a \in DOMAIN p \ {"merge_record_collisions"} : Attributes(p)[a] = p[a]
           /\ "alias_ipv6_to_ipv4" \notin DOMAIN p => Attributes(p).alias_ipv6_to_ipv4 = FALSE
<1> DEFINE b == BuildArgs(p)
<1>1. /\ DOMAIN Attributes(p) = DOMAIN b \cup DOMAIN Defaults
      /\ \A x \in DOMAIN b : Attributes(p)[x] = b[x]
      /\ \A x \in DOMAIN Defaults \ DOMAIN b : Attributes(p)[x] = Defaults[x]
  BY Joined DEF Attributes
<1>2. \A a \in DOMAIN p \ {"merge_record_collisions"} : Attributes(p)[a] = p[a]
  BY <1>1, BuildArgsFacts
<1>3. /\ "merge_record_collisions" \notin DOMAIN Attributes(p)
      /\ {"ip_version", "record_size"} \subseteq DOMAIN Attributes(p)
      /\ DOMAIN Defaults \subseteq DOMAIN Attributes(p)
  BY <1>1, BuildArgsFacts, DefaultKeys DEF Parameters
<1>4. ASSUME NEW a \in {"alias_ipv6_to_ipv4", "remove_reserved_networks"}
      PROVE  a \in DOMAIN p \/ Attributes(p)[a] = Defaults[a]
  BY <1>1, BuildArgsFacts, DefaultKeys
<1>5. \A a \in {"alias_ipv6_to_ipv4", "remove_reserved_networks"} : Attributes(p)[a] \in BOOLEAN
  BY <1>2, <1>4, DefaultKeys DEF Parameters, Flags
<1>6. Settled(Attributes(p))
  BY <1>3, <1>5, DefaultKeys DEF Settled, Parameters, Flags
<1> QED BY <1>2, <1>4, <1>6, DefaultKeys

\* The epoch is one more attribute.
LEMMA EpochFacts ==
    ASSUME NEW a
    PROVE  /\ DOMAIN WithEpoch(a) = DOMAIN a \cup {"_build_epoch"}
           /\ \A x \in DOMAIN a : WithEpoch(a)[x] = a[x]
           /\ Settled(a) => Settled(WithEpoch(a))
<1>1. DOMAIN [_build_epoch |-> now] = {"_build_epoch"}
  OBVIOUS
<1>2. /\ DOMAIN WithEpoch(a) = DOMAIN a \cup {"_build_epoch"}
      /\ \A x \in DOMAIN a : WithEpoch(a)[x] = a[x]
  BY <1>1, Joined DEF WithEpoch
<1>3. ASSUME Settled(a) PROVE Settled(WithEpoch(a))
  <2>1. Parameters(WithEpoch(a))
    BY <1>2, <1>3 DEF Settled, Parameters, Flags
  <2> QED BY <1>2, <1>3, <2>1 DEF Settled
<1> QED BY <1>2, <1>3

\* The keys that an old file's flag may add.
LEMMA OldStrategyFacts ==
    ASSUME NEW p
    PROVE  /\ DOMAIN OldStrategy(p) \subseteq DOMAIN p \cup {"merge_strategy"}
           /\ DOMAIN p \subseteq DOMAIN OldStrategy(p)
           /\ \A a \in DOMAIN p \ {"merge_strategy"} : OldStrategy(p)[a] = p[a]
           /\ "merge_record_collisions" \notin DOMAIN p => OldStrategy(p) = p
<1>1. DOMAIN [merge_strategy |-> "toplevel"] = {"merge_strategy"}
  OBVIOUS
<1>2. CASE OldStrategy(p) = p
  BY <1>2
<1>3. CASE OldStrategy(p) # p
  <2>1. OldStrategy(p) = [merge_strategy |-> "toplevel"] ++ p
    BY <1>3 DEF OldStrategy
  <2>2. "merge_record_collisions" \in DOMAIN p
    <3>1. SUFFICES ASSUME "merge_record_collisions" \notin DOMAIN p PROVE FALSE
      OBVIOUS
    <3>2. Value(p, "merge_record_collisions", FALSE) = FALSE
      BY <3>1 DEF Value
    <3> QED BY <1>3, <3>2 DEF OldStrategy
  <2> HIDE DEF OldStrategy
  <2>3. /\ DOMAIN OldStrategy(p) = {"merge_strategy"} \cup DOMAIN p
        /\ \A x \in DOMAIN p \ {"merge_strategy"} : OldStrategy(p)[x] = p[x]
    <3> DEFINE s == [merge_strategy |-> "toplevel"]
    <3>1. /\ DOMAIN (s ++ p) = DOMAIN s \cup DOMAIN p
          /\ \A x \in DOMAIN p \ DOMAIN s : (s ++ p)[x] = p[x]
      BY Joined
    <3> QED BY <1>1, <2>1, <3>1
  <2> QED BY <2>2, <2>3
<1> QED BY <1>2, <1>3

\* What is thawed are good parameters: but for the overrides, those of the
\* file.
LEMMA ParamsFacts ==
    ASSUME Parameters(disk.params), NEW given \in Overrides
    PROVE  /\ Parameters(Params(given))
           /\ DOMAIN Params(given) \subseteq DOMAIN given \cup DOMAIN disk.params \cup {"merge_strategy"}
           /\ DOMAIN disk.params \subseteq DOMAIN Params(given)
           /\ \A a \in Flags \cap DOMAIN disk.params : Params(given)[a] = disk.params[a]
           /\ "merge_record_collisions" \notin DOMAIN disk.params => Params(given) = given ++ disk.params
<1> DEFINE q == IF "merge_strategy" \in DOMAIN given THEN disk.params ELSE OldStrategy(disk.params)
<1>1. /\ DOMAIN q \subseteq DOMAIN disk.params \cup {"merge_strategy"}
      /\ DOMAIN disk.params \subseteq DOMAIN q
      /\ \A a \in Flags \cap DOMAIN disk.params : q[a] = disk.params[a]
      /\ "merge_record_collisions" \notin DOMAIN disk.params => q = disk.params
  BY OldStrategyFacts DEF Flags
<1>2. Params(given) = given ++ q
  BY DEF Params
<1>3. DOMAIN given \cap Flags = {}
  <2>1. DOMAIN given \subseteq {"database_type", "merge_strategy", "record_size"}
    BY ArgumentAssumption
  <2> QED BY <2>1 DEF Flags
<1> HIDE DEF q
<1>4. /\ DOMAIN Params(given) = DOMAIN given \cup DOMAIN q
      /\ \A a \in DOMAIN q \ DOMAIN given : Params(given)[a] = q[a]
  <2>1. /\ DOMAIN (given ++ q) = DOMAIN given \cup DOMAIN q
        /\ \A a \in DOMAIN q \ DOMAIN given : (given ++ q)[a] = q[a]
    BY Joined
  <2> QED BY <1>2, <2>1
<1>5. \A a \in Flags \cap DOMAIN disk.params : Params(given)[a] = disk.params[a]
  BY <1>1, <1>3, <1>4
<1>6. \A a \in Flags : a \in DOMAIN Params(given) => a \in DOMAIN disk.params
  BY <1>1, <1>3, <1>4 DEF Flags
<1>7. Parameters(Params(given))
  BY <1>1, <1>4, <1>5, <1>6 DEF Parameters
<1> QED BY <1>1, <1>2, <1>4, <1>5, <1>7

\* The tree that C makes of good parameters, if it makes one, is the tree that
\* the attributes describe.
LEMMA CTreeFacts ==
    ASSUME NEW p, Parameters(p), Supported(CTree(p))
    PROVE  LET t == CTree(p)
               a == Attributes(p)
           IN  t \in Tree /\ DataOK(t) /\ "merge_strategy" \in DOMAIN p /\ Describes(a, t)
<1> DEFINE t == CTree(p)
<1> DEFINE a == Attributes(p)
<1>1. /\ t.ip_version = p.ip_version % 256 /\ t.record_size = p.record_size
      /\ t.merge_strategy = Value(p, "merge_strategy", "unknown")
      /\ t.alias = Value(p, "alias_ipv6_to_ipv4", FALSE)
      /\ t.reserved = Value(p, "remove_reserved_networks", FALSE)
      /\ t.data = {} /\ t.leaks = FALSE
  BY DEF CTree
<1>2. t.alias \in BOOLEAN /\ t.reserved \in BOOLEAN
  BY <1>1 DEF Value, Parameters, Flags
<1>3. t.merge_strategy \in Strategies /\ t.ip_version \in {4, 6} /\ t.record_size \in {24, 28, 32}
  BY DEF Supported
<1>4. t = [ip_version |-> t.ip_version, record_size |-> t.record_size,
           merge_strategy |-> t.merge_strategy, alias |-> t.alias,
           reserved |-> t.reserved, data |-> t.data, leaks |-> t.leaks]
  BY DEF CTree
<1>5. t \in Tree
  <2> HIDE DEF t
  <2> QED BY <1>1, <1>2, <1>3, <1>4 DEF Tree
<1>6. "merge_strategy" \in DOMAIN p
  BY <1>1, <1>3 DEF Value, Strategies
<1>7. \A x \in {"ip_version", "record_size", "merge_strategy"} : a[x] = p[x]
  BY <1>6, AttributesFacts DEF Parameters
<1>8. a.alias_ipv6_to_ipv4 = t.alias
  BY <1>1, AttributesFacts DEF Value
<1>9. t.reserved => a.remove_reserved_networks
  BY <1>1, AttributesFacts DEF Value
<1> QED
  <2> HIDE DEF t, a
  <2>1. /\ a.record_size = t.record_size /\ a.ip_version % 256 = t.ip_version
        /\ a.merge_strategy = t.merge_strategy
    BY <1>1, <1>6, <1>7 DEF Value
  <2>2. DataOK(t)
    BY <1>1 DEF DataOK
  <2> QED BY <1>5, <1>6, <1>8, <1>9, <2>1, <2>2 DEF t, a, Describes

-----------------------------------------------------------------------------
(* Objects and trees *)

\* An object is made with a tree of its own, which describes it.
LEMMA MadeFacts ==
    ASSUME ObjectInv, NEW o \in Object \ DOMAIN objects, NEW h \in Handle \ DOMAIN trees,
           NEW a, Settled(a), NEW t \in Tree, DataOK(t), Describes(a, t),
           objects' = objects ++ [x \in {o} |-> [attrs |-> a, tree |-> h]],
           trees' = trees ++ [x \in {h} |-> t], now' = now
    PROVE  /\ TypeOK' /\ MetadataDescribesTree' /\ AttributesOK' /\ TreesOK'
           /\ Ownerless' \subseteq Ownerless
           /\ DOMAIN objects' = DOMAIN objects \cup {o}
           /\ objects'[o].attrs = a /\ trees'[objects'[o].tree] = t
<1>1. /\ DOMAIN objects' = DOMAIN objects \cup {o}
      /\ \A x \in DOMAIN objects : objects'[x] = objects[x]
      /\ objects'[o] = [attrs |-> a, tree |-> h]
  BY DEF ++
<1>2. /\ DOMAIN trees' = DOMAIN trees \cup {h}
      /\ \A x \in DOMAIN trees : trees'[x] = trees[x]
      /\ trees'[h] = t
  BY DEF ++
<1>3. objects'[o].attrs = a /\ objects'[o].tree = h
  BY <1>1
<1>4. \A x \in DOMAIN objects : objects[x].tree \in DOMAIN trees
  BY DEF ObjectInv, TypeOK
<1>5. TypeOK'
  BY <1>1, <1>2, <1>3, <1>4 DEF ObjectInv, TypeOK
<1>6. MetadataDescribesTree'
  BY <1>1, <1>2, <1>3, <1>4 DEF ObjectInv, MetadataDescribesTree, Describes
<1>7. AttributesOK'
  BY <1>1, <1>3 DEF ObjectInv, AttributesOK
<1>8. TreesOK'
  BY <1>2 DEF ObjectInv, TreesOK
<1>9. Ownerless' \subseteq Ownerless
  BY <1>1, <1>2, <1>3 DEF Ownerless, Owned
<1> QED BY <1>1, <1>2, <1>3, <1>5, <1>6, <1>7, <1>8, <1>9

\* Reading the epoch changes no attribute that counts here.
LEMMA EpochRead ==
    ASSUME ObjectInv, NEW o \in DOMAIN objects,
           objects' = [objects EXCEPT ![o].attrs = WithEpoch(@)],
           UNCHANGED <<trees, now>>
    PROVE  /\ TypeOK' /\ MetadataDescribesTree' /\ AttributesOK' /\ TreesOK'
           /\ Ownerless' = Ownerless
           /\ objects'[o].attrs = WithEpoch(objects[o].attrs)
           /\ Settled(WithEpoch(objects[o].attrs))
<1>1. /\ objects[o] = [attrs |-> objects[o].attrs, tree |-> objects[o].tree]
      /\ Settled(objects[o].attrs)
  BY DEF ObjectInv, AttributesOK
<1>2. /\ DOMAIN objects' = DOMAIN objects
      /\ \A x \in DOMAIN objects \ {o} : objects'[x] = objects[x]
      /\ objects'[o] = [objects[o] EXCEPT !.attrs = WithEpoch(objects[o].attrs)]
  OBVIOUS
<1>3. objects'[o] = [attrs |-> WithEpoch(objects[o].attrs), tree |-> objects[o].tree]
  BY <1>1, <1>2
<1>4. /\ objects'[o].attrs = WithEpoch(objects[o].attrs)
      /\ \A x \in DOMAIN objects : objects'[x].tree = objects[x].tree
  BY <1>2, <1>3
<1>5. Settled(WithEpoch(objects[o].attrs))
  BY <1>1, EpochFacts
<1>6. \A x \in {"ip_version", "record_size", "merge_strategy", "alias_ipv6_to_ipv4",
                  "remove_reserved_networks"} :
        WithEpoch(objects[o].attrs)[x] = objects[o].attrs[x]
  <2>1. \A x \in DOMAIN objects[o].attrs : WithEpoch(objects[o].attrs)[x] = objects[o].attrs[x]
    BY EpochFacts
  <2>2. {"ip_version", "record_size", "merge_strategy", "alias_ipv6_to_ipv4",
         "remove_reserved_networks"} \subseteq DOMAIN objects[o].attrs
    BY <1>1 DEF Settled, Parameters
  <2> QED BY <2>1, <2>2
<1>7. TypeOK'
  BY <1>2, <1>4 DEF ObjectInv, TypeOK
<1>8. MetadataDescribesTree'
  BY <1>2, <1>4, <1>6 DEF ObjectInv, MetadataDescribesTree
<1>9. AttributesOK'
  BY <1>2, <1>3, <1>4, <1>5 DEF ObjectInv, AttributesOK
<1>10. TreesOK'
  BY DEF ObjectInv, TreesOK
<1>11. Owned' = Owned
  BY <1>2, <1>4 DEF Owned
<1> QED BY <1>4, <1>5, <1>7, <1>8, <1>9, <1>10, <1>11 DEF Ownerless

\* A tree is changed, but not what it was made with.
LEMMA TreeChanged ==
    ASSUME ObjectInv, NEW o \in DOMAIN objects, NEW t \in Tree, DataOK(t),
           t.ip_version = TreeOf(o).ip_version, t.record_size = TreeOf(o).record_size,
           t.merge_strategy = TreeOf(o).merge_strategy, t.alias = TreeOf(o).alias,
           t.reserved = TreeOf(o).reserved,
           trees' = [trees EXCEPT ![objects[o].tree] = t],
           UNCHANGED <<objects, disk, was, made, now>>
    PROVE  ObjectInv' /\ Ownerless' = Ownerless
<1> DEFINE h == objects[o].tree
<1>1. h \in DOMAIN trees /\ trees[h] \in Tree
  BY DEF ObjectInv, TypeOK
<1>2. /\ DOMAIN trees' = DOMAIN trees
      /\ \A x \in DOMAIN trees \ {h} : trees'[x] = trees[x]
      /\ trees'[h] = t /\ TreeOf(o) = trees[h]
  BY <1>1 DEF TreeOf
<1> HIDE DEF h
<1>3. /\ trees'[h] \in Tree
      /\ trees'[h].ip_version = trees[h].ip_version /\ trees'[h].record_size = trees[h].record_size
      /\ trees'[h].merge_strategy = trees[h].merge_strategy /\ trees'[h].alias = trees[h].alias
      /\ trees'[h].reserved = trees[h].reserved
  BY <1>2
<1>4. TypeOK'
  BY <1>2, <1>3 DEF ObjectInv, TypeOK
<1>5. MetadataDescribesTree'
  <2>1. SUFFICES ASSUME NEW x \in DOMAIN objects
        PROVE  Describes(objects[x].attrs, trees'[objects[x].tree])
    BY DEF MetadataDescribesTree, Describes
  <2>2. Describes(objects[x].attrs, trees[objects[x].tree])
    BY DEF ObjectInv, MetadataDescribesTree, Describes
  <2>3. objects[x].tree \in DOMAIN trees
    BY DEF ObjectInv, TypeOK
  <2> QED BY <1>2, <1>3, <2>2, <2>3 DEF Describes
<1>6. TreesOK'
  <2>1. DataOK(trees'[h])
    BY <1>2
  <2> QED BY <1>2, <2>1 DEF ObjectInv, TreesOK
<1>7. AttributesOK' /\ DiskOK' /\ WasOK'
  BY DEF ObjectInv, AttributesOK, DiskOK, WasOK
<1>8. Ownerless' = Ownerless
  BY <1>2 DEF Ownerless, Owned
<1> QED BY <1>4, <1>5, <1>6, <1>7, <1>8 DEF ObjectInv

-----------------------------------------------------------------------------
(* The steps *)

\* At first there is no object and no file.
LEMMA InitObjectInv == ObjectInit => ObjectInv
<1> SUFFICES ASSUME ObjectInit PROVE ObjectInv
  OBVIOUS
<1>1. DOMAIN objects = {} /\ DOMAIN trees = {}
  BY DEF ObjectInit
<1>2. TypeOK /\ MetadataDescribesTree /\ AttributesOK /\ TreesOK
  BY <1>1, ArgumentAssumption DEF ObjectInit, TypeOK, MetadataDescribesTree, AttributesOK, TreesOK
<1>3. DiskOK /\ WasOK
  BY DEF ObjectInit, DiskOK, WasOK, NoFile
<1> QED BY <1>2, <1>3 DEF ObjectInv

\* new
LEMMA NewStep ==
    ASSUME ObjectInv, NEW o \in Object, NEW args \in Given, New(o, args)
    PROVE  ObjectInv' /\ Ownerless' \subseteq Ownerless
<1> DEFINE a == Attributes(args)
<1>1. Parameters(args)
  BY ArgumentAssumption DEF Parameters, Flags
<1>2. Settled(a)
  BY <1>1, AttributesFacts
<1>3. Attributes(a) = a
  <2>1. BuildArgs(a) = a
    BY <1>2, BuildArgsFacts DEF Settled
  <2>2. a = BuildArgs(args) ++ Defaults
    BY DEF Attributes
  <2>3. Attributes(a) = (BuildArgs(args) ++ Defaults) ++ Defaults
    BY <2>1, <2>2 DEF Attributes
  <2> QED BY <2>2, <2>3, JoinedTwice
<1>4. CTree(a) \in Tree /\ DataOK(CTree(a)) /\ Describes(a, CTree(a))
  <2>1. Parameters(a) /\ Supported(CTree(a))
    BY <1>2 DEF Settled, New
  <2> HIDE DEF a
  <2> QED BY <1>3, <2>1, CTreeFacts
<1>5. PICK h \in Handle \ DOMAIN trees :
        /\ trees' = trees ++ [x \in {h} |-> CTree(a)]
        /\ objects' = objects ++ [x \in {o} |-> [attrs |-> a, tree |-> h]]
  BY DEF New
<1>6. o \in Object \ DOMAIN objects /\ UNCHANGED <<disk, was, now>>
  BY DEF New
<1> HIDE DEF a
<1>7. /\ TypeOK' /\ MetadataDescribesTree' /\ AttributesOK' /\ TreesOK'
      /\ Ownerless' \subseteq Ownerless
  BY <1>2, <1>4, <1>5, <1>6, MadeFacts
<1>8. DiskOK' /\ WasOK'
  BY <1>6 DEF ObjectInv, DiskOK, WasOK
<1> QED BY <1>7, <1>8 DEF ObjectInv

\* DEMOLISH: the tree was this object's only.
LEMMA DestroyStep ==
    ASSUME ObjectInv, NEW o \in Object, Destroy(o)
    PROVE  ObjectInv' /\ Abandons
<1> DEFINE g == objects[o].tree
<1>1. /\ o \in DOMAIN objects
      /\ DOMAIN objects' = DOMAIN objects \ {o}
      /\ \A x \in DOMAIN objects \ {o} : objects'[x] = objects[x]
      /\ UNCHANGED <<disk, was, made, now>>
  BY DEF Destroy
<1>2. /\ DOMAIN trees' = IF trees[g].leaks THEN DOMAIN trees ELSE DOMAIN trees \ {g}
      /\ \A h \in DOMAIN trees \ {g} : trees'[h] = trees[h]
      /\ \A h \in DOMAIN trees' : trees'[h] = trees[h]
  BY DEF Destroy, Demolish, TreeOf
<1>3. /\ \A x \in DOMAIN objects : objects[x].tree \in DOMAIN trees
      /\ \A x \in DOMAIN objects \ {o} : objects[x].tree # g
  BY <1>1 DEF ObjectInv, TypeOK
<1> HIDE DEF g
<1>4. /\ DOMAIN trees' \subseteq DOMAIN trees
      /\ \A x \in DOMAIN objects' : objects'[x].tree \in DOMAIN trees'
  BY <1>1, <1>2, <1>3
<1>5. TypeOK'
  BY <1>1, <1>2, <1>3, <1>4 DEF ObjectInv, TypeOK
<1>6. MetadataDescribesTree'
  BY <1>1, <1>2, <1>3 DEF ObjectInv, MetadataDescribesTree
<1>7. AttributesOK' /\ TreesOK'
  BY <1>1, <1>2, <1>4 DEF ObjectInv, AttributesOK, TreesOK
<1>8. DiskOK' /\ WasOK'
  BY <1>1 DEF ObjectInv, DiskOK, WasOK
<1>9. ASSUME NEW h \in Ownerless' \ Ownerless PROVE h \in DOMAIN trees /\ trees[h].leaks
  <2>1. h \in DOMAIN trees' /\ h \in DOMAIN trees /\ h \notin Owned' /\ h \in Owned
    BY <1>4, <1>9 DEF Ownerless
  <2>2. PICK x \in DOMAIN objects : h = objects[x].tree
    BY <2>1 DEF Owned
  <2>3. x = o
    BY <1>1, <2>1, <2>2 DEF Owned
  <2>4. h = g
    BY <2>2, <2>3 DEF g
  <2> QED BY <1>2, <2>1, <2>4
<1> QED BY <1>5, <1>6, <1>7, <1>8, <1>9 DEF ObjectInv, Abandons

\* An insert of a network that is reserved leaves the data as they are.
LEMMA FilledFacts ==
    ASSUME NEW t \in Tree, DataOK(t), NEW net \in Named, NEW s, NEW d \in Filled(t, net, s)
    PROVE  d \in SUBSET {"open", "reserved"} /\ (t.reserved => "reserved" \notin d)
<1>1. t.data \in SUBSET {"open", "reserved"} /\ t.reserved \in BOOLEAN
  BY DEF Tree
<1>2. net.reserved \in BOOLEAN
  BY ArgumentAssumption
<1>3. Place(net) \in {"open", "reserved"} /\ (~net.reserved => Place(net) = "open")
  BY <1>2 DEF Place
<1>4. d = t.data \/ (d = t.data \cup {Place(net)} /\ ~(t.reserved /\ net.reserved))
  <2>1. CASE t.reserved /\ net.reserved
    BY <2>1 DEF Filled
  <2>2. CASE ~(t.reserved /\ net.reserved)
    <3>1. d = t.data \cup {Place(net)} \/ d = t.data
      BY <2>2 DEF Filled
    <3> QED BY <2>2, <3>1
  <2> QED BY <2>1, <2>2
<1> QED BY <1>1, <1>2, <1>3, <1>4 DEF DataOK

\* insert_network, insert_range and remove_network
LEMMA InsertStep ==
    ASSUME ObjectInv, NEW o \in Object, NEW net \in Named, NEW opts \in Options,
           InsertNetwork(o, net, opts) \/ InsertRange(o, net, opts)
    PROVE  ObjectInv' /\ Ownerless' = Ownerless
<1> DEFINE c == TreeOf(o)
<1>1. /\ o \in DOMAIN objects
      /\ \E t \in Inserted(c, net, Strategy(o, opts)) :
            trees' = [trees EXCEPT ![objects[o].tree] = t]
      /\ UNCHANGED <<objects, disk, was, made, now>>
  BY DEF InsertNetwork, InsertRange, CanInsert
<1>2. PICK t \in Inserted(c, net, Strategy(o, opts)) :
        trees' = [trees EXCEPT ![objects[o].tree] = t]
  BY <1>1
<1>3. c \in Tree /\ DataOK(c)
  BY <1>1 DEF ObjectInv, TypeOK, TreesOK, TreeOf
<1> HIDE DEF c
<1>4. (\E d \in Filled(c, net, Strategy(o, opts)) : t = [c EXCEPT !.data = d])
      \/ t = [c EXCEPT !.leaks = TRUE]
  <2>1. t \in {[c EXCEPT !.data = d] : d \in Filled(c, net, Strategy(o, opts))}
        \/ t \in {[c EXCEPT !.leaks = TRUE]}
    BY <1>2 DEF Inserted
  <2> QED BY <2>1
<1>5. /\ t \in Tree /\ DataOK(t) /\ t.ip_version = c.ip_version
      /\ t.record_size = c.record_size /\ t.merge_strategy = c.merge_strategy
      /\ t.alias = c.alias /\ t.reserved = c.reserved
  <2>1. CASE t = [c EXCEPT !.leaks = TRUE]
    BY <1>3, <2>1 DEF Tree, DataOK
  <2>2. CASE \E d \in Filled(c, net, Strategy(o, opts)) : t = [c EXCEPT !.data = d]
    <3>1. PICK d \in Filled(c, net, Strategy(o, opts)) : t = [c EXCEPT !.data = d]
      BY <2>2
    <3>2. d \in SUBSET {"open", "reserved"} /\ (c.reserved => "reserved" \notin d)
      BY <1>3, FilledFacts
    <3> QED BY <1>3, <3>1, <3>2 DEF Tree, DataOK
  <2> QED BY <1>4, <2>1, <2>2
<1> QED BY <1>1, <1>2, <1>5, TreeChanged DEF c

\* Whatever is removed, no data comes to where there may be none.
LEMMA RemoveStep ==
    ASSUME ObjectInv, NEW o \in Object, NEW net \in Named, RemoveNetwork(o, net)
    PROVE  ObjectInv' /\ Ownerless' = Ownerless
<1>1. o \in DOMAIN objects /\ UNCHANGED <<objects, disk, was, made, now>>
  BY DEF RemoveNetwork, CanRemove
<1>2. PICK d \in {TreeOf(o).data, TreeOf(o).data \ {Place(net)}} :
        trees' = [trees EXCEPT ![objects[o].tree].data = d]
  BY DEF RemoveNetwork
<1>3. TreeOf(o) \in Tree /\ DataOK(TreeOf(o))
  BY <1>1 DEF ObjectInv, TypeOK, TreesOK, TreeOf
<1>4. TreeOf(o).data \in SUBSET {"open", "reserved"}
  BY <1>3 DEF Tree
<1>5. d \in SUBSET {"open", "reserved"} /\ (TreeOf(o).reserved => "reserved" \notin d)
  BY <1>3, <1>4 DEF DataOK
<1> DEFINE c == TreeOf(o)
           t == [c EXCEPT !.data = d]
<1>6. trees' = [trees EXCEPT ![objects[o].tree] = t]
  BY <1>2 DEF TreeOf
<1>7. c \in Tree /\ (c.reserved => "reserved" \notin d)
  BY <1>3, <1>5
<1> HIDE DEF c
<1>8. /\ t \in Tree /\ DataOK(t) /\ t.ip_version = c.ip_version
      /\ t.record_size = c.record_size /\ t.merge_strategy = c.merge_strategy
      /\ t.alias = c.alias /\ t.reserved = c.reserved
  BY <1>5, <1>7 DEF Tree, DataOK
<1> HIDE DEF t
<1> QED BY <1>1, <1>6, <1>8, TreeChanged DEF c

\* write_tree reads the epoch.
LEMMA WriteStep ==
    ASSUME ObjectInv, NEW o \in Object, Write(o)
    PROVE  ObjectInv' /\ Ownerless' = Ownerless
<1>1. /\ o \in DOMAIN objects /\ objects' = [objects EXCEPT ![o].attrs = WithEpoch(@)]
      /\ UNCHANGED <<trees, disk, was, now>>
  BY DEF Write
<1>2. /\ TypeOK' /\ MetadataDescribesTree' /\ AttributesOK' /\ TreesOK'
      /\ Ownerless' = Ownerless
  BY <1>1, EpochRead
<1>3. DiskOK' /\ WasOK'
  BY <1>1 DEF ObjectInv, DiskOK, WasOK
<1> QED BY <1>2, <1>3 DEF ObjectInv

\* freeze_tree, complete or not: the file is the object, or is cut.
LEMMA FreezeStep ==
    ASSUME ObjectInv, NEW o \in Object,
           Freeze(o) \/ FreezeStops(o) \/ FreezeStopsInData(o)
    PROVE  ObjectInv' /\ Ownerless' = Ownerless
<1> DEFINE a == WithEpoch(objects[o].attrs)
<1>1. /\ o \in DOMAIN objects /\ objects' = [objects EXCEPT ![o].attrs = WithEpoch(@)]
      /\ UNCHANGED <<trees, made, now>>
  BY DEF Freeze, FreezeStops, FreezeStopsInData
<1>2. /\ TypeOK' /\ MetadataDescribesTree' /\ AttributesOK' /\ TreesOK'
      /\ Ownerless' = Ownerless /\ objects'[o].attrs = a /\ Settled(a)
  BY <1>1, EpochRead
<1>3. /\ TreeOf(o).data \in SUBSET {"open", "reserved"} /\ DataOK(TreeOf(o))
      /\ TreeOf(o).leaks \in BOOLEAN
  <2>1. TreeOf(o) \in Tree /\ DataOK(TreeOf(o))
    BY <1>1 DEF ObjectInv, TypeOK, TreesOK, TreeOf
  <2> QED BY <2>1 DEF Tree
<1>4. Frozen(o) = a
  BY DEF Frozen
<1> HIDE DEF a
<1>5. CASE Freeze(o) \/ FreezeStopsInData(o)
  <2> DEFINE d == TreeOf(o).data
  <2>1. PICK s \in {"cut in data", "whole"}, u \in {FALSE, TreeOf(o).leaks} :
          /\ disk' = [state |-> s, params |-> a, data |-> d, unknown |-> u]
          /\ was' = [attrs |-> a, tree |-> TreeOf(o)]
    BY <1>2, <1>4, <1>5 DEF Freeze, FreezeStopsInData
  <2>2. disk'.state = s /\ disk'.params = a /\ disk'.data = d /\ disk'.unknown = u
    <3> HIDE DEF d
    <3> QED BY <2>1, Zenon
  <2>3. /\ disk'.state \in {"cut in data", "whole"} /\ disk'.params = a
        /\ disk'.data = TreeOf(o).data
        /\ disk'.unknown \in {FALSE, TreeOf(o).leaks}
    BY <2>2
  <2>4. DiskOK'
    BY <1>2, <1>3, <2>3 DEF DiskOK, Settled
  <2>5. WasOK'
    BY <1>2, <1>3, <2>1, <2>3 DEF WasOK
  <2> QED BY <1>2, <2>4, <2>5 DEF ObjectInv
<1>6. CASE FreezeStops(o)
  <2>1. /\ disk' = [state |-> "cut", params |-> a, data |-> {}, unknown |-> FALSE]
        /\ was' = Nobody
    BY <1>4, <1>6 DEF FreezeStops
  <2>2. DiskOK'
    BY <1>2, <2>1 DEF DiskOK, Settled
  <2>3. WasOK'
    BY <2>1 DEF WasOK, Nobody
  <2> QED BY <1>2, <2>2, <2>3 DEF ObjectInv
<1> QED BY <1>2, <1>5, <1>6

\* The file of an earlier version, where there is none.
LEMMA OldFileStep ==
    ASSUME ObjectInv, OldVersionFreezes
    PROVE  ObjectInv' /\ Ownerless' = Ownerless
<1>1. PICK p \in OldFiles, d \in SUBSET {"open", "reserved"}, u \in BOOLEAN :
        disk' = [state |-> "whole", params |-> p, data |-> d, unknown |-> u]
  BY DEF OldVersionFreezes
<1>2. disk.state = "none" /\ UNCHANGED <<objects, trees, was, made, now>>
  BY DEF OldVersionFreezes
<1>3. TypeOK' /\ MetadataDescribesTree' /\ AttributesOK' /\ TreesOK' /\ Ownerless' = Ownerless
  BY <1>2 DEF ObjectInv, TypeOK, MetadataDescribesTree, AttributesOK, TreesOK, Ownerless, Owned
<1>4. Parameters(p)
  BY ArgumentAssumption DEF Parameters, Flags
<1>5. DiskOK'
  <2>1. disk'.state = "whole" /\ disk'.params = p /\ disk'.data = d
    BY <1>1
  <2> QED BY <2>1, <1>4 DEF DiskOK
<1>6. WasOK'
  BY <1>2 DEF ObjectInv, WasOK, Nobody
<1> QED BY <1>3, <1>5, <1>6 DEF ObjectInv

\* What a thaw reads and makes.
LEMMA ThawFacts ==
    ASSUME ObjectInv, NEW o \in Object, NEW given \in Overrides, Thaw(o, given)
    PROVE  LET p == Params(given)
               a == Attributes(p)
               t == [CTree(p) EXCEPT !.data = ThawedData(CTree(p))]
           IN  /\ Parameters(disk.params) /\ Parameters(p) /\ Supported(CTree(p))
               /\ "merge_strategy" \in DOMAIN p /\ ~InConflict(p)
               /\ Settled(a) /\ Describes(a, t) /\ t \in Tree /\ DataOK(t)
               /\ t.data = ThawedData(CTree(p))
               /\ o \in Object \ DOMAIN objects
               /\ UNCHANGED <<disk, was, made, now>>
               /\ \E h \in Handle \ DOMAIN trees :
                    /\ trees' = trees ++ [x \in {h} |-> t]
                    /\ objects' = objects ++ [x \in {o} |-> [attrs |-> a, tree |-> h]]
<1> DEFINE p == Params(given)
<1> DEFINE c == CTree(p)
<1> DEFINE t == [c EXCEPT !.data = ThawedData(c)]
<1>1. Parameters(disk.params) /\ disk.data \in SUBSET {"open", "reserved"}
  <2>1. disk.state # "none"
    BY DEF Thaw
  <2> QED BY <2>1 DEF ObjectInv, DiskOK
<1>2. Parameters(p)
  BY <1>1, ParamsFacts
<1>3. /\ Supported(c) /\ ~InConflict(p)
      /\ o \in Object \ DOMAIN objects /\ UNCHANGED <<disk, was, made, now>>
      /\ \E h \in Handle \ DOMAIN trees :
            /\ trees' = trees ++ [x \in {h} |-> t]
            /\ objects' = objects ++ [x \in {o} |-> [attrs |-> Attributes(p), tree |-> h]]
  BY DEF Thaw, TreeParams
<1>4. Settled(Attributes(p))
  BY <1>2, AttributesFacts
<1>5. c \in Tree /\ "merge_strategy" \in DOMAIN p /\ Describes(Attributes(p), c)
  BY <1>2, <1>3, CTreeFacts
<1>6. ThawedData(c) \in SUBSET {"open", "reserved"} /\ (c.reserved => "reserved" \notin ThawedData(c))
  BY <1>1 DEF ThawedData
<1> HIDE DEF c
<1>7. /\ t \in Tree /\ t.data = ThawedData(c) /\ t.reserved = c.reserved
      /\ t.ip_version = c.ip_version /\ t.record_size = c.record_size
      /\ t.merge_strategy = c.merge_strategy /\ t.alias = c.alias
  BY <1>5, <1>6 DEF Tree
<1> HIDE DEF t
<1>8. DataOK(t) /\ Describes(Attributes(p), t)
  BY <1>5, <1>6, <1>7 DEF DataOK, Describes
<1> HIDE DEF p
<1> QED BY <1>1, <1>2, <1>3, <1>4, <1>5, <1>7, <1>8 DEF p, c, t

\* new_from_frozen_tree
LEMMA ThawStep ==
    ASSUME ObjectInv, NEW o \in Object, NEW given \in Overrides, Thaw(o, given)
    PROVE  ObjectInv' /\ Ownerless' \subseteq Ownerless
<1> DEFINE a == Attributes(Params(given))
<1> DEFINE t == [CTree(Params(given)) EXCEPT !.data = ThawedData(CTree(Params(given)))]
<1>1. /\ Settled(a) /\ Describes(a, t) /\ t \in Tree /\ DataOK(t)
      /\ o \in Object \ DOMAIN objects /\ UNCHANGED <<disk, was, made, now>>
      /\ \E h \in Handle \ DOMAIN trees :
            /\ trees' = trees ++ [x \in {h} |-> t]
            /\ objects' = objects ++ [x \in {o} |-> [attrs |-> a, tree |-> h]]
  BY ThawFacts
<1> HIDE DEF a, t
<1>2. /\ TypeOK' /\ MetadataDescribesTree' /\ AttributesOK' /\ TreesOK'
      /\ Ownerless' \subseteq Ownerless
  BY <1>1, MadeFacts
<1>3. DiskOK' /\ WasOK'
  BY <1>1 DEF ObjectInv, DiskOK, WasOK
<1> QED BY <1>2, <1>3 DEF ObjectInv

\* The parameters of a frozen object, thawed: the overrides and the rest of
\* its attributes.
LEMMA FrozenParams ==
    ASSUME ObjectInv, was # Nobody, NEW given \in Overrides
    PROVE  /\ Params(given) = given ++ was.attrs
           /\ "merge_record_collisions" \notin DOMAIN Params(given)
           /\ Params(given).remove_reserved_networks = was.attrs.remove_reserved_networks
           /\ "remove_reserved_networks" \in DOMAIN Params(given)
<1>1. Settled(was.attrs) /\ disk.params = was.attrs /\ Parameters(disk.params)
  BY DEF ObjectInv, WasOK, Settled
<1>2. DOMAIN given \subseteq {"database_type", "merge_strategy", "record_size"}
  BY ArgumentAssumption
<1>3. Params(given) = given ++ was.attrs
  BY <1>1, ParamsFacts DEF Settled
<1>4. /\ DOMAIN (given ++ was.attrs) = DOMAIN given \cup DOMAIN was.attrs
      /\ \A a \in DOMAIN was.attrs \ DOMAIN given : (given ++ was.attrs)[a] = was.attrs[a]
  BY Joined
<1> QED BY <1>1, <1>2, <1>3, <1>4 DEF Settled

\* What was frozen goes into a tree that leaves out the same networks.
LEMMA FrozenData ==
    ASSUME ObjectInv, AsSaid(was), NEW given \in Overrides
    PROVE  ThawedData(CTree(Params(given))) = was.tree.data /\ disk.data = was.tree.data
<1>1. /\ was # Nobody /\ was.attrs.remove_reserved_networks = was.tree.reserved
      /\ disk.data = was.tree.data /\ DataOK(was.tree)
  BY DEF AsSaid, ObjectInv, WasOK
<1>2. CTree(Params(given)).reserved = was.tree.reserved
  <2>1. CTree(Params(given)).reserved = Value(Params(given), "remove_reserved_networks", FALSE)
    BY DEF CTree
  <2>2. Value(Params(given), "remove_reserved_networks", FALSE) = Params(given).remove_reserved_networks
    BY <1>1, FrozenParams DEF Value
  <2> QED BY <1>1, <2>1, <2>2, FrozenParams
<1>3. CASE was.tree.reserved
  <2>1. "reserved" \notin disk.data
    BY <1>1, <1>3 DEF DataOK
  <2> QED BY <1>1, <1>2, <1>3, <2>1 DEF ThawedData
<1>4. CASE ~was.tree.reserved
  BY <1>1, <1>2, <1>4 DEF ThawedData
<1> QED BY <1>3, <1>4

\* A thaw dies after it has made a tree only of a file that is no frozen
\* object, or of one that had lost count.
LEMMA ThawDiesStep ==
    ASSUME ObjectInv, NEW given \in Overrides, ThawDies(given)
    PROVE  ObjectInv' /\ Abandons
<1> DEFINE t == CTree(TreeParams(given))
<1>1. /\ Supported(t) /\ UNCHANGED <<objects, disk, was, made, now>> /\ disk.state # "none"
      /\ \/ disk.state # "whole" \/ disk.unknown
         \/ ThawedData(t) # disk.data \/ InConflict(Params(given))
      /\ \E h \in Handle \ DOMAIN trees : trees' = trees ++ [x \in {h} |-> t]
  BY DEF ThawDies
<1>2. t = CTree(Params(given))
  BY DEF TreeParams
<1>3. Parameters(disk.params)
  BY <1>1 DEF ObjectInv, DiskOK
<1>4. t \in Tree /\ DataOK(t)
  BY <1>1, <1>2, <1>3, ParamsFacts, CTreeFacts
<1> HIDE DEF t
<1>5. PICK h \in Handle \ DOMAIN trees : trees' = trees ++ [x \in {h} |-> t]
  BY <1>1
<1>6. /\ DOMAIN trees' = DOMAIN trees \cup {h} /\ trees'[h] = t
      /\ \A x \in DOMAIN trees : trees'[x] = trees[x]
  BY <1>5 DEF ++
<1>7. \A x \in DOMAIN objects : objects[x].tree \in DOMAIN trees
  BY DEF ObjectInv, TypeOK
<1>8. TypeOK' /\ MetadataDescribesTree' /\ TreesOK'
  <2>1. TypeOK'
    BY <1>1, <1>4, <1>5, <1>6, <1>7 DEF ObjectInv, TypeOK
  <2>2. MetadataDescribesTree'
    BY <1>1, <1>6, <1>7 DEF ObjectInv, MetadataDescribesTree
  <2>3. TreesOK'
    BY <1>4, <1>6 DEF ObjectInv, TreesOK
  <2> QED BY <2>1, <2>2, <2>3
<1>9. AttributesOK' /\ DiskOK' /\ WasOK'
  BY <1>1 DEF ObjectInv, AttributesOK, DiskOK, WasOK
<1>10. ASSUME disk.state = "whole", AsSaid(was), ~was.tree.leaks PROVE FALSE
  <2>1. ThawedData(t) = disk.data
    BY <1>2, <1>10, FrozenData
  <2>2. "merge_record_collisions" \notin DOMAIN Params(given)
    BY <1>10, FrozenParams DEF AsSaid
  <2>3. ~InConflict(Params(given))
    BY <2>2 DEF InConflict
  <2>4. ~disk.unknown
    BY <1>10 DEF AsSaid, ObjectInv, WasOK
  <2> QED BY <1>1, <1>10, <2>1, <2>3, <2>4
<1>11. ASSUME NEW x \in Ownerless' \ Ownerless PROVE x \notin DOMAIN trees
  BY <1>1, <1>11 DEF Ownerless, Owned
<1> QED BY <1>8, <1>9, <1>10, <1>11 DEF ObjectInv, Abandons

\* Time passes.
LEMMA TickStep ==
    ASSUME ObjectInv, Tick
    PROVE  ObjectInv' /\ Ownerless' = Ownerless
<1>1. now' \in 0..LastSecond /\ UNCHANGED <<objects, trees, disk, was, made>>
  BY ArgumentAssumption DEF Tick, ObjectInv, TypeOK
<1>2. TypeOK'
  BY <1>1 DEF ObjectInv, TypeOK
<1>3. MetadataDescribesTree' /\ AttributesOK' /\ TreesOK' /\ DiskOK' /\ WasOK'
  BY <1>1 DEF ObjectInv, MetadataDescribesTree, AttributesOK, TreesOK, DiskOK, WasOK
<1> QED BY <1>1, <1>2, <1>3 DEF ObjectInv, Ownerless, Owned

\* Every step keeps ObjectInv, and leaves a tree to nobody only as
\* FreedWithItsObject says.
LEMMA ObjectStep ==
    ASSUME ObjectInv, [ObjectNext]_ovars
    PROVE  ObjectInv' /\ Abandons
<1>1. ASSUME NEW o \in Object, NEW args \in Given, New(o, args)
      PROVE  ObjectInv' /\ Ownerless' \subseteq Ownerless
  BY <1>1, NewStep
<1>2. ASSUME NEW o \in Object, NEW net \in Named, NEW opts \in Options,
             InsertNetwork(o, net, opts) \/ InsertRange(o, net, opts)
      PROVE  ObjectInv' /\ Ownerless' \subseteq Ownerless
  BY <1>2, InsertStep
<1>3. ASSUME NEW o \in Object, NEW net \in Named, RemoveNetwork(o, net)
      PROVE  ObjectInv' /\ Ownerless' \subseteq Ownerless
  BY <1>3, RemoveStep
<1>4. ASSUME NEW o \in Object, NEW given \in Overrides, Thaw(o, given)
      PROVE  ObjectInv' /\ Ownerless' \subseteq Ownerless
  BY <1>4, ThawStep
<1>5. ASSUME NEW o \in Object,
             Write(o) \/ Freeze(o) \/ FreezeStops(o) \/ FreezeStopsInData(o)
      PROVE  ObjectInv' /\ Ownerless' \subseteq Ownerless
  BY <1>5, WriteStep, FreezeStep
<1>6. ASSUME NEW o \in Object, Destroy(o) PROVE ObjectInv' /\ Abandons
  BY <1>6, DestroyStep
<1>7. ASSUME NEW given \in Overrides, ThawDies(given) PROVE ObjectInv' /\ Abandons
  BY <1>7, ThawDiesStep
<1>9. CASE OldVersionFreezes \/ Tick
  BY <1>9, OldFileStep, TickStep DEF Abandons
<1>8. CASE UNCHANGED ovars
  <2>1. UNCHANGED <<objects, trees, disk, was, made, now>>
    BY <1>8 DEF ovars
  <2>2. TypeOK' /\ MetadataDescribesTree' /\ AttributesOK' /\ TreesOK'
    BY <2>1 DEF ObjectInv, TypeOK, MetadataDescribesTree, AttributesOK, TreesOK
  <2>3. DiskOK' /\ WasOK'
    BY <2>1 DEF ObjectInv, DiskOK, WasOK
  <2>4. Ownerless' \subseteq Ownerless
    BY <2>1 DEF Ownerless, Owned
  <2> QED BY <2>2, <2>3, <2>4 DEF ObjectInv, Abandons
<1>10. Ownerless' \subseteq Ownerless => Abandons
  BY DEF Abandons
<1> QED BY <1>1, <1>2, <1>3, <1>4, <1>5, <1>6, <1>7, <1>8, <1>9, <1>10 DEF ObjectNext

\* The inductive invariant holds in every state.
LEMMA ObjectInvAlways == ObjectSpec => []ObjectInv
<1>1. ObjectInit => ObjectInv
  BY InitObjectInv
<1>2. ObjectInv /\ [ObjectNext]_ovars => ObjectInv'
  BY ObjectStep
<1> QED BY <1>1, <1>2, PTL DEF ObjectSpec

-----------------------------------------------------------------------------
(* Theorems *)

\* Objects, trees and the clock keep their types, and no two objects share a
\* C tree, whatever new and new_from_frozen_tree are given.
THEOREM ObjectTypeCorrect == ObjectSpec => []TypeOK
<1>1. ObjectInv => TypeOK
  BY DEF ObjectInv
<1> QED BY <1>1, ObjectInvAlways, PTL

\* Every live object's attributes, of which the metadata are written, describe
\* the C tree that write_tree writes: for every override, old file and option.
THEOREM MetadataDescribesTreeAlways == ObjectSpec => []MetadataDescribesTree
<1>1. ObjectInv => MetadataDescribesTree
  BY DEF ObjectInv
<1> QED BY <1>1, ObjectInvAlways, PTL

\* Two keys are two.
LEMMA OneKey ==
    ASSUME NEW S, IsFiniteSet(S), Cardinality(S) <= 1, NEW x \in S, NEW y \in S
    PROVE  x = y
<1>1. SUFFICES ASSUME x # y PROVE FALSE
  OBVIOUS
<1>2. /\ IsFiniteSet({x, y}) /\ Cardinality({x, y}) = 2
  <2>1. IsFiniteSet({x}) /\ Cardinality({x}) = 1
    BY FS_Singleton
  <2>2. y \notin {x} /\ {x, y} = {x} \cup {y}
    BY <1>1
  <2>3. /\ IsFiniteSet({x} \cup {y})
        /\ Cardinality({x} \cup {y}) = IF y \in {x} THEN Cardinality({x}) ELSE Cardinality({x}) + 1
    BY <2>1, FS_AddElement
  <2> QED BY <2>1, <2>2, <2>3
<1>3. Cardinality({x, y}) <= Cardinality(S)
  BY FS_Subset
<1>4. Cardinality(S) \in Nat
  BY FS_CardinalityType
<1> QED BY <1>2, <1>3, <1>4

\* An insert merges as its options ask, and otherwise as the object's
\* merge_strategy says, for any options that do not die.
THEOREM MergesAsDocumentedAlways == ObjectSpec => []MergesAsDocumented
<1>1. ObjectInv => MergesAsDocumented
  <2> SUFFICES ASSUME ObjectInv, NEW o \in DOMAIN objects, NEW opts \in Options, ~Dies(opts)
      PROVE  Strategy(o, opts) =
                CASE "merge_strategy" \in DOMAIN opts -> opts.merge_strategy
                  [] "force_overwrite" \in DOMAIN opts -> "none"
                  [] "insert_only_if_parent_exists" \in DOMAIN opts -> "add-only-if-parent-exists"
                  [] OTHER -> objects[o].attrs.merge_strategy
    BY DEF MergesAsDocumented
  <2>1. \A x, y \in DOMAIN opts : x = y
    <3>1. IsFiniteSet(DOMAIN opts) /\ ~(Cardinality(DOMAIN opts) > 1)
      BY ArgumentAssumption DEF Dies
    <3>2. Cardinality(DOMAIN opts) <= 1
      BY <3>1, FS_CardinalityType
    <3> QED BY <3>1, <3>2, OneKey
  <2>2. Value(opts, "merge_strategy", "none") \in Strategies
    BY DEF Dies
  <2>3. TreeOf(o).merge_strategy = objects[o].attrs.merge_strategy
    BY DEF ObjectInv, MetadataDescribesTree, TreeOf
  <2>4. CASE "merge_strategy" \in DOMAIN opts
    <3>1. opts.merge_strategy \in Strategies
      BY <2>2, <2>4 DEF Value
    <3>2. {"force_overwrite", "insert_only_if_parent_exists"} \cap DOMAIN opts = {}
      BY <2>1, <2>4
    <3>3. AskedStrategy(opts) = opts.merge_strategy
      BY <2>4, <3>2 DEF AskedStrategy, Value
    <3>4. Strategy(o, opts) = opts.merge_strategy
      BY <3>1, <3>3 DEF Strategy, StrategyUsed, Strategies
    <3> QED BY <2>4, <3>2, <3>4
  <2>5. CASE "force_overwrite" \in DOMAIN opts
    <3>1. {"merge_strategy", "insert_only_if_parent_exists"} \cap DOMAIN opts = {}
      BY <2>1, <2>5
    <3>2. AskedStrategy(opts) = "none"
      BY <2>5, <3>1 DEF AskedStrategy
    <3>3. Strategy(o, opts) = "none"
      BY <3>2 DEF Strategy, StrategyUsed
    <3> QED BY <2>5, <3>1, <3>3
  <2>6. CASE "insert_only_if_parent_exists" \in DOMAIN opts
    <3>1. /\ AskedStrategy(opts) = "add-only-if-parent-exists"
          /\ {"merge_strategy", "force_overwrite"} \cap DOMAIN opts = {}
      BY <2>1, <2>6 DEF AskedStrategy
    <3> QED BY <2>6, <3>1 DEF Strategy, StrategyUsed
  <2>7. CASE {"merge_strategy", "force_overwrite", "insert_only_if_parent_exists"}
                \cap DOMAIN opts = {}
    <3>1. AskedStrategy(opts) = "unknown"
      BY <2>7 DEF AskedStrategy, Value
    <3> QED BY <2>3, <2>7, <3>1 DEF Strategy, StrategyUsed
  <2> QED BY <2>4, <2>5, <2>6, <2>7
<1> QED BY <1>1, ObjectInvAlways, PTL

\* What is inserted is the network that was named, whatever the text of its
\* prefix, and so is what is removed if there is such a prefix.
THEOREM InsertsNamedNetworkAlways == ObjectSpec => []InsertsNamedNetwork
<1>1. ObjectInv => InsertsNamedNetwork
  <2> SUFFICES ASSUME ObjectInv, NEW o \in DOMAIN objects, NEW net \in Named
      PROVE  LET v6 == objects[o].attrs.ip_version % 256 = 6
                 named == net.prefix.is = "number" /\ net.prefix.value \in 0..128
             IN  /\ CanInsert(o, net) /\ net.prefix.is = "number" => named
                 /\ CanInsert(o, net) \/ CanRemove(o, net) =>
                     /\ named => Length(o, net) = net.prefix.value
                                     + (IF v6 /\ net.family = 4 THEN 96 ELSE 0)
                     /\ Length(o, net) <= (IF v6 THEN 128 ELSE 32)
    BY DEF InsertsNamedNetwork
  <2> DEFINE t == TreeOf(o)
  <2> DEFINE length == Cut(net.prefix)
  <2>1. t.ip_version \in {4, 6} /\ t.ip_version = objects[o].attrs.ip_version % 256
    <3>1. t \in Tree /\ t.ip_version = objects[o].attrs.ip_version % 256
      BY DEF ObjectInv, TypeOK, MetadataDescribesTree, TreeOf
    <3> QED BY <3>1 DEF Tree
  <2>2. net.family \in {4, 6} /\ net.prefix.value \in Int
    BY ArgumentAssumption
  <2>3. /\ length \in Int
        /\ net.prefix.value \in 0..128 => length = net.prefix.value
    BY <2>2 DEF Cut
  <2>4. CanInsert(o, net) => net.prefix.value \in 0..128
    BY DEF CanInsert, Valid
  <2>5. CanInsert(o, net) \/ CanRemove(o, net) => ~Croaks(t, net, length)
    BY DEF CanInsert, CanRemove
  <2>6. Length(o, net) = Resolve(t, net, length)
    BY DEF Length
  <2> HIDE DEF t, length
  <2>7. ~Croaks(t, net, length) =>
            Resolve(t, net, length) <= (IF t.ip_version = 6 THEN 128 ELSE 32)
    BY <2>1, <2>2, <2>3 DEF Croaks, Resolve
  <2> QED BY <2>1, <2>2, <2>3, <2>4, <2>5, <2>6, <2>7 DEF Resolve
<1> QED BY <1>1, ObjectInvAlways, PTL

\* A C tree is freed with its object unless a merge has failed in it below the
\* top level, and one is made for nobody only when a file is thawed that is no
\* frozen object, or one with such a tree.
THEOREM FreedWithItsObjectHolds == ObjectSpec => FreedWithItsObject
<1>1. ObjectInv /\ [ObjectNext]_ovars =>
        [\A h \in Ownerless' \ Ownerless :
            IF h \in DOMAIN trees THEN trees[h].leaks
            ELSE disk.state # "whole" \/ ~AsSaid(was) \/ was.tree.leaks]_ovars
  BY ObjectStep DEF Abandons
<1> QED BY <1>1, ObjectInvAlways, PTL DEF ObjectSpec, FreedWithItsObject

\* Thawing a frozen object gives that object but for what was overridden: for
\* any attributes, at any later time.
THEOREM ThawedObjectIsFrozenObjectHolds == ObjectSpec => ThawedObjectIsFrozenObject
<1>1. ASSUME ObjectInv, NEW o \in DOMAIN objects' \ DOMAIN objects, NEW given \in Overrides,
             Thaw(o, given), was # Nobody, o \in Object
      PROVE  /\ objects'[o].attrs = given ++ was.attrs
             /\ AsSaid(was) => trees'[objects'[o].tree].data = was.tree.data
  <2> DEFINE p == Params(given)
  <2> DEFINE a == Attributes(p)
  <2> DEFINE t == [CTree(p) EXCEPT !.data = ThawedData(CTree(p))]
  <2>1. /\ Settled(a) /\ Describes(a, t) /\ t \in Tree /\ DataOK(t)
        /\ t.data = ThawedData(CTree(p)) /\ now' = now
        /\ o \in Object \ DOMAIN objects
        /\ \E h \in Handle \ DOMAIN trees :
            /\ trees' = trees ++ [x \in {h} |-> t]
            /\ objects' = objects ++ [x \in {o} |-> [attrs |-> a, tree |-> h]]
    BY <1>1, ThawFacts
  <2>2. p = given ++ was.attrs /\ "merge_record_collisions" \notin DOMAIN p
    BY <1>1, FrozenParams
  <2>3. a = (given ++ was.attrs) ++ Defaults
    BY <2>2, BuildArgsFacts DEF Attributes
  <2>4. DOMAIN Defaults \subseteq DOMAIN given \cup DOMAIN was.attrs
    BY <1>1, DefaultKeys DEF ObjectInv, WasOK, Settled
  <2>5. a = given ++ was.attrs
    BY <2>3, <2>4, JoinedTwice
  <2> HIDE DEF a, t, p
  <2>6. objects'[o].attrs = a /\ trees'[objects'[o].tree] = t
    <3>1. PICK h \in Handle \ DOMAIN trees :
            /\ trees' = trees ++ [x \in {h} |-> t]
            /\ objects' = objects ++ [x \in {o} |-> [attrs |-> a, tree |-> h]]
      BY <2>1
    <3>2. objects'[o] = [attrs |-> a, tree |-> h] /\ trees'[h] = t
      BY <2>1, <3>1 DEF ++
    <3> QED BY <3>2
  <2>7. AsSaid(was) => t.data = was.tree.data
    BY <1>1, <2>1, FrozenData DEF p
  <2> QED BY <2>5, <2>6, <2>7
<1>2. ASSUME NEW o, NEW given, Thaw(o, given), o \in DOMAIN objects', [ObjectNext]_ovars, ObjectInv
      PROVE  o \in Object
  <2>1. ObjectInv'
    BY <1>2, ObjectStep
  <2> QED BY <1>2, <2>1 DEF ObjectInv, TypeOK
<1>3. ObjectInv /\ [ObjectNext]_ovars =>
        [\A o \in DOMAIN objects' \ DOMAIN objects, given \in Overrides :
            Thaw(o, given) /\ was # Nobody =>
                /\ objects'[o].attrs = given ++ was.attrs
                /\ AsSaid(was) => trees'[objects'[o].tree].data = was.tree.data]_ovars
  BY <1>1, <1>2
<1> QED BY <1>3, ObjectInvAlways, PTL DEF ObjectSpec, ThawedObjectIsFrozenObject

\* A tree from before merge_strategy merges after it was thawed if and only if
\* it did before, whatever is overridden.
THEOREM OldFilesKeepTheirFlagHolds == ObjectSpec => OldFilesKeepTheirFlag
<1>1. ASSUME ObjectInv, NEW o \in Object, NEW given \in Overrides,
             Thaw(o, given), "merge_record_collisions" \in DOMAIN disk.params
      PROVE  (objects'[o].attrs.merge_strategy # "none") = disk.params.merge_record_collisions
  <2> DEFINE p == Params(given)
  <2> DEFINE a == Attributes(p)
  <2> DEFINE t == [CTree(p) EXCEPT !.data = ThawedData(CTree(p))]
  <2>1. /\ Settled(a) /\ Describes(a, t) /\ t \in Tree /\ DataOK(t) /\ now' = now
        /\ Parameters(disk.params) /\ Parameters(p)
        /\ "merge_strategy" \in DOMAIN p /\ ~InConflict(p)
        /\ o \in Object \ DOMAIN objects
        /\ \E h \in Handle \ DOMAIN trees :
            /\ trees' = trees ++ [x \in {h} |-> t]
            /\ objects' = objects ++ [x \in {o} |-> [attrs |-> a, tree |-> h]]
    BY <1>1, ThawFacts
  <2>2. /\ "merge_record_collisions" \in DOMAIN p
        /\ p.merge_record_collisions = disk.params.merge_record_collisions
    BY <1>1, <2>1, ParamsFacts DEF Flags
  <2>3. disk.params.merge_record_collisions \in BOOLEAN
    BY <1>1, <2>1 DEF Parameters, Flags
  <2>4. a.merge_strategy = p.merge_strategy
    BY <2>1, AttributesFacts
  <2> HIDE DEF a, t, p
  <2>5. objects'[o].attrs = a
    <3>1. PICK h \in Handle \ DOMAIN trees :
            /\ trees' = trees ++ [x \in {h} |-> t]
            /\ objects' = objects ++ [x \in {o} |-> [attrs |-> a, tree |-> h]]
      BY <2>1
    <3>2. objects'[o] = [attrs |-> a, tree |-> h]
      BY <2>1, <3>1 DEF ++
    <3> QED BY <3>2
  <2>6. ~((p.merge_strategy = "none") = p.merge_record_collisions)
    BY <2>1, <2>2 DEF InConflict
  <2> QED BY <2>2, <2>3, <2>4, <2>5, <2>6
<1>2. ASSUME NEW o \in DOMAIN objects', [ObjectNext]_ovars, ObjectInv
      PROVE  o \in Object
  <2>1. ObjectInv'
    BY <1>2, ObjectStep
  <2> QED BY <1>2, <2>1 DEF ObjectInv, TypeOK
<1>3. ObjectInv /\ [ObjectNext]_ovars =>
        [\A o \in DOMAIN objects' \ DOMAIN objects, given \in Overrides :
            Thaw(o, given) /\ "merge_record_collisions" \in DOMAIN disk.params =>
                (objects'[o].attrs.merge_strategy # "none") = disk.params.merge_record_collisions]_ovars
  BY <1>1, <1>2
<1> QED BY <1>3, ObjectInvAlways, PTL DEF ObjectSpec, OldFilesKeepTheirFlag

=============================================================================
