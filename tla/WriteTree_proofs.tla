-------------------------- MODULE WriteTree_proofs --------------------------
(***************************************************************************)
(* A node is written where its number says it is, and each value is stored *)
(* once.                                                                   *)
(*                                                                         *)
(* Numbering and writing go through the nodes in the same order: a node    *)
(* before those below it, the left half before the right one.  The frames  *)
(* left on the stack stand for the nodes from the first frame on, so that  *)
(* the nodes done are those before it, and a number is how many these are. *)
(***************************************************************************)
EXTENDS WriteTree, Lookup_proofs

-----------------------------------------------------------------------------
(* Counting the nodes                                                      *)

Done(s) == {q \in Nodes : ~Waits(s, q)}
Rank(p) == Cardinality({q \in Nodes : Before(q, p)})

\* The nodes are finitely many.
LEMMA NodesCounted ==
    /\ \A S \in SUBSET Nodes : /\ IsFiniteSet(S) /\ Cardinality(S) \in Nat
                               /\ Cardinality(S) <= Cardinality(Nodes)
    /\ Cardinality(Nodes) \in Nat
    /\ \A s : Cardinality(Done(s)) \in Nat
    /\ \A p : Rank(p) \in Nat
<1>1. \A S \in SUBSET Nodes : IsFiniteSet(S) /\ Cardinality(S) \in Nat
  BY PositionsCounted DEF Nodes
<1>2. \A S \in SUBSET Nodes : Cardinality(S) <= Cardinality(Nodes)
  BY <1>1, FS_Subset
<1> QED BY <1>1, <1>2 DEF Done, Rank

\* A node whose turn it is comes after exactly the nodes done, and is the only
\* one done when it is left.
LEMMA DueNode ==
    ASSUME NEW s, InOrder(s), s # << >>, Head(s).due
    PROVE  /\ Head(s).at \in Nodes /\ InOrder(Tail(s))
           /\ Rank(Head(s).at) = Cardinality(Done(s))
           /\ Done(Tail(s)) = Done(s) \cup {Head(s).at}
           /\ Cardinality(Done(Tail(s))) = Cardinality(Done(s)) + 1
<1> DEFINE p == Head(s).at
<1>1. /\ InOrder(Tail(s)) /\ p \in Nodes
      /\ \A q \in Nodes : Waits(s, q) <=> ~Before(q, p)
      /\ \A q \in Nodes : Waits(s, q) <=> q = p \/ Waits(Tail(s), q)
      /\ \A q \in Nodes : Waits(Tail(s), q) =>
            Tail(s) # << >> /\ ~Before(q, Tail(s)[1].at)
      /\ Tail(s) # << >> => Before(p, Tail(s)[1].at)
  BY Pop DEF Stands
<1> HIDE DEF p
<1>2. Rank(p) = Cardinality(Done(s))
  <2>1. {q \in Nodes : Before(q, p)} = Done(s)
    BY <1>1 DEF Done
  <2> QED BY <2>1 DEF Rank
<1>3. p \notin Done(s) /\ Waits(s, p) /\ ~Waits(Tail(s), p)
  BY <1>1 DEF Done
<1>4. Done(Tail(s)) = Done(s) \cup {p}
  BY <1>1, <1>3 DEF Done
<1>5. IsFiniteSet(Done(s))
  <2>1. Done(s) \in SUBSET Nodes
    BY DEF Done
  <2> QED BY <2>1, NodesCounted
<1>6. Cardinality(Done(s) \cup {p}) = Cardinality(Done(s)) + 1
  BY <1>3, <1>5, FS_AddElement
<1> QED BY <1>1, <1>2, <1>4, <1>6 DEF p

\* With nothing left all nodes are done, at first none.
LEMMA DoneAtEnds ==
    /\ Done(<< >>) = Nodes
    /\ \A s : (\A q \in Nodes : Waits(s, q)) => Done(s) = {} /\ Cardinality(Done(s)) = 0
<1>1. \A q : ~Waits(<< >>, q)
  BY SequenceFacts DEF Waits
<1> QED BY <1>1, FS_EmptySet DEF Done

\* A later node has the higher rank, and no rank is as high as there are nodes.
LEMMA RanksRise ==
    ASSUME NEW p \in Nodes
    PROVE  /\ Rank(p) < Cardinality(Nodes)
           /\ \A q \in Nodes : Before(q, p) => Rank(q) < Rank(p)
<1> DEFINE S(r) == {q \in Nodes : Before(q, r)}
<1>1. \A q \in Nodes : q \in Prefix
  BY DEF Nodes
<1>2. ASSUME NEW T \in SUBSET Nodes, NEW U \in SUBSET T, T # U
      PROVE  Cardinality(U) < Cardinality(T)
  <2>1. IsFiniteSet(T) /\ Cardinality(T) \in Nat
    BY NodesCounted
  <2>2. Cardinality(U) <= Cardinality(T) /\ Cardinality(U) # Cardinality(T)
    BY <1>2, <2>1, FS_Subset
  <2>3. U \in SUBSET Nodes
    OBVIOUS
  <2>4. Cardinality(U) \in Nat
    BY <2>3, NodesCounted
  <2> QED BY <2>1, <2>2, <2>4
<1>3. Rank(p) < Cardinality(Nodes)
  <2>1. p \notin S(p)
    BY <1>1, OrderOfNodes
  <2>2. S(p) \in SUBSET Nodes /\ S(p) # Nodes /\ Nodes \in SUBSET Nodes
    BY <2>1
  <2> HIDE DEF S
  <2>3. Cardinality(S(p)) < Cardinality(Nodes)
    BY <1>2, <2>2
  <2> QED BY <2>3 DEF S, Rank
<1>4. ASSUME NEW q \in Nodes, Before(q, p) PROVE Rank(q) < Rank(p)
  <2>1. q \in S(p) /\ q \notin S(q)
    BY <1>1, <1>4, OrderOfNodes
  <2>2. S(q) \subseteq S(p)
    BY <1>1, <1>4, OrderOfNodes
  <2>3. S(p) \in SUBSET Nodes
    OBVIOUS
  <2> HIDE DEF S
  <2>4. Cardinality(S(q)) < Cardinality(S(p))
    BY <1>2, <2>1, <2>2, <2>3
  <2> QED BY <2>4 DEF S, Rank
<1> QED BY <1>3, <1>4

-----------------------------------------------------------------------------
(* Numbering and writing                                                   *)

\* The traversal that numbers and the one that writes go the same way, so that
\* a node is written at the place its number says.
OrderInv ==
    /\ task # "none" => CanIterate
    /\ task \in {"number", "write"} => InOrder(stack)
    /\ task = "number" =>
          /\ purpose \in {"count", "write", "iterate"}
          /\ node_count = Cardinality(Done(stack))
          /\ \A p \in Done(stack) : number[p] = Rank(p)
    /\ task = "write" =>
          /\ node_count = Cardinality(Nodes)
          /\ \A p \in Nodes : number[p] = Rank(p)
          /\ IsSeq(file) /\ Len(file) = Cardinality(Done(stack))
    /\ task \notin {"write", "written"} => file = << >>
    /\ number \in [Prefix -> Nat] /\ node_count \in Nat

\* While the tree does not change, neither does the order of its nodes.
LEMMA SameOrder ==
    ASSUME recs' = recs
    PROVE  /\ Nodes' = Nodes
           /\ \A s : InOrder(s)' <=> InOrder(s)
           /\ \A s : Done(s)' = Done(s)
           /\ \A p : Rank(p)' = Rank(p)
<1>1. Nodes' = Nodes
  BY DEF Nodes
<1> QED BY <1>1 DEF InOrder, Done, Rank

\* A new traversal of the nodes.
LEMMA Restart ==
    ASSUME IsTree(recs), CanIterate, recs' = recs, stack' = <<RootFrame>>
    PROVE  InOrder(stack)' /\ Done(stack)' = {} /\ Cardinality(Done(stack))' = 0
<1>1. InOrder(stack') /\ Done(stack') = {} /\ Cardinality(Done(stack')) = 0
  BY BeginInOrder, DoneAtEnds DEF CanIterate
<1> QED BY <1>1, SameOrder

\* The end of a call, and the return to the iteration it was made in.
LEMMA EndsOrder ==
    ASSUME OrderInv, task # "none", UNCHANGED vars, Ends \/ Croaks
    PROVE  OrderInv'
<1>1. recs' = recs /\ op' = op /\ CanIterate
  BY DEF vars, OrderInv
<1>2. CASE Rest
  <2>1. task' = "none" /\ file' = << >> /\ UNCHANGED <<number, node_count>>
    BY <1>2 DEF Rest
  <2> QED BY <2>1 DEF OrderInv
<1>3. CASE Resume
  <2>1. task' = "iterate" /\ file' = << >> /\ UNCHANGED <<number, node_count>>
    BY <1>3 DEF Resume
  <2> QED BY <1>1, <2>1 DEF OrderInv, CanIterate
<1> QED BY <1>2, <1>3 DEF Ends, Croaks

\* Every step keeps the order.
LEMMA NextOrder ==
    ASSUME TableInv, OrderInv, [WriteNext]_<<vars, wvars>>
    PROVE  OrderInv'
<1>1. CanIterate => IsTree(recs)
  BY TreeOfRecs DEF CanIterate
<1>2. CASE UNCHANGED <<vars, wvars>>
  <2>1. /\ recs' = recs /\ op' = op /\ UNCHANGED <<task, purpose, stack, number, node_count, file>>
    BY <1>2 DEF vars, wvars, tvars
  <2> QED BY <2>1, SameOrder DEF OrderInv, CanIterate
<1>3. CASE TreeStep
  <2>1. /\ task' = "none" /\ file' = file /\ file = << >>
        /\ number' = NumbersKept /\ node_count' \in {0, node_count}
    BY <1>3 DEF TreeStep, tvars, OrderInv
  <2>2. number' \in [Prefix -> Nat] /\ node_count' \in Nat
    BY <2>1 DEF OrderInv, NumbersKept
  <2> QED BY <2>1, <2>2 DEF OrderInv
<1>4. ASSUME NEW for \in {"count", "write", "iterate"}, Begin(for) \/ BeginWithin(for)
      PROVE  OrderInv'
  <2>1. /\ CanIterate /\ UNCHANGED <<vars, number, file>> /\ task' = "number"
        /\ purpose' = for /\ stack' = <<RootFrame>> /\ node_count' = 0
        /\ task \notin {"write", "written"}
    BY <1>4 DEF Begin, BeginWithin, Numbering
  <2>2. recs' = recs /\ CanIterate'
    BY <2>1 DEF vars, CanIterate
  <2>3. InOrder(stack)' /\ Done(stack)' = {} /\ Cardinality(Done(stack))' = 0
    BY <1>1, <2>1, <2>2, Restart
  <2> QED BY <2>1, <2>2, <2>3 DEF OrderInv
<1>5. CASE EnterNode
  <2>1. /\ stack # << >> /\ ~Head(stack).due
        /\ stack' = Enter(Head(stack), task = "iterate") \o Tail(stack)
        /\ recs' = recs /\ op' = op /\ UNCHANGED <<task, purpose, number, node_count, file>>
    BY <1>5 DEF EnterNode, vars, Top
  <2>2. CASE task \in {"number", "write"}
    <3>1. stack' = Enter(Head(stack), FALSE) \o Tail(stack)
      BY <2>1, <2>2
    <3>2. InOrder(stack') /\ \A q \in Nodes : Waits(stack', q) <=> Waits(stack, q)
      <4> DEFINE s == Enter(Head(stack), FALSE) \o Tail(stack)
      <4>1. IsTree(recs) /\ InOrder(stack)
        BY <1>1, <2>2 DEF OrderInv
      <4>2. InOrder(s) /\ \A q \in Nodes : Waits(s, q) <=> Waits(stack, q)
        BY <2>1, <4>1, EnterInOrder
      <4> HIDE DEF s
      <4>3. stack' = s
        BY <3>1 DEF s
      <4> QED BY <4>2, <4>3
    <3>3. Done(stack') = Done(stack)
      BY <3>2 DEF Done
    <3> QED BY <2>1, <2>2, <3>2, <3>3, SameOrder DEF OrderInv, CanIterate
  <2>3. CASE task \notin {"number", "write"}
    BY <2>1, <2>3 DEF OrderInv, CanIterate
  <2> QED BY <2>2, <2>3
<1>6. CASE Number
  <2> DEFINE p == Head(stack).at
  <2>1. /\ task = "number" /\ stack # << >> /\ Head(stack).due
        /\ number' = [number EXCEPT ![p] = node_count] /\ node_count' = node_count + 1
        /\ stack' = Tail(stack)
        /\ recs' = recs /\ op' = op /\ UNCHANGED <<task, purpose, file>>
    BY <1>6 DEF Number, NewNumber, vars, Top
  <2>2. /\ p \in Nodes /\ InOrder(stack') /\ Rank(p) = node_count
        /\ Done(stack') = Done(stack) \cup {p}
        /\ Cardinality(Done(stack')) = node_count'
    BY <2>1, DueNode DEF OrderInv
  <2>3. p \in Prefix
    BY <2>2 DEF Nodes
  <2>4. ASSUME NEW q \in Done(stack') PROVE number'[q] = Rank(q)
    <3>1. q \in Prefix
      BY DEF Done, Nodes
    <3> QED BY <2>1, <2>2, <3>1 DEF OrderInv
  <2>5. number' \in [Prefix -> Nat] /\ node_count' \in Nat
    BY <2>1, <2>3 DEF OrderInv
  <2> QED BY <2>1, <2>2, <2>4, <2>5, SameOrder DEF OrderInv, CanIterate
<1>7. CASE Numbered
  <2>1. /\ task = "number" /\ stack = << >> /\ purpose # "count" /\ task' = purpose
        /\ stack' = <<RootFrame>>
        /\ recs' = recs /\ op' = op /\ UNCHANGED <<purpose, number, node_count, file>>
    BY <1>7 DEF Numbered, vars
  <2>2. /\ task' \in {"write", "iterate"} /\ file = << >> /\ CanIterate'
        /\ node_count = Cardinality(Nodes) /\ \A p \in Nodes : number[p] = Rank(p)
    BY <2>1, DoneAtEnds DEF OrderInv, CanIterate
  <2>3. InOrder(stack)' /\ Done(stack)' = {} /\ Cardinality(Done(stack))' = 0
    BY <1>1, <2>1, Restart DEF OrderInv
  <2> QED BY <2>1, <2>2, <2>3, SameOrder, SequenceFacts DEF OrderInv
<1>8. CASE WriteNode
  <2> DEFINE x == <<LeftValue, RightValue>>
  <2>1. /\ task = "write" /\ stack # << >> /\ Head(stack).due
        /\ file' = Append(file, x) /\ stack' = Tail(stack)
        /\ recs' = recs /\ op' = op /\ UNCHANGED <<task, purpose, number, node_count>>
    BY <1>8 DEF WriteNode, AtNode, vars, Top
  <2> HIDE DEF x
  <2>2. /\ InOrder(stack') /\ Cardinality(Done(stack')) = Cardinality(Done(stack)) + 1
    BY <2>1, DueNode DEF OrderInv
  <2>3. IsSeq(file') /\ Len(file') = Len(file) + 1
    BY <2>1, SequenceFacts DEF OrderInv
  <2> QED BY <2>1, <2>2, <2>3, SameOrder DEF OrderInv, CanIterate
<1>9. CASE Written
  <2>1. /\ task' = "written" /\ recs' = recs /\ op' = op /\ task = "write"
        /\ UNCHANGED <<number, node_count, file>>
    BY <1>9 DEF Written, vars
  <2> QED BY <2>1 DEF OrderInv, CanIterate
<1>10. CASE Counted \/ WriteCroaks \/ Close \/ CallbackDies \/ Iterated
  <2>1. task # "none" /\ UNCHANGED vars /\ (Ends \/ Croaks)
    BY <1>10 DEF Counted, WriteCroaks, AtNode, Close, CallbackDies, Iterated
  <2> QED BY <2>1, EndsOrder
<1>11. CASE ReportRecord \/ NodeReported
  <2>1. /\ task = "iterate" /\ recs' = recs /\ op' = op
        /\ UNCHANGED <<task, number, node_count, file>>
    BY <1>11 DEF ReportRecord, NodeReported, AtNodeOfIterate, vars, tvars
  <2> QED BY <2>1 DEF OrderInv, CanIterate
<1> QED BY <1>2, <1>3, <1>4, <1>5, <1>6, <1>7, <1>8, <1>9, <1>10, <1>11 DEF WriteNext

\* The tree is one whatever is done with it between inserts.
LEMMA TreeWhileWriting ==
    ASSUME TableInv, LookupInv, [WriteNext]_<<vars, wvars>>
    PROVE  TableInv' /\ LookupInv'
<1>1. [Next]_vars
  BY DEF WriteNext, TreeStep, Begin, BeginWithin, EnterNode, Number, Numbered, Counted,
         WriteNode, WriteCroaks, Written, Close, ReportRecord, NodeReported, CallbackDies,
         Iterated
<1> QED BY <1>1, NextCounted, NextLookup

\* The invariants of the tree and of its writing hold in every reachable state.
LEMMA OrderInvAlways == WriteSpec => [](TableInv /\ LookupInv /\ OrderInv)
<1>1. WriteInit => TableInv /\ LookupInv /\ OrderInv
  <2> SUFFICES ASSUME WriteInit PROVE TableInv /\ LookupInv /\ OrderInv
    OBVIOUS
  <2>1. Init
    BY DEF WriteInit
  <2>2. TableInv
    BY <2>1, InitInv, InitCounted DEF TableInv, TableExact
  <2>3. LookupInv
    BY <2>1, FreshLookup DEF Init, Fresh
  <2>4. OrderInv
    BY DEF WriteInit, OrderInv
  <2> QED BY <2>2, <2>3, <2>4
<1>2. TableInv /\ LookupInv /\ OrderInv /\ [WriteNext]_<<vars, wvars>>
        => (TableInv /\ LookupInv /\ OrderInv)'
  BY TreeWhileWriting, NextOrder
<1> QED BY <1>1, <1>2, PTL DEF WriteSpec

\* A node is written where its number says it is, after the node above it, and
\* the IPv4 root, whose number aliases point to, is not the first one.
THEOREM NodesLieWhereNumberedAlways == WriteSpec => []NodesLieWhereNumbered
<1>1. TableInv /\ LookupInv /\ OrderInv => NodesLieWhereNumbered
  <2> SUFFICES ASSUME TableInv, LookupInv, OrderInv, task = "write"
               PROVE  /\ AtNode => number[Top.at] = Len(file)
                      /\ \A p \in Prefix : HasNode(recs[p]) => number[p] < node_count
                      /\ \A p \in Prefix \ {<< >>} :
                            HasNode(recs[p]) => number[p] > number[Parent(p)]
                      /\ opts.alias => number[V4Root] > 0
    BY DEF NodesLieWhereNumbered
  <2>1. /\ InOrder(stack) /\ \A p \in Nodes : number[p] = Rank(p) /\ Rank(p) \in Nat
        /\ node_count = Cardinality(Nodes) /\ Len(file) = Cardinality(Done(stack))
        /\ IsTree(recs) /\ op = "idle"
    BY NodesCounted, TreeOfRecs DEF OrderInv, CanIterate
  <2>2. AtNode => number[Top.at] = Len(file)
    BY <2>1, DueNode DEF AtNode, Top
  <2>3. ASSUME NEW p \in Prefix, HasNode(recs[p]) PROVE number[p] < node_count
    <3>1. p \in Nodes
      BY <2>3 DEF Nodes
    <3> QED BY <2>1, <3>1, RanksRise
  <2>4. ASSUME NEW p \in Prefix, p # << >>, HasNode(recs[p])
        PROVE  /\ number[Parent(p)] \in Nat /\ number[p] \in Nat
               /\ number[p] > number[Parent(p)]
    <3>1. Parent(p) \in Prefix /\ Below(Parent(p), p)
      <4> DEFINE b == p[Len(p)]
      <4>1. Parent(p) \in Prefix /\ Len(Parent(p)) < W /\ b \in Bit /\ p = Child(Parent(p), b)
        BY <2>4, ParentIsPrefix, ChildOfParent
      <4> HIDE DEF b
      <4> QED BY <4>1, AboveChild
    <3>2. recs[p].type # "ABSENT"
      BY <2>4 DEF HasNode
    <3>3. p \in Nodes /\ Parent(p) \in Nodes
      BY <2>1, <2>4, <3>1, <3>2, NodesAbove DEF Nodes
    <3>4. Rank(Parent(p)) < Rank(p)
      BY <3>1, <3>3, RanksRise DEF Before
    <3> QED BY <2>1, <3>3, <3>4
  <2>5. ASSUME opts.alias PROVE number[V4Root] > 0
    <3>1. V4Root \in Prefix /\ V4Root # << >> /\ HasNode(recs[V4Root])
      BY <2>1, <2>5, NetworkAssumption, AliasAssumption DEF LookupInv, RootsPlaced, HasNode
    <3> QED BY <2>4, <3>1
  <2> QED BY <2>2, <2>3, <2>4, <2>5
<1> QED BY <1>1, OrderInvAlways, PTL

-----------------------------------------------------------------------------
(* The data section                                                        *)

Entry == [at : Nat, size : Nat, key : Key \cup {NoKey}, to : Int]
Once(s) == \A i, j \in 1..Len(s) : s[i].key = s[j].key /\ s[i].key \in Key => i = j
Kept(p) == {k \in Key : p[k] # None}

\* The section and the pointers of a write: every value is there once, and no
\* more pointers are than `before' and one for each key this write refers to.
SectionOK(w, before) ==
    /\ w.section \in Seq(Entry) /\ Once(w.section)
    /\ w.pointers \in [Key -> Nat \cup {None}]
    /\ Cardinality(Values(w.section, NoKey)) <= before + Cardinality(Kept(w.pointers))

\* The values and pointers of a section are finitely many.
LEMMA ValuesCounted ==
    ASSUME NEW s \in Seq(Entry), NEW k
    PROVE  IsFiniteSet(Values(s, k)) /\ Cardinality(Values(s, k)) \in Nat
<1>1. Len(s) \in Nat /\ DOMAIN s = 1..Len(s)
  BY LenProperties
<1>2. IsFiniteSet(1..Len(s)) /\ Values(s, k) \in SUBSET (1..Len(s))
  BY <1>1, FS_Interval DEF Values
<1> QED BY <1>2, FS_Subset, FS_CardinalityType

\* So are the keys a write refers to.
LEMMA KeptCounted ==
    /\ Cardinality(Key) \in Nat
    /\ \A p : /\ IsFiniteSet(Kept(p)) /\ Cardinality(Kept(p)) \in Nat
              /\ Cardinality(Kept(p)) <= Cardinality(Key)
<1>1. \A p : Kept(p) \in SUBSET Key
  BY DEF Kept
<1> QED BY <1>1, DigestAssumption, FS_Subset, FS_CardinalityType

\* What the buffer holds is counted in bytes.
LEMMA BufferIsNat == ASSUME NEW s \in Seq(Entry) PROVE BufferLength(s) \in Nat
<1>1. CASE s = << >>
  BY <1>1 DEF BufferLength
<1>2. CASE s # << >>
  <2>1. Len(s) \in 1..Len(s)
    BY <1>2, EmptySeq, LenProperties
  <2>2. s[Len(s)] \in Entry
    BY <2>1, ElementOfSeq
  <2> QED BY <1>2, <2>2 DEF BufferLength, Entry
<1> QED BY <1>1, <1>2

\* An entry added to the section.
LEMMA AddEntry ==
    ASSUME NEW s \in Seq(Entry), NEW e \in Entry
    PROVE  /\ Append(s, e) \in Seq(Entry)
           /\ Once(s) /\ (e.key \in Key => Values(s, e.key) = {}) => Once(Append(s, e))
           /\ Cardinality(Values(Append(s, e), NoKey)) =
                Cardinality(Values(s, NoKey)) + (IF e.key = NoKey THEN 1 ELSE 0)
<1> DEFINE t == Append(s, e)
           n == Len(s) + 1
<1>1. /\ t \in Seq(Entry) /\ Len(t) = n /\ t[n] = e /\ Len(s) \in Nat
      /\ \A i \in 1..Len(s) : t[i] = s[i]
  BY AppendProperties, LenProperties
<1>2. DOMAIN s = 1..Len(s) /\ DOMAIN t = 1..n
  BY <1>1, LenProperties
<1> HIDE DEF t, n
<1>3. n \in Nat /\ n = Len(s) + 1 /\ \A i : i \in 1..n <=> i \in 1..Len(s) \/ i = n
  BY <1>1 DEF n
<1>4. n \notin 1..Len(s)
  BY <1>1, <1>3
<1>5. ASSUME Once(s), e.key \in Key => Values(s, e.key) = {} PROVE Once(t)
  <2>1. \A i \in 1..Len(s) : e.key \in Key => s[i].key # e.key
    BY <1>2, <1>5 DEF Values
  <2> SUFFICES ASSUME NEW i \in 1..n, NEW j \in 1..n, t[i].key = t[j].key, t[i].key \in Key
               PROVE  i = j
    BY <1>1 DEF Once
  <2> QED BY <1>1, <1>3, <1>5, <2>1 DEF Once
<1>6. Values(t, NoKey) = IF e.key = NoKey THEN Values(s, NoKey) \cup {n} ELSE Values(s, NoKey)
  BY <1>1, <1>2, <1>3, <1>4 DEF Values
<1>7. n \notin Values(s, NoKey) /\ IsFiniteSet(Values(s, NoKey))
      /\ Cardinality(Values(s, NoKey)) \in Nat
  BY <1>2, <1>4, ValuesCounted DEF Values
<1>8. Cardinality(Values(s, NoKey) \cup {n}) = Cardinality(Values(s, NoKey)) + 1
  BY <1>7, FS_AddElement
<1>9. Cardinality(Values(t, NoKey)) =
        Cardinality(Values(s, NoKey)) + (IF e.key = NoKey THEN 1 ELSE 0)
  BY <1>6, <1>7, <1>8
<1> QED BY <1>1, <1>5, <1>9 DEF t

\* Storing the data of a record keeps the section as it should be.
LEMMA StoredOnce ==
    ASSUME NEW w, NEW before \in Nat, SectionOK(w, before), node_count \in Nat,
           NEW p, recs[p] \in Record
    PROVE  SectionOK(Stored(w, p), before)
<1> DEFINE k == recs[p].key
           s == w.section
           e == IF Values(s, k) = {} THEN Value(s, k) ELSE Pointer(s, k)
           at1 == PointTo(w, k)
           ps == [w.pointers EXCEPT ![k] = at1]
<1>1. CASE recs[p].type = "DATA" /\ w.pointers[k] = None
  <2>1. k \in Key /\ k # NoKey
    BY <1>1, RecordFacts, KeyAssumption
  <2>2. s \in Seq(Entry) /\ Once(s) /\ BufferLength(s) \in Nat
    BY BufferIsNat DEF SectionOK
  <2>3. at1 \in Nat /\ at1 # None
    <3>1. Word \in Nat /\ Word > 0 /\ BufferLength(s) + node_count + 16 \in Nat
      BY <2>2, RecordAssumption
    <3>2. \A a, b \in Nat : b > 0 => a % b \in Nat
      OBVIOUS
    <3>3. at1 \in Nat
      BY <3>1, <3>2 DEF PointTo, DATA_SECTION_SEPARATOR_SIZE
    <3> QED BY <3>3 DEF None
  <2>4. /\ e \in Entry
        /\ e.key \in Key => Values(s, e.key) = {}
        /\ e.key = (IF Values(s, k) = {} THEN k ELSE NoKey)
    <3>1. CASE Values(s, k) = {}
      <4>1. e = [at |-> BufferLength(s), size |-> Size[k], key |-> k, to |-> None]
        BY <3>1 DEF Value
      <4>2. Size[k] \in Nat /\ None \in Int
        BY <2>1, SizeAssumption DEF None
      <4> HIDE DEF e
      <4> QED BY <2>1, <2>2, <3>1, <4>1, <4>2 DEF Entry
    <3>2. CASE Values(s, k) # {}
      <4> DEFINE i == CHOOSE i \in Values(s, k) : TRUE
      <4>1. i \in 1..Len(s)
        <5>1. i \in Values(s, k)
          BY <3>2
        <5>2. DOMAIN s = 1..Len(s)
          BY <2>2, LenProperties
        <5> QED BY <5>1, <5>2 DEF Values
      <4>2. e = [at |-> BufferLength(s), size |-> PointerSize, key |-> NoKey, to |-> s[i].at]
        BY <3>2 DEF Pointer
      <4> HIDE DEF i
      <4>3. s[i] \in Entry /\ PointerSize \in Nat
        BY <2>2, <4>1, ElementOfSeq, SizeAssumption
      <4>4. s[i].at \in Int
        BY <4>3 DEF Entry
      <4> HIDE DEF e
      <4> QED BY <2>2, <3>2, <4>2, <4>3, <4>4, KeyAssumption DEF Entry
    <3> QED BY <3>1, <3>2
  <2>5. Stored(w, p) = [section |-> Append(s, e), pointers |-> ps]
    BY <1>1 DEF Stored, StoreData
  <2> HIDE DEF e, at1
  <2>6. /\ Append(s, e) \in Seq(Entry) /\ Once(Append(s, e))
        /\ Cardinality(Values(Append(s, e), NoKey)) <= Cardinality(Values(s, NoKey)) + 1
    BY <2>2, <2>4, AddEntry, ValuesCounted
  <2>7. /\ ps \in [Key -> Nat \cup {None}]
        /\ Kept(ps) = Kept(w.pointers) \cup {k} /\ k \notin Kept(w.pointers)
    BY <1>1, <2>1, <2>3 DEF SectionOK, Kept
  <2> HIDE DEF ps, k
  <2>8. Cardinality(Kept(ps)) = Cardinality(Kept(w.pointers)) + 1
    BY <2>7, KeptCounted, FS_AddElement
  <2>9. /\ Cardinality(Kept(w.pointers)) \in Nat /\ Cardinality(Values(s, NoKey)) \in Nat
        /\ Cardinality(Values(Append(s, e), NoKey)) \in Nat
        /\ Cardinality(Values(s, NoKey)) <= before + Cardinality(Kept(w.pointers))
    BY <2>2, <2>6, ValuesCounted, KeptCounted DEF SectionOK
  <2>10. Cardinality(Values(Append(s, e), NoKey)) <= before + Cardinality(Kept(ps))
    BY <2>6, <2>8, <2>9
  <2> DEFINE x == Stored(w, p)
             v == Append(s, e)
  <2>11. x.section = v /\ x.pointers = ps
    BY <2>5
  <2> HIDE DEF x, v, s
  <2>12. SectionOK(x, before)
    BY <2>6, <2>7, <2>10, <2>11 DEF SectionOK, v
  <2> QED BY <2>12 DEF x
<1>2. CASE ~(recs[p].type = "DATA" /\ w.pointers[k] = None)
  BY <1>2 DEF Stored
<1> QED BY <1>1, <1>2

\* How often this tree has been written before the write in progress.
Paid == IF purpose = "write" THEN writes - 1 ELSE writes

ThisWrite == [section |-> section, pointers |-> pointers]

\* Between writes no key is referred to, and each write adds no more pointers
\* than there are keys.
StoreInv ==
    /\ SectionOK(ThisWrite, Cardinality(Key) * Paid)
    /\ task \notin {"write", "written"} => Kept(pointers) = {}
    /\ task \in {"write", "written"} => purpose = "write"
    /\ task \in {"none", "iterate"} => purpose # "write"
    /\ writes \in Nat /\ (purpose = "write" => writes > 0)

\* The pointers of a write, added up.
LEMMA PaidFacts ==
    ASSUME StoreInv
    PROVE  /\ Paid \in Nat /\ Cardinality(Key) * Paid \in Nat
           /\ purpose = "write" =>
                Cardinality(Key) * Paid + Cardinality(Key) = Cardinality(Key) * writes
<1>1. Cardinality(Key) \in Nat /\ writes \in Nat /\ Paid \in Nat
  BY KeptCounted DEF StoreInv, Paid
<1>2. \A c, n \in Nat : c * n \in Nat
  OBVIOUS
<1>3. \A c, n \in Nat : n > 0 => c * (n - 1) + c = c * n
  OBVIOUS
<1> QED BY <1>1, <1>2, <1>3 DEF StoreInv, Paid

\* A section without the write that made it.
LEMMA Forgotten ==
    ASSUME NEW w, NEW before \in Nat, SectionOK(w, before), NEW after \in Nat, NEW p,
           p = [k \in Key |-> None],
           before + Cardinality(Kept(w.pointers)) <= after
    PROVE  SectionOK([section |-> w.section, pointers |-> p], after) /\ Kept(p) = {}
<1> DEFINE x == [section |-> w.section, pointers |-> p]
<1>1. x.section = w.section /\ x.pointers = p
  OBVIOUS
<1>2. Kept(p) = {} /\ p \in [Key -> Nat \cup {None}]
  BY DEF Kept
<1>3. Cardinality(Kept(p)) = 0
  BY <1>2, FS_EmptySet
<1> HIDE DEF x
<1>4. SectionOK(x, after)
  <2>1. /\ x.section \in Seq(Entry) /\ Once(x.section)
        /\ Cardinality(Values(x.section, NoKey)) <= before + Cardinality(Kept(w.pointers))
    BY <1>1 DEF SectionOK
  <2>2. Cardinality(Values(x.section, NoKey)) \in Nat /\ Cardinality(Kept(w.pointers)) \in Nat
    BY <2>1, ValuesCounted, KeptCounted
  <2>3. Cardinality(Values(x.section, NoKey)) <= after + Cardinality(Kept(x.pointers))
    BY <1>1, <1>3, <2>1, <2>2
  <2> QED BY <1>1, <1>2, <2>1, <2>3 DEF SectionOK
<1> QED BY <1>2, <1>4 DEF x

\* The end of a call that has left the section as w has it.
LEMMA EndsStore ==
    ASSUME StoreInv, Ends \/ Croaks, writes' = writes,
           NEW w, SectionOK(w, Cardinality(Key) * Paid), section' = w.section,
           purpose # "write" => Kept(w.pointers) = {}
    PROVE  StoreInv'
<1>1. /\ task' \in {"none", "iterate"} /\ purpose' \in {"none", "iterate"}
      /\ pointers' = [k \in Key |-> None]
  BY DEF Ends, Croaks, Rest, Resume
<1> DEFINE before == Cardinality(Key) * Paid
           after == Cardinality(Key) * writes
           p == pointers'
<1>2. before \in Nat /\ after \in Nat /\ before + Cardinality(Kept(w.pointers)) <= after
  <2>1. before \in Nat /\ Cardinality(Key) \in Nat /\ writes \in Nat
    BY PaidFacts, KeptCounted DEF StoreInv
  <2>2. after \in Nat
    <3>1. \A c, n \in Nat : c * n \in Nat
      OBVIOUS
    <3> QED BY <2>1, <3>1
  <2>3. CASE purpose = "write"
    <3>1. before + Cardinality(Key) = after
      BY <2>3, PaidFacts
    <3>2. Cardinality(Kept(w.pointers)) \in Nat
          /\ Cardinality(Kept(w.pointers)) <= Cardinality(Key)
      BY KeptCounted
    <3> HIDE DEF before, after
    <3> QED BY <2>1, <2>2, <3>1, <3>2
  <2>4. CASE purpose # "write"
    <3>1. before = after /\ Cardinality(Kept(w.pointers)) = 0
      BY <2>4, FS_EmptySet DEF Paid
    <3> HIDE DEF before, after
    <3> QED BY <2>2, <3>1
  <2> QED BY <2>1, <2>2, <2>3, <2>4
<1>3. SectionOK(w, before)
  OBVIOUS
<1> DEFINE x == [section |-> w.section, pointers |-> p]
<1> HIDE DEF before, after, p
<1>4. SectionOK(x, after) /\ Kept(p) = {}
  BY <1>1, <1>2, <1>3, Forgotten DEF p
<1>5. (Cardinality(Key) * Paid)' = after
  BY <1>1 DEF Paid, after
<1>6. ThisWrite' = x
  BY DEF ThisWrite, p
<1> HIDE DEF x
<1> QED BY <1>1, <1>4, <1>5, <1>6 DEF StoreInv, SectionOK, p

\* The two records of the node being written are stored one after the other.
LEMMA BothStoredOnce ==
    ASSUME TableInv, OrderInv, StoreInv, AtNode
    PROVE  /\ SectionOK(LeftStored, Cardinality(Key) * Paid)
           /\ SectionOK(BothStored, Cardinality(Key) * Paid)
<1> DEFINE before == Cardinality(Key) * Paid
           l == Child(Top.at, 0)
           r == Child(Top.at, 1)
<1>1. task = "write" /\ stack # << >> /\ Head(stack).due /\ InOrder(stack)
      /\ node_count \in Nat
  BY DEF AtNode, OrderInv, Top
<1>2. IsTree(recs)
  BY <1>1, TreeOfRecs DEF OrderInv, CanIterate
<1>3. Top.at \in Prefix /\ HasNode(recs[Top.at])
  BY <1>1, DueNode DEF Top, Nodes
<1>4. Len(Top.at) < W
  BY <1>2, <1>3 DEF IsTree
<1>5. l \in Prefix /\ r \in Prefix
  BY <1>3, <1>4, ChildIsPrefix DEF Bit
<1>6. recs[l] \in Record /\ recs[r] \in Record
  BY <1>2, <1>5 DEF IsTree
<1>7. before \in Nat
  BY PaidFacts
<1>8. SectionOK(ThisWrite, before)
  BY DEF StoreInv
<1> HIDE DEF before, l, r
<1>9. SectionOK(Stored(ThisWrite, l), before)
  BY <1>1, <1>6, <1>7, <1>8, StoredOnce
<1> DEFINE w == Stored(ThisWrite, l)
<1> HIDE DEF w
<1>10. SectionOK(w, before)
  BY <1>9 DEF w
<1>11. SectionOK(Stored(w, r), before)
  BY <1>1, <1>6, <1>7, <1>10, StoredOnce
<1> QED BY <1>9, <1>11 DEF LeftStored, BothStored, ThisWrite, w, l, r, before

\* Every step keeps the section as it should be.
LEMMA NextStore ==
    ASSUME TableInv, OrderInv, StoreInv, [WriteNext]_<<vars, wvars>>
    PROVE  StoreInv'
<1>1. CASE UNCHANGED <<task, purpose, section, pointers, writes>>
  BY <1>1 DEF StoreInv, SectionOK, ThisWrite, Paid
<1>2. CASE TreeStep
  <2>1. /\ task = "none" /\ UNCHANGED <<task, purpose, pointers>>
        /\ \/ UNCHANGED <<section, writes>>
           \/ section' = << >> /\ writes' = 0
    BY <1>2 DEF TreeStep, tvars
  <2>2. CASE UNCHANGED <<section, writes>>
    BY <1>1, <2>1, <2>2
  <2>3. CASE section' = << >> /\ writes' = 0
    <3> DEFINE x == ThisWrite'
               after == (Cardinality(Key) * Paid)'
    <3>1. purpose # "write" /\ purpose' # "write" /\ Kept(pointers) = {}
      BY <2>1 DEF StoreInv
    <3>2. after \in Nat
      <4>1. Paid' = 0 /\ Cardinality(Key) \in Nat
        BY <2>3, <3>1, KeptCounted DEF Paid
      <4> QED BY <4>1
    <3>3. /\ x.section = << >> /\ x.pointers = pointers
          /\ pointers \in [Key -> Nat \cup {None}]
      BY <2>1, <2>3 DEF ThisWrite, StoreInv, SectionOK
    <3>4. Values(<< >>, NoKey) = {} /\ << >> \in Seq(Entry) /\ Once(<< >>)
      <4>1. << >> \in Seq(Entry) /\ Len(<< >>) = 0 /\ DOMAIN << >> = 1..Len(<< >>)
        BY EmptySeq, LenProperties
      <4> QED BY <4>1 DEF Values, Once
    <3> HIDE DEF x, after
    <3>5. Cardinality(Values(x.section, NoKey)) = 0 /\ Cardinality(Kept(x.pointers)) \in Nat
      BY <3>3, <3>4, FS_EmptySet, KeptCounted
    <3>6. SectionOK(x, after)
      BY <3>2, <3>3, <3>4, <3>5 DEF SectionOK
    <3> QED BY <2>1, <2>3, <3>1, <3>6 DEF StoreInv, x, after
  <2> QED BY <2>1, <2>2, <2>3
<1>3. ASSUME NEW for \in {"count", "write", "iterate"}, Begin(for) \/ BeginWithin(for)
      PROVE  StoreInv'
  <2>1. /\ task \in {"none", "iterate"} /\ task' = "number" /\ purpose' = for
        /\ UNCHANGED <<section, pointers>>
        /\ writes' = IF for = "write" THEN writes + 1 ELSE writes
    BY <1>3 DEF Begin, BeginWithin, Numbering
  <2>2. purpose # "write" /\ writes \in Nat /\ Kept(pointers) = {}
    BY <2>1 DEF StoreInv
  <2>3. Paid' = Paid
    BY <2>1, <2>2 DEF Paid
  <2>4. SectionOK(ThisWrite, Cardinality(Key) * Paid)' /\ Kept(pointers)' = {}
    BY <2>1, <2>2, <2>3 DEF StoreInv, SectionOK, ThisWrite
  <2> QED BY <2>1, <2>2, <2>4 DEF StoreInv
<1>4. CASE Numbered
  <2>1. /\ task = "number" /\ UNCHANGED <<purpose, section, pointers, writes>>
        /\ task' = purpose /\ task' \in {"write", "iterate"} /\ Kept(pointers) = {}
    BY <1>4 DEF Numbered, OrderInv, StoreInv
  <2> QED BY <2>1 DEF StoreInv, SectionOK, ThisWrite, Paid
<1>5. CASE WriteNode
  <2>1. /\ AtNode /\ section' = BothStored.section /\ pointers' = BothStored.pointers
        /\ UNCHANGED <<task, purpose, writes>>
    BY <1>5 DEF WriteNode
  <2>2. SectionOK(BothStored, Cardinality(Key) * Paid)
    BY <2>1, BothStoredOnce
  <2>3. SectionOK(ThisWrite', Cardinality(Key) * Paid) /\ Paid' = Paid
    BY <2>1, <2>2 DEF SectionOK, ThisWrite, Paid
  <2>4. task = "write"
    BY <2>1 DEF AtNode
  <2> QED BY <2>1, <2>3, <2>4 DEF StoreInv, SectionOK
<1>6. CASE Written
  <2>1. /\ task = "write" /\ task' = "written" /\ UNCHANGED <<purpose, section, pointers, writes>>
    BY <1>6 DEF Written
  <2> QED BY <2>1 DEF StoreInv, SectionOK, ThisWrite, Paid
<1>7. CASE Counted \/ Close \/ CallbackDies \/ Iterated
  <2>1. /\ UNCHANGED <<section, writes>> /\ task \in {"number", "written", "iterate"}
        /\ Ends \/ Croaks
    BY <1>7 DEF Counted, Close, CallbackDies, Iterated
  <2>2. /\ SectionOK(ThisWrite, Cardinality(Key) * Paid) /\ section' = ThisWrite.section
        /\ purpose # "write" => Kept(ThisWrite.pointers) = {}
    BY <2>1 DEF StoreInv, ThisWrite
  <2> QED BY <2>1, <2>2, EndsStore
<1>8. CASE WriteCroaks
  <2>1. /\ AtNode /\ task = "write" /\ Croaks /\ writes' = writes
        /\ section' = LeftStored.section \/ section' = BothStored.section
    BY <1>8 DEF WriteCroaks, AtNode
  <2>2. /\ SectionOK(LeftStored, Cardinality(Key) * Paid)
        /\ SectionOK(BothStored, Cardinality(Key) * Paid)
    BY <2>1, BothStoredOnce
  <2>3. purpose = "write"
    BY <2>1 DEF StoreInv
  <2> QED BY <2>1, <2>2, <2>3, EndsStore
<1> QED BY <1>1, <1>2, <1>3, <1>4, <1>5, <1>6, <1>7, <1>8
    DEF WriteNext, EnterNode, Number, ReportRecord, NodeReported, wvars, tvars

\* The section is as it should be in every reachable state.
LEMMA StoreInvAlways == WriteSpec => []StoreInv
<1>1. WriteInit => StoreInv
  <2> SUFFICES ASSUME WriteInit PROVE StoreInv
    OBVIOUS
  <2> DEFINE x == ThisWrite
             before == Cardinality(Key) * Paid
  <2>1. /\ x.section = << >> /\ x.pointers = pointers /\ pointers = [k \in Key |-> None]
        /\ task = "none" /\ purpose = "none" /\ writes = 0
    BY DEF WriteInit, ThisWrite
  <2>2. Kept(pointers) = {} /\ pointers \in [Key -> Nat \cup {None}]
    BY <2>1 DEF Kept
  <2>3. Values(<< >>, NoKey) = {} /\ << >> \in Seq(Entry) /\ Once(<< >>)
    <3>1. << >> \in Seq(Entry) /\ Len(<< >>) = 0 /\ DOMAIN << >> = 1..Len(<< >>)
      BY EmptySeq, LenProperties
    <3> QED BY <3>1 DEF Values, Once
  <2>4. before \in Nat
    <3>1. Paid = 0 /\ Cardinality(Key) \in Nat
      BY <2>1, KeptCounted DEF Paid
    <3> QED BY <3>1
  <2> HIDE DEF x, before
  <2>5. Cardinality(Values(x.section, NoKey)) = 0 /\ Cardinality(Kept(x.pointers)) = 0
    BY <2>1, <2>2, <2>3, FS_EmptySet
  <2>6. SectionOK(x, before)
    BY <2>1, <2>2, <2>3, <2>4, <2>5 DEF SectionOK
  <2> QED BY <2>1, <2>2, <2>6 DEF StoreInv, x, before
<1>2. TableInv /\ LookupInv /\ OrderInv /\ StoreInv /\ [WriteNext]_<<vars, wvars>> => StoreInv'
  BY NextStore
<1> QED BY <1>1, <1>2, OrderInvAlways, PTL DEF WriteSpec

\* A value is in the data section once, whatever is written, how often, and
\* which writes croak; and there are no more pointers than writes and keys.
THEOREM DataStoredOnceAlways == WriteSpec => []DataStoredOnce
<1>1. StoreInv => DataStoredOnce
  <2> SUFFICES ASSUME StoreInv PROVE DataStoredOnce
    OBVIOUS
  <2>1. /\ section \in Seq(Entry) /\ Once(section)
        /\ Cardinality(Values(section, NoKey))
             <= Cardinality(Key) * Paid + Cardinality(Kept(pointers))
    BY DEF StoreInv, SectionOK, ThisWrite
  <2>2. ASSUME NEW k \in Key PROVE Cardinality(Values(section, k)) <= 1
    <3>1. DOMAIN section = 1..Len(section)
      BY <2>1, LenProperties
    <3>2. \A i, j \in Values(section, k) : i = j
      BY <2>1, <3>1 DEF Values, Once
    <3>3. CASE Values(section, k) = {}
      BY <3>3, FS_EmptySet
    <3>4. CASE Values(section, k) # {}
      <4>1. PICK i : Values(section, k) = {i}
        BY <3>2, <3>4
      <4>2. Cardinality({i}) = 1
        BY FS_Singleton
      <4> QED BY <4>1, <4>2
    <3> QED BY <3>3, <3>4
  <2>3. Cardinality(Values(section, NoKey)) <= Cardinality(Key) * writes
    <3> DEFINE v == Cardinality(Values(section, NoKey))
               c == Cardinality(Key)
               b == Cardinality(Key) * Paid
               n == Cardinality(Key) * writes
               h == Cardinality(Kept(pointers))
    <3>1. v \in Nat /\ c \in Nat /\ b \in Nat /\ h \in Nat /\ h <= c /\ v <= b + h
      BY <2>1, ValuesCounted, KeptCounted, PaidFacts
    <3>2. purpose = "write" => b + c = n
      BY PaidFacts
    <3>3. purpose # "write" => b = n /\ h = 0
      BY FS_EmptySet DEF Paid, StoreInv
    <3> HIDE DEF v, c, b, n, h
    <3>4. v <= n
      BY <3>1, <3>2, <3>3
    <3> QED BY <3>4 DEF v, n
  <2> QED BY <2>2, <2>3 DEF DataStoredOnce
<1> QED BY <1>1, StoreInvAlways, PTL

-----------------------------------------------------------------------------
(* Reading the file                                                        *)

\* The value of the record at p in a file whose data is where ptrs say.
Val(ptrs, p) ==
    CASE recs[p].type \in {"EMPTY", "FIXED_EMPTY"} -> node_count
      [] HasNode(recs[p]) -> Rank(p)
      [] recs[p].type = "ALIAS" -> Rank(V4Root)
      [] recs[p].type = "DATA" -> ptrs[recs[p].key]

Given(ptrs, p, v) ==
    /\ recs[p].type # "ABSENT" => v = Val(ptrs, p)
    /\ recs[p].type = "DATA" => v # None

\* The section has k at pos, or a pointer to it.
InPlace(s, pos, k) == \E i \in Values(s, k) : s[i].at = pos
LeadsTo(s, pos, k) ==
    InPlace(s, pos, k) \/ \E i \in Values(s, NoKey) : s[i].at = pos /\ InPlace(s, s[i].to, k)

\* Where the data of a pointer would be in the section, for a reader.
InSection(v) == v - node_count - DATA_SECTION_SEPARATOR_SIZE

\* Every pointer of the write lies past the tree, and leads to its key.
Leads(w) ==
    \A k \in Kept(w.pointers) :
        /\ InSection(w.pointers[k]) \in Nat
        /\ LeadsTo(w.section, InSection(w.pointers[k]), k)

FileOK(done) ==
    \A p \in done : \A b \in Bit : Given(pointers, Child(p, b), file[Rank(p) + 1][b + 1])

\* The nodes written so far have the values their records should have.
ReaderInv ==
    /\ task \in {"write", "written"} => Leads(ThisWrite)
    /\ task = "write" => FileOK(Done(stack))
    /\ task = "written" =>
          /\ FileOK(Nodes) /\ Len(file) = node_count /\ node_count = Cardinality(Nodes)
          /\ stack = << >>

\* The 32-bit sum of position, node count and separator does not wrap.
SumFits ==
    task = "write" => BufferLength(section) + node_count + DATA_SECTION_SEPARATOR_SIZE < Word

\* What the section leads to it still does when it grows.
LEMMA StillLeads ==
    ASSUME NEW s \in Seq(Entry), NEW e \in Entry, NEW k, NEW pos, LeadsTo(s, pos, k)
    PROVE  LeadsTo(Append(s, e), pos, k)
<1> DEFINE t == Append(s, e)
<1>1. /\ t \in Seq(Entry) /\ Len(t) = Len(s) + 1 /\ Len(s) \in Nat
      /\ \A i \in 1..Len(s) : t[i] = s[i]
  BY AppendProperties, LenProperties
<1>2. DOMAIN s = 1..Len(s) /\ DOMAIN t = 1..Len(t)
  BY <1>1, LenProperties
<1> HIDE DEF t
<1>3. \A i \in DOMAIN s : i \in DOMAIN t /\ t[i] = s[i]
  BY <1>1, <1>2
<1>4. \A j : \A i \in Values(s, j) : i \in Values(t, j) /\ t[i] = s[i]
  BY <1>3 DEF Values
<1>5. \A n : InPlace(s, n, k) => InPlace(t, n, k)
  BY <1>4 DEF InPlace
<1> QED BY <1>4, <1>5 DEF LeadsTo, t

\* The entry that StoreData adds is where the section ended, and leads to its
\* key.
LEMMA NewEntryLeads ==
    ASSUME NEW s \in Seq(Entry), NEW k \in Key
    PROVE  /\ \E e \in Entry : StoreData(s, k) = Append(s, e)
           /\ LeadsTo(StoreData(s, k), BufferLength(s), k)
           /\ BufferLength(StoreData(s, k)) >= BufferLength(s)
           /\ BufferLength(s) \in Nat
<1> DEFINE e == IF Values(s, k) = {} THEN Value(s, k) ELSE Pointer(s, k)
           t == Append(s, e)
           n == Len(s) + 1
<1>1. k # NoKey /\ BufferLength(s) \in Nat /\ DOMAIN s = 1..Len(s) /\ Len(s) \in Nat
  BY KeyAssumption, BufferIsNat, LenProperties
<1>2. CASE Values(s, k) = {}
  <2>1. e = [at |-> BufferLength(s), size |-> Size[k], key |-> k, to |-> None]
    BY <1>2 DEF Value
  <2>2. Size[k] \in Nat /\ None \in Int
    BY SizeAssumption DEF None
  <2> HIDE DEF e
  <2>3. e \in Entry /\ e.at = BufferLength(s) /\ e.key = k
    BY <1>1, <2>1, <2>2 DEF Entry
  <2>4. /\ t \in Seq(Entry) /\ Len(t) = n /\ t[n] = e /\ DOMAIN t = 1..n /\ n \in 1..n
    BY <1>1, <2>3, AppendProperties, LenProperties
  <2>5. t # << >>
    BY <2>4
  <2> HIDE DEF t, n
  <2>6. InPlace(t, BufferLength(s), k)
    BY <2>3, <2>4 DEF InPlace, Values
  <2>7. BufferLength(t) >= BufferLength(s)
    BY <1>1, <2>3, <2>4, <2>5 DEF BufferLength, Entry
  <2>8. t = StoreData(s, k)
    BY DEF t, e, StoreData
  <2> QED BY <1>1, <2>3, <2>6, <2>7, <2>8 DEF LeadsTo, t
<1>3. CASE Values(s, k) # {}
  <2> DEFINE i == CHOOSE i \in Values(s, k) : TRUE
  <2>1. i \in Values(s, k) /\ i \in 1..Len(s)
    BY <1>1, <1>3 DEF Values
  <2>2. e = [at |-> BufferLength(s), size |-> PointerSize, key |-> NoKey, to |-> s[i].at]
    BY <1>3 DEF Pointer
  <2> HIDE DEF i
  <2>3. s[i] \in Entry /\ PointerSize \in Nat
    BY <2>1, ElementOfSeq, SizeAssumption
  <2>4. s[i].at \in Int
    BY <2>3 DEF Entry
  <2> HIDE DEF e
  <2>5. e \in Entry /\ e.at = BufferLength(s) /\ e.key = NoKey /\ e.to = s[i].at
    BY <1>1, <2>2, <2>3, <2>4 DEF Entry
  <2>6. /\ t \in Seq(Entry) /\ Len(t) = n /\ t[n] = e /\ DOMAIN t = 1..n /\ n \in 1..n
        /\ t[i] = s[i] /\ i \in 1..n
    BY <1>1, <2>1, <2>5, AppendProperties, LenProperties
  <2>7. t # << >>
    BY <2>6
  <2>8. s[i].key = k
    BY <2>1 DEF Values
  <2> HIDE DEF t, n
  <2>9. InPlace(t, e.to, k)
    BY <2>5, <2>6, <2>8 DEF InPlace, Values
  <2>10. n \in Values(t, NoKey)
    BY <2>5, <2>6 DEF Values
  <2>11. LeadsTo(t, BufferLength(s), k)
    BY <2>5, <2>6, <2>9, <2>10 DEF LeadsTo
  <2>12. BufferLength(t) >= BufferLength(s)
    BY <1>1, <2>5, <2>6, <2>7 DEF BufferLength, Entry
  <2>13. t = StoreData(s, k)
    BY DEF t, e, StoreData
  <2> QED BY <1>1, <2>5, <2>11, <2>12, <2>13 DEF t
<1> QED BY <1>2, <1>3

\* The section does not shrink.
LEMMA BufferGrows ==
    ASSUME NEW w, NEW before \in Nat, SectionOK(w, before), node_count \in Nat,
           NEW p, recs[p] \in Record
    PROVE  /\ BufferLength(w.section) \in Nat /\ BufferLength(Stored(w, p).section) \in Nat
           /\ BufferLength(w.section) <= BufferLength(Stored(w, p).section)
<1> DEFINE k == recs[p].key
           s == w.section
           x == Stored(w, p)
<1>1. s \in Seq(Entry) /\ x.section \in Seq(Entry)
  BY StoredOnce DEF SectionOK
<1>2. BufferLength(s) \in Nat /\ BufferLength(x.section) \in Nat
  BY <1>1, BufferIsNat
<1>3. CASE recs[p].type = "DATA" /\ w.pointers[k] = None
  <2> DEFINE t == StoreData(s, k)
  <2>1. x.section = t
    BY <1>3 DEF Stored
  <2>2. BufferLength(t) >= BufferLength(s)
    BY <1>1, <1>3, RecordFacts, NewEntryLeads
  <2> HIDE DEF t, x, s
  <2> QED BY <1>2, <2>1, <2>2 DEF x, s
<1>4. CASE ~(recs[p].type = "DATA" /\ w.pointers[k] = None)
  <2>1. x = w
    BY <1>4 DEF Stored
  <2> HIDE DEF x
  <2> QED BY <1>2, <2>1 DEF x
<1> QED BY <1>3, <1>4

\* Storing the data of a record leads to it, and leaves what was stored where
\* it is.
LEMMA StoredLeads ==
    ASSUME NEW w, NEW before \in Nat, SectionOK(w, before), Leads(w), node_count \in Nat,
           NEW p, recs[p] \in Record,
           BufferLength(Stored(w, p).section) + node_count + DATA_SECTION_SEPARATOR_SIZE < Word
    PROVE  /\ Leads(Stored(w, p))
           /\ \A k \in Kept(w.pointers) : Stored(w, p).pointers[k] = w.pointers[k]
           /\ Kept(w.pointers) \subseteq Kept(Stored(w, p).pointers)
           /\ recs[p].type = "DATA" => recs[p].key \in Kept(Stored(w, p).pointers)
<1> DEFINE k == recs[p].key
           s == w.section
           x == Stored(w, p)
<1>1. s \in Seq(Entry) /\ w.pointers \in [Key -> Nat \cup {None}]
  BY DEF SectionOK
<1>2. SectionOK(x, before)
  BY StoredOnce
<1>3. BufferLength(s) \in Nat /\ BufferLength(x.section) \in Nat
  BY <1>1, <1>2, BufferIsNat DEF SectionOK
<1>4. recs[p].type = "DATA" => k \in Key
  BY RecordFacts
<1>5. CASE recs[p].type = "DATA" /\ w.pointers[k] = None
  <2> DEFINE v == PointTo(w, k)
             ps == [w.pointers EXCEPT ![k] = v]
             t == StoreData(s, k)
  <2>1. x = [section |-> t, pointers |-> ps]
    BY <1>5 DEF Stored
  <2>2. x.section = t /\ x.pointers = ps
    BY <2>1
  <2>3. /\ \E e \in Entry : t = Append(s, e)
        /\ LeadsTo(t, BufferLength(s), k) /\ BufferLength(t) >= BufferLength(s)
    BY <1>1, <1>4, <1>5, NewEntryLeads
  <2>4. v = BufferLength(s) + node_count + 16
    <3>1. BufferLength(x.section) + node_count + 16 < Word
      BY DEF DATA_SECTION_SEPARATOR_SIZE
    <3>2. BufferLength(s) + node_count + 16 < Word
      BY <1>3, <2>2, <2>3, <3>1, RecordAssumption
    <3>3. \A a, b \in Nat : a < b => a % b = a
      OBVIOUS
    <3>4. Word \in Nat /\ BufferLength(s) + node_count + 16 \in Nat
      BY <1>3, RecordAssumption
    <3> QED BY <3>2, <3>3, <3>4 DEF PointTo, DATA_SECTION_SEPARATOR_SIZE
  <2> HIDE DEF v, t, x, s
  <2>5. ps[k] = v /\ \A j \in Key : j # k => ps[j] = w.pointers[j]
    BY <1>1, <1>4, <1>5
  <2>6. v # None /\ InSection(v) = BufferLength(s) /\ InSection(v) \in Nat
    BY <1>3, <2>4 DEF None, InSection, DATA_SECTION_SEPARATOR_SIZE
  <2>7. k \notin Kept(w.pointers) /\ Kept(w.pointers) \subseteq Key
    BY <1>5 DEF Kept
  <2>8. /\ \A j \in Kept(w.pointers) : ps[j] = w.pointers[j]
        /\ Kept(ps) = Kept(w.pointers) \cup {k}
    BY <1>4, <1>5, <2>5, <2>6, <2>7 DEF Kept
  <2>9. \A j, n : LeadsTo(s, n, j) => LeadsTo(t, n, j)
    BY <1>1, <2>3, StillLeads
  <2> HIDE DEF ps, k
  <2>10. Leads(x)
    <3>1. ASSUME NEW j \in Kept(x.pointers)
          PROVE  InSection(x.pointers[j]) \in Nat /\ LeadsTo(x.section, InSection(x.pointers[j]), j)
      <4>1. CASE j = k
        BY <2>2, <2>3, <2>5, <2>6, <4>1
      <4>2. CASE j # k
        <5>1. j \in Kept(w.pointers) /\ ps[j] = w.pointers[j]
          BY <2>2, <2>8, <4>2
        <5>2. InSection(w.pointers[j]) \in Nat /\ LeadsTo(s, InSection(w.pointers[j]), j)
          BY <5>1 DEF Leads, s
        <5> QED BY <2>2, <2>9, <5>1, <5>2
      <4> QED BY <4>1, <4>2
    <3> QED BY <3>1 DEF Leads
  <2> QED BY <1>3, <2>2, <2>3, <2>8, <2>10 DEF x, s, k
<1>6. CASE ~(recs[p].type = "DATA" /\ w.pointers[k] = None)
  <2>1. x = w
    BY <1>6 DEF Stored
  <2>2. recs[p].type = "DATA" => k \in Kept(w.pointers)
    BY <1>4, <1>6 DEF Kept
  <2> HIDE DEF x, k
  <2> QED BY <1>3, <2>1, <2>2 DEF x, k
<1> QED BY <1>5, <1>6

\* An alias points at a node, the IPv4 root.
LEMMA AliasLeadsToNode ==
    ASSUME LookupInv, op = "idle", NEW p \in Prefix, recs[p].type = "ALIAS"
    PROVE  V4Root \in Nodes /\ recs[V4Root].type = "FIXED_NODE"
<1>1. opts.alias
  BY DEF LookupInv, AliasesOnly
<1> QED BY <1>1, NetworkAssumption DEF LookupInv, RootsPlaced, Nodes, HasNode

\* What encode_node writes for a record once its data is stored.
LEMMA ValueWritten ==
    ASSUME NEW w, NEW p \in Prefix, recs[p] \in Record,
           \A q \in Nodes : number[q] = Rank(q),
           recs[p].type = "ALIAS" => V4Root \in Nodes,
           recs[p].type = "DATA" => recs[p].key \in Kept(w.pointers)
    PROVE  Given(w.pointers, p, RecordValue(w, p))
<1>1. CASE recs[p].type \in {"EMPTY", "FIXED_EMPTY"}
  BY <1>1 DEF Given, Val, RecordValue, HasNode
<1>2. CASE HasNode(recs[p])
  <2>1. p \in Nodes
    BY <1>2 DEF Nodes
  <2> QED BY <1>2, <2>1 DEF Given, Val, RecordValue, HasNode
<1>3. CASE recs[p].type = "ALIAS"
  BY <1>3 DEF Given, Val, RecordValue, HasNode
<1>4. CASE recs[p].type = "DATA"
  BY <1>4 DEF Given, Val, RecordValue, HasNode, Kept
<1>5. CASE recs[p].type = "ABSENT"
  BY <1>5 DEF Given
<1> QED BY <1>1, <1>2, <1>3, <1>4, <1>5, RecordFacts DEF PlainTypes, FixedTypes, HasNode

\* What was written stays right when more data is stored.
LEMMA StillGiven ==
    ASSUME NEW ptrs, NEW more, \A k \in Kept(ptrs) : more[k] = ptrs[k],
           NEW p, recs[p] \in Record, NEW v, Given(ptrs, p, v)
    PROVE  Given(more, p, v)
<1>1. CASE recs[p].type = "DATA"
  <2>1. v = ptrs[recs[p].key] /\ v # None
    BY <1>1 DEF Given, Val, HasNode
  <2>2. recs[p].key \in Kept(ptrs)
    BY <1>1, <2>1, RecordFacts DEF Kept
  <2> QED BY <1>1, <2>1, <2>2 DEF Given, Val, HasNode
<1>2. CASE recs[p].type # "DATA"
  BY <1>2, RecordFacts DEF Given, Val, PlainTypes, FixedTypes, HasNode
<1> QED BY <1>1, <1>2

\* While neither the tree nor its node count changes, records have the same
\* values.
LEMMA SameValues ==
    ASSUME recs' = recs, node_count' = node_count
    PROVE  /\ \A x, p : Val(x, p)' = Val(x, p)
           /\ \A x, p, v : Given(x, p, v)' <=> Given(x, p, v)
           /\ \A w : Leads(w)' <=> Leads(w)
<1>1. \A p : Rank(p)' = Rank(p)
  BY SameOrder
<1>2. \A x, p : Val(x, p)' = Val(x, p)
  BY <1>1 DEF Val
<1> QED BY <1>2 DEF Given, Leads, InSection

\* What a step leaves alone that changes nothing the file depends on.
LEMMA SameKept ==
    ASSUME ReaderInv, recs' = recs, UNCHANGED <<task, node_count, file, section, pointers>>,
           Done(stack)' = Done(stack), task = "written" => stack' = stack
    PROVE  ReaderInv'
<1>1. Nodes' = Nodes /\ \A q : Rank(q)' = Rank(q)
  BY SameOrder
<1>2. \A x, p, v : Given(x, p, v)' <=> Given(x, p, v)
  BY SameValues
<1>3. \A w : Leads(w)' <=> Leads(w)
  BY SameValues
<1>4. Leads(ThisWrite)' <=> Leads(ThisWrite)
  BY <1>3 DEF ThisWrite
<1>5. FileOK(Done(stack)) => FileOK(Done(stack))'
  BY <1>1, <1>2 DEF FileOK
<1>6. FileOK(Nodes) => FileOK(Nodes)'
  BY <1>1, <1>2 DEF FileOK
<1> QED BY <1>1, <1>4, <1>5, <1>6 DEF ReaderInv

\* A node is written at its place, with the values of its records.
LEMMA WriteNodeReads ==
    ASSUME TableInv, LookupInv, OrderInv, StoreInv, ReaderInv, SumFits', WriteNode
    PROVE  ReaderInv'
<1> DEFINE p == Top.at
           l == Child(p, 0)
           r == Child(p, 1)
           before == Cardinality(Key) * Paid
           x == <<LeftValue, RightValue>>
<1>1. /\ task = "write" /\ stack # << >> /\ Head(stack).due /\ Head(stack).at = p
      /\ section' = BothStored.section /\ pointers' = BothStored.pointers
      /\ file' = Append(file, x) /\ stack' = Tail(stack)
      /\ recs' = recs /\ UNCHANGED <<task, node_count>>
  BY DEF WriteNode, AtNode, vars, Top
<1>2. IsTree(recs) /\ op = "idle" /\ node_count \in Nat
  BY <1>1, TreeOfRecs DEF OrderInv, CanIterate
<1>3. /\ p \in Nodes /\ Rank(p) = Len(file) /\ Done(stack') = Done(stack) \cup {p}
      /\ \A q \in Done(stack) : q \in Nodes /\ Rank(q) < Rank(p)
  <2>1. InOrder(stack) /\ Len(file) = Cardinality(Done(stack))
    BY <1>1 DEF OrderInv
  <2>2. \A q \in Nodes : Waits(stack, q) <=> ~Before(q, p)
    BY <1>1, <2>1, Pop
  <2>3. p \in Nodes /\ Rank(p) = Len(file) /\ Done(stack') = Done(stack) \cup {p}
    BY <1>1, <2>1, DueNode
  <2> QED BY <2>2, <2>3, RanksRise DEF Done
<1>4. /\ l \in Prefix /\ r \in Prefix /\ recs[l] \in Record /\ recs[r] \in Record
      /\ \A q \in Nodes : q \in Prefix /\ Len(q) < W
      /\ \A q \in Nodes, b \in Bit : Child(q, b) \in Prefix /\ recs[Child(q, b)] \in Record
  <2>1. \A q \in Nodes : q \in Prefix /\ Len(q) < W
    BY <1>2 DEF IsTree, Nodes
  <2>2. \A q \in Nodes, b \in Bit : Child(q, b) \in Prefix
    BY <2>1, ChildIsPrefix
  <2> QED BY <1>2, <1>3, <2>1, <2>2 DEF IsTree, Bit
<1>5. /\ before \in Nat /\ SectionOK(ThisWrite, before)
      /\ SectionOK(LeftStored, before) /\ Leads(ThisWrite)
  BY <1>1, PaidFacts, BothStoredOnce DEF StoreInv, ReaderInv, WriteNode
<1>6. /\ LeftStored = Stored(ThisWrite, l) /\ BothStored = Stored(LeftStored, r)
      /\ LeftValue = RecordValue(LeftStored, l) /\ RightValue = RecordValue(BothStored, r)
  BY DEF LeftStored, BothStored, LeftValue, RightValue, ThisWrite
<1> HIDE DEF before, l, r
<1>7. BufferLength(BothStored.section) + node_count + DATA_SECTION_SEPARATOR_SIZE < Word
  BY <1>1 DEF SumFits
<1>8. BufferLength(LeftStored.section) + node_count + DATA_SECTION_SEPARATOR_SIZE < Word
  <2>1. /\ BufferLength(LeftStored.section) \in Nat /\ BufferLength(BothStored.section) \in Nat
        /\ BufferLength(LeftStored.section) <= BufferLength(BothStored.section)
    BY <1>2, <1>4, <1>5, <1>6, BufferGrows
  <2> QED BY <1>2, <1>7, <2>1, RecordAssumption DEF DATA_SECTION_SEPARATOR_SIZE
<1>9. /\ Leads(LeftStored)
      /\ \A k \in Kept(pointers) : LeftStored.pointers[k] = pointers[k]
      /\ Kept(pointers) \subseteq Kept(LeftStored.pointers)
      /\ recs[l].type = "DATA" => recs[l].key \in Kept(LeftStored.pointers)
  <2>1. ThisWrite.pointers = pointers
    BY DEF ThisWrite
  <2> QED BY <1>2, <1>4, <1>5, <1>6, <1>8, <2>1, StoredLeads
<1>10. /\ Leads(BothStored)
       /\ \A k \in Kept(LeftStored.pointers) : pointers'[k] = LeftStored.pointers[k]
       /\ recs[r].type = "DATA" => recs[r].key \in Kept(BothStored.pointers)
  BY <1>1, <1>2, <1>4, <1>5, <1>6, <1>7, <1>9, StoredLeads
<1>11. Given(LeftStored.pointers, l, LeftValue) /\ Given(pointers', r, RightValue)
  <2>1. \A q \in Nodes : number[q] = Rank(q)
    BY <1>1 DEF OrderInv
  <2>2. \A q \in Prefix : recs[q].type = "ALIAS" => V4Root \in Nodes
    BY <1>2, AliasLeadsToNode
  <2>3. Given(LeftStored.pointers, l, RecordValue(LeftStored, l))
    BY <1>4, <1>9, <2>1, <2>2, ValueWritten
  <2>4. Given(BothStored.pointers, r, RecordValue(BothStored, r))
    BY <1>4, <1>10, <2>1, <2>2, ValueWritten
  <2> QED BY <1>1, <1>6, <2>3, <2>4
<1>12. Given(pointers', l, LeftValue)
  BY <1>4, <1>10, <1>11, StillGiven
<1> HIDE DEF x
<1>13. /\ IsSeq(file) /\ Len(file) \in Nat /\ file'[Len(file) + 1] = x
       /\ \A i \in 1..Len(file) : file'[i] = file[i]
  <2>1. IsSeq(file)
    BY <1>1 DEF OrderInv
  <2>2. PICK S : file \in Seq(S) /\ <<x>> \in Seq(S)
    BY <2>1, SequenceFacts
  <2>3. x \in S
    <3>1. Len(<<x>>) = 1 /\ <<x>>[1] = x
      OBVIOUS
    <3> QED BY <2>2, <3>1, ElementOfSeq
  <2> QED BY <1>1, <2>1, <2>2, <2>3, AppendProperties, LenProperties
<1>14. ASSUME NEW q \in Done(stack'), NEW b \in Bit
       PROVE  Given(pointers', Child(q, b), file'[Rank(q) + 1][b + 1])
  <2>1. CASE q = p
    <3>1. file'[Rank(q) + 1] = x /\ x[1] = LeftValue /\ x[2] = RightValue
      BY <1>3, <1>13, <2>1 DEF x
    <3>2. CASE b = 0
      BY <1>12, <2>1, <3>1, <3>2 DEF l
    <3>3. CASE b = 1
      BY <1>11, <2>1, <3>1, <3>3 DEF r
    <3> QED BY <3>2, <3>3 DEF Bit
  <2>2. CASE q # p
    <3>1. q \in Done(stack) /\ q \in Nodes /\ Rank(q) < Rank(p) /\ Rank(q) \in Nat
      BY <1>3, <2>2, NodesCounted
    <3>2. Rank(q) + 1 \in 1..Len(file)
      BY <1>3, <1>13, <3>1
    <3>3. Given(pointers, Child(q, b), file[Rank(q) + 1][b + 1])
      BY <1>1, <3>1 DEF ReaderInv, FileOK
    <3>4. \A k \in Kept(pointers) : pointers'[k] = pointers[k]
      BY <1>9, <1>10
    <3>5. Given(pointers', Child(q, b), file[Rank(q) + 1][b + 1])
      BY <1>4, <3>1, <3>3, <3>4, StillGiven
    <3> QED BY <1>13, <3>2, <3>5
  <2> QED BY <2>1, <2>2
<1>15. FileOK(Done(stack))'
  <2>1. \A q : Rank(q)' = Rank(q)
    BY <1>1, SameOrder
  <2>2. Done(stack)' = Done(stack')
    BY <1>1, SameOrder
  <2>3. \A q, b, v : Given(pointers, Child(q, b), v)' <=> Given(pointers', Child(q, b), v)
    BY <1>1, <2>1 DEF Given, Val
  <2> QED BY <1>14, <2>1, <2>2, <2>3 DEF FileOK
<1>16. Leads(ThisWrite)'
  <2>1. Leads(ThisWrite')
    BY <1>1, <1>10 DEF Leads, ThisWrite
  <2> QED BY <1>1, <2>1 DEF Leads, InSection
<1> QED BY <1>1, <1>15, <1>16 DEF ReaderInv

\* Every step keeps what is written right.
LEMMA NextReader ==
    ASSUME TableInv, LookupInv, OrderInv, StoreInv, ReaderInv, SumFits',
           [WriteNext]_<<vars, wvars>>
    PROVE  ReaderInv'
<1>1. CASE task' \notin {"write", "written"}
  BY <1>1 DEF ReaderInv
<1>2. CASE WriteNode
  BY <1>2, WriteNodeReads
<1>3. CASE Numbered /\ task' = "write"
  <2>1. /\ task = "number" /\ stack' = <<RootFrame>>
        /\ recs' = recs /\ op' = op /\ UNCHANGED <<pointers, section>>
    BY <1>3 DEF Numbered, vars
  <2>2. CanIterate /\ IsTree(recs) /\ Kept(pointers) = {}
    BY <2>1, TreeOfRecs DEF OrderInv, CanIterate, StoreInv
  <2>3. Done(stack)' = {}
    BY <2>1, <2>2, Restart
  <2>4. Kept(pointers)' = {}
    BY <2>1, <2>2 DEF Kept
  <2> QED BY <1>3, <2>3, <2>4 DEF ReaderInv, FileOK, Leads, ThisWrite
<1>4. CASE EnterNode /\ task = "write"
  <2> DEFINE s == Enter(Head(stack), FALSE) \o Tail(stack)
  <2>1. /\ stack # << >> /\ ~Head(stack).due /\ stack' = s
        /\ recs' = recs /\ UNCHANGED <<task, node_count, file, section, pointers>>
    BY <1>4 DEF EnterNode, vars, Top
  <2>2. IsTree(recs) /\ InOrder(stack)
    BY <1>4, TreeOfRecs DEF OrderInv, CanIterate
  <2>3. \A q \in Nodes : Waits(s, q) <=> Waits(stack, q)
    BY <2>1, <2>2, EnterInOrder
  <2> HIDE DEF s
  <2>4. Done(stack') = Done(stack)
    BY <2>1, <2>3 DEF Done
  <2>5. Done(stack)' = Done(stack)
    BY <2>1, <2>4, SameOrder
  <2> QED BY <1>4, <2>1, <2>5, SameKept
<1>5. CASE Written
  <2>1. /\ task = "write" /\ stack = << >> /\ task' = "written"
        /\ recs' = recs /\ UNCHANGED <<stack, node_count, file, section, pointers>>
    BY <1>5 DEF Written, vars
  <2>2. Done(stack) = Nodes /\ node_count = Cardinality(Nodes) /\ Len(file) = node_count
    BY <2>1, DoneAtEnds DEF OrderInv
  <2>3. Nodes' = Nodes /\ \A q : Rank(q)' = Rank(q)
    BY <2>1, SameOrder
  <2>4. FileOK(Nodes) /\ Leads(ThisWrite)
    BY <2>1, <2>2 DEF ReaderInv
  <2>5. FileOK(Nodes)' /\ Leads(ThisWrite)'
    <3>1. \A x, p, v : Given(x, p, v)' <=> Given(x, p, v)
      BY <2>1, SameValues
    <3>2. \A w : Leads(w)' <=> Leads(w)
      BY <2>1, SameValues
    <3>3. FileOK(Nodes)'
      BY <2>1, <2>3, <2>4, <3>1 DEF FileOK
    <3>4. Leads(ThisWrite)'
      BY <2>1, <2>4, <3>2 DEF ThisWrite
    <3> QED BY <3>3, <3>4
  <2> QED BY <2>1, <2>2, <2>3, <2>5 DEF ReaderInv
<1>6. CASE UNCHANGED <<vars, wvars>>
  <2>1. /\ recs' = recs /\ UNCHANGED <<task, stack, node_count, file, section, pointers>>
    BY <1>6 DEF vars, wvars, tvars
  <2>2. Done(stack)' = Done(stack)
    BY <2>1, SameOrder
  <2> QED BY <2>1, <2>2, SameKept
<1>7. CASE TreeStep \/ Number \/ ReportRecord \/ NodeReported
  <2>1. task' = task /\ task \in {"none", "number", "iterate"}
    BY <1>7 DEF TreeStep, Number, ReportRecord, NodeReported, AtNodeOfIterate, tvars
  <2> QED BY <1>1, <2>1
<1>8. ASSUME NEW for \in {"count", "write", "iterate"}, Begin(for) \/ BeginWithin(for)
      PROVE  ReaderInv'
  <2>1. task' = "number"
    BY <1>8 DEF Begin, BeginWithin, Numbering
  <2> QED BY <1>1, <2>1
<1>9. CASE Counted \/ WriteCroaks \/ Close \/ CallbackDies \/ Iterated
  <2>1. Ends \/ Croaks
    BY <1>9 DEF Counted, WriteCroaks, Close, CallbackDies, Iterated
  <2>2. task' \in {"none", "iterate"}
    BY <2>1 DEF Ends, Croaks, Rest, Resume
  <2> QED BY <1>1, <2>2
<1>10. CASE (Numbered /\ task' # "write") \/ (EnterNode /\ task # "write")
  <2>1. CASE Numbered /\ task' # "write"
    <3>1. task = "number" /\ task' = purpose
      BY <2>1 DEF Numbered
    <3> QED BY <1>1, <2>1, <3>1 DEF OrderInv
  <2>2. CASE EnterNode /\ task # "write"
    <3>1. task' = task /\ stack # << >>
      BY <2>2 DEF EnterNode
    <3> QED BY <1>1, <2>2, <3>1 DEF ReaderInv
  <2> QED BY <1>10, <2>1, <2>2
<1> QED BY <1>2, <1>3, <1>4, <1>5, <1>6, <1>7, <1>8, <1>9, <1>10 DEF WriteNext

-----------------------------------------------------------------------------
(* The way a lookup takes                                                  *)

\* There is a walk to every address: each beginning of it can be continued.
LEMMA WalkExists ==
    ASSUME NEW a
    PROVE  /\ Walk(a)[0] = << >>
           /\ \A i \in 1..W : Walk(a)[i] = Onward(Walk(a)[i - 1], a[i])
<1> DEFINE IsWalk(f, n) ==
               /\ f = [i \in 0..n |-> f[i]] /\ f[0] = << >>
               /\ \A i \in 1..n : f[i] = Onward(f[i - 1], a[i])
           S == {n \in 0..W : \E f : IsWalk(f, n)}
<1>1. W \in Nat /\ 0 \in 0..W
  BY WidthAssumption
<1>2. 0 \in S
  <2> DEFINE f == [i \in 0..0 |-> << >>]
  <2>1. f = [i \in 0..0 |-> f[i]] /\ f[0] = << >> /\ 1..0 = {}
    OBVIOUS
  <2> HIDE DEF f
  <2>2. IsWalk(f, 0)
    BY <2>1
  <2> QED BY <1>1, <2>2
<1>3. \A n \in 0..(W - 1) : n \in S => n + 1 \in S
  <2> SUFFICES ASSUME NEW n \in 0..(W - 1), n \in S PROVE n + 1 \in S
    OBVIOUS
  <2>1. PICK f : IsWalk(f, n)
    OBVIOUS
  <2> DEFINE m == n + 1
             g == [i \in 0..m |-> IF i = m THEN Onward(f[n], a[m]) ELSE f[i]]
  <2>2. /\ n \in Nat /\ m \in 0..W /\ m - 1 = n /\ m # 0 /\ m # n
        /\ 0 \in 0..m /\ n \in 0..m /\ m \in 0..m
        /\ \A i \in 1..m : i \in 0..m /\ i - 1 \in 0..m /\ i - 1 # m /\ (i # m => i \in 1..n)
    BY <1>1
  <2> HIDE DEF m
  <2>3. /\ g = [i \in 0..m |-> g[i]] /\ g[m] = Onward(f[n], a[m])
        /\ \A i \in 0..m : i # m => g[i] = f[i]
    BY <2>2
  <2> HIDE DEF g
  <2>4. \A i \in 1..m : g[i] = Onward(g[i - 1], a[i])
    BY <2>1, <2>2, <2>3
  <2>5. IsWalk(g, m)
    BY <2>1, <2>2, <2>3, <2>4
  <2>6. m \in S
    BY <2>2, <2>5
  <2> QED BY <2>6 DEF m
<1> HIDE DEF S
<1>4. W \in S
  BY <1>1, <1>2, <1>3, CountUp
<1>5. PICK f : IsWalk(f, W)
  BY <1>4 DEF S
<1>6. \A i \in 0..W : Walk(a)[i] = f[i]
  BY <1>5, WalkIs
<1>7. \A i \in 1..W : i \in 0..W /\ i - 1 \in 0..W
  BY <1>1
<1> QED BY <1>1, <1>5, <1>6, <1>7

\* From an alias or a node a lookup goes on to a record of a node.
NodeOf(p) == IF recs[p].type = "ALIAS" THEN V4Root ELSE p
LeadsOn(p) == HasNode(recs[p]) \/ recs[p].type = "ALIAS"

\* One step of a lookup.
LEMMA OneStep ==
    ASSUME TableInv, LookupInv, op = "idle", NEW p \in Prefix, recs[p].type # "ABSENT",
           NEW b \in Bit
    PROVE  /\ LeadsOn(p) => /\ NodeOf(p) \in Nodes
                            /\ Onward(p, b) = Child(NodeOf(p), b)
           /\ ~LeadsOn(p) => Onward(p, b) = p
           /\ Onward(p, b) \in Prefix /\ recs[Onward(p, b)].type # "ABSENT"
<1>1. IsTree(recs)
  BY TreeOfRecs
<1>2. CASE LeadsOn(p)
  <2>1. NodeOf(p) \in Nodes
    BY <1>2, AliasLeadsToNode DEF LeadsOn, NodeOf, Nodes
  <2>2. Onward(p, b) = Child(NodeOf(p), b)
    BY <1>2 DEF LeadsOn, NodeOf, Onward, HasNode
  <2> DEFINE n == NodeOf(p)
  <2> HIDE DEF n
  <2>3. n \in Prefix /\ HasNode(recs[n]) /\ Len(n) < W
    BY <1>1, <2>1 DEF IsTree, Nodes, n
  <2>4. Child(n, b) \in Prefix /\ Child(n, b) # << >> /\ Parent(Child(n, b)) = n
    BY <2>3, ChildIsPrefix, AboveChild, RootIsPrefix
  <2>5. recs[Child(n, b)].type # "ABSENT"
    BY <1>1, <2>3, <2>4 DEF IsTree
  <2> QED BY <1>2, <2>1, <2>2, <2>4, <2>5 DEF n
<1>3. CASE ~LeadsOn(p)
  BY <1>3 DEF LeadsOn, Onward
<1> QED BY <1>2, <1>3

\* A lookup stays in the tree.
LEMMA WalkInTree ==
    ASSUME TableInv, LookupInv, op = "idle", NEW a \in Address
    PROVE  \A i \in 0..W : Walk(a)[i] \in Prefix /\ recs[Walk(a)[i]].type # "ABSENT"
<1> DEFINE w == Walk(a)
           S == {i \in 0..W : w[i] \in Prefix /\ recs[w[i]].type # "ABSENT"}
<1>1. W \in Nat /\ \A i \in 1..W : a[i] \in Bit
  BY WidthAssumption DEF Address
<1>2. w[0] = << >> /\ \A i \in 1..W : w[i] = Onward(w[i - 1], a[i])
  BY WalkExists
<1>3. recs[<< >>].type # "ABSENT"
  BY TreeOfRecs, RootIsPrefix DEF IsTree
<1> HIDE DEF w
<1>4. 0 \in S
  BY <1>1, <1>2, <1>3, RootIsPrefix
<1>5. \A n \in 0..(W - 1) : n \in S => n + 1 \in S
  <2> SUFFICES ASSUME NEW n \in 0..(W - 1), n \in S PROVE n + 1 \in S
    OBVIOUS
  <2> DEFINE m == n + 1
  <2>1. m \in 1..W /\ m \in 0..W /\ m - 1 = n /\ w[n] \in Prefix /\ recs[w[n]].type # "ABSENT"
    BY <1>1
  <2> HIDE DEF m
  <2>2. w[m] = Onward(w[n], a[m])
    BY <1>2, <2>1
  <2>3. m \in S
    BY <1>1, <2>1, <2>2, OneStep
  <2> QED BY <2>3 DEF m
<1> HIDE DEF S
<1>6. \A i \in 0..W : i \in S
  BY <1>1, <1>4, <1>5, CountUp
<1> QED BY <1>6 DEF S, w

-----------------------------------------------------------------------------
(* The way a reader of the file takes                                      *)

Follow(v, b) == IF v < Len(file) THEN file[v + 1][b + 1] ELSE v

\* What a reader finds is the last value of the one function that follows the
\* bits of an address.
LEMMA FollowedIs ==
    ASSUME NEW a, NEW f, f = [i \in 0..W |-> f[i]], f[0] = 0,
           \A i \in 1..W : f[i] = Follow(f[i - 1], a[i])
    PROVE  Followed(a) = f[W]
<1> DEFINE IsWay(v) ==
               v = [i \in 0..W |->
                      IF i = 0 THEN 0
                      ELSE IF v[i - 1] < Len(file) THEN file[v[i - 1] + 1][a[i] + 1]
                           ELSE v[i - 1]]
           g == CHOOSE v : IsWay(v)
<1>1. W \in Nat /\ 0 \in 0..W /\ W \in 0..W /\ \A i \in 0..W : i # 0 => i \in 1..W
  BY WidthAssumption
<1>2. IsWay(f)
  <2>1. \A i \in 0..W : f[i] = IF i = 0 THEN 0
                               ELSE IF f[i - 1] < Len(file) THEN file[f[i - 1] + 1][a[i] + 1]
                                    ELSE f[i - 1]
    BY <1>1 DEF Follow
  <2> QED BY <2>1
<1>3. Followed(a) = g[W]
  BY DEF Followed
<1> HIDE DEF IsWay
<1>4. IsWay(g)
  BY <1>2
<1> HIDE DEF g
<1>5. /\ g[0] = 0
      /\ \A i \in 1..W : g[i] = Follow(g[i - 1], a[i])
  <2>1. \A i \in 0..W : g[i] = IF i = 0 THEN 0
                               ELSE IF g[i - 1] < Len(file) THEN file[g[i - 1] + 1][a[i] + 1]
                                    ELSE g[i - 1]
    BY <1>4 DEF IsWay
  <2>2. \A i \in 1..W : i \in 0..W /\ i # 0
    BY <1>1
  <2> QED BY <1>1, <2>1, <2>2 DEF Follow
<1> DEFINE S == {i \in 0..W : g[i] = f[i]}
<1>6. 0 \in S
  BY <1>1, <1>5
<1>7. \A i \in 0..(W - 1) : i \in S => i + 1 \in S
  <2> SUFFICES ASSUME NEW i \in 0..(W - 1), i \in S PROVE i + 1 \in S
    OBVIOUS
  <2> DEFINE j == i + 1
  <2>1. j \in 1..W /\ j \in 0..W /\ j - 1 = i /\ g[i] = f[i]
    BY <1>1
  <2> HIDE DEF j
  <2>2. g[j] = f[j]
    BY <1>5, <2>1
  <2>3. j \in S
    BY <2>1, <2>2
  <2> QED BY <2>3 DEF j
<1> HIDE DEF S
<1>8. \A i \in 0..W : i \in S
  BY <1>1, <1>6, <1>7, CountUp
<1>9. g[W] = f[W]
  BY <1>1, <1>8 DEF S
<1> QED BY <1>3, <1>9

\* A reader goes from the value of one record to that of the next.
LEMMA FollowsRecord ==
    ASSUME TableInv, LookupInv, OrderInv, StoreInv, ReaderInv, task = "written",
           NEW p \in Prefix, recs[p].type # "ABSENT", NEW b \in Bit,
           recs[p].type = "DATA" => Val(pointers, p) # None
    PROVE  /\ Val(pointers, Onward(p, b)) = Follow(Val(pointers, p), b)
           /\ recs[Onward(p, b)].type = "DATA" => Val(pointers, Onward(p, b)) # None
<1> DEFINE c == Onward(p, b)
           n == NodeOf(p)
<1>1. /\ op = "idle" /\ IsTree(recs) /\ FileOK(Nodes) /\ Leads(ThisWrite)
      /\ Len(file) = node_count /\ node_count = Cardinality(Nodes) /\ node_count \in Nat
  BY TreeOfRecs DEF OrderInv, CanIterate, ReaderInv
<1>2. recs[p] \in Record
  BY <1>1 DEF IsTree
<1>3. CASE LeadsOn(p)
  <2>1. n \in Nodes /\ c = Child(n, b) /\ recs[c].type # "ABSENT"
    BY <1>1, <1>3, OneStep
  <2>2. Val(pointers, p) = Rank(n)
    BY <1>3 DEF Val, LeadsOn, NodeOf, HasNode
  <2> HIDE DEF n, c
  <2>3. Rank(n) < Len(file)
    BY <1>1, <2>1, RanksRise
  <2>4. Given(pointers, c, file[Rank(n) + 1][b + 1])
    BY <1>1, <2>1 DEF FileOK
  <2>5. Val(pointers, c) = file[Rank(n) + 1][b + 1] /\ (recs[c].type = "DATA" => Val(pointers, c) # None)
    BY <2>1, <2>4 DEF Given
  <2> QED BY <2>2, <2>3, <2>5 DEF Follow, c
<1>4. CASE ~LeadsOn(p)
  <2>1. c = p
    BY <1>1, <1>4, OneStep
  <2>2. Val(pointers, p) \in Nat /\ Val(pointers, p) >= node_count
    <3>1. CASE recs[p].type = "DATA"
      <4>1. Val(pointers, p) = pointers[recs[p].key] /\ recs[p].key \in Kept(pointers)
        BY <1>2, <3>1, RecordFacts DEF Val, HasNode, Kept
      <4>2. ThisWrite.pointers = pointers /\ pointers \in [Key -> Nat \cup {None}]
        BY DEF ThisWrite, StoreInv, SectionOK
      <4>3. InSection(pointers[recs[p].key]) \in Nat /\ pointers[recs[p].key] \in Nat
        BY <1>1, <4>1, <4>2 DEF Leads, Kept
      <4> QED BY <1>1, <4>1, <4>3 DEF InSection, DATA_SECTION_SEPARATOR_SIZE
    <3>2. CASE recs[p].type \in {"EMPTY", "FIXED_EMPTY"}
      BY <1>1, <3>2 DEF Val, HasNode
    <3> QED BY <1>2, <1>4, <3>1, <3>2, RecordFacts DEF LeadsOn, PlainTypes, FixedTypes, HasNode
  <2> HIDE DEF c
  <2> QED BY <1>1, <2>1, <2>2 DEF Follow, c
<1> QED BY <1>3, <1>4

\* A reader of a file that was written ends at the value of the record that a
\* lookup ends at.
LEMMA FollowsWalk ==
    ASSUME TableInv, LookupInv, OrderInv, StoreInv, ReaderInv, task = "written",
           NEW a \in Address
    PROVE  /\ Followed(a) = Val(pointers, Walk(a)[W])
           /\ FoundRecord(a).type = "DATA" => Val(pointers, Walk(a)[W]) # None
<1> DEFINE w == Walk(a)
           f == [i \in 0..W |-> Val(pointers, w[i])]
           S == {i \in 0..W : recs[w[i]].type = "DATA" => Val(pointers, w[i]) # None}
<1>1. op = "idle" /\ HasNode(recs[<< >>])
  BY DEF OrderInv, CanIterate
<1>2. /\ W \in Nat /\ 0 \in 0..W /\ W \in 0..W /\ \A i \in 1..W : a[i] \in Bit
      /\ \A i \in 1..W : i \in 0..W /\ i - 1 \in 0..W
  BY WidthAssumption DEF Address
<1>3. w[0] = << >> /\ \A i \in 1..W : w[i] = Onward(w[i - 1], a[i])
  BY WalkExists
<1>4. \A i \in 0..W : w[i] \in Prefix /\ recs[w[i]].type # "ABSENT"
  BY <1>1, WalkInTree
<1>5. FoundRecord(a) = recs[w[W]]
  BY DEF FoundRecord
<1> HIDE DEF w
<1>6. Val(pointers, << >>) = 0
  <2>1. {q \in Nodes : Before(q, << >>)} = {}
    BY OrderOfNodes DEF Nodes
  <2>2. Rank(<< >>) = 0
    BY <2>1, FS_EmptySet DEF Rank
  <2> QED BY <1>1, <2>2 DEF Val, HasNode
<1>7. 0 \in S
  BY <1>1, <1>2, <1>3 DEF HasNode
<1>8. \A n \in 0..(W - 1) : n \in S => n + 1 \in S
  <2> SUFFICES ASSUME NEW n \in 0..(W - 1), n \in S PROVE n + 1 \in S
    OBVIOUS
  <2> DEFINE m == n + 1
  <2>1. m \in 1..W /\ m \in 0..W /\ m - 1 = n /\ n \in 0..W
        /\ (recs[w[n]].type = "DATA" => Val(pointers, w[n]) # None)
    BY <1>2
  <2> HIDE DEF m
  <2>2. w[m] = Onward(w[n], a[m]) /\ a[m] \in Bit
    BY <1>2, <1>3, <2>1
  <2>3. recs[w[m]].type = "DATA" => Val(pointers, w[m]) # None
    BY <1>4, <2>1, <2>2, FollowsRecord
  <2>4. m \in S
    BY <2>1, <2>3
  <2> QED BY <2>4 DEF m
<1> HIDE DEF S
<1>9. \A i \in 0..W : i \in S
  BY <1>2, <1>7, <1>8, CountUp
<1>10. ASSUME NEW i \in 1..W PROVE f[i] = Follow(f[i - 1], a[i])
  <2> DEFINE h == i - 1
  <2>1. i \in 0..W /\ h \in 0..W
    BY <1>2
  <2> HIDE DEF h
  <2>2. /\ w[i] = Onward(w[h], a[i]) /\ a[i] \in Bit
        /\ recs[w[h]].type = "DATA" => Val(pointers, w[h]) # None
    BY <1>2, <1>3, <1>9, <2>1 DEF S, h
  <2>3. Val(pointers, w[i]) = Follow(Val(pointers, w[h]), a[i])
    BY <1>4, <2>1, <2>2, FollowsRecord
  <2>4. f[i] = Val(pointers, w[i]) /\ f[h] = Val(pointers, w[h])
    BY <2>1
  <2> HIDE DEF f
  <2> QED BY <2>3, <2>4 DEF h
<1>11. f = [i \in 0..W |-> f[i]] /\ f[0] = 0 /\ f[W] = Val(pointers, w[W])
  BY <1>2, <1>3, <1>6
<1> HIDE DEF f
<1>12. Followed(a) = f[W]
  BY <1>10, <1>11, FollowedIs
<1>13. recs[w[W]].type = "DATA" => Val(pointers, w[W]) # None
  BY <1>2, <1>9 DEF S
<1> QED BY <1>5, <1>11, <1>12, <1>13 DEF w

\* As long as no sum wraps, what is written is right in every reachable state.
LEMMA ReaderInvAlways == WriteSpec /\ []SumFits => []ReaderInv
<1>1. WriteInit => ReaderInv
  BY DEF WriteInit, ReaderInv
<1>2. TableInv /\ LookupInv /\ OrderInv /\ StoreInv /\ ReaderInv /\ SumFits'
        /\ [WriteNext]_<<vars, wvars>> => ReaderInv'
  BY NextReader
<1> QED BY <1>1, <1>2, OrderInvAlways, StoreInvAlways, PTL DEF WriteSpec

\* A reader of any file that was written finds for every address the data that
\* a lookup finds in the tree, unless the 32-bit sum of position, node count
\* and separator wraps, which encode_node does not check.
THEOREM ReaderFindsAlways == WriteSpec /\ []SumFits => []ReaderFindsWhatLookupFinds
<1>1. TableInv /\ LookupInv /\ OrderInv /\ StoreInv /\ ReaderInv
        => ReaderFindsWhatLookupFinds
  <2> SUFFICES ASSUME TableInv, LookupInv, OrderInv, StoreInv, ReaderInv, task = "written",
                      NEW a \in Address
               PROVE  Reads(a, FoundRecord(a).key)
    BY DEF ReaderFindsWhatLookupFinds
  <2> DEFINE r == FoundRecord(a)
             v == Followed(a)
             p == Walk(a)[W]
  <2>1. op = "idle" /\ Len(file) = node_count /\ Leads(ThisWrite) /\ W \in 0..W
    BY WidthAssumption DEF OrderInv, CanIterate, ReaderInv
  <2>2. r = recs[p] /\ p \in Prefix
    BY <2>1, WalkInTree DEF FoundRecord
  <2>3. v = Val(pointers, p) /\ (r.type = "DATA" => Val(pointers, p) # None)
    BY FollowsWalk
  <2>4. r \in Record
    BY <2>1, <2>2, TreeOfRecs DEF IsTree
  <2>5. r.type \in {"EMPTY", "FIXED_EMPTY", "DATA"}
    BY <2>1, LeafFound DEF LookupEndsAtLeaf
  <2> HIDE DEF r, v, p
  <2>6. CASE r.type \in {"EMPTY", "FIXED_EMPTY"}
    <3>1. v = Len(file)
      BY <2>1, <2>2, <2>3, <2>6 DEF Val, HasNode
    <3>2. r = Plain(r.type)
      BY <2>4, <2>6, RecordFacts
    <3>3. r.key = NoKey
      BY <3>2 DEF Plain
    <3> QED BY <3>1, <3>3 DEF Reads, r, v
  <2>7. CASE r.type = "DATA"
    <3> DEFINE k == r.key
    <3>1. k \in Key /\ k # NoKey /\ v = pointers[k] /\ v # None
      BY <2>2, <2>3, <2>4, <2>7, RecordFacts, KeyAssumption DEF Val, HasNode
    <3> HIDE DEF k
    <3>2. k \in Kept(pointers) /\ ThisWrite.pointers = pointers /\ ThisWrite.section = section
      BY <3>1 DEF Kept, ThisWrite
    <3>3. LeadsTo(section, InSection(v), k)
      BY <2>1, <3>1, <3>2 DEF Leads
    <3>4. InSection(v) = v - Len(file) - DATA_SECTION_SEPARATOR_SIZE
      BY <2>1 DEF InSection
    <3>5. HasValue(InSection(v), k) \/ HasPointer(InSection(v), k)
      BY <3>3 DEF LeadsTo, InPlace, HasValue, HasPointer
    <3> QED BY <3>1, <3>4, <3>5 DEF Reads, k, r, v
  <2> QED BY <2>5, <2>6, <2>7
<1> QED BY <1>1, OrderInvAlways, StoreInvAlways, ReaderInvAlways, PTL

=============================================================================
