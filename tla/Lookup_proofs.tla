--------------------------- MODULE Lookup_proofs ---------------------------
(***************************************************************************)
(* A lookup ends at a leaf, and an aliased network agrees with the IPv4    *)
(* subtree.                                                                *)
(*                                                                         *)
(* A walk follows the bits of its address to the one leaf that covers it.  *)
(* If that is an alias, it goes on among the records below the IPv4 root,  *)
(* of which none is an alias: new_tree puts the root and the aliases where *)
(* they belong, whatever the order of their networks, and no later call    *)
(* touches them.                                                           *)
(*                                                                         *)
(* The last part is about walks through the whole tree: the order in which *)
(* iterate_tree comes to the nodes, and what the frames on its stack stand *)
(* for.                                                                    *)
(***************************************************************************)
EXTENDS TreeIteration, SearchTree_proofs

-----------------------------------------------------------------------------
(* What new_tree inserts                                                   *)

RootItem == [net |-> V4Root, rec |-> Plain("FIXED_NODE")]
AliasItem(n) == [net |-> n, rec |-> Plain("ALIAS")]
ReservedItem(n) == [net |-> n, rec |-> Plain("FIXED_EMPTY")]

\* The items of new_tree's two lists.
LEMMA ListItems ==
    ASSUME NEW o \in Options
    PROVE  /\ AliasItems(o) \in Seq(Item) /\ ReservedItems(o) \in Seq(Item)
           /\ \A i \in 1..Len(AliasItems(o)) :
                 /\ o.alias
                 /\ \/ AliasItems(o)[i] = RootItem
                    \/ \E j \in 1..Len(Aliases) : AliasItems(o)[i] = AliasItem(Aliases[j])
           /\ o.alias => \E i \in 1..Len(AliasItems(o)) : AliasItems(o)[i] = RootItem
           /\ o.alias => \A j \in 1..Len(Aliases) : \E i \in 1..Len(AliasItems(o)) :
                                AliasItems(o)[i] = AliasItem(Aliases[j])
           /\ \A i \in 1..Len(ReservedItems(o)) :
                 /\ o.reserved
                 /\ \E j \in 1..Len(Reserved) : ReservedItems(o)[i] = ReservedItem(Reserved[j])
           /\ o.reserved => \A j \in 1..Len(Reserved) : \E i \in 1..Len(ReservedItems(o)) :
                                ReservedItems(o)[i] = ReservedItem(Reserved[j])
<1>1. \A t \in FixedTypes : Plain(t) \in Record
  BY RecordFacts DEF PlainTypes
<1>2. Plain("FIXED_NODE") \in Record /\ Plain("ALIAS") \in Record /\ Plain("FIXED_EMPTY") \in Record
  BY <1>1 DEF FixedTypes
<1>3. Len(Aliases) \in Nat /\ Len(Reserved) \in Nat
      /\ Aliases \in Seq(Prefix) /\ Reserved \in Seq(Prefix)
  BY NetworkAssumption, LenProperties
<1> DEFINE r1 == Plain("FIXED_NODE")
           r2 == Plain("ALIAS")
           r3 == Plain("FIXED_EMPTY")
           v == <<V4Root>>
           s == Items(v, r1)
           t == Items(Aliases, r2)
           u == Items(Reserved, r3)
<1>4. r1 \in Record /\ r2 \in Record /\ r3 \in Record
  BY <1>2
<1>5. v \in Seq(Prefix) /\ Len(v) = 1 /\ v[1] = V4Root
  BY NetworkAssumption
<1> HIDE DEF r1, r2, r3, v
<1>6. s \in Seq(Item) /\ Len(s) = 1 /\ s[1] = [net |-> V4Root, rec |-> r1]
  <2>1. /\ s \in Seq(Item) /\ Len(s) = Len(v)
        /\ \A i \in 1..Len(v) : s[i] = [net |-> v[i], rec |-> r1]
    BY <1>4, <1>5, ItemsFacts
  <2> QED BY <1>5, <2>1
<1>7. /\ t \in Seq(Item) /\ Len(t) = Len(Aliases)
      /\ \A j \in 1..Len(Aliases) : t[j] = [net |-> Aliases[j], rec |-> r2]
  BY <1>3, <1>4, ItemsFacts
<1>8. /\ u \in Seq(Item) /\ Len(u) = Len(Reserved)
      /\ \A j \in 1..Len(Reserved) : u[j] = [net |-> Reserved[j], rec |-> r3]
  BY <1>3, <1>4, ItemsFacts
<1> HIDE DEF s, t, u
<1>9. /\ s \o t \in Seq(Item) /\ Len(s \o t) = Len(Aliases) + 1
      /\ (s \o t)[1] = s[1]
      /\ \A j \in 1..Len(Aliases) : j + 1 \in 1..Len(s \o t) /\ (s \o t)[j + 1] = t[j]
      /\ \A i \in 1..Len(s \o t) : i # 1 => i - 1 \in 1..Len(Aliases)
  <2>1. /\ s \o t \in Seq(Item) /\ Len(s \o t) = Len(s) + Len(t)
        /\ \A i \in 1..(Len(s) + Len(t)) :
              (s \o t)[i] = IF i <= Len(s) THEN s[i] ELSE t[i - Len(s)]
    <3>1. s \in Seq(Item) /\ t \in Seq(Item)
      BY <1>6, <1>7
    <3> QED BY <3>1, ConcatProperties
  <2>2. ASSUME NEW j \in 1..Len(Aliases)
        PROVE  j + 1 \in 1..Len(s \o t) /\ (s \o t)[j + 1] = t[j]
    <3> DEFINE m == j + 1
    <3>1. m \in 1..(Len(s) + Len(t)) /\ ~(m <= Len(s)) /\ m - Len(s) = j
      BY <1>3, <1>6, <1>7
    <3> HIDE DEF m
    <3>2. (s \o t)[m] = t[j]
      BY <2>1, <3>1
    <3> QED BY <2>1, <3>1, <3>2 DEF m
  <2>3. (s \o t)[1] = s[1]
    BY <1>3, <1>6, <1>7, <2>1
  <2>4. \A i \in 1..Len(s \o t) : i # 1 => i - 1 \in 1..Len(Aliases)
    BY <1>3, <1>6, <1>7, <2>1
  <2> QED BY <1>3, <1>6, <1>7, <2>1, <2>2, <2>3, <2>4
<1>10. AliasItems(o) = (IF o.alias THEN s \o t ELSE << >>)
  BY DEF AliasItems, s, t, v, r1, r2
<1>11. ReservedItems(o) = (IF o.reserved THEN u ELSE << >>)
  BY DEF ReservedItems, u, r3
<1>12. << >> \in Seq(Item) /\ Len(<< >>) = 0
  BY EmptySeq
<1>13. [net |-> V4Root, rec |-> r1] = RootItem
       /\ (\A n : [net |-> n, rec |-> r2] = AliasItem(n))
       /\ (\A n : [net |-> n, rec |-> r3] = ReservedItem(n))
  BY DEF RootItem, AliasItem, ReservedItem, r1, r2, r3
<1>14. CASE o.alias
  <2>1. AliasItems(o) = s \o t
    BY <1>10, <1>14
  <2>2. 1 \in 1..Len(s \o t)
    BY <1>3, <1>9
  <2>3. ASSUME NEW i \in 1..Len(s \o t)
        PROVE  (s \o t)[i] = RootItem
               \/ \E j \in 1..Len(Aliases) : (s \o t)[i] = AliasItem(Aliases[j])
    <3>1. CASE i = 1
      BY <1>6, <1>9, <1>13, <3>1
    <3>2. CASE i # 1
      <4> DEFINE j == i - 1
      <4>1. j \in 1..Len(Aliases) /\ j + 1 = i
        BY <1>9, <2>3, <3>2
      <4> HIDE DEF j
      <4>2. (s \o t)[j + 1] = t[j] /\ t[j] = AliasItem(Aliases[j])
        BY <1>7, <1>9, <1>13, <4>1
      <4>3. (s \o t)[i] = AliasItem(Aliases[j])
        BY <4>1, <4>2
      <4> QED BY <4>1, <4>3
    <3> QED BY <3>1, <3>2
  <2>4. (s \o t)[1] = RootItem
    BY <1>6, <1>9, <1>13
  <2>5. ASSUME NEW j \in 1..Len(Aliases)
        PROVE  \E i \in 1..Len(s \o t) : (s \o t)[i] = AliasItem(Aliases[j])
    BY <1>7, <1>9, <1>13
  <2>6. /\ ReservedItems(o) \in Seq(Item)
        /\ \A i \in 1..Len(ReservedItems(o)) :
              o.reserved /\ \E j \in 1..Len(Reserved) : ReservedItems(o)[i] = ReservedItem(Reserved[j])
        /\ o.reserved => \A j \in 1..Len(Reserved) : \E i \in 1..Len(ReservedItems(o)) :
                                ReservedItems(o)[i] = ReservedItem(Reserved[j])
    BY <1>8, <1>11, <1>12, <1>13
  <2>7. s \o t \in Seq(Item) /\ \E i \in 1..Len(s \o t) : (s \o t)[i] = RootItem
    BY <1>9, <2>2, <2>4
  <2> QED BY <1>14, <2>1, <2>3, <2>5, <2>6, <2>7
<1>15. CASE ~o.alias
  <2>1. AliasItems(o) = << >>
    BY <1>10, <1>15
  <2>2. AliasItems(o) \in Seq(Item) /\ \A i \in 1..Len(AliasItems(o)) : FALSE
    BY <1>12, <2>1
  <2>3. /\ ReservedItems(o) \in Seq(Item)
        /\ \A i \in 1..Len(ReservedItems(o)) :
              o.reserved /\ \E j \in 1..Len(Reserved) : ReservedItems(o)[i] = ReservedItem(Reserved[j])
        /\ o.reserved => \A j \in 1..Len(Reserved) : \E i \in 1..Len(ReservedItems(o)) :
                                ReservedItems(o)[i] = ReservedItem(Reserved[j])
    BY <1>8, <1>11, <1>12, <1>13
  <2> QED BY <1>15, <2>2, <2>3
<1> QED BY <1>14, <1>15

\* Where an item of the queue comes from.
FromAlias(o, it) ==
    o.alias /\ (it = RootItem \/ \E j \in 1..Len(Aliases) : it = AliasItem(Aliases[j]))
FromReserved(o, it) == o.reserved /\ \E j \in 1..Len(Reserved) : it = ReservedItem(Reserved[j])

\* The three kinds of items tell apart.
LEMMA ItemKinds ==
    ASSUME NEW o, NEW it
    PROVE  /\ FromAlias(o, it) =>
                \/ it.rec = Plain("FIXED_NODE") /\ it.rec.type = "FIXED_NODE" /\ it.net = V4Root
                \/ /\ it.rec = Plain("ALIAS") /\ it.rec.type = "ALIAS"
                   /\ \E j \in 1..Len(Aliases) : it.net = Aliases[j]
           /\ FromReserved(o, it) => it.rec = Plain("FIXED_EMPTY") /\ it.rec.type = "FIXED_EMPTY"
BY DEF FromAlias, FromReserved, RootItem, AliasItem, ReservedItem, Plain

\* new_tree inserts the IPv4 root, the aliases and the reserved networks, the
\* reserved ones last.
LEMMA QueueItems ==
    ASSUME NEW o \in Options, NEW q, q = NewTreeQueue(o)
    PROVE  /\ q \in Seq(Item)
           /\ \A i \in 1..Len(q) : FromAlias(o, q[i]) \/ FromReserved(o, q[i])
           /\ \A it : FromAlias(o, it) \/ FromReserved(o, it) => \E i \in 1..Len(q) : q[i] = it
           /\ \A i \in 1..Len(q) : \A j \in 1..Len(q) :
                 j = i + 1 /\ FromAlias(o, q[j]) => FromAlias(o, q[i])
<1> DEFINE s == AliasItems(o)
           t == ReservedItems(o)
<1>1. /\ s \in Seq(Item) /\ t \in Seq(Item)
      /\ \A i \in 1..Len(s) : FromAlias(o, s[i])
      /\ \A i \in 1..Len(t) : FromReserved(o, t[i])
  BY ListItems DEF FromAlias, FromReserved
<1>2. /\ \A it : FromAlias(o, it) => \E i \in 1..Len(s) : s[i] = it
      /\ \A it : FromReserved(o, it) => \E i \in 1..Len(t) : t[i] = it
  BY ListItems DEF FromAlias, FromReserved
<1>3. q = s \o t
  BY DEF NewTreeQueue
<1> HIDE DEF s, t
<1>4. /\ q \in Seq(Item) /\ Len(q) = Len(s) + Len(t)
      /\ \A i \in 1..(Len(s) + Len(t)) : q[i] = IF i <= Len(s) THEN s[i] ELSE t[i - Len(s)]
  BY <1>1, <1>3, ConcatProperties
<1>5. Len(s) \in Nat /\ Len(t) \in Nat
  BY <1>1, LenProperties
<1>6. \A i \in 1..Len(s) : i \in 1..Len(q) /\ q[i] = s[i]
  BY <1>4, <1>5
<1>7. ASSUME NEW i \in 1..Len(t) PROVE \E m \in 1..Len(q) : q[m] = t[i]
  <2> DEFINE m == Len(s) + i
  <2>1. m \in 1..Len(q) /\ ~(m <= Len(s)) /\ m - Len(s) = i
    BY <1>4, <1>5
  <2> HIDE DEF m
  <2>2. q[m] = t[i]
    BY <1>4, <2>1
  <2> QED BY <2>1, <2>2
<1>8. ASSUME NEW i \in 1..Len(q), ~(i <= Len(s)) PROVE \E m \in 1..Len(t) : q[i] = t[m]
  BY <1>4, <1>5, <1>8
<1>9. ASSUME NEW i \in 1..Len(q)
      PROVE  /\ FromAlias(o, q[i]) \/ FromReserved(o, q[i])
             /\ FromAlias(o, q[i]) => i \in 1..Len(s)
  <2>1. CASE i <= Len(s)
    <3>1. i \in 1..Len(s)
      BY <1>4, <1>5, <1>9, <2>1
    <3> QED BY <1>1, <1>6, <3>1
  <2>2. CASE ~(i <= Len(s))
    <3>1. PICK m \in 1..Len(t) : q[i] = t[m]
      BY <1>8, <2>2
    <3>2. FromReserved(o, q[i])
      BY <1>1, <3>1
    <3>3. ~FromAlias(o, q[i])
      BY <3>2, ItemKinds
    <3> QED BY <3>2, <3>3
  <2> QED BY <2>1, <2>2
<1>10. ASSUME NEW it, FromAlias(o, it) \/ FromReserved(o, it)
       PROVE  \E i \in 1..Len(q) : q[i] = it
  <2>1. CASE FromAlias(o, it)
    <3>1. PICK i \in 1..Len(s) : s[i] = it
      BY <1>2, <2>1
    <3> QED BY <1>6, <3>1
  <2>2. CASE FromReserved(o, it)
    <3>1. PICK i \in 1..Len(t) : t[i] = it
      BY <1>2, <2>2
    <3> QED BY <1>7, <3>1
  <2> QED BY <1>10, <2>1, <2>2
<1>11. ASSUME NEW i \in 1..Len(q), NEW j \in 1..Len(q), j = i + 1, FromAlias(o, q[j])
       PROVE  FromAlias(o, q[i])
  <2>1. j \in 1..Len(s)
    BY <1>9, <1>11
  <2>2. i \in 1..Len(s)
    BY <1>5, <1>11, <2>1
  <2> QED BY <1>1, <1>6, <2>2
<1> QED BY <1>4, <1>9, <1>10, <1>11

-----------------------------------------------------------------------------
(* The invariant                                                           *)

\* During new_tree: how many of its items have been dealt with, and that the
\* queue is what is left of them.
Past == Len(NewTreeQueue(opts)) - Len(queue)
QueueIsRest ==
    op = "new_tree" =>
        /\ Past \in Nat
        /\ \A i \in 1..Len(queue) : queue[i] = NewTreeQueue(opts)[Past + i]

\* A removal puts EMPTY records, without merging.
RemoveOK ==
    op = "remove" =>
        strategy = "none" /\ \A i \in 1..Len(queue) : queue[i].rec = Plain("EMPTY")

\* Item it has been put where it belongs.
Placed(it) == it.rec.type \in {"FIXED_NODE", "ALIAS"} => recs[it.net] = it.rec

\* The IPv4 root and the aliases are in place once new_tree is done with them.
RootsPlaced ==
    /\ op = "new_tree" =>
          /\ \A i \in 1..Past : Placed(NewTreeQueue(opts)[i])
          /\ dir = "up" => Placed(Head(queue))
    /\ op \in {"idle", "insert", "remove"} /\ opts.alias =>
          /\ recs[V4Root].type = "FIXED_NODE"
          /\ \A j \in 1..Len(Aliases) : recs[Aliases[j]].type = "ALIAS"

\* There are no other aliases.
AliasesOnly ==
    \A p \in Prefix : recs[p].type = "ALIAS" =>
        opts.alias /\ \E j \in 1..Len(Aliases) : p = Aliases[j]

\* While new_tree is at the IPv4 root and the aliases, the recursion never
\* leaves the way to their positions, and nothing is in the tree but empty
\* records, aliases and the nodes above them and the root.
AliasPhase == op = "new_tree" /\ new.type # "FIXED_EMPTY"
AliasPhaseOK ==
    AliasPhase =>
        /\ Covers(at, net)
        /\ \A p \in Prefix :
              /\ recs[p].type \notin {"NODE", "DATA", "FIXED_EMPTY"}
              /\ recs[p].type = "FIXED_NODE" =>
                    Covers(p, V4Root) \/ \E j \in 1..Len(Aliases) : Below(p, Aliases[j])

LookupInv ==
    /\ opts \in Options
    /\ QueueIsRest /\ RemoveOK /\ RootsPlaced /\ AliasesOnly /\ AliasPhaseOK

\* What the invariant says of the item new_tree is at.
LEMMA HeadItem ==
    ASSUME Inv, LookupInv, op = "new_tree"
    PROVE  /\ Len(queue) \in Nat \ {0}
           /\ Len(NewTreeQueue(opts)) = Past + Len(queue)
           /\ Past + 1 \in 1..Len(NewTreeQueue(opts))
           /\ Head(queue) = NewTreeQueue(opts)[Past + 1]
           /\ net = Head(queue).net /\ new = Head(queue).rec
           /\ FromAlias(opts, Head(queue)) \/ FromReserved(opts, Head(queue))
           /\ new.type # "FIXED_EMPTY" <=> FromAlias(opts, Head(queue))
           /\ strategy = "none"
<1>1. op \in Running
  BY DEF Running
<1>2. queue \in Seq(Item) /\ queue # << >> /\ Len(queue) \in Nat \ {0}
  BY <1>1, RunningFacts, QueueFacts
<1>3. Head(queue) = queue[1]
  BY <1>2
<1>4. opts \in Options /\ Past \in Nat
      /\ \A i \in 1..Len(queue) : queue[i] = NewTreeQueue(opts)[Past + i]
  BY DEF LookupInv, QueueIsRest
<1>5. NewTreeQueue(opts) \in Seq(Item)
  BY <1>4, QueueItems
<1>6. Len(NewTreeQueue(opts)) \in Nat
  BY <1>5, LenProperties
<1>7. Len(NewTreeQueue(opts)) = Past + Len(queue)
  BY <1>2, <1>6 DEF Past
<1>8. Past + 1 \in 1..Len(NewTreeQueue(opts))
  BY <1>2, <1>4, <1>7
<1>9. Head(queue) = NewTreeQueue(opts)[Past + 1]
  BY <1>2, <1>3, <1>4
<1>10. FromAlias(opts, Head(queue)) \/ FromReserved(opts, Head(queue))
  BY <1>4, <1>8, <1>9, QueueItems
<1>11. /\ net = Head(queue).net /\ new = Head(queue).rec
  BY DEF net, new
<1>12. new.type \in {"FIXED_NODE", "ALIAS", "FIXED_EMPTY"}
       /\ (new.type # "FIXED_EMPTY" <=> FromAlias(opts, Head(queue)))
  BY <1>10, <1>11, ItemKinds
<1>13. strategy = "none"
  BY <1>1, <1>12, RunningFacts
<1> QED BY <1>2, <1>7, <1>8, <1>9, <1>10, <1>11, <1>12, <1>13

\* A tree just made.
Fresh ==
    /\ opts \in Options /\ recs = EmptyTree /\ queue = NewTreeQueue(opts)
    /\ op = IF queue = << >> THEN "idle" ELSE "new_tree"
    /\ at = << >> /\ dir = "down"

\* It satisfies the invariant.
LEMMA FreshLookup == Fresh => LookupInv
<1> SUFFICES ASSUME Fresh PROVE LookupInv
  OBVIOUS
<1>1. opts \in Options /\ queue = NewTreeQueue(opts) /\ queue \in Seq(Item)
  BY QueueItems DEF Fresh
<1>2. Len(queue) \in Nat
  BY <1>1, LenProperties
<1>3. Past = 0
  BY <1>1, <1>2 DEF Past
<1>4. QueueIsRest
  BY <1>1, <1>2, <1>3 DEF QueueIsRest
<1>5. RemoveOK
  BY DEF RemoveOK, Fresh
<1>6. RootsPlaced
  <2>1. op = "new_tree" => (\A i \in 1..Past : Placed(NewTreeQueue(opts)[i])) /\ dir # "up"
    BY <1>3 DEF Fresh
  <2>2. op # "new_tree" => ~opts.alias
    <3> SUFFICES ASSUME op # "new_tree", opts.alias PROVE FALSE
      OBVIOUS
    <3>1. queue = << >>
      BY DEF Fresh
    <3>2. FromAlias(opts, RootItem)
      BY DEF FromAlias
    <3>3. \E i \in 1..Len(queue) : queue[i] = RootItem
      BY <1>1, <3>2, QueueItems
    <3> QED BY <3>1, <3>3, EmptySeq
  <2> QED BY <2>1, <2>2 DEF RootsPlaced
<1>7. \A p \in Prefix : recs[p].type \in {"EMPTY", "ABSENT"}
  BY EmptyFacts DEF Fresh
<1>8. AliasesOnly
  BY <1>7 DEF AliasesOnly
<1>9. AliasPhaseOK
  <2> SUFFICES ASSUME AliasPhase PROVE Covers(at, net)
    BY <1>7 DEF AliasPhaseOK
  <2>1. queue # << >>
    BY DEF Fresh, AliasPhase
  <2>2. net \in Prefix
    BY <1>1, <2>1, QueueFacts
  <2> QED BY <2>2, CoversOrder DEF Fresh
<1> QED BY <1>1, <1>4, <1>5, <1>6, <1>8, <1>9 DEF LookupInv

-----------------------------------------------------------------------------
(* The steps of new_tree at the IPv4 root and the aliases                  *)

\* Where the recursion is.
LEMMA PhaseFacts ==
    ASSUME Inv, LookupInv, AliasPhase
    PROVE  /\ op = "new_tree" /\ opts.alias
           /\ Covers(at, net)
           /\ Inside => at = net
           /\ recs[at].type \in {"ABSENT", "EMPTY", "FIXED_NODE", "ALIAS"}
           /\ \/ new = Plain("FIXED_NODE") /\ new.type = "FIXED_NODE" /\ net = V4Root
              \/ /\ new = Plain("ALIAS") /\ new.type = "ALIAS"
                 /\ \E j \in 1..Len(Aliases) : net = Aliases[j]
           /\ new.type = "ALIAS" => recs[net].type # "FIXED_NODE"
<1>1. op = "new_tree" /\ op \in Running
  BY DEF AliasPhase, Running
<1>2. /\ at \in Prefix /\ net \in Prefix /\ recs[at] \in Record
      /\ recs \in [Prefix -> Record]
  BY <1>1, RunningFacts
<1>3. FromAlias(opts, Head(queue)) /\ net = Head(queue).net /\ new = Head(queue).rec
  BY <1>1, HeadItem DEF AliasPhase
<1>4. \/ new = Plain("FIXED_NODE") /\ new.type = "FIXED_NODE" /\ net = V4Root
      \/ /\ new = Plain("ALIAS") /\ new.type = "ALIAS"
         /\ \E j \in 1..Len(Aliases) : net = Aliases[j]
  BY <1>3, ItemKinds
<1>5. Covers(at, net) /\ recs[at].type \notin {"NODE", "DATA", "FIXED_EMPTY"}
  BY <1>2 DEF LookupInv, AliasPhaseOK
<1>6. Inside => at = net
  BY <1>2, <1>5, BelowIsCovers, PrefixLength DEF Inside, Below
<1>7. recs[at].type \in {"ABSENT", "EMPTY", "FIXED_NODE", "ALIAS"}
  BY <1>2, <1>5, RecordFacts DEF PlainTypes, FixedTypes
<1>8. ASSUME NEW j \in 1..Len(Aliases), net = Aliases[j] PROVE recs[net].type # "FIXED_NODE"
  <2>1. ~Covers(net, V4Root)
    BY <1>8, AliasAssumption
  <2>2. ASSUME NEW i \in 1..Len(Aliases) PROVE ~Below(net, Aliases[i])
    <3>1. CASE i = j
      BY <1>2, <1>8, <3>1, BelowIsCovers
    <3>2. CASE i # j
      BY <1>8, <3>2, AliasAssumption DEF Below
    <3> QED BY <3>1, <3>2
  <2> QED BY <1>2, <2>1, <2>2 DEF LookupInv, AliasPhaseOK
<1>9. new.type = "ALIAS" => recs[net].type # "FIXED_NODE"
  <2> SUFFICES ASSUME new.type = "ALIAS" PROVE recs[net].type # "FIXED_NODE"
    OBVIOUS
  <2>1. PICK j \in 1..Len(Aliases) : net = Aliases[j]
    BY <1>4
  <2> QED BY <1>8, <2>1
<1>10. opts.alias
  BY <1>3 DEF FromAlias
<1> QED BY <1>1, <1>4, <1>5, <1>6, <1>7, <1>9, <1>10

\* A step of the recursion, as opposed to one between records or calls.
Recurse == SetRecord \/ MergeRecord \/ Ignore \/ Descend \/ GoLeft \/ Trim

\* What it leaves alone.
LEMMA RecurseFrame ==
    ASSUME Recurse PROVE op \in Running /\ UNCHANGED <<opts, op, strategy, held, queue>>
                         /\ net' = net /\ new' = new /\ Past' = Past
<1>1. op \in Running /\ UNCHANGED <<opts, op, strategy, held, queue>>
  BY DEF Recurse, SetRecord, MergeRecord, Ignore, Descend, GoLeft, Trim, Settles, Down, Up
<1> QED BY <1>1 DEF net, new, Past

\* The recursion goes straight down to the item's position, puts it there and
\* goes straight back.
LEMMA PhaseStep ==
    ASSUME Inv, LookupInv, AliasPhase, Recurse
    PROVE  /\ AliasPhaseOK' /\ AliasesOnly'
           /\ dir' = "up" => dir = "up" \/ recs'[net] = new
<1>1. /\ op = "new_tree" /\ opts.alias /\ Covers(at, net) /\ (Inside => at = net)
      /\ recs[at].type \in {"ABSENT", "EMPTY", "FIXED_NODE", "ALIAS"}
      /\ \/ new = Plain("FIXED_NODE") /\ new.type = "FIXED_NODE" /\ net = V4Root
         \/ /\ new = Plain("ALIAS") /\ new.type = "ALIAS"
            /\ \E j \in 1..Len(Aliases) : net = Aliases[j]
      /\ new.type = "ALIAS" => recs[net].type # "FIXED_NODE"
  BY PhaseFacts
<1>2. op \in Running /\ UNCHANGED <<opts, op, queue>> /\ net' = net /\ new' = new
  BY RecurseFrame
<1>3. /\ at \in Prefix /\ net \in Prefix /\ recs \in [Prefix -> Record]
      /\ recs[at] \in Record /\ new \in Record
      /\ Len(at) \in Nat /\ Len(net) \in Nat
  BY <1>2, RunningFacts, PrefixLength
<1>4. strategy = "none"
  BY <1>1, HeadItem
<1>5. \A p \in Prefix :
        /\ recs[p].type \notin {"NODE", "DATA", "FIXED_EMPTY"}
        /\ recs[p].type = "FIXED_NODE" =>
              Covers(p, V4Root) \/ \E j \in 1..Len(Aliases) : Below(p, Aliases[j])
  BY DEF LookupInv, AliasPhaseOK
<1>6. \A p \in Prefix : recs[p].type = "ALIAS" => \E j \in 1..Len(Aliases) : p = Aliases[j]
  BY DEF LookupInv, AliasesOnly
<1>7. ASSUME Covers(at', net),
             \A p \in Prefix :
                \/ recs'[p] = recs[p]
                \/ recs'[p].type \in {"EMPTY", "ABSENT"}
                \/ p = net /\ recs'[p] = new
                \/ recs'[p].type = "FIXED_NODE" /\ Below(p, net)
      PROVE  AliasPhaseOK' /\ AliasesOnly'
  <2>1. ASSUME NEW p \in Prefix
        PROVE  /\ recs'[p].type \notin {"NODE", "DATA", "FIXED_EMPTY"}
               /\ recs'[p].type = "FIXED_NODE" =>
                     Covers(p, V4Root) \/ \E j \in 1..Len(Aliases) : Below(p, Aliases[j])
               /\ recs'[p].type = "ALIAS" => \E j \in 1..Len(Aliases) : p = Aliases[j]
    <3>1. CASE recs'[p] = recs[p]
      BY <1>5, <1>6, <3>1
    <3>2. CASE recs'[p].type \in {"EMPTY", "ABSENT"}
      BY <3>2
    <3>3. CASE p = net /\ recs'[p] = new
      BY <1>1, <1>3, <3>3, CoversOrder
    <3>4. CASE recs'[p].type = "FIXED_NODE" /\ Below(p, net)
      BY <1>1, <3>4 DEF Below
    <3> QED BY <1>7, <3>1, <3>2, <3>3, <3>4
  <2> QED BY <1>1, <1>2, <1>7, <2>1 DEF AliasPhaseOK, AliasesOnly, AliasPhase
<1>8. CASE SetRecord
  <2>1. recs' = Graft(at, new) /\ at' = at /\ at = net
    BY <1>1, <1>8 DEF SetRecord, Settles
  <2>2. /\ recs'[at] = new
        /\ \A q \in Prefix : ~Covers(at, q) => recs'[q] = recs[q]
        /\ \A q \in Prefix :
              Below(at, q) => recs'[q] = IF new.type = "FIXED_NODE" /\ Len(q) = Len(at) + 1
                                         THEN Plain("EMPTY") ELSE Plain("ABSENT")
    BY <1>3, <2>1, GraftFacts
  <2>3. Plain("EMPTY").type = "EMPTY" /\ Plain("ABSENT").type = "ABSENT"
    BY DEF Plain
  <2>4. \A q \in Prefix : Below(at, q) => recs'[q].type \in {"EMPTY", "ABSENT"}
    BY <2>2, <2>3
  <2>5. \A q \in Prefix : q = at \/ ~Covers(at, q) \/ Below(at, q)
    BY <1>3, BelowIsCovers
  <2> QED BY <1>1, <1>7, <2>1, <2>2, <2>4, <2>5
<1>9. CASE MergeRecord
  BY <1>4, <1>9 DEF MergeRecord, Merges
<1>10. CASE Ignore
  <2>1. Len(at) <= Len(net)
    BY <1>1 DEF Covers
  <2> QED BY <1>1, <1>3, <1>4, <1>10, <2>1 DEF Ignore, Settles, SkipsEmpty
<1>11. CASE Descend
  <2>1. ~Inside
    <3> SUFFICES ASSUME Inside PROVE FALSE
      OBVIOUS
    <3>1. at = net /\ recs[at].type \notin {"EMPTY", "DATA"} /\ ~Refused
      BY <1>1, <1>11 DEF Descend, Settles
    <3>2. recs[at].type = "FIXED_NODE"
      BY <1>1, <1>11, <3>1 DEF Descend
    <3>3. new.type = "FIXED_NODE"
      BY <1>1, <3>1, <3>2
    <3> QED BY <3>1, <3>2, <3>3 DEF Refused
  <2> DEFINE b == net[Len(at) + 1]
  <2>2. /\ recs[at].type \in {"EMPTY", "FIXED_NODE"}
        /\ recs' = IF HasNode(recs[at])
                   THEN [recs EXCEPT ![at] = Plain(NodeType)] ELSE Split(at, NodeType)
        /\ at' = Child(at, b) /\ dir' = dir
    BY <1>1, <1>11, <2>1 DEF Descend
  <2>3. NodeType = "FIXED_NODE" /\ Plain(NodeType) \in Record /\ Plain(NodeType).type = "FIXED_NODE"
        /\ NodeType \in PlainTypes
    <3>1. NodeType = "FIXED_NODE"
      BY <1>1 DEF NodeType, FixedTypes
    <3> QED BY <3>1, RecordFacts DEF PlainTypes, FixedTypes
  <2>4. Len(at) < Len(net) /\ Len(at) < W
    BY <1>3, <1>11, <2>1, DescendRoom DEF Inside
  <2>5. Below(at, net)
    BY <1>1, <2>4 DEF Below
  <2>6. Covers(at', net)
    BY <1>3, <2>2, <2>5, ChildToward
  <2>8. ASSUME NEW p \in Prefix
        PROVE  \/ recs'[p] = recs[p] \/ recs'[p].type \in {"EMPTY", "ABSENT"}
               \/ p = at /\ recs'[p].type = "FIXED_NODE"
    <3>1. CASE HasNode(recs[at])
      BY <1>3, <2>2, <2>3, <3>1
    <3>2. CASE ~HasNode(recs[at])
      <4>1. recs[at].type = "EMPTY"
        BY <2>2, <3>2 DEF HasNode
      <4>2. /\ recs'[at] = Plain(NodeType)
            /\ \A c \in Bit : recs'[Child(at, c)] = recs[at]
            /\ \A q \in Prefix :
                 q # at /\ q # Child(at, 0) /\ q # Child(at, 1) => recs'[q] = recs[q]
        BY <1>3, <2>2, <2>3, <2>4, <3>2, SplitFacts
      <4>3. 0 \in Bit /\ 1 \in Bit
        BY DEF Bit
      <4> QED BY <2>3, <4>1, <4>2, <4>3
    <3> QED BY <3>1, <3>2
  <2>9. dir = "down"
    BY <1>11 DEF Descend, Down
  <2> QED BY <1>7, <2>2, <2>5, <2>6, <2>8, <2>9
<1>12. CASE GoLeft
  <2>1. at # << >> /\ Len(Parent(at)) >= Len(net)
    BY <1>12 DEF GoLeft, Up, LeftIsNext
  <2>2. Len(Parent(at)) = Len(at) - 1 /\ Len(at) <= Len(net)
    BY <1>1, <1>3, <2>1, ParentIsPrefix DEF Covers
  <2> QED BY <1>3, <2>1, <2>2
<1>13. CASE Trim
  <2>1. at # << >> /\ at' = Parent(at) /\ dir = "up"
        /\ (Trimmable(Parent(at)) \/ recs' = recs)
    BY <1>13 DEF Trim, Up
  <2>2. Parent(at) \in Prefix /\ Covers(Parent(at), at)
    BY <1>3, <2>1, ParentIsPrefix, ChildOfParent, AboveChild DEF Below
  <2>3. recs' = recs
    BY <1>5, <2>1, <2>2 DEF Trimmable
  <2>4. Covers(at', net)
    BY <1>1, <1>3, <2>1, <2>2, CoversOrder
  <2> QED BY <1>7, <2>1, <2>3, <2>4
<1> QED BY <1>8, <1>9, <1>10, <1>11, <1>12, <1>13 DEF Recurse

-----------------------------------------------------------------------------
(* The other steps                                                         *)

\* The recursion makes no alias and no reserved network but those it is for.
LEMMA NoNewFixed ==
    ASSUME Inv, Recurse, NEW f \in {"ALIAS", "FIXED_EMPTY"}, SetRecord => new.type # f
    PROVE  \A p \in Prefix : recs'[p].type = f => recs[p].type = f
<1>1. op \in Running
  BY RecurseFrame
<1>2. /\ at \in Prefix /\ recs \in [Prefix -> Record] /\ recs[at] \in Record /\ new \in Record
  BY <1>1, RunningFacts
<1>3. Plain("EMPTY").type = "EMPTY" /\ Plain("ABSENT").type = "ABSENT"
  BY DEF Plain
<1>4. ASSUME NEW s \in Prefix, NEW r \in Record, r.type # f, recs' = Graft(s, r)
      PROVE  \A p \in Prefix : recs'[p].type = f => recs[p].type = f
  <2>1. /\ recs'[s] = r
        /\ \A q \in Prefix : ~Covers(s, q) => recs'[q] = recs[q]
        /\ \A q \in Prefix :
              Below(s, q) => recs'[q] = IF r.type = "FIXED_NODE" /\ Len(q) = Len(s) + 1
                                        THEN Plain("EMPTY") ELSE Plain("ABSENT")
    BY <1>2, <1>4, GraftFacts
  <2>2. \A q \in Prefix : q = s \/ ~Covers(s, q) \/ Below(s, q)
    BY BelowIsCovers
  <2>3. \A q \in Prefix : Below(s, q) => recs'[q].type \in {"EMPTY", "ABSENT"}
    BY <1>3, <2>1
  <2> QED BY <1>4, <2>1, <2>2, <2>3
<1>5. CASE SetRecord
  BY <1>2, <1>4, <1>5 DEF SetRecord
<1>6. CASE MergeRecord
  <2>1. Data(Merged) \in Record /\ Data(Merged).type = "DATA" /\ recs' = Graft(at, Data(Merged))
    BY <1>6, RecordFacts DEF MergeRecord
  <2> QED BY <1>2, <1>4, <2>1
<1>7. CASE Ignore \/ GoLeft
  BY <1>7 DEF Ignore, GoLeft
<1>8. CASE Descend
  <2>1. /\ recs[at].type \in {"EMPTY", "DATA", "NODE", "FIXED_NODE"}
        /\ recs' = IF HasNode(recs[at])
                   THEN [recs EXCEPT ![at] = Plain(NodeType)] ELSE Split(at, NodeType)
        /\ Len(at) < W
    BY <1>8, DescendRoom DEF Descend
  <2>2. NodeType \in PlainTypes /\ NodeType # f /\ Plain(NodeType).type = NodeType
    BY DEF NodeType, PlainTypes, FixedTypes, Plain
  <2>3. CASE HasNode(recs[at])
    BY <1>2, <2>1, <2>2, <2>3
  <2>4. CASE ~HasNode(recs[at])
    <3>1. /\ recs'[at] = Plain(NodeType)
          /\ \A c \in Bit : recs'[Child(at, c)] = recs[at]
          /\ \A q \in Prefix :
               q # at /\ q # Child(at, 0) /\ q # Child(at, 1) => recs'[q] = recs[q]
      BY <1>2, <2>1, <2>2, <2>4, SplitFacts
    <3>2. 0 \in Bit /\ 1 \in Bit
      BY DEF Bit
    <3> QED BY <2>1, <2>2, <3>1, <3>2
  <2> QED BY <2>3, <2>4
<1>9. CASE Trim
  <2> DEFINE p == Parent(at)
             r == recs[Child(p, 0)]
  <2>1. at # << >> /\ recs' = IF Trimmable(p) THEN Graft(p, r) ELSE recs
    BY <1>9 DEF Trim, Up
  <2>2. p \in Prefix /\ Len(p) < W
    BY <1>2, <2>1, ParentIsPrefix, ChildOfParent
  <2>3. Child(p, 0) \in Prefix
    BY <2>2, ChildIsPrefix DEF Bit
  <2>4. r \in Record /\ (Trimmable(p) => r.type # f)
    BY <1>2, <2>3 DEF Trimmable, Identical
  <2> HIDE DEF p, r
  <2>5. CASE Trimmable(p)
    BY <1>4, <2>1, <2>2, <2>4, <2>5
  <2>6. CASE ~Trimmable(p)
    BY <2>1, <2>6
  <2> QED BY <2>5, <2>6
<1> QED BY <1>5, <1>6, <1>7, <1>8, <1>9 DEF Recurse

\* Where the IPv4 root and the aliases are, they stay.
LEMMA RootsKept ==
    ASSUME KeepsFixed, op' # "freed",
           recs[V4Root].type = "FIXED_NODE",
           \A j \in 1..Len(Aliases) : recs[Aliases[j]].type = "ALIAS"
    PROVE  /\ recs'[V4Root].type = "FIXED_NODE"
           /\ \A j \in 1..Len(Aliases) : recs'[Aliases[j]].type = "ALIAS"
<1>1. V4Root \in Prefix /\ \A j \in 1..Len(Aliases) : Aliases[j] \in Prefix
  BY NetworkAssumption, ElementOfSeq
<1> QED BY <1>1 DEF KeepsFixed, FixedTypes

\* A step of the recursion keeps the invariant.
LEMMA RecurseLookup ==
    ASSUME TableInv, LookupInv, KeepsFixed, Recurse PROVE LookupInv'
<1>1. op \in Running /\ UNCHANGED <<opts, op, strategy, held, queue>>
      /\ net' = net /\ new' = new /\ Past' = Past /\ Inv
  BY RecurseFrame DEF TableInv
<1>2. op' # "freed" /\ queue \in Seq(Item) /\ queue # << >> /\ Head(queue)' = Head(queue)
  BY <1>1, RunningFacts DEF Running
<1>3. opts' \in Options /\ QueueIsRest' /\ RemoveOK'
  BY <1>1 DEF LookupInv, QueueIsRest, RemoveOK
<1>4. AliasPhaseOK' /\ AliasesOnly'
  <2>1. CASE AliasPhase
    BY <1>1, <2>1, PhaseStep
  <2>2. CASE ~AliasPhase
    <3>1. new.type # "ALIAS"
      <4>1. CASE op = "new_tree"
        BY <2>2, <4>1 DEF AliasPhase
      <4>2. CASE op = "insert"
        BY <1>1, <4>2, HeldFacts DEF Data
      <4>3. CASE op = "remove"
        <5>1. 1 \in 1..Len(queue) /\ new = queue[1].rec
          BY <1>2, QueueFacts
        <5>2. new = Plain("EMPTY")
          BY <4>3, <5>1 DEF LookupInv, RemoveOK
        <5> QED BY <5>2 DEF Plain
      <4> QED BY <1>1, <4>1, <4>2, <4>3 DEF Running
    <3>2. \A p \in Prefix : recs'[p].type = "ALIAS" => recs[p].type = "ALIAS"
      BY <1>1, <3>1, NoNewFixed
    <3>3. AliasesOnly'
      BY <1>1, <3>2 DEF LookupInv, AliasesOnly
    <3>4. ~AliasPhase'
      BY <1>1, <2>2 DEF AliasPhase
    <3> QED BY <3>3, <3>4 DEF AliasPhaseOK
  <2> QED BY <2>1, <2>2
<1>5. ASSUME op = "new_tree"
      PROVE  /\ \A i \in 1..Past : Placed(NewTreeQueue(opts)[i])'
             /\ dir' = "up" => Placed(Head(queue))'
  <2>1. /\ Past \in Nat
        /\ Past + 1 \in 1..Len(NewTreeQueue(opts))
        /\ Len(NewTreeQueue(opts)) \in Nat
        /\ Head(queue) = NewTreeQueue(opts)[Past + 1]
        /\ net = Head(queue).net /\ new = Head(queue).rec
        /\ NewTreeQueue(opts) \in Seq(Item)
    <3>1. NewTreeQueue(opts) \in Seq(Item)
      BY QueueItems DEF LookupInv
    <3> QED BY <1>1, <1>5, <3>1, HeadItem, LenProperties DEF LookupInv, QueueIsRest
  <2>2. ASSUME NEW i \in 1..Past PROVE Placed(NewTreeQueue(opts)[i])'
    <3> DEFINE it == NewTreeQueue(opts)[i]
    <3>1. i \in 1..Len(NewTreeQueue(opts))
      BY <2>1
    <3>2. it \in Item
      BY <2>1, <3>1, ElementOfSeq
    <3>3. it.net \in Prefix
      BY <3>2 DEF Item
    <3>4. Placed(it)
      BY <1>5 DEF LookupInv, RootsPlaced
    <3>5. recs[it.net].type = "FIXED_NODE" \/ recs[it.net].type = "ALIAS"
          \/ it.rec.type \notin {"FIXED_NODE", "ALIAS"}
      BY <3>4 DEF Placed
    <3>6. it.rec.type \in {"FIXED_NODE", "ALIAS"} => recs'[it.net] = it.rec
      BY <1>2, <3>3, <3>4, <3>5 DEF Placed, KeepsFixed, FixedTypes
    <3>7. it' = it
      BY <1>1
    <3> QED BY <3>6, <3>7 DEF Placed
  <2>3. ASSUME dir' = "up" PROVE Placed(Head(queue))'
    <3>1. CASE AliasPhase
      <4>1. dir = "up" \/ recs'[net] = new
        BY <1>1, <2>3, <3>1, PhaseStep
      <4>2. CASE recs'[net] = new
        BY <1>2, <2>1, <4>2 DEF Placed
      <4>3. CASE dir = "up"
        <5>1. Placed(Head(queue)) /\ net \in Prefix
          BY <1>1, <1>5, <4>3, RunningFacts DEF LookupInv, RootsPlaced
        <5> QED BY <1>2, <2>1, <5>1 DEF Placed, KeepsFixed, FixedTypes
      <4> QED BY <4>1, <4>2, <4>3
    <3>2. CASE ~AliasPhase
      <4>1. Head(queue).rec.type = "FIXED_EMPTY"
        BY <1>5, <2>1, <3>2 DEF AliasPhase
      <4> QED BY <1>2, <4>1 DEF Placed
    <3> QED BY <3>1, <3>2
  <2> QED BY <2>2, <2>3
<1>6. RootsPlaced'
  <2>1. \A i \in 1..Past : NewTreeQueue(opts)[i]' = NewTreeQueue(opts)[i]
    BY <1>1
  <2>2. op' = "new_tree" => (\A i \in 1..Past' : Placed(NewTreeQueue(opts)[i])')
                            /\ (dir' = "up" => Placed(Head(queue))')
    BY <1>1, <1>5
  <2>3. op' \in {"idle", "insert", "remove"} /\ opts'.alias =>
          /\ recs'[V4Root].type = "FIXED_NODE"
          /\ \A j \in 1..Len(Aliases) : recs'[Aliases[j]].type = "ALIAS"
    BY <1>1, <1>2, RootsKept DEF LookupInv, RootsPlaced
  <2> QED BY <2>2, <2>3 DEF RootsPlaced
<1> QED BY <1>3, <1>4, <1>6 DEF LookupInv

\* So does going on to the next record.
LEMMA NextRecordLookup == ASSUME TableInv, LookupInv, NextRecord PROVE LookupInv'
<1>1. /\ op \in Running /\ dir = "up" /\ at = << >> /\ Len(queue) > 1
      /\ queue' = Tail(queue) /\ dir' = "down"
      /\ UNCHANGED <<recs, table, cache, opts, op, strategy, held, at>>
  BY DEF NextRecord
<1>2. /\ queue \in Seq(Item) /\ queue # << >>
      /\ Len(queue) \in Nat /\ Len(queue') = Len(queue) - 1
      /\ \A i \in 1..Len(queue') : i + 1 \in 1..Len(queue) /\ queue'[i] = queue[i + 1]
      /\ queue' \in Seq(Item) /\ Inv
  BY <1>1, RunningFacts, QueueFacts DEF TableInv
<1>3. RemoveOK'
  BY <1>1, <1>2 DEF LookupInv, RemoveOK
<1>4. AliasesOnly'
  BY <1>1 DEF LookupInv, AliasesOnly
<1>5. CASE op # "new_tree"
  <2>1. QueueIsRest' /\ AliasPhaseOK' /\ RootsPlaced'
    BY <1>1, <1>5 DEF LookupInv, QueueIsRest, AliasPhaseOK, AliasPhase, RootsPlaced
  <2> QED BY <1>1, <1>3, <1>4, <2>1 DEF LookupInv
<1>6. CASE op = "new_tree"
  <2> DEFINE q == NewTreeQueue(opts)
             n == Past
  <2>1. /\ n \in Nat /\ Len(q) = n + Len(queue)
        /\ Head(queue) = q[n + 1] /\ n + 1 \in 1..Len(q)
        /\ \A i \in 1..Len(queue) : queue[i] = q[n + i]
        /\ new = Head(queue).rec
    BY <1>2, <1>6, HeadItem DEF LookupInv, QueueIsRest
  <2>2. q \in Seq(Item) /\ Len(q) \in Nat /\ q' = q
    <3>1. q \in Seq(Item)
      BY QueueItems DEF LookupInv
    <3> QED BY <1>1, <3>1, LenProperties
  <2>3. Past' = n + 1
    <3>1. Past' = Len(q) - Len(queue')
      BY <1>1 DEF Past
    <3> QED BY <1>2, <2>1, <2>2, <3>1
  <2>4. \A i \in 1..n : Placed(q[i])
    BY <1>6 DEF LookupInv, RootsPlaced
  <2>5. Placed(q[n + 1])
    BY <1>1, <1>6, <2>1 DEF LookupInv, RootsPlaced
  <2> HIDE DEF n, q
  <2>6. \A i \in 1..Len(queue') : queue'[i] = q[(n + 1) + i]
    <3> SUFFICES ASSUME NEW i \in 1..Len(queue') PROVE queue'[i] = q[(n + 1) + i]
      OBVIOUS
    <3> DEFINE j == i + 1
    <3>1. j \in 1..Len(queue) /\ queue'[i] = queue[j] /\ n + j = (n + 1) + i
      BY <1>2, <2>1
    <3> HIDE DEF j
    <3> QED BY <2>1, <3>1
  <2>7. QueueIsRest'
    <3>1. Past' \in Nat
      BY <2>1, <2>3
    <3>2. \A i \in 1..Len(queue') : queue'[i] = q'[Past' + i]
      BY <2>2, <2>3, <2>6
    <3> QED BY <3>1, <3>2 DEF QueueIsRest, q
  <2>8. \A i \in 1..(n + 1) : Placed(q[i])
    BY <2>1, <2>4, <2>5
  <2>9. RootsPlaced'
    <3>1. \A i \in 1..Past' : Placed(q[i])'
      <4> SUFFICES ASSUME NEW i \in 1..Past' PROVE Placed(q[i])'
        OBVIOUS
      <4>1. Placed(q[i]) /\ q[i]' = q[i]
        BY <2>2, <2>3, <2>8
      <4> QED BY <1>1, <4>1 DEF Placed
    <3> QED BY <1>1, <1>6, <3>1 DEF RootsPlaced, q
  <2>10. AliasPhaseOK'
    <3> SUFFICES ASSUME AliasPhase' PROVE AliasPhaseOK'
      BY DEF AliasPhaseOK
    <3> DEFINE j == n + 2
    <3>1. 1 \in 1..Len(queue') /\ queue'[1] = q[j] /\ j = (n + 1) + 1 /\ j \in 1..Len(q)
          /\ n + 1 \in 1..Len(q)
      BY <1>1, <1>2, <2>1, <2>6
    <3>2. new' = queue'[1].rec /\ net' = queue'[1].net /\ queue'[1] \in Item
      BY <1>2, <3>1 DEF new, net
    <3> HIDE DEF j
    <3>3. FromAlias(opts, q[j]) \/ FromReserved(opts, q[j])
      BY <3>1, QueueItems DEF LookupInv, q
    <3>4. FromAlias(opts, q[j])
      BY <3>1, <3>2, <3>3, ItemKinds DEF AliasPhase
    <3>5. FromAlias(opts, q[n + 1])
      BY <3>1, <3>4, QueueItems DEF LookupInv, q
    <3>6. AliasPhase
      BY <1>6, <2>1, <3>5, ItemKinds DEF AliasPhase
    <3>7. net' \in Prefix
      BY <3>2 DEF Item
    <3>8. Covers(at', net')
      BY <1>1, <3>7, CoversOrder
    <3> QED BY <1>1, <3>6, <3>8 DEF LookupInv, AliasPhaseOK
  <2> QED BY <1>1, <1>3, <1>4, <2>7, <2>9, <2>10 DEF LookupInv
<1> QED BY <1>5, <1>6

\* So do the end of a call and the beginning of another.
LEMMA FinishLookup == ASSUME TableInv, LookupInv, Finish PROVE LookupInv'
<1>1. /\ op \in Running /\ dir = "up" /\ Len(queue) = 1
      /\ op' = "idle" /\ UNCHANGED <<recs, opts>> /\ Inv
  BY DEF Finish, EndCall, TableInv
<1>2. opts' \in Options /\ QueueIsRest' /\ RemoveOK' /\ AliasesOnly' /\ AliasPhaseOK'
  BY <1>1 DEF LookupInv, QueueIsRest, RemoveOK, AliasesOnly, AliasPhaseOK, AliasPhase
<1>3. ASSUME opts.alias
      PROVE  /\ recs[V4Root].type = "FIXED_NODE"
             /\ \A j \in 1..Len(Aliases) : recs[Aliases[j]].type = "ALIAS"
  <2>1. CASE op \in {"insert", "remove"}
    BY <1>3, <2>1 DEF LookupInv, RootsPlaced
  <2>2. CASE op = "new_tree"
    <3> DEFINE q == NewTreeQueue(opts)
    <3>1. /\ Past \in Nat /\ Len(q) = Past + 1
          /\ Head(queue) = q[Past + 1]
          /\ (\A i \in 1..Past : Placed(q[i])) /\ Placed(Head(queue))
      BY <1>1, <2>2, HeadItem DEF LookupInv, QueueIsRest, RootsPlaced
    <3> HIDE DEF q
    <3>2. \A i \in 1..Len(q) : Placed(q[i])
      BY <3>1
    <3>3. ASSUME NEW it, FromAlias(opts, it) PROVE recs[it.net] = it.rec
      <4>1. PICK i \in 1..Len(q) : q[i] = it
        BY <3>3, QueueItems DEF LookupInv, q
      <4> QED BY <3>2, <3>3, <4>1, ItemKinds DEF Placed
    <3>4. recs[V4Root] = Plain("FIXED_NODE")
      <4> DEFINE it == RootItem
      <4>1. FromAlias(opts, it) /\ it.net = V4Root /\ it.rec = Plain("FIXED_NODE")
        BY <1>3 DEF FromAlias, RootItem
      <4> HIDE DEF it
      <4> QED BY <3>3, <4>1
    <3>5. ASSUME NEW j \in 1..Len(Aliases) PROVE recs[Aliases[j]] = Plain("ALIAS")
      <4> DEFINE it == AliasItem(Aliases[j])
      <4>1. FromAlias(opts, it) /\ it.net = Aliases[j] /\ it.rec = Plain("ALIAS")
        BY <1>3 DEF FromAlias, AliasItem
      <4> HIDE DEF it
      <4> QED BY <3>3, <4>1
    <3> QED BY <3>4, <3>5 DEF Plain
  <2> QED BY <1>1, <2>1, <2>2 DEF Running
<1> QED BY <1>1, <1>2, <1>3 DEF LookupInv, RootsPlaced

\* A call that begins, fails or frees the tree.
LEMMA CallLookup ==
    ASSUME LookupInv, op' # "new_tree", opts' = opts,
           \/ op' = "freed" /\ recs' = NoTree
           \/ op \in {"idle", "insert", "remove"} /\ recs' = recs,
           RemoveOK'
    PROVE  LookupInv'
<1>1. \A p \in Prefix : NoTree[p].type = "ABSENT"
  BY EmptyFacts
<1>2. AliasesOnly'
  BY <1>1 DEF LookupInv, AliasesOnly
<1>3. QueueIsRest' /\ AliasPhaseOK'
  BY DEF QueueIsRest, AliasPhaseOK, AliasPhase
<1>4. RootsPlaced'
  BY DEF LookupInv, RootsPlaced
<1> QED BY <1>2, <1>3, <1>4 DEF LookupInv

\* Every step keeps the invariant.
LEMMA NextLookup == ASSUME TableInv, LookupInv, [Next]_vars PROVE LookupInv'
<1>1. KeepsFixed \/ UNCHANGED vars
  BY NextInv DEF TableInv
<1>2. CASE UNCHANGED vars
  BY <1>2 DEF vars, LookupInv, QueueIsRest, RemoveOK, RootsPlaced, AliasesOnly, AliasPhaseOK,
              AliasPhase, Placed, Past, new, net
<1>3. CASE Recurse
  <2>1. UNCHANGED vars => KeepsFixed
    BY DEF vars, KeepsFixed
  <2> QED BY <1>1, <1>3, <2>1, RecurseLookup
<1>4. CASE NextRecord
  BY <1>4, NextRecordLookup
<1>5. CASE Finish
  BY <1>5, FinishLookup
<1>6. CASE Refuse
  <2>1. /\ op \in Running /\ opts' = opts
        /\ op' = (IF op = "new_tree" THEN "freed" ELSE "idle")
        /\ recs' = (IF op = "new_tree" THEN NoTree ELSE recs)
    BY <1>6 DEF Refuse, Down, EndCall
  <2>2. op' \in {"idle", "freed"}
    BY <2>1
  <2>3. RemoveOK'
    BY <2>2 DEF RemoveOK
  <2>4. \/ op' = "freed" /\ recs' = NoTree
        \/ op \in {"idle", "insert", "remove"} /\ recs' = recs
    BY <2>1 DEF Running
  <2> QED BY <2>1, <2>2, <2>3, <2>4, CallLookup
<1>7. CASE MergeCroaks
  <2>1. /\ op \in Running /\ opts' = opts /\ op' = "idle" /\ recs' = recs /\ new.type = "DATA"
    BY <1>7 DEF MergeCroaks, Return, Settles, Down, Merges
  <2>2. op = "insert"
    BY <2>1, HeldFacts
  <2> QED BY <2>1, <2>2, CallLookup DEF RemoveOK
<1>8. CASE \E c \in Inserts : InsertNetworks(c)
  <2>1. op = "idle" /\ op' = "insert" /\ UNCHANGED <<recs, opts>>
    BY <1>8 DEF InsertNetworks
  <2> QED BY <2>1, CallLookup DEF RemoveOK
<1>9. CASE \E n \in Prefix : RemoveNetwork(n)
  <2>1. PICK n \in Prefix : RemoveNetwork(n)
    BY <1>9
  <2>2. op = "idle" /\ op' = "remove" /\ strategy' = "none" /\ UNCHANGED <<recs, opts>>
        /\ queue' = Items(<<n>>, Plain("EMPTY"))
    BY <2>1 DEF RemoveNetwork
  <2> DEFINE s == <<n>>
             r == Plain("EMPTY")
  <2>3. s \in Seq(Prefix) /\ r \in Record
    BY RecordFacts DEF PlainTypes
  <2> HIDE DEF s, r
  <2> DEFINE t == Items(s, r)
  <2>4. Len(t) = Len(s) /\ \A i \in 1..Len(s) : t[i] = [net |-> s[i], rec |-> r]
    BY <2>3, ItemsFacts
  <2> HIDE DEF t
  <2>5. \A i \in 1..Len(queue') : queue'[i].rec = Plain("EMPTY")
    <3>1. queue' = t
      BY <2>2 DEF s, r, t
    <3>2. ASSUME NEW i \in 1..Len(t) PROVE t[i].rec = r
      <4>1. i \in 1..Len(s)
        BY <2>4
      <4>2. t[i] = [net |-> s[i], rec |-> r]
        BY <2>4, <4>1
      <4> QED BY <4>2
    <3> QED BY <3>1, <3>2 DEF r
  <2> QED BY <2>2, <2>5, CallLookup DEF RemoveOK
<1>10. CASE FreeTree
  <2>1. op' = "freed" /\ recs' = NoTree /\ opts' = opts
    BY <1>10 DEF FreeTree
  <2>2. RemoveOK'
    BY <2>1 DEF RemoveOK
  <2> QED BY <2>1, <2>2, CallLookup
<1>11. CASE NewTree
  <2>1. Fresh'
    BY <1>11 DEF NewTree, Fresh
  <2> QED BY <2>1, FreshLookup, PTL
<1> QED BY <1>2, <1>3, <1>4, <1>5, <1>6, <1>7, <1>8, <1>9, <1>10, <1>11
    DEF Next, Step, Call, Recurse

\* The invariant holds in every reachable state.
LEMMA LookupInvAlways == Spec => []LookupInv
<1>1. Init => LookupInv
  BY FreshLookup DEF Init, Fresh
<1>2. TableInv /\ LookupInv /\ [Next]_vars => LookupInv'
  BY NextLookup
<1> QED BY TableInvAlways, <1>1, <1>2, PTL DEF Spec

-----------------------------------------------------------------------------
(* The walk                                                                *)

\* The walk is the one function that starts at the root and goes on from each
\* record to the next.
LEMMA WalkIs ==
    ASSUME NEW a, NEW f, f = [i \in 0..W |-> f[i]], f[0] = << >>,
           \A i \in 1..W : f[i] = Onward(f[i - 1], a[i])
    PROVE  \A i \in 0..W : Walk(a)[i] = f[i]
<1> DEFINE IsWalk(w) ==
               w = [i \in 0..W |-> IF i = 0 THEN << >> ELSE Onward(w[i - 1], a[i])]
           g == Walk(a)
<1>1. W \in Nat /\ 0 \in 0..W /\ \A i \in 0..W : i # 0 => i \in 1..W
  BY WidthAssumption
<1>2. IsWalk(f)
  <2>1. \A i \in 0..W : f[i] = IF i = 0 THEN << >> ELSE Onward(f[i - 1], a[i])
    BY <1>1
  <2> QED BY <2>1
<1>3. g = CHOOSE w : IsWalk(w)
  BY DEF Walk
<1> HIDE DEF IsWalk, g
<1>4. IsWalk(g)
  BY <1>2, <1>3
<1>5. /\ g[0] = << >>
      /\ \A i \in 1..W : g[i] = Onward(g[i - 1], a[i])
  <2>1. \A i \in 0..W : g[i] = IF i = 0 THEN << >> ELSE Onward(g[i - 1], a[i])
    BY <1>4 DEF IsWalk
  <2>2. \A i \in 1..W : i \in 0..W /\ i # 0
    BY <1>1
  <2> QED BY <1>1, <2>1, <2>2
<1> DEFINE S == {i \in 0..W : g[i] = f[i]}
<1>6. 0 \in S
  BY <1>1, <1>5
<1>7. \A i \in 0..(W - 1) : i \in S => i + 1 \in S
  <2> SUFFICES ASSUME NEW i \in 0..(W - 1), i \in S PROVE i + 1 \in S
    OBVIOUS
  <2> DEFINE j == i + 1
  <2>1. j \in 1..W /\ j \in 0..W /\ j - 1 = i /\ g[i] = f[i]
    BY <1>1
  <2> HIDE DEF j
  <2>2. g[j] = f[j]
    BY <1>5, <2>1
  <2>3. j \in S
    BY <2>1, <2>2
  <2> QED BY <2>3 DEF j
<1> HIDE DEF S
<1>8. \A i \in 0..W : i \in S
  BY <1>1, <1>6, <1>7, CountUp
<1> QED BY <1>8 DEF S, g

\* The way down to a leaf.
LEMMA WayDown ==
    ASSUME IsTree(recs), NEW a \in Address, NEW p \in Prefix,
           Covers(p, a), recs[p].type # "ABSENT"
    PROVE  /\ SubSeq(a, 1, Len(p)) = p
           /\ SubSeq(a, 1, 0) = << >>
           /\ \A i \in 1..Len(p) :
                /\ HasNode(recs[SubSeq(a, 1, i - 1)])
                /\ \A b : Onward(SubSeq(a, 1, i - 1), b) = Child(SubSeq(a, 1, i - 1), b)
                /\ SubSeq(a, 1, i) = Child(SubSeq(a, 1, i - 1), a[i])
                /\ SubSeq(a, 1, i) \in Prefix
<1>1. a \in Prefix /\ Len(a) = W /\ W \in Nat /\ Len(p) \in Nat /\ Len(p) <= W
  BY AddressIsPrefix, WidthAssumption, PrefixLength
<1>2. SubSeq(a, 1, Len(p)) = p
  BY <1>1, TopOf
<1>3. SubSeq(a, 1, 0) = << >>
  BY SubSeqEmpty
<1>4. ASSUME NEW i \in 1..Len(p)
      PROVE  /\ HasNode(recs[SubSeq(a, 1, i - 1)])
             /\ \A b : Onward(SubSeq(a, 1, i - 1), b) = Child(SubSeq(a, 1, i - 1), b)
             /\ SubSeq(a, 1, i) = Child(SubSeq(a, 1, i - 1), a[i])
             /\ SubSeq(a, 1, i) \in Prefix
  <2> DEFINE h == i - 1
             s == SubSeq(a, 1, h)
  <2>1. h \in 0..(Len(a) - 1) /\ h \in 0..Len(a) /\ h + 1 = i /\ i \in 0..Len(a) /\ h < Len(p)
    BY <1>1
  <2> HIDE DEF h
  <2>2. SubSeq(a, 1, i) = Child(s, a[i])
    BY <1>1, <2>1, TopChild
  <2>3. s \in Prefix /\ Len(s) = h /\ Covers(s, a) /\ SubSeq(a, 1, i) \in Prefix
    BY <1>1, <2>1, TopFacts
  <2> HIDE DEF s
  <2>4. Covers(s, p) \/ Covers(p, s)
    BY <1>1, <2>3, CoversOrder
  <2>5. Below(s, p)
    BY <1>1, <2>1, <2>3, <2>4 DEF Below, Covers
  <2>6. HasNode(recs[s])
    BY <2>3, <2>5, NodesAbove
  <2>7. \A b : Onward(s, b) = Child(s, b)
    BY <2>6 DEF Onward, HasNode
  <2> QED BY <2>2, <2>3, <2>6, <2>7 DEF s, h
<1> QED BY <1>2, <1>3, <1>4

\* A walk to an address in a leaf that is no alias ends there.
LEMMA WalkToLeaf ==
    ASSUME IsTree(recs), NEW a \in Address, NEW p \in Prefix,
           Covers(p, a), IsLeaf(recs[p]), recs[p].type # "ALIAS"
    PROVE  FoundRecord(a) = recs[p]
<1> DEFINE n == Len(p)
           f == [i \in 0..W |-> IF i <= n THEN SubSeq(a, 1, i) ELSE p]
<1>1. W \in Nat /\ n \in Nat /\ n <= W
  BY WidthAssumption, PrefixLength
<1>2. /\ SubSeq(a, 1, n) = p /\ SubSeq(a, 1, 0) = << >>
      /\ \A i \in 1..n :
            /\ \A b : Onward(SubSeq(a, 1, i - 1), b) = Child(SubSeq(a, 1, i - 1), b)
            /\ SubSeq(a, 1, i) = Child(SubSeq(a, 1, i - 1), a[i])
  BY WayDown DEF IsLeaf
<1>3. \A b : Onward(p, b) = p
  BY DEF Onward, IsLeaf
<1> HIDE DEF n
<1>4. f[0] = << >>
  BY <1>1, <1>2
<1>5. ASSUME NEW i \in 1..W PROVE f[i] = Onward(f[i - 1], a[i])
  <2> DEFINE h == i - 1
  <2>1. h \in 0..W /\ i \in 0..W
    BY <1>1
  <2>2. CASE i <= n
    <3>1. i \in 1..n /\ h <= n
      BY <1>1, <2>2
    <3>2. f[i] = SubSeq(a, 1, i) /\ f[h] = SubSeq(a, 1, h)
      BY <2>1, <2>2, <3>1
    <3> QED BY <1>2, <3>1, <3>2
  <2>3. CASE ~(i <= n)
    <3>1. f[i] = p
      BY <2>1, <2>3
    <3>2. f[h] = p
      <4>1. CASE h = n
        BY <1>1, <1>2, <2>1, <4>1
      <4>2. CASE h # n
        <5>1. ~(h <= n)
          BY <1>1, <2>3, <4>2
        <5> QED BY <2>1, <5>1
      <4> QED BY <4>1, <4>2
    <3> QED BY <1>3, <3>1, <3>2
  <2> QED BY <2>2, <2>3
<1>6. f = [i \in 0..W |-> f[i]] /\ W \in 0..W
  BY <1>1
<1>7. f[W] = p
  <2>1. CASE n = W
    BY <1>1, <1>2, <2>1
  <2>2. CASE n # W
    BY <1>1, <2>2
  <2> QED BY <2>1, <2>2
<1> HIDE DEF f
<1>8. Walk(a)[W] = f[W]
  BY <1>4, <1>5, <1>6, WalkIs
<1> QED BY <1>7, <1>8 DEF FoundRecord

\* A walk to an address in an alias ends at the leaf of the IPv4 subtree with
\* the bits that follow the alias.
LEMMA WalkThroughAlias ==
    ASSUME IsTree(recs), NEW a \in Address, NEW p \in Prefix,
           Covers(p, a), recs[p].type = "ALIAS", Len(p) <= Len(V4Root),
           NEW b \in Address, NEW q \in Prefix,
           Covers(q, b), IsLeaf(recs[q]), recs[q].type # "ALIAS",
           Covers(V4Root, b), Below(V4Root, q),
           \A j \in 1..(W - Len(V4Root)) : a[Len(p) + j] = b[Len(V4Root) + j]
    PROVE  FoundRecord(a) = recs[q]
<1> DEFINE n == Len(p)
           v == Len(V4Root)
           m == Len(q)
           f == [i \in 0..W |-> IF i <= n THEN SubSeq(a, 1, i)
                                ELSE IF i - n <= m - v THEN SubSeq(b, 1, v + (i - n)) ELSE q]
<1>1. /\ W \in Nat /\ n \in Nat /\ v \in Nat /\ m \in Nat
      /\ n <= v /\ v < m /\ m <= W /\ V4Root \in Prefix
  BY WidthAssumption, PrefixLength, NetworkAssumption DEF Below
<1>2. /\ SubSeq(a, 1, n) = p /\ SubSeq(a, 1, 0) = << >>
      /\ \A i \in 1..n :
            /\ \A c : Onward(SubSeq(a, 1, i - 1), c) = Child(SubSeq(a, 1, i - 1), c)
            /\ SubSeq(a, 1, i) = Child(SubSeq(a, 1, i - 1), a[i])
  BY WayDown
<1>3. /\ SubSeq(b, 1, m) = q
      /\ \A i \in 1..m :
            /\ \A c : Onward(SubSeq(b, 1, i - 1), c) = Child(SubSeq(b, 1, i - 1), c)
            /\ SubSeq(b, 1, i) = Child(SubSeq(b, 1, i - 1), b[i])
  BY WayDown DEF IsLeaf
<1>4. SubSeq(b, 1, v) = V4Root
  <2>1. b \in Prefix
    BY AddressIsPrefix
  <2> QED BY <1>1, <2>1, TopOf
<1>5. /\ \A c : Onward(q, c) = q
      /\ \A c : Onward(p, c) = Child(V4Root, c)
  BY DEF Onward, IsLeaf, HasNode
<1>6. \A j \in 1..(W - v) : a[n + j] = b[v + j]
  OBVIOUS
<1> HIDE DEF n, v, m
<1>7. f[0] = << >>
  BY <1>1, <1>2
<1>8. ASSUME NEW i \in 1..W PROVE f[i] = Onward(f[i - 1], a[i])
  <2> DEFINE h == i - 1
             k == v + (i - n)
  <2>1. h \in 0..W /\ i \in 0..W /\ i \in Int /\ h \in Int /\ k \in Int
    BY <1>1
  <2>2. CASE i <= n
    <3>1. i \in 1..n /\ h <= n
      BY <1>1, <2>2
    <3>2. f[i] = SubSeq(a, 1, i) /\ f[h] = SubSeq(a, 1, h)
      BY <2>1, <2>2, <3>1
    <3> QED BY <1>2, <3>1, <3>2
  <2>3. CASE ~(i <= n) /\ i - n <= m - v
    <3>1. /\ k \in 1..m /\ k - 1 \in Int /\ i - n \in 1..(W - v)
          /\ n + (i - n) = i
      BY <1>1, <2>1, <2>3
    <3>2. f[i] = SubSeq(b, 1, k)
      BY <2>1, <2>3
    <3>3. a[i] = b[k]
      <4> DEFINE j == i - n
      <4>1. j \in 1..(W - v) /\ n + j = i /\ k = v + j
        BY <1>1, <3>1
      <4> HIDE DEF j
      <4> QED BY <1>6, <4>1
    <3>4. SubSeq(b, 1, k) = Child(SubSeq(b, 1, k - 1), b[k])
      <4> HIDE DEF k
      <4> QED BY <1>3, <3>1
    <3>5. Onward(f[h], a[i]) = Child(SubSeq(b, 1, k - 1), a[i])
      <4>1. CASE h = n
        <5>1. k - 1 = v
          BY <1>1, <4>1
        <5>2. f[h] = p
          BY <1>1, <1>2, <2>1, <4>1
        <5> QED BY <1>4, <1>5, <5>1, <5>2
      <4>2. CASE h # n
        <5>1. ~(h <= n) /\ h - n <= m - v /\ v + (h - n) = k - 1
          BY <1>1, <2>1, <2>3, <4>2
        <5>2. f[h] = SubSeq(b, 1, k - 1)
          BY <2>1, <5>1
        <5>3. \A c : Onward(SubSeq(b, 1, k - 1), c) = Child(SubSeq(b, 1, k - 1), c)
          <6> HIDE DEF k
          <6> QED BY <1>3, <3>1
        <5> HIDE DEF f, h, k
        <5> QED BY <5>2, <5>3
      <4> QED BY <4>1, <4>2
    <3> QED BY <3>2, <3>3, <3>4, <3>5
  <2>4. CASE ~(i <= n) /\ ~(i - n <= m - v)
    <3>1. f[i] = q
      BY <2>1, <2>4
    <3>2. f[h] = q
      <4>1. ~(h <= n)
        BY <1>1, <2>1, <2>4
      <4>2. CASE h - n <= m - v
        <5>1. v + (h - n) = m
          BY <1>1, <2>1, <2>4, <4>2
        <5> QED BY <1>3, <2>1, <4>1, <4>2, <5>1
      <4>3. CASE ~(h - n <= m - v)
        BY <2>1, <4>1, <4>3
      <4> QED BY <4>2, <4>3
    <3> QED BY <1>5, <3>1, <3>2
  <2> QED BY <2>2, <2>3, <2>4
<1>9. f = [i \in 0..W |-> f[i]] /\ W \in 0..W
  BY <1>1
<1>10. f[W] = q
  <2>1. ~(W <= n)
    BY <1>1
  <2>2. CASE W - n <= m - v
    <3>1. v + (W - n) = m
      BY <1>1, <2>2
    <3> QED BY <1>3, <1>9, <2>1, <2>2, <3>1
  <2>3. CASE ~(W - n <= m - v)
    BY <1>9, <2>1, <2>3
  <2> QED BY <2>2, <2>3
<1> HIDE DEF f
<1>11. Walk(a)[W] = f[W]
  BY <1>7, <1>8, <1>9, WalkIs
<1> QED BY <1>10, <1>11 DEF FoundRecord

-----------------------------------------------------------------------------
(* The theorems                                                            *)

\* The records form a tree whenever there is one.
LEMMA TreeOfRecs ==
    ASSUME TableInv, op # "freed" PROVE IsTree(recs)
BY DEF TableInv, Inv, TypeOK, Shape, Depth, IsTree

\* The leaves below the IPv4 root are no aliases.
LEMMA LeafBelowRoot ==
    ASSUME IsTree(recs), LookupInv, op \in {"idle", "insert", "remove"}, opts.alias,
           NEW b \in Address, Covers(V4Root, b),
           NEW q \in Prefix, Covers(q, b), IsLeaf(recs[q])
    PROVE  Below(V4Root, q) /\ recs[q].type # "ALIAS"
<1>1. V4Root \in Prefix /\ b \in Prefix
  BY NetworkAssumption, AddressIsPrefix
<1>2. recs[V4Root].type = "FIXED_NODE"
  BY DEF LookupInv, RootsPlaced
<1>4. Covers(V4Root, q) \/ Covers(q, V4Root)
  BY <1>1, CoversOrder
<1>5. q # V4Root /\ ~Below(q, V4Root)
  BY <1>1, <1>2, NodesAbove DEF IsLeaf, HasNode
<1>6. Below(V4Root, q)
  BY <1>1, <1>4, <1>5, BelowIsCovers
<1>7. ASSUME recs[q].type = "ALIAS" PROVE FALSE
  <2>1. PICK j \in 1..Len(Aliases) : q = Aliases[j]
    BY <1>7 DEF LookupInv, AliasesOnly
  <2>2. Len(q) <= Len(V4Root)
    BY <2>1, AliasAssumption
  <2> QED BY <1>1, <1>6, <2>2, PrefixLength DEF Below
<1> QED BY <1>6, <1>7

\* What a walk to an address in an alias finds.
LEMMA FoundThroughAlias ==
    ASSUME IsTree(recs), LookupInv, op \in {"idle", "insert", "remove"},
           NEW a \in Address, NEW p \in Prefix, Covers(p, a), recs[p].type = "ALIAS",
           NEW b \in Address, Covers(V4Root, b),
           \A j \in 1..(W - Len(V4Root)) : a[Len(p) + j] = b[Len(V4Root) + j],
           NEW q \in Prefix, Covers(q, b), IsLeaf(recs[q])
    PROVE  FoundRecord(a) = recs[q] /\ recs[q].type # "ALIAS"
<1>2. PICK i \in 1..Len(Aliases) : p = Aliases[i]
  BY DEF LookupInv, AliasesOnly
<1>3. opts.alias /\ Len(p) <= Len(V4Root)
  BY <1>2, AliasAssumption DEF LookupInv, AliasesOnly
<1>4. Below(V4Root, q) /\ recs[q].type # "ALIAS"
  BY <1>3, LeafBelowRoot
<1> QED BY <1>3, <1>4, WalkThroughAlias

\* The IPv4 address that an address in an alias stands for.
LEMMA Target ==
    ASSUME NEW a \in Address, NEW p \in Prefix, Len(p) <= Len(V4Root)
    PROVE  \E b \in Address :
              /\ Covers(V4Root, b)
              /\ \A j \in 1..(W - Len(V4Root)) : a[Len(p) + j] = b[Len(V4Root) + j]
<1> DEFINE n == Len(p)
           v == Len(V4Root)
           b == [i \in 1..W |-> IF i <= v THEN V4Root[i] ELSE a[n + (i - v)]]
<1>1. /\ W \in Nat /\ n \in Nat /\ v \in Nat /\ n <= v /\ v <= W
      /\ V4Root \in [1..v -> Bit] /\ a \in [1..W -> Bit] /\ V4Root \in Prefix
  BY WidthAssumption, NetworkAssumption, PrefixLength, PrefixIsSeq, LenProperties DEF Address
<1> HIDE DEF n, v
<1>2. ASSUME NEW i \in 1..W PROVE (IF i <= v THEN V4Root[i] ELSE a[n + (i - v)]) \in Bit
  <2>1. CASE i <= v
    BY <1>1, <2>1
  <2>2. CASE ~(i <= v)
    <3>1. n + (i - v) \in 1..W
      BY <1>1, <2>2
    <3> QED BY <1>1, <2>2, <3>1
  <2> QED BY <2>1, <2>2
<1>3. b \in Address
  BY <1>2 DEF Address
<1>4. ASSUME NEW j \in 1..(W - v) PROVE a[n + j] = b[v + j]
  <2> DEFINE k == v + j
  <2>1. k \in 1..W /\ ~(k <= v) /\ n + (k - v) = n + j
    BY <1>1
  <2> HIDE DEF k
  <2>2. b[k] = a[n + (k - v)]
    BY <2>1
  <2> QED BY <2>1, <2>2 DEF k
<1>5. \A i \in 1..v : V4Root[i] = b[i]
  BY <1>1
<1>6. Len(b) = W
  BY <1>3, AddressIsPrefix
<1>7. Covers(V4Root, b)
  BY <1>1, <1>5, <1>6 DEF Covers, v
<1> QED BY <1>3, <1>4, <1>7 DEF n, v

\* Whatever call is running, the walk to an address finds a leaf.
LEMMA LeafFound == ASSUME TableInv, LookupInv PROVE LookupEndsAtLeaf
<1> SUFFICES ASSUME op \notin {"freed", "new_tree"}, NEW a \in Address
             PROVE  FoundRecord(a).type \in {"EMPTY", "FIXED_EMPTY", "DATA"}
  BY DEF LookupEndsAtLeaf
<1>1. op \in {"idle", "insert", "remove"} /\ IsTree(recs) /\ recs \in [Prefix -> Record]
  BY TreeOfRecs DEF TableInv, Inv, TypeOK, Running
<1>2. ASSUME NEW q \in Prefix, IsLeaf(recs[q]), recs[q].type # "ALIAS"
      PROVE  recs[q].type \in {"EMPTY", "FIXED_EMPTY", "DATA"}
  <2>1. recs[q] \in Record
    BY <1>1
  <2> QED BY <1>2, <2>1, RecordFacts DEF IsLeaf, HasNode, PlainTypes, FixedTypes
<1>3. PICK p \in Prefix : Covers(p, a) /\ IsLeaf(recs[p])
  BY <1>1, OneLeaf
<1>4. CASE recs[p].type # "ALIAS"
  BY <1>1, <1>2, <1>3, <1>4, WalkToLeaf
<1>5. CASE recs[p].type = "ALIAS"
  <2>1. PICK i \in 1..Len(Aliases) : p = Aliases[i]
    BY <1>5 DEF LookupInv, AliasesOnly
  <2>2. Len(p) <= Len(V4Root)
    BY <2>1, AliasAssumption
  <2>3. PICK b \in Address :
           /\ Covers(V4Root, b)
           /\ \A j \in 1..(W - Len(V4Root)) : a[Len(p) + j] = b[Len(V4Root) + j]
    BY <2>2, Target
  <2>4. PICK q \in Prefix : Covers(q, b) /\ IsLeaf(recs[q])
    BY <1>1, OneLeaf
  <2>5. FoundRecord(a) = recs[q] /\ recs[q].type # "ALIAS"
    BY <1>1, <1>3, <1>5, <2>3, <2>4, FoundThroughAlias
  <2> QED BY <1>2, <2>4, <2>5
<1> QED BY <1>4, <1>5

\* A lookup always ends at a leaf, also between the steps of an insert, so that
\* lookup_ip_address never meets the records it croaks on.
THEOREM LookupEndsAtLeafAlways == Spec => []LookupEndsAtLeaf
BY LeafFound, TableInvAlways, LookupInvAlways, PTL

\* A lookup in an aliased network finds what a lookup of the IPv4 address with
\* the bits after the alias finds, at every moment once the tree is made.
THEOREM AliasesAgreeAlways == Spec => []AliasesAgree
<1>1. ASSUME TableInv, LookupInv PROVE AliasesAgree
  <2> SUFFICES ASSUME op \notin {"freed", "new_tree"}, opts.alias,
                      NEW i \in 1..Len(Aliases), NEW a \in Address, NEW b \in Address,
                      Covers(Aliases[i], a), Covers(V4Root, b),
                      \A j \in 1..(W - Len(V4Root)) :
                         a[Len(Aliases[i]) + j] = b[Len(V4Root) + j]
               PROVE  FoundRecord(a) = FoundRecord(b)
    BY DEF AliasesAgree
  <2>1. op \in {"idle", "insert", "remove"} /\ IsTree(recs)
    BY <1>1, TreeOfRecs DEF TableInv, Inv, TypeOK, Running
  <2> DEFINE p == Aliases[i]
  <2>2. p \in Prefix /\ Covers(p, a)
    BY NetworkAssumption, ElementOfSeq
  <2>3. recs[p].type = "ALIAS"
    BY <1>1, <2>1 DEF LookupInv, RootsPlaced
  <2>4. \A j \in 1..(W - Len(V4Root)) : a[Len(p) + j] = b[Len(V4Root) + j]
    OBVIOUS
  <2> HIDE DEF p
  <2>5. PICK q \in Prefix : Covers(q, b) /\ IsLeaf(recs[q])
    BY <2>1, OneLeaf
  <2>6. FoundRecord(a) = recs[q] /\ recs[q].type # "ALIAS"
    BY <1>1, <2>1, <2>2, <2>3, <2>4, <2>5, FoundThroughAlias
  <2>7. FoundRecord(b) = recs[q]
    BY <2>1, <2>5, <2>6, WalkToLeaf
  <2> QED BY <2>6, <2>7
<1> QED BY <1>1, TableInvAlways, LookupInvAlways, PTL

-----------------------------------------------------------------------------
(* The order of the nodes                                                  *)

\* q is in a left half of which p is in the right one.
LeftOf(q, p) ==
    \E i \in 1..Len(q) :
        i <= Len(p) /\ q[i] = 0 /\ p[i] = 1 /\ \A j \in 1..(i - 1) : q[j] = p[j]

Before(q, p) == Below(q, p) \/ LeftOf(q, p)

\* The halves of a position and the order.
LEMMA HalvesInOrder ==
    ASSUME NEW p \in Prefix, Len(p) < W, NEW q \in Prefix
    PROVE  /\ Covers(p, q) <=> q = p \/ Covers(Child(p, 0), q) \/ Covers(Child(p, 1), q)
           /\ ~Covers(Child(p, 0), p) /\ ~Covers(Child(p, 1), p)
           /\ ~(Covers(Child(p, 0), q) /\ Covers(Child(p, 1), q))
           /\ LeftOf(q, Child(p, 0)) <=> LeftOf(q, p)
           /\ LeftOf(q, Child(p, 1)) <=> LeftOf(q, p) \/ Covers(Child(p, 0), q)
           /\ LeftOf(p, q) => LeftOf(Child(p, 0), q) /\ LeftOf(Child(p, 1), q)
           /\ LeftOf(Child(p, 0), Child(p, 1))
<1> DEFINE l == Child(p, 0)
           r == Child(p, 1)
<1>1. /\ l \in Prefix /\ r \in Prefix /\ Len(l) = Len(p) + 1 /\ Len(r) = Len(p) + 1
      /\ \A i \in 1..Len(p) : l[i] = p[i] /\ r[i] = p[i]
      /\ l[Len(p) + 1] = 0 /\ r[Len(p) + 1] = 1
      /\ Below(p, l) /\ Below(p, r)
  BY ChildIsPrefix, AboveChild DEF Bit
<1>2. Len(p) \in Nat /\ Len(q) \in Nat
  BY PrefixLength
<1>3. Covers(p, q) <=> q = p \/ Covers(l, q) \/ Covers(r, q)
  <2>1. Covers(l, q) \/ Covers(r, q) => Covers(p, q)
    BY <1>1, <1>2 DEF Covers
  <2>2. ASSUME Below(p, q) PROVE Covers(l, q) \/ Covers(r, q)
    BY <2>2, ChildToward DEF Bit
  <2> QED BY <2>1, <2>2, BelowIsCovers, CoversOrder
<1> HIDE DEF l, r
<1>4. ~Covers(l, p) /\ ~Covers(r, p)
  BY <1>1, <1>2 DEF Covers
<1>5. ~(Covers(l, q) /\ Covers(r, q))
  <2> SUFFICES ASSUME Covers(l, q), Covers(r, q) PROVE FALSE
    OBVIOUS
  <2>1. Len(p) + 1 \in 1..Len(l) /\ Len(p) + 1 \in 1..Len(r)
    BY <1>1, <1>2
  <2> QED BY <1>1, <2>1 DEF Covers
<1>6. LeftOf(q, l) <=> LeftOf(q, p)
  <2>1. ASSUME LeftOf(q, l) PROVE LeftOf(q, p)
    <3>1. PICK i \in 1..Len(q) :
            i <= Len(l) /\ q[i] = 0 /\ l[i] = 1 /\ \A j \in 1..(i - 1) : q[j] = l[j]
      BY <2>1 DEF LeftOf
    <3>2. i # Len(p) + 1
      BY <1>1, <3>1
    <3>3. i <= Len(p) /\ i \in 1..Len(p) /\ \A j \in 1..(i - 1) : j \in 1..Len(p)
      BY <1>1, <1>2, <3>1, <3>2
    <3> QED BY <1>1, <3>1, <3>3 DEF LeftOf
  <2>2. ASSUME LeftOf(q, p) PROVE LeftOf(q, l)
    <3>1. PICK i \in 1..Len(q) :
            i <= Len(p) /\ q[i] = 0 /\ p[i] = 1 /\ \A j \in 1..(i - 1) : q[j] = p[j]
      BY <2>2 DEF LeftOf
    <3>2. i <= Len(l) /\ i \in 1..Len(p) /\ \A j \in 1..(i - 1) : j \in 1..Len(p)
      BY <1>1, <1>2, <3>1
    <3> QED BY <1>1, <3>1, <3>2 DEF LeftOf
  <2> QED BY <2>1, <2>2
<1>7. LeftOf(q, r) <=> LeftOf(q, p) \/ Covers(l, q)
  <2>1. ASSUME LeftOf(q, r) PROVE LeftOf(q, p) \/ Covers(l, q)
    <3>1. PICK i \in 1..Len(q) :
            i <= Len(r) /\ q[i] = 0 /\ r[i] = 1 /\ \A j \in 1..(i - 1) : q[j] = r[j]
      BY <2>1 DEF LeftOf
    <3>2. CASE i = Len(p) + 1
      <4>1. \A j \in 1..Len(p) : q[j] = l[j]
        BY <1>1, <1>2, <3>1, <3>2
      <4>2. \A j \in 1..Len(l) : j = Len(p) + 1 \/ j \in 1..Len(p)
        BY <1>1, <1>2
      <4> QED BY <1>1, <1>2, <3>1, <3>2, <4>1, <4>2 DEF Covers
    <3>3. CASE i # Len(p) + 1
      <4>1. i <= Len(p) /\ i \in 1..Len(p) /\ \A j \in 1..(i - 1) : j \in 1..Len(p)
        BY <1>1, <1>2, <3>1, <3>3
      <4> QED BY <1>1, <3>1, <4>1 DEF LeftOf
    <3> QED BY <3>2, <3>3
  <2>2. ASSUME LeftOf(q, p) PROVE LeftOf(q, r)
    <3>1. PICK i \in 1..Len(q) :
            i <= Len(p) /\ q[i] = 0 /\ p[i] = 1 /\ \A j \in 1..(i - 1) : q[j] = p[j]
      BY <2>2 DEF LeftOf
    <3>2. i <= Len(r) /\ i \in 1..Len(p) /\ \A j \in 1..(i - 1) : j \in 1..Len(p)
      BY <1>1, <1>2, <3>1
    <3> QED BY <1>1, <3>1, <3>2 DEF LeftOf
  <2>3. ASSUME Covers(l, q) PROVE LeftOf(q, r)
    <3> DEFINE i == Len(p) + 1
    <3>1. i \in 1..Len(q) /\ i \in 1..Len(l) /\ i <= Len(r)
          /\ \A j \in 1..(i - 1) : j \in 1..Len(p) /\ j \in 1..Len(l)
      BY <1>1, <1>2, <2>3 DEF Covers
    <3>2. q[i] = 0 /\ r[i] = 1 /\ \A j \in 1..(i - 1) : q[j] = r[j]
      BY <1>1, <2>3, <3>1 DEF Covers
    <3> QED BY <3>1, <3>2 DEF LeftOf
  <2> QED BY <2>1, <2>2, <2>3
<1>8. ASSUME LeftOf(p, q) PROVE LeftOf(l, q) /\ LeftOf(r, q)
  <2>1. PICK i \in 1..Len(p) :
          i <= Len(q) /\ p[i] = 0 /\ q[i] = 1 /\ \A j \in 1..(i - 1) : p[j] = q[j]
    BY <1>8 DEF LeftOf
  <2>2. i \in 1..Len(l) /\ i \in 1..Len(r) /\ \A j \in 1..(i - 1) : j \in 1..Len(p)
    BY <1>1, <1>2, <2>1
  <2> QED BY <1>1, <2>1, <2>2 DEF LeftOf
<1>9. LeftOf(l, r)
  <2> DEFINE i == Len(p) + 1
  <2>1. i \in 1..Len(l) /\ i <= Len(r) /\ \A j \in 1..(i - 1) : j \in 1..Len(p)
    BY <1>1, <1>2
  <2> QED BY <1>1, <2>1 DEF LeftOf
<1> QED BY <1>3, <1>4, <1>5, <1>6, <1>7, <1>8, <1>9 DEF l, r

\* The order is one: no node comes before itself, nor before one that comes
\* before it.
LEMMA OrderOfNodes ==
    /\ \A p \in Prefix : ~Before(p, p) /\ ~Before(p, << >>)
    /\ \A p, q, r \in Prefix : Before(p, q) /\ Before(q, r) => Before(p, r)
    /\ \A p, q \in Prefix : LeftOf(p, q) => ~Covers(p, q) /\ ~Covers(q, p)
<1>1. \A p \in Prefix : Len(p) \in Nat
  BY PrefixLength
<1>2. ASSUME NEW p \in Prefix, NEW q \in Prefix, LeftOf(p, q)
      PROVE  ~Covers(p, q) /\ ~Covers(q, p)
  <2>1. PICK i \in 1..Len(p) : i <= Len(q) /\ p[i] = 0 /\ q[i] = 1
    BY <1>2 DEF LeftOf
  <2>2. i \in 1..Len(q)
    BY <1>1, <2>1
  <2> QED BY <2>1, <2>2 DEF Covers
<1>3. \A p \in Prefix : ~Before(p, p)
  BY <1>2, CoversOrder, BelowIsCovers DEF Before
<1>4. \A p \in Prefix : ~Before(p, << >>)
  <2>1. \A p \in Prefix : << >> \in Prefix /\ Covers(<< >>, p)
    BY RootIsPrefix, CoversOrder
  <2> QED BY <1>2, <2>1, CoversOrder, BelowIsCovers DEF Before
<1>5. ASSUME NEW p \in Prefix, NEW q \in Prefix, NEW r \in Prefix, Before(p, q), Before(q, r)
      PROVE  Before(p, r)
  <2>1. CASE Below(p, q) /\ Below(q, r)
    BY <1>1, <2>1, CoversOrder DEF Before, Below
  <2>2. CASE Below(p, q) /\ LeftOf(q, r)
    <3>1. PICK i \in 1..Len(q) :
            i <= Len(r) /\ q[i] = 0 /\ r[i] = 1 /\ \A j \in 1..(i - 1) : q[j] = r[j]
      BY <2>2 DEF LeftOf
    <3>2. Len(p) < Len(q) /\ \A j \in 1..Len(p) : p[j] = q[j]
      BY <2>2 DEF Below, Covers
    <3>3. CASE i <= Len(p)
      <4>1. i \in 1..Len(p) /\ \A j \in 1..(i - 1) : j \in 1..Len(p)
        BY <1>1, <3>1, <3>3
      <4> QED BY <3>1, <3>2, <4>1 DEF Before, LeftOf
    <3>4. CASE i > Len(p)
      <4>1. Len(p) < Len(r) /\ \A j \in 1..Len(p) : j \in 1..(i - 1)
        BY <1>1, <3>1, <3>4
      <4> QED BY <3>1, <3>2, <4>1 DEF Before, Below, Covers
    <3> QED BY <1>1, <3>3, <3>4
  <2>3. CASE LeftOf(p, q) /\ Below(q, r)
    <3>1. PICK i \in 1..Len(p) :
            i <= Len(q) /\ p[i] = 0 /\ q[i] = 1 /\ \A j \in 1..(i - 1) : p[j] = q[j]
      BY <2>3 DEF LeftOf
    <3>2. Len(q) < Len(r) /\ \A j \in 1..Len(q) : q[j] = r[j]
      BY <2>3 DEF Below, Covers
    <3>3. i \in 1..Len(q) /\ i <= Len(r) /\ \A j \in 1..(i - 1) : j \in 1..Len(q)
      BY <1>1, <3>1, <3>2
    <3> QED BY <3>1, <3>2, <3>3 DEF Before, LeftOf
  <2>4. CASE LeftOf(p, q) /\ LeftOf(q, r)
    <3>1. PICK i \in 1..Len(p) :
            i <= Len(q) /\ p[i] = 0 /\ q[i] = 1 /\ \A j \in 1..(i - 1) : p[j] = q[j]
      BY <2>4 DEF LeftOf
    <3>2. PICK k \in 1..Len(q) :
            k <= Len(r) /\ q[k] = 0 /\ r[k] = 1 /\ \A j \in 1..(k - 1) : q[j] = r[j]
      BY <2>4 DEF LeftOf
    <3>3. CASE i < k
      <4>1. i \in 1..(k - 1) /\ i <= Len(r) /\ \A j \in 1..(i - 1) : j \in 1..(k - 1)
        BY <1>1, <3>1, <3>2, <3>3
      <4> QED BY <3>1, <3>2, <4>1 DEF Before, LeftOf
    <3>4. CASE k < i
      <4>1. k \in 1..(i - 1) /\ k \in 1..Len(p) /\ \A j \in 1..(k - 1) : j \in 1..(i - 1)
        BY <1>1, <3>1, <3>2, <3>4
      <4> QED BY <3>1, <3>2, <4>1 DEF Before, LeftOf
    <3>5. CASE i = k
      BY <3>1, <3>2, <3>5
    <3> QED BY <1>1, <3>3, <3>4, <3>5
  <2> QED BY <1>5, <2>1, <2>2, <2>3, <2>4 DEF Before
<1> QED BY <1>2, <1>3, <1>4, <1>5

-----------------------------------------------------------------------------
(* What is left on the stack                                               *)

Nodes == {p \in Prefix : HasNode(recs[p])}

\* The nodes a frame stands for, and those some frame of a stack does.
Stands(f, q) == IF f.due THEN q = f.at ELSE Covers(f.at, q)
Waits(s, q) == \E j \in 1..Len(s) : Stands(s[j], q)

IsSeq(s) == s \in Seq({s[i] : i \in 1..Len(s)})

\* The frames from the i-th on stand for its node and all those after it.
InOrder(s) ==
    /\ IsSeq(s)
    /\ \A i \in 1..Len(s) :
          /\ s[i].at \in Nodes /\ s[i].due \in BOOLEAN
          /\ \A q \in Nodes :
                (\E j \in i..Len(s) : Stands(s[j], q)) <=> ~Before(q, s[i].at)
          /\ i < Len(s) => IF s[i].due THEN Before(s[i].at, s[i + 1].at)
                           ELSE LeftOf(s[i].at, s[i + 1].at)

\* Sequences of whatever there is.
LEMMA SequenceFacts ==
    /\ IsSeq(<< >>) /\ Len(<< >>) = 0
    /\ \A s : IsSeq(s) => /\ Len(s) \in Nat
                          /\ s # << >> => Len(s) > 0 /\ Head(s) = s[1]
    /\ \A s, x : IsSeq(s) => /\ IsSeq(Append(s, x)) /\ Len(Append(s, x)) = Len(s) + 1
    /\ \A s, x : IsSeq(s) => \E S : s \in Seq(S) /\ <<x>> \in Seq(S)
    /\ \A S, s : s \in Seq(S) => IsSeq(s)
<1>1. ASSUME NEW S, NEW s \in Seq(S) PROVE IsSeq(s)
  <2>1. Len(s) \in Nat /\ s \in [1..Len(s) -> S]
    BY LenProperties
  <2>2. s \in [1..Len(s) -> {s[i] : i \in 1..Len(s)}]
    BY <2>1
  <2> QED BY <2>1, <2>2 DEF IsSeq
<1>2. IsSeq(<< >>) /\ Len(<< >>) = 0
  <2>1. << >> \in Seq({}) /\ Len(<< >>) = 0
    BY EmptySeq
  <2> QED BY <1>1, <2>1
<1>3. ASSUME NEW s, IsSeq(s)
      PROVE  Len(s) \in Nat /\ (s # << >> => Len(s) > 0 /\ Head(s) = s[1])
  <2> DEFINE S == {s[i] : i \in 1..Len(s)}
  <2>1. s \in Seq(S)
    BY <1>3 DEF IsSeq
  <2> HIDE DEF S
  <2> QED BY <2>1, EmptySeq, LenProperties
<1>4. ASSUME NEW s, IsSeq(s), NEW x
      PROVE  /\ IsSeq(Append(s, x)) /\ Len(Append(s, x)) = Len(s) + 1
             /\ \E S : s \in Seq(S) /\ <<x>> \in Seq(S)
  <2> DEFINE T == {s[i] : i \in 1..Len(s)}
             S == T \cup {x}
  <2>1. s \in Seq(T)
    BY <1>4 DEF IsSeq
  <2>2. x \in S /\ T \subseteq S
    OBVIOUS
  <2> HIDE DEF T, S
  <2>3. s \in Seq(S)
    <3>1. Len(s) \in Nat /\ s \in [1..Len(s) -> T]
      BY <2>1, LenProperties
    <3>2. s \in [1..Len(s) -> S]
      BY <2>2, <3>1
    <3> QED BY <3>1, <3>2
  <2>4. Append(s, x) \in Seq(S) /\ Len(Append(s, x)) = Len(s) + 1
    BY <2>2, <2>3, AppendProperties
  <2>5. <<x>> \in Seq(S)
    BY <2>2
  <2> QED BY <1>1, <2>3, <2>4, <2>5
<1> QED BY <1>1, <1>2, <1>3, <1>4

\* A sequence with a first element put before it.
LEMMA PutFirst ==
    ASSUME NEW f, NEW s, IsSeq(s)
    PROVE  /\ IsSeq(<<f>> \o s) /\ Len(<<f>> \o s) = Len(s) + 1 /\ Len(s) \in Nat
           /\ (<<f>> \o s)[1] = f
           /\ \A i \in 1..Len(s) : (<<f>> \o s)[i + 1] = s[i]
<1>1. PICK S : s \in Seq(S) /\ <<f>> \in Seq(S)
  BY SequenceFacts
<1> DEFINE h == <<f>>
<1>2. h \in Seq(S) /\ Len(h) = 1 /\ h[1] = f /\ Len(s) \in Nat
  BY <1>1, SequenceFacts
<1> HIDE DEF h
<1> DEFINE t == h \o s
<1>3. /\ t \in Seq(S) /\ Len(t) = Len(h) + Len(s)
      /\ \A i \in 1..(Len(h) + Len(s)) :
            t[i] = IF i <= Len(h) THEN h[i] ELSE s[i - Len(h)]
  BY <1>1, <1>2, ConcatProperties
<1> HIDE DEF t
<1>4. IsSeq(t)
  BY <1>3, SequenceFacts
<1>5. t[1] = f
  BY <1>2, <1>3
<1>6. ASSUME NEW i \in 1..Len(s) PROVE t[i + 1] = s[i]
  <2>1. i + 1 \in 1..(Len(h) + Len(s)) /\ ~(i + 1 <= Len(h)) /\ (i + 1) - Len(h) = i
    BY <1>2
  <2> QED BY <1>3, <2>1
<1> QED BY <1>2, <1>3, <1>4, <1>5, <1>6 DEF t, h

\* A frame put on the stack.
LEMMA Push ==
    ASSUME NEW f, NEW s, InOrder(s), f.at \in Nodes, f.due \in BOOLEAN,
           s # << >> => IF f.due THEN Before(f.at, s[1].at) ELSE LeftOf(f.at, s[1].at),
           \A q \in Nodes : Stands(f, q) \/ Waits(s, q) <=> ~Before(q, f.at)
    PROVE  /\ InOrder(<<f>> \o s) /\ (<<f>> \o s)[1] = f
           /\ \A q \in Nodes : Waits(<<f>> \o s, q) <=> Stands(f, q) \/ Waits(s, q)
<1> DEFINE t == <<f>> \o s
<1>1. /\ IsSeq(t) /\ Len(t) = Len(s) + 1 /\ Len(s) \in Nat /\ t[1] = f
      /\ \A i \in 1..Len(s) : t[i + 1] = s[i]
  BY PutFirst DEF InOrder
<1> HIDE DEF t
<1>2. ASSUME NEW q \in Nodes PROVE Waits(t, q) <=> Stands(f, q) \/ Waits(s, q)
  <2>1. ASSUME Waits(t, q) PROVE Stands(f, q) \/ Waits(s, q)
    <3>1. PICK j \in 1..Len(t) : Stands(t[j], q)
      BY <2>1 DEF Waits
    <3>2. CASE j = 1
      BY <1>1, <3>1, <3>2
    <3>3. CASE j # 1
      <4>1. j - 1 \in 1..Len(s) /\ (j - 1) + 1 = j
        BY <1>1, <3>3
      <4>2. s[j - 1] = t[j]
        BY <1>1, <4>1
      <4> QED BY <3>1, <4>1, <4>2 DEF Waits
    <3> QED BY <3>2, <3>3
  <2>2. ASSUME Waits(s, q) PROVE Waits(t, q)
    <3>1. PICK j \in 1..Len(s) : Stands(s[j], q)
      BY <2>2 DEF Waits
    <3>2. j + 1 \in 1..Len(t) /\ t[j + 1] = s[j]
      BY <1>1
    <3> QED BY <3>1, <3>2 DEF Waits
  <2>3. ASSUME Stands(f, q) PROVE Waits(t, q)
    <3>1. 1 \in 1..Len(t)
      BY <1>1
    <3> QED BY <1>1, <2>3, <3>1 DEF Waits
  <2> QED BY <2>1, <2>2, <2>3
<1>3. ASSUME NEW i \in 1..Len(t)
      PROVE  /\ t[i].at \in Nodes /\ t[i].due \in BOOLEAN
             /\ \A q \in Nodes :
                   (\E j \in i..Len(t) : Stands(t[j], q)) <=> ~Before(q, t[i].at)
             /\ i < Len(t) => IF t[i].due THEN Before(t[i].at, t[i + 1].at)
                              ELSE LeftOf(t[i].at, t[i + 1].at)
  <2>1. CASE i = 1
    <3>1. \A q \in Nodes : (\E j \in 1..Len(t) : Stands(t[j], q)) <=> ~Before(q, f.at)
      BY <1>2 DEF Waits
    <3>2. 1 < Len(t) => s # << >> /\ t[2] = s[1]
      <4> SUFFICES ASSUME 1 < Len(t) PROVE s # << >> /\ t[2] = s[1]
        OBVIOUS
      <4>1. 1 \in 1..Len(s) /\ 1 + 1 = 2
        BY <1>1
      <4>2. t[1 + 1] = s[1]
        BY <1>1, <4>1
      <4>3. s # << >>
        BY <4>1, SequenceFacts
      <4> QED BY <4>1, <4>2, <4>3
    <3> QED BY <1>1, <2>1, <3>1, <3>2
  <2>2. CASE i # 1
    <3> DEFINE k == i - 1
    <3>1. k \in 1..Len(s) /\ k + 1 = i /\ t[i] = s[k] /\ i \in Int
      BY <1>1, <2>2
    <3>2. i < Len(t) => k < Len(s) /\ t[i + 1] = s[k + 1]
      <4> SUFFICES ASSUME i < Len(t) PROVE k < Len(s) /\ t[i + 1] = s[k + 1]
        OBVIOUS
      <4>1. i \in 1..Len(s) /\ k < Len(s)
        BY <1>1
      <4> QED BY <1>1, <3>1, <4>1
    <3> HIDE DEF k
    <3>3. /\ s[k].at \in Nodes /\ s[k].due \in BOOLEAN
          /\ k < Len(s) => IF s[k].due THEN Before(s[k].at, s[k + 1].at)
                           ELSE LeftOf(s[k].at, s[k + 1].at)
      BY <3>1 DEF InOrder
    <3>4. ASSUME NEW q \in Nodes
          PROVE  (\E j \in i..Len(t) : Stands(t[j], q)) <=> ~Before(q, t[i].at)
      <4>1. (\E j \in k..Len(s) : Stands(s[j], q)) <=> ~Before(q, s[k].at)
        BY <3>1 DEF InOrder
      <4>2. ASSUME NEW j \in i..Len(t), Stands(t[j], q)
            PROVE  \E h \in k..Len(s) : Stands(s[h], q)
        <5>1. j - 1 \in k..Len(s) /\ j - 1 \in 1..Len(s) /\ (j - 1) + 1 = j
          BY <1>1, <3>1
        <5>2. s[j - 1] = t[j]
          BY <1>1, <5>1
        <5> QED BY <4>2, <5>1, <5>2
      <4>3. ASSUME NEW j \in k..Len(s), Stands(s[j], q)
            PROVE  \E h \in i..Len(t) : Stands(t[h], q)
        <5>1. j + 1 \in i..Len(t) /\ j \in 1..Len(s)
          BY <1>1, <3>1
        <5> QED BY <1>1, <4>3, <5>1
      <4> QED BY <3>1, <4>1, <4>2, <4>3
    <3> QED BY <3>1, <3>2, <3>3, <3>4
  <2> QED BY <2>1, <2>2
<1>4. InOrder(t)
  BY <1>1, <1>3 DEF InOrder
<1> QED BY <1>1, <1>2, <1>4 DEF t

\* The first frame taken off the stack.
LEMMA Pop ==
    ASSUME NEW s, InOrder(s), s # << >>
    PROVE  /\ InOrder(Tail(s))
           /\ Head(s).at \in Nodes /\ Head(s).due \in BOOLEAN
           /\ \A q \in Nodes : Waits(s, q) <=> ~Before(q, Head(s).at)
           /\ \A q \in Nodes : Waits(s, q) <=> Stands(Head(s), q) \/ Waits(Tail(s), q)
           /\ \A q \in Nodes : Waits(Tail(s), q) =>
                /\ Tail(s) # << >> /\ ~Before(q, Tail(s)[1].at)
           /\ Tail(s) # << >> =>
                /\ Tail(s)[1].at \in Nodes
                /\ IF Head(s).due THEN Before(Head(s).at, Tail(s)[1].at)
                   ELSE LeftOf(Head(s).at, Tail(s)[1].at)
<1> DEFINE S == {s[i] : i \in 1..Len(s)}
           t == Tail(s)
<1>1. s \in Seq(S)
  BY DEF InOrder, IsSeq
<1> HIDE DEF S
<1>2. /\ t \in Seq(S) /\ Len(t) = Len(s) - 1
      /\ \A i \in 1..Len(t) : t[i] = s[i + 1]
  BY <1>1, HeadTailProperties
<1> HIDE DEF t
<1>3. Len(s) \in Nat /\ Len(s) > 0 /\ Head(s) = s[1] /\ IsSeq(t) /\ Len(t) \in Nat
  BY <1>1, <1>2, SequenceFacts
<1>4. 1 \in 1..Len(s)
  BY <1>3
<1>5. ASSUME NEW i \in 1..Len(t)
      PROVE  /\ t[i].at \in Nodes /\ t[i].due \in BOOLEAN
             /\ \A q \in Nodes :
                   (\E j \in i..Len(t) : Stands(t[j], q)) <=> ~Before(q, t[i].at)
             /\ i < Len(t) => IF t[i].due THEN Before(t[i].at, t[i + 1].at)
                              ELSE LeftOf(t[i].at, t[i + 1].at)
  <2> DEFINE k == i + 1
  <2>1. k \in 1..Len(s) /\ t[i] = s[k] /\ k - 1 = i
    BY <1>2, <1>3
  <2>2. i < Len(t) => k < Len(s) /\ t[i + 1] = s[k + 1]
    <3> SUFFICES ASSUME i < Len(t) PROVE k < Len(s) /\ t[i + 1] = s[k + 1]
      OBVIOUS
    <3>1. k \in 1..Len(t) /\ k < Len(s)
      BY <1>2, <1>3
    <3> QED BY <1>2, <3>1
  <2> HIDE DEF k
  <2>3. /\ s[k].at \in Nodes /\ s[k].due \in BOOLEAN
        /\ k < Len(s) => IF s[k].due THEN Before(s[k].at, s[k + 1].at)
                         ELSE LeftOf(s[k].at, s[k + 1].at)
    BY <2>1 DEF InOrder
  <2>4. ASSUME NEW q \in Nodes
        PROVE  (\E j \in i..Len(t) : Stands(t[j], q)) <=> ~Before(q, t[i].at)
    <3>1. (\E j \in k..Len(s) : Stands(s[j], q)) <=> ~Before(q, s[k].at)
      BY <2>1 DEF InOrder
    <3>2. ASSUME NEW j \in i..Len(t), Stands(t[j], q)
          PROVE  \E h \in k..Len(s) : Stands(s[h], q)
      <4>1. j + 1 \in k..Len(s) /\ j \in 1..Len(t)
        BY <1>2, <1>3, <2>1
      <4> QED BY <1>2, <3>2, <4>1
    <3>3. ASSUME NEW j \in k..Len(s), Stands(s[j], q)
          PROVE  \E h \in i..Len(t) : Stands(t[h], q)
      <4>1. j - 1 \in i..Len(t) /\ j - 1 \in 1..Len(t) /\ (j - 1) + 1 = j
        BY <1>2, <1>3, <2>1
      <4>2. t[j - 1] = s[j]
        BY <1>2, <4>1
      <4> QED BY <3>3, <4>1, <4>2
    <3> QED BY <2>1, <3>1, <3>2, <3>3
  <2> QED BY <2>1, <2>2, <2>3, <2>4
<1>6. InOrder(t)
  BY <1>3, <1>5 DEF InOrder
<1>7. Head(s).at \in Nodes /\ Head(s).due \in BOOLEAN
  BY <1>3, <1>4 DEF InOrder
<1>8. \A q \in Nodes : Waits(s, q) <=> ~Before(q, Head(s).at)
  BY <1>3, <1>4 DEF InOrder, Waits
<1>9. ASSUME NEW q \in Nodes PROVE Waits(s, q) <=> Stands(Head(s), q) \/ Waits(t, q)
  <2>1. ASSUME Waits(s, q) PROVE Stands(Head(s), q) \/ Waits(t, q)
    <3>1. PICK j \in 1..Len(s) : Stands(s[j], q)
      BY <2>1 DEF Waits
    <3>2. CASE j = 1
      BY <1>3, <3>1, <3>2
    <3>3. CASE j # 1
      <4>1. j - 1 \in 1..Len(t) /\ (j - 1) + 1 = j
        BY <1>2, <1>3, <3>3
      <4>2. t[j - 1] = s[j]
        BY <1>2, <4>1
      <4> QED BY <3>1, <4>1, <4>2 DEF Waits
    <3> QED BY <3>2, <3>3
  <2>2. ASSUME Waits(t, q) PROVE Waits(s, q)
    <3>1. PICK j \in 1..Len(t) : Stands(t[j], q)
      BY <2>2 DEF Waits
    <3>2. j + 1 \in 1..Len(s) /\ t[j] = s[j + 1]
      BY <1>2, <1>3
    <3> QED BY <3>1, <3>2 DEF Waits
  <2> QED BY <1>3, <1>4, <2>1, <2>2 DEF Waits
<1>10. t # << >> => 1 \in 1..Len(t) /\ 1 < Len(s) /\ t[1] = s[1 + 1]
  BY <1>2, <1>3, SequenceFacts
<1>11. ASSUME NEW q \in Nodes, Waits(t, q) PROVE t # << >> /\ ~Before(q, t[1].at)
  <2>1. t # << >>
    BY <1>11, SequenceFacts DEF Waits
  <2>2. 1 \in 1..Len(t)
    BY <1>10, <2>1
  <2> QED BY <1>5, <1>11, <2>1, <2>2 DEF Waits
<1>12. ASSUME t # << >>
       PROVE  /\ t[1].at \in Nodes
              /\ IF Head(s).due THEN Before(Head(s).at, t[1].at)
                 ELSE LeftOf(Head(s).at, t[1].at)
  <2>1. 1 \in 1..Len(t) /\ 1 < Len(s) /\ t[1] = s[1 + 1]
    BY <1>10, <1>12
  <2>2. t[1].at \in Nodes
    BY <1>5, <2>1
  <2> QED BY <1>3, <1>4, <2>1, <2>2 DEF InOrder
<1> QED BY <1>6, <1>7, <1>8, <1>9, <1>11, <1>12 DEF t

-----------------------------------------------------------------------------
(* Entering a node                                                         *)

\* What comes before a node's record and its two halves.
LEMMA BeforeHalves ==
    ASSUME NEW p \in Prefix, Len(p) < W, NEW q \in Prefix
    PROVE  /\ Before(q, Child(p, 0)) <=> q = p \/ Before(q, p)
           /\ Before(q, Child(p, 1)) <=> q = p \/ Before(q, p) \/ Covers(Child(p, 0), q)
<1>1. \A b \in Bit : Below(q, Child(p, b)) <=> q = p \/ Below(q, p)
  BY AboveChild, BelowIsCovers, CoversOrder
<1>2. /\ LeftOf(q, Child(p, 0)) <=> LeftOf(q, p)
      /\ LeftOf(q, Child(p, 1)) <=> LeftOf(q, p) \/ Covers(Child(p, 0), q)
  BY HalvesInOrder
<1> QED BY <1>1, <1>2 DEF Before, Bit

\* What lies in a network lies to the left of what the network does.
LEMMA LeftOfAll ==
    ASSUME NEW p \in Prefix, NEW q \in Prefix, NEW r \in Prefix, LeftOf(p, r), Covers(p, q)
    PROVE  LeftOf(q, r)
<1>1. PICK i \in 1..Len(p) :
        i <= Len(r) /\ p[i] = 0 /\ r[i] = 1 /\ \A j \in 1..(i - 1) : p[j] = r[j]
  BY DEF LeftOf
<1>2. Len(p) \in Nat /\ Len(q) \in Nat /\ Len(p) <= Len(q)
      /\ \A j \in 1..Len(p) : p[j] = q[j]
  BY PrefixLength DEF Covers
<1>3. i \in 1..Len(q) /\ \A j \in 1..(i - 1) : j \in 1..Len(p)
  BY <1>1, <1>2
<1> QED BY <1>1, <1>2, <1>3 DEF LeftOf

\* A half that is a node is put on the stack, one that is not stands for none.
LEMMA PushHalf ==
    ASSUME IsTree(recs), NEW h, h.at \in Prefix, h.due = FALSE, NEW s, InOrder(s),
           s # << >> => LeftOf(h.at, s[1].at),
           h.at \in Nodes =>
               \A q \in Nodes : Covers(h.at, q) \/ Waits(s, q) <=> ~Before(q, h.at)
    PROVE  /\ InOrder(IfNode(h) \o s)
           /\ \A q \in Nodes : Waits(IfNode(h) \o s, q) <=> Covers(h.at, q) \/ Waits(s, q)
           /\ IfNode(h) \o s # << >> =>
                \/ h.at \in Nodes /\ (IfNode(h) \o s)[1] = h
                \/ s # << >> /\ (IfNode(h) \o s)[1] = s[1]
<1>1. CASE h.at \in Nodes
  <2>1. IfNode(h) = <<h>>
    BY <1>1 DEF IfNode, Nodes
  <2>2. \A q \in Nodes : Stands(h, q) \/ Waits(s, q) <=> ~Before(q, h.at)
    BY <1>1 DEF Stands
  <2>3. /\ InOrder(<<h>> \o s) /\ (<<h>> \o s)[1] = h
        /\ \A q \in Nodes : Waits(<<h>> \o s, q) <=> Stands(h, q) \/ Waits(s, q)
    BY <1>1, <2>2, Push
  <2> QED BY <1>1, <2>1, <2>3 DEF Stands
<1>2. CASE h.at \notin Nodes
  <2>1. IfNode(h) = << >>
    BY <1>2 DEF IfNode, Nodes
  <2>2. << >> \o s = s
    <3>1. s \in Seq({s[i] : i \in 1..Len(s)})
      BY DEF InOrder, IsSeq
    <3> QED BY <3>1, ConcatEmptySeq
  <2>3. \A q \in Nodes : ~Covers(h.at, q)
    <3> SUFFICES ASSUME NEW q \in Nodes, Covers(h.at, q) PROVE FALSE
      OBVIOUS
    <3>1. q \in Prefix /\ HasNode(recs[q]) /\ q # h.at
      BY <1>2 DEF Nodes
    <3>2. recs[q].type # "ABSENT" /\ Below(h.at, q)
      BY <3>1, BelowIsCovers DEF HasNode
    <3>3. HasNode(recs[h.at])
      BY <3>1, <3>2, NodesAbove
    <3> QED BY <1>2, <3>3 DEF Nodes
  <2> QED BY <2>1, <2>2, <2>3
<1> QED BY <1>1, <1>2

\* Three frames put on a stack together, or one after the other.
OneByOne(l, d, r, t) ==
    ((IfNode(l) \o IfNode(d)) \o IfNode(r)) \o t
      = IfNode(l) \o (IfNode(d) \o (IfNode(r) \o t))

\* Frames are put on a stack in any grouping.
LEMMA FramesInOneSequence ==
    ASSUME NEW l, NEW d, NEW r, NEW t, IsSeq(t)
    PROVE  OneByOne(l, d, r, t)
<1> DEFINE T == {t[i] : i \in 1..Len(t)}
           S == T \cup {d, l, r}
           A == IfNode(l)
           B == IfNode(d)
           C == IfNode(r)
<1>1. t \in Seq(T) /\ T \subseteq S /\ d \in S /\ l \in S /\ r \in S
  BY DEF IsSeq
<1> HIDE DEF T, S
<1>2. t \in Seq(S)
  <2>1. Len(t) \in Nat /\ t \in [1..Len(t) -> T]
    BY <1>1, LenProperties
  <2>2. t \in [1..Len(t) -> S]
    BY <1>1, <2>1
  <2> QED BY <2>1, <2>2
<1>3. A \in Seq(S) /\ B \in Seq(S) /\ C \in Seq(S)
  BY <1>1 DEF IfNode
<1> HIDE DEF A, B, C
<1>4. \A a, b, c \in Seq(S) : a \o b \in Seq(S) /\ (a \o b) \o c = a \o (b \o c)
  BY ConcatProperties, ConcatAssociative
<1> DEFINE AB == A \o B
           Ct == C \o t
<1>5. AB \in Seq(S) /\ Ct \in Seq(S)
  BY <1>2, <1>3, <1>4
<1>6. (AB \o C) \o t = AB \o Ct
  <2> HIDE DEF AB
  <2> QED BY <1>2, <1>3, <1>4, <1>5
<1>7. AB \o Ct = A \o (B \o Ct)
  <2> HIDE DEF Ct
  <2> QED BY <1>3, <1>4, <1>5
<1> QED BY <1>6, <1>7 DEF OneByOne, A, B, C

\* A node entered, its own turn first, stands for the same nodes as before.
LEMMA EnterInOrder ==
    ASSUME IsTree(recs), NEW s, InOrder(s), s # << >>, ~Head(s).due
    PROVE  /\ InOrder(Enter(Head(s), FALSE) \o Tail(s))
           /\ \A q \in Nodes : Waits(Enter(Head(s), FALSE) \o Tail(s), q) <=> Waits(s, q)
<1> DEFINE f == Head(s)
           t == Tail(s)
           p == f.at
           l == Half(f, 0)
           r == Half(f, 1)
           d == Due(f)
<1>1. /\ InOrder(t) /\ p \in Nodes /\ p \in Prefix /\ Len(p) < W
      /\ \A q \in Nodes : Waits(s, q) <=> ~Before(q, p)
      /\ \A q \in Nodes : Waits(s, q) <=> Covers(p, q) \/ Waits(t, q)
      /\ \A q \in Nodes : Waits(t, q) => t # << >> /\ ~Before(q, t[1].at)
      /\ t # << >> => t[1].at \in Prefix /\ LeftOf(p, t[1].at)
  BY Pop DEF Stands, Nodes, IsTree
<1>2. /\ l.at = Child(p, 0) /\ l.due = FALSE /\ r.at = Child(p, 1) /\ r.due = FALSE
      /\ l.at \in Prefix /\ r.at \in Prefix
  BY <1>1, ChildIsPrefix DEF Half, Bit
<1>3. d.at = p /\ d.due = TRUE
  BY DEF Due
<1> HIDE DEF l, r, d, t, p
<1>4. \A q \in Nodes : q \in Prefix
  BY DEF Nodes
<1>5. ASSUME NEW q \in Nodes
      PROVE  /\ Covers(p, q) <=> q = p \/ Covers(l.at, q) \/ Covers(r.at, q)
             /\ ~(Covers(l.at, q) /\ Covers(r.at, q))
             /\ ~Covers(l.at, p) /\ ~Covers(r.at, p)
             /\ Before(q, l.at) <=> q = p \/ Before(q, p)
             /\ Before(q, r.at) <=> q = p \/ Before(q, p) \/ Covers(l.at, q)
             /\ Waits(t, q) => ~Covers(p, q)
  <2>1. q \in Prefix
    BY <1>4
  <2>2. ASSUME Waits(t, q), Covers(p, q) PROVE FALSE
    BY <1>1, <2>1, <2>2, LeftOfAll DEF Before
  <2> QED BY <1>1, <1>2, <2>1, <2>2, HalvesInOrder, BeforeHalves
<1>6. t # << >> => LeftOf(l.at, t[1].at) /\ LeftOf(r.at, t[1].at)
  BY <1>1, <1>2, HalvesInOrder
<1>7. LeftOf(l.at, r.at)
  BY <1>1, <1>2, HalvesInOrder
<1> DEFINE u == IfNode(r) \o t
           v == IfNode(l) \o u
           w == <<d>> \o v
<1>8. /\ InOrder(u)
      /\ \A q \in Nodes : Waits(u, q) <=> Covers(r.at, q) \/ Waits(t, q)
      /\ u # << >> => (r.at \in Nodes /\ u[1] = r) \/ (t # << >> /\ u[1] = t[1])
  <2>1. \A q \in Nodes : Covers(r.at, q) \/ Waits(t, q) <=> ~Before(q, r.at)
    BY <1>1, <1>5
  <2> QED BY <1>1, <1>2, <1>6, <2>1, PushHalf
<1> HIDE DEF u
<1>9. /\ InOrder(v)
      /\ \A q \in Nodes : Waits(v, q) <=> Covers(l.at, q) \/ Waits(u, q)
      /\ v # << >> => (l.at \in Nodes /\ v[1] = l) \/ (u # << >> /\ v[1] = u[1])
  <2>1. \A q \in Nodes : Covers(l.at, q) \/ Waits(u, q) <=> ~Before(q, l.at)
    BY <1>1, <1>5, <1>8
  <2>2. u # << >> => LeftOf(l.at, u[1].at)
    BY <1>6, <1>7, <1>8
  <2> QED BY <1>2, <1>8, <2>1, <2>2, PushHalf
<1> HIDE DEF v
<1>10. /\ InOrder(w)
       /\ \A q \in Nodes : Waits(w, q) <=> q = p \/ Waits(v, q)
  <2>1. \A q \in Nodes : Stands(d, q) \/ Waits(v, q) <=> ~Before(q, d.at)
    BY <1>1, <1>3, <1>5, <1>8, <1>9 DEF Stands
  <2>2. v # << >> => Before(d.at, v[1].at)
    <3>1. Before(p, l.at) /\ Before(p, r.at)
      BY <1>1, <1>2, BeforeHalves
    <3> QED BY <1>1, <1>3, <1>8, <1>9, <3>1 DEF Before
  <2> QED BY <1>1, <1>3, <1>9, <2>1, <2>2, Push DEF Stands
<1>11. Enter(f, FALSE) \o t = w
  <2>1. IfNode(d) = <<d>>
    BY <1>1, <1>3 DEF IfNode, Nodes
  <2>2. Enter(f, FALSE) = (IfNode(d) \o IfNode(l)) \o IfNode(r)
    BY DEF Enter, l, r, d
  <2>3. OneByOne(d, l, r, t)
    BY <1>1, FramesInOneSequence DEF InOrder
  <2> QED BY <2>1, <2>2, <2>3 DEF OneByOne, u, v, w
<1>12. \A q \in Nodes : Waits(w, q) <=> Waits(s, q)
  BY <1>1, <1>5, <1>8, <1>9, <1>10
<1> HIDE DEF w
<1> QED BY <1>10, <1>11, <1>12 DEF t

\* The traversal begins with all nodes waiting.
LEMMA BeginInOrder ==
    ASSUME IsTree(recs), HasNode(recs[<< >>])
    PROVE  InOrder(<<RootFrame>>) /\ \A q \in Nodes : Waits(<<RootFrame>>, q)
<1> DEFINE f == RootFrame
           e == << >>
<1>1. /\ f.at = << >> /\ f.due = FALSE /\ f.at \in Nodes
      /\ \A q \in Nodes : q \in Prefix /\ Covers(<< >>, q) /\ ~Before(q, << >>)
  BY RootIsPrefix, CoversOrder, OrderOfNodes DEF RootFrame, Nodes
<1>2. InOrder(e) /\ \A q \in Nodes : ~Waits(e, q)
  BY SequenceFacts DEF InOrder, Waits
<1>3. <<f>> \o e = <<f>>
  <2>1. <<f>> \in Seq({f})
    OBVIOUS
  <2> QED BY <2>1, ConcatEmptySeq
<1> HIDE DEF f
<1>4. \A q \in Nodes : Stands(f, q) /\ (Stands(f, q) \/ Waits(e, q) <=> ~Before(q, f.at))
  BY <1>1 DEF Stands
<1>5. e = << >>
  OBVIOUS
<1> HIDE DEF e
<1>6. /\ InOrder(<<f>> \o e)
      /\ \A q \in Nodes : Waits(<<f>> \o e, q) <=> Stands(f, q) \/ Waits(e, q)
  BY <1>1, <1>2, <1>4, <1>5, Push
<1> QED BY <1>3, <1>4, <1>6 DEF f

-----------------------------------------------------------------------------
(* Networks as first addresses                                             *)

\* The first address of the network at p.
Padded(p) == [i \in 1..W |-> IF i <= Len(p) THEN p[i] ELSE 0]

\* The first address of a network is that of its left half, and that of its
\* right half has the next bit set.
LEMMA FirstAddress ==
    ASSUME NEW p \in Prefix
    PROVE  /\ Padded(p) \in Address
           /\ [i \in 1..Len(p) |-> Padded(p)[i]] = p
           /\ Len(p) < W =>
                /\ Padded(Child(p, 0)) = Padded(p)
                /\ Padded(Child(p, 1)) = FlipBit(Padded(p), Len(p))
<1>1. Len(p) \in Nat /\ Len(p) <= W /\ W \in Nat /\ p \in [1..Len(p) -> Bit]
  BY PrefixLength, PrefixIsSeq, LenProperties, WidthAssumption
<1>2. Padded(p) \in Address
  BY <1>1 DEF Padded, Address, Bit
<1>3. [i \in 1..Len(p) |-> Padded(p)[i]] = p
  <2>1. \A i \in 1..Len(p) : i \in 1..W /\ Padded(p)[i] = p[i]
    BY <1>1 DEF Padded
  <2> QED BY <1>1, <2>1
<1>4. ASSUME Len(p) < W
      PROVE  /\ Padded(Child(p, 0)) = Padded(p)
             /\ Padded(Child(p, 1)) = FlipBit(Padded(p), Len(p))
  <2> DEFINE l == Child(p, 0)
             r == Child(p, 1)
             n == Len(p) + 1
  <2>1. /\ Len(l) = n /\ Len(r) = n /\ l[n] = 0 /\ r[n] = 1
        /\ \A i \in 1..Len(p) : l[i] = p[i] /\ r[i] = p[i]
    BY <1>4, ChildIsPrefix DEF Bit
  <2>2. n \in 1..W
    BY <1>1, <1>4
  <2> HIDE DEF l, r
  <2>3. ASSUME NEW i \in 1..W
        PROVE  /\ (IF i <= Len(l) THEN l[i] ELSE 0) = (IF i <= Len(p) THEN p[i] ELSE 0)
               /\ (IF i <= Len(r) THEN r[i] ELSE 0) =
                    IF i = n THEN 1 ELSE IF i <= Len(p) THEN p[i] ELSE 0
    <3>1. CASE i \in 1..Len(p)
      BY <1>1, <2>1, <3>1
    <3>2. CASE i = n
      BY <1>1, <2>1, <3>2
    <3>3. CASE i > n
      BY <1>1, <2>1, <3>3
    <3> QED BY <1>1, <3>1, <3>2, <3>3
  <2>4. Padded(l) = Padded(p)
    BY <2>3 DEF Padded
  <2>5. Padded(r) = [Padded(p) EXCEPT ![n] = 1]
    BY <2>2, <2>3 DEF Padded
  <2> QED BY <2>4, <2>5 DEF FlipBit, l, r
<1> QED BY <1>2, <1>3, <1>4

\* The frames of the halves have the networks of these.
LEMMA FramesOfHalves ==
    ASSUME NEW f, f.at \in Prefix, Len(f.at) < W, f.network = Padded(f.at), NEW b \in Bit
    PROVE  /\ Half(f, b).at = Child(f.at, b) /\ Half(f, b).due = FALSE
           /\ Half(f, b).network = Padded(Child(f.at, b))
           /\ Due(f).at = f.at /\ Due(f).due = TRUE /\ Due(f).network = f.network
BY FirstAddress DEF Half, Due, Bit

=============================================================================
