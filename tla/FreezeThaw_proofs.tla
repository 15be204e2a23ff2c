------------------------- MODULE FreezeThaw_proofs -------------------------
(***************************************************************************)
(* A tree that is frozen and thawed is the same tree.                      *)
(*                                                                         *)
(* The file has the options and the data, but none of the fixed records:   *)
(* these are made again.  So first, the fixed records of a tree depend on  *)
(* its options alone, whatever was done with it since.  Then, the networks *)
(* in the file are the data records of the tree, each once, so they do not *)
(* overlap and each is inserted where there is nothing.  Last, two trees   *)
(* made of the same items, with the same data in the same places, have the *)
(* same leaves; so a whole file gives every lookup back, every record if   *)
(* the frozen tree was trimmed, and the table, and thawing it fails only   *)
(* if the table had a key that no record has.                              *)
(***************************************************************************)
EXTENDS FreezeThaw, Lookup_proofs

-----------------------------------------------------------------------------
(* What a step of the recursion does to single records                     *)

Loose == {"EMPTY", "DATA", "NODE"}

\* What Graft is used for.
LEMMA GraftsOfRecurse ==
    ASSUME Inv, SetRecord \/ MergeRecord \/ Trim
    PROVE  \/ recs' = recs /\ ~SetRecord
           \/ \E p \in Prefix, r \in Record :
                /\ recs' = Graft(p, r) /\ recs[p].type \in Loose
                /\ r.type \notin {"ABSENT", "NODE"}
                /\ r.type \in FixedTypes => SetRecord
                /\ SetRecord => p = at /\ r = new
                /\ Covers(p, at)
<1>1. op \in Running
  BY DEF SetRecord, MergeRecord, Trim, Settles, Down, Up
<1>2. /\ at \in Prefix /\ recs \in [Prefix -> Record] /\ recs[at] \in Record /\ new \in Record
      /\ new.type \notin {"ABSENT", "NODE"} /\ Covers(at, at)
  BY <1>1, RunningFacts, CoversOrder
<1>3. CASE SetRecord
  BY <1>2, <1>3 DEF SetRecord, Settles, Loose
<1>4. CASE MergeRecord /\ ~SetRecord
  <2>1. /\ Data(Merged) \in Record /\ Data(Merged).type = "DATA" /\ recs' = Graft(at, Data(Merged))
        /\ recs[at].type \in Loose
    BY <1>4, RecordFacts DEF MergeRecord, Settles, Loose
  <2>2. "DATA" \notin FixedTypes /\ "DATA" \notin {"ABSENT", "NODE"}
    BY DEF FixedTypes
  <2> QED BY <1>2, <1>4, <2>1, <2>2
<1>5. CASE Trim
  <2> DEFINE p == Parent(at)
             r == recs[Child(p, 0)]
  <2>1. at # << >> /\ recs' = (IF Trimmable(p) THEN Graft(p, r) ELSE recs) /\ dir = "up"
    BY <1>5 DEF Trim, Up
  <2>2. p \in Prefix /\ Len(p) < W /\ Covers(p, at)
    <3>1. p \in Prefix /\ Len(p) < W /\ at[Len(at)] \in Bit /\ at = Child(p, at[Len(at)])
      BY <1>2, <2>1, ParentIsPrefix, ChildOfParent
    <3> QED BY <1>2, <3>1, AboveChild, BelowIsCovers
  <2>3. Child(p, 0) \in Prefix
    BY <2>2, ChildIsPrefix DEF Bit
  <2>4. r \in Record /\ (Trimmable(p) => r.type \in {"EMPTY", "DATA"} /\ recs[p].type = "NODE")
    BY <1>2, <2>3 DEF Trimmable, Identical
  <2>5. ~SetRecord
    BY <2>1 DEF SetRecord, Settles, Down
  <2> HIDE DEF p, r
  <2>6. CASE Trimmable(p)
    <3>1. r.type \notin FixedTypes /\ r.type \notin {"ABSENT", "NODE"} /\ recs[p].type \in Loose
      BY <2>4, <2>6 DEF FixedTypes, Loose
    <3> QED BY <2>1, <2>2, <2>4, <2>5, <2>6, <3>1
  <2>7. CASE ~Trimmable(p)
    BY <2>1, <2>5, <2>7
  <2> QED BY <2>6, <2>7
<1> QED BY <1>3, <1>4, <1>5

\* Where each record goes when r is grafted at s.
LEMMA GraftedRecords ==
    ASSUME recs \in [Prefix -> Record], NEW s \in Prefix, NEW r \in Record, recs' = Graft(s, r)
    PROVE  \A q \in Prefix :
              /\ q = s => recs'[q] = r
              /\ ~Covers(s, q) => recs'[q] = recs[q]
              /\ Below(s, q) => recs'[q] = IF r.type = "FIXED_NODE" /\ Len(q) = Len(s) + 1
                                           THEN Plain("EMPTY") ELSE Plain("ABSENT")
              /\ q = s \/ ~Covers(s, q) \/ Below(s, q)
BY GraftFacts, BelowIsCovers

\* A fixed record is new only where it is inserted, or on the way there.
LEMMA NewFixed ==
    ASSUME Inv, Recurse, NEW u \in Prefix, recs'[u].type \in FixedTypes
    PROVE  \/ recs[u].type = recs'[u].type
           \/ SetRecord /\ u = at /\ recs'[u] = new
           \/ Descend /\ u = at /\ new.type \in FixedTypes /\ recs'[u].type = "FIXED_NODE"
<1>1. op \in Running
  BY RecurseFrame
<1>2. /\ at \in Prefix /\ recs \in [Prefix -> Record] /\ recs[at] \in Record /\ new \in Record
  BY <1>1, RunningFacts
<1>3. Plain("EMPTY").type = "EMPTY" /\ Plain("ABSENT").type = "ABSENT"
      /\ "EMPTY" \notin FixedTypes /\ "ABSENT" \notin FixedTypes /\ "DATA" \notin FixedTypes
  BY DEF Plain, FixedTypes
<1>4. ASSUME NEW s \in Prefix, NEW r \in Record, recs' = Graft(s, r)
      PROVE  (u = s /\ recs'[u] = r) \/ recs'[u] = recs[u]
  <2>1. /\ u = s => recs'[u] = r
        /\ ~Covers(s, u) => recs'[u] = recs[u]
        /\ Below(s, u) => recs'[u] \in {Plain("EMPTY"), Plain("ABSENT")}
        /\ u = s \/ ~Covers(s, u) \/ Below(s, u)
    BY <1>2, <1>4, GraftedRecords
  <2> QED BY <1>3, <2>1
<1>5. CASE SetRecord \/ MergeRecord \/ Trim
  BY <1>4, <1>5, GraftsOfRecurse
<1>6. CASE Ignore \/ GoLeft
  BY <1>6 DEF Ignore, GoLeft
<1>7. CASE Descend
  <2>1. /\ recs[at].type \in {"EMPTY", "DATA", "NODE", "FIXED_NODE"}
        /\ recs' = IF HasNode(recs[at])
                   THEN [recs EXCEPT ![at] = Plain(NodeType)] ELSE Split(at, NodeType)
        /\ Len(at) < W
    BY <1>7, DescendRoom DEF Descend
  <2>2. NodeType \in PlainTypes /\ NodeType \in {"NODE", "FIXED_NODE"}
        /\ Plain(NodeType).type = NodeType
        /\ "NODE" \notin FixedTypes
        /\ (NodeType = "FIXED_NODE" => new.type \in FixedTypes \/ recs[at].type = "FIXED_NODE")
    BY DEF NodeType, PlainTypes, FixedTypes, Plain
  <2>3. u = at \/ recs'[u] = recs[u] \/ (~HasNode(recs[at]) /\ recs'[u] = recs[at])
    <3>1. CASE HasNode(recs[at])
      BY <1>2, <2>1, <3>1
    <3>2. CASE ~HasNode(recs[at])
      <4>1. /\ \A c \in Bit : recs'[Child(at, c)] = recs[at]
            /\ u # at /\ u # Child(at, 0) /\ u # Child(at, 1) => recs'[u] = recs[u]
        BY <1>2, <2>1, <2>2, <3>2, SplitFacts
      <4>2. 0 \in Bit /\ 1 \in Bit
        BY DEF Bit
      <4> QED BY <3>2, <4>1, <4>2
    <3> QED BY <3>1, <3>2
  <2>4. recs'[at] = Plain(NodeType)
    <3>1. CASE HasNode(recs[at])
      BY <1>2, <2>1, <3>1
    <3>2. CASE ~HasNode(recs[at])
      BY <1>2, <2>1, <2>2, <3>2, SplitFacts
    <3> QED BY <3>1, <3>2
  <2>5. ~HasNode(recs[at]) => recs[at].type \notin FixedTypes
    BY <2>1 DEF HasNode, FixedTypes
  <2> QED BY <1>7, <2>2, <2>3, <2>4, <2>5
<1> QED BY <1>5, <1>6, <1>7 DEF Recurse

\* A record that is not fixed is new only where there was one, or below one.
LEMMA NewLoose ==
    ASSUME Inv, Recurse, NEW u \in Prefix, recs'[u].type \in Loose
    PROVE  recs[u].type \in Loose \/ (u # << >> /\ recs[Parent(u)].type \in Loose)
<1>1. op \in Running
  BY RecurseFrame
<1>2. /\ at \in Prefix /\ recs \in [Prefix -> Record] /\ recs[at] \in Record /\ new \in Record
  BY <1>1, RunningFacts
<1>3. Plain("ABSENT").type = "ABSENT" /\ "ABSENT" \notin Loose
  BY DEF Plain, Loose
<1>4. ASSUME NEW s \in Prefix, NEW r \in Record, recs' = Graft(s, r), recs[s].type \in Loose
      PROVE  recs[u].type \in Loose \/ (u # << >> /\ recs[Parent(u)].type \in Loose)
  <2>1. /\ ~Covers(s, u) => recs'[u] = recs[u]
        /\ Below(s, u) => recs'[u] = IF r.type = "FIXED_NODE" /\ Len(u) = Len(s) + 1
                                     THEN Plain("EMPTY") ELSE Plain("ABSENT")
    BY <1>2, <1>4, GraftedRecords
  <2>2. CASE Below(s, u)
    <3>1. Len(u) = Len(s) + 1
      BY <1>3, <2>1, <2>2
    <3>2. u # << >> /\ Len(u) \in Nat /\ Len(s) \in Nat
      BY <3>1, PrefixLength, RootIsPrefix
    <3>3. /\ Parent(u) \in Prefix /\ Len(Parent(u)) = Len(u) - 1
          /\ u[Len(u)] \in Bit /\ u = Child(Parent(u), u[Len(u)]) /\ Len(Parent(u)) < W
      BY <3>2, ParentIsPrefix, ChildOfParent
    <3>4. Covers(s, Parent(u))
      BY <2>2, <3>3, AboveChild
    <3>5. ~Below(s, Parent(u))
      BY <3>1, <3>2, <3>3 DEF Below
    <3>6. Parent(u) = s
      BY <3>3, <3>4, <3>5, BelowIsCovers
    <3> QED BY <1>4, <3>2, <3>6
  <2>3. CASE ~Below(s, u)
    <3>1. u = s \/ ~Covers(s, u)
      BY <2>3, BelowIsCovers
    <3> QED BY <1>4, <2>1, <3>1
  <2> QED BY <2>2, <2>3
<1>5. CASE SetRecord \/ MergeRecord \/ Trim
  BY <1>4, <1>5, GraftsOfRecurse
<1>6. CASE Ignore \/ GoLeft
  BY <1>6 DEF Ignore, GoLeft
<1>7. CASE Descend
  <2>1. /\ recs[at].type \in {"EMPTY", "DATA", "NODE", "FIXED_NODE"}
        /\ recs' = IF HasNode(recs[at])
                   THEN [recs EXCEPT ![at] = Plain(NodeType)] ELSE Split(at, NodeType)
        /\ Len(at) < W
    BY <1>7, DescendRoom DEF Descend
  <2>2. NodeType \in PlainTypes /\ Plain(NodeType).type = NodeType
        /\ (NodeType # "FIXED_NODE" => recs[at].type # "FIXED_NODE")
        /\ "FIXED_NODE" \notin Loose
    BY DEF NodeType, PlainTypes, FixedTypes, Plain, Loose
  <2>3. CASE HasNode(recs[at])
    <3>1. u # at => recs'[u] = recs[u]
      BY <1>2, <2>1, <2>3
    <3>2. recs'[at] = Plain(NodeType)
      BY <1>2, <2>1, <2>3
    <3>3. u = at => recs[at].type \in Loose
      BY <2>1, <2>2, <3>2 DEF Loose
    <3> QED BY <3>1, <3>3
  <2>4. CASE ~HasNode(recs[at])
    <3>1. u # at /\ u # Child(at, 0) /\ u # Child(at, 1) => recs'[u] = recs[u]
      BY <1>2, <2>1, <2>2, <2>4, SplitFacts
    <3>2. 0 \in Bit /\ 1 \in Bit
      BY DEF Bit
    <3>3. \A c \in Bit : Child(at, c) # << >> /\ Parent(Child(at, c)) = at
      BY <1>2, <2>1, AboveChild
    <3>4. recs[at].type \in Loose
      BY <2>1, <2>4 DEF HasNode, Loose
    <3> QED BY <3>1, <3>2, <3>3, <3>4
  <2> QED BY <2>3, <2>4
<1> QED BY <1>5, <1>6, <1>7 DEF Recurse

-----------------------------------------------------------------------------
(* What new_tree makes of its items: the nodes above each network but      *)
(* those in a network reserved before, the aliases, and in the reserved    *)
(* networks nothing but fixed records.                                     *)

DataItems == {d \in Seq(Item) : \A i \in 1..Len(d) : d[i].rec.type = "DATA"}

Marks(it, p) == Below(p, it.net) \/ (it.rec.type = "FIXED_NODE" /\ p = it.net)
Reserves(it, p) == it.rec.type = "FIXED_EMPTY" /\ Covers(it.net, p)
IsAlias(it, p) == it.rec.type = "ALIAS" /\ p = it.net

\* p is a fixed node once the first n items of q are in the tree.
FixedNode(q, n, p) ==
    \E i \in 1..n : Marks(q[i], p) /\ \A j \in 1..(i - 1) : ~Reserves(q[j], p)

\* The fixed records of t come from the first n items ...
Sound(q, n, t) ==
    \A p \in Prefix :
        /\ t[p].type = "FIXED_NODE" => FixedNode(q, n, p)
        /\ t[p].type = "FIXED_EMPTY" => \E i \in 1..n : Reserves(q[i], p)
        /\ t[p].type = "ALIAS" => \E i \in 1..n : IsAlias(q[i], p)

\* ... and the first n items are in t.
Complete(q, n, t) ==
    \A p \in Prefix :
        /\ FixedNode(q, n, p) => t[p].type = "FIXED_NODE"
        /\ (\E i \in 1..n : Reserves(q[i], p)) => t[p].type \notin Loose
        /\ (\E i \in 1..n : IsAlias(q[i], p)) => t[p].type = "ALIAS"

AsMade(q, t) == Sound(q, Len(q), t) /\ Complete(q, Len(q), t)

\* The items of a list have positions.
LEMMA ItemOf ==
    ASSUME NEW q \in Seq(Item), NEW i \in 1..Len(q)
    PROVE  q[i] \in Item /\ q[i].net \in Prefix /\ q[i].rec \in Record
<1>1. q[i] \in Item
  BY ElementOfSeq
<1> QED BY <1>1 DEF Item

\* More items mark no fewer nodes.
LEMMA MoreItems ==
    ASSUME NEW q, NEW n \in Nat, NEW m \in Nat, n <= m
    PROVE  /\ \A p : FixedNode(q, n, p) => FixedNode(q, m, p)
           /\ \A t : Sound(q, n, t) => Sound(q, m, t)
<1>1. \A i \in 1..n : i \in 1..m
  OBVIOUS
<1>2. ASSUME NEW p, FixedNode(q, n, p) PROVE FixedNode(q, m, p)
  BY <1>1, <1>2 DEF FixedNode
<1>3. ASSUME NEW t, Sound(q, n, t) PROVE Sound(q, m, t)
  BY <1>1, <1>2, <1>3 DEF Sound
<1> QED BY <1>2, <1>3

\* What is in the tree stays there.
LEMMA CompleteKept ==
    ASSUME Inv, Recurse, KeepsFixed, NEW q \in Seq(Item), NEW n \in 0..Len(q),
           Complete(q, n, recs)
    PROVE  Complete(q, n, recs')
<1>1. op' # "freed" /\ "FIXED_NODE" \in FixedTypes /\ "ALIAS" \in FixedTypes
  BY RecurseFrame DEF Running, FixedTypes
<1>2. ASSUME NEW p \in Prefix, recs[p].type \in FixedTypes PROVE recs'[p] = recs[p]
  BY <1>1, <1>2 DEF KeepsFixed
<1>3. ASSUME NEW p \in Prefix, NEW i \in 1..n, Reserves(q[i], p), recs'[p].type \in Loose
      PROVE  FALSE
  <2>1. recs[p].type \notin Loose
    BY <1>3 DEF Complete
  <2>2. p # << >> /\ recs[Parent(p)].type \in Loose
    BY <1>3, <2>1, NewLoose
  <2> DEFINE x == Parent(p)
  <2>3. x \in Prefix /\ Len(x) < W /\ p[Len(p)] \in Bit /\ p = Child(x, p[Len(p)])
    BY <2>2, ParentIsPrefix, ChildOfParent
  <2>4. i \in 1..Len(q) /\ Len(q) \in Nat
    OBVIOUS
  <2>5. q[i].net \in Prefix
    BY <2>4, ItemOf
  <2>6. recs[x].type \in Loose
    BY <2>2
  <2> HIDE DEF x
  <2>7. \A j \in 1..n : ~Reserves(q[j], x)
    BY <2>3, <2>6 DEF Complete
  <2>8. ~FixedNode(q, n, x)
    BY <2>3, <2>6 DEF Complete, Loose
  <2>9. Below(q[i].net, p) <=> Covers(q[i].net, x)
    BY <2>3, <2>5, AboveChild
  <2>10. Covers(q[i].net, p) /\ q[i].rec.type = "FIXED_EMPTY"
    BY <1>3 DEF Reserves
  <2>11. q[i].net = p
    BY <2>5, <2>7, <2>9, <2>10, BelowIsCovers DEF Reserves
  <2>12. Below(x, q[i].net)
    BY <2>3, <2>11, AboveChild
  <2>13. \A j \in 1..(i - 1) : j \in 1..n
    BY <2>4
  <2> QED BY <2>7, <2>8, <2>12, <2>13 DEF FixedNode, Marks
<1>4. ASSUME NEW p \in Prefix
      PROVE  /\ FixedNode(q, n, p) => recs'[p].type = "FIXED_NODE"
             /\ (\E i \in 1..n : IsAlias(q[i], p)) => recs'[p].type = "ALIAS"
  BY <1>1, <1>2 DEF Complete
<1> QED BY <1>3, <1>4 DEF Complete

\* Data and empty records add nothing fixed.
LEMMA SoundKept ==
    ASSUME Inv, Recurse, NEW q, NEW n, Sound(q, n, recs), new.type \notin FixedTypes
    PROVE  Sound(q, n, recs')
<1>1. ASSUME NEW p \in Prefix, recs'[p].type \in FixedTypes PROVE recs[p].type = recs'[p].type
  BY <1>1, NewFixed
<1>2. "FIXED_NODE" \in FixedTypes /\ "FIXED_EMPTY" \in FixedTypes /\ "ALIAS" \in FixedTypes
  BY DEF FixedTypes
<1> QED BY <1>1, <1>2 DEF Sound

\* The IPv4 root and the aliases come before the reserved networks.
LEMMA AliasesFirst ==
    ASSUME NEW o \in Options, NEW q, q = NewTreeQueue(o),
           NEW j \in 1..Len(q), FromAlias(o, q[j]), NEW i \in 1..j
    PROVE  FromAlias(o, q[i])
<1> DEFINE a == AliasItems(o)
           r == ReservedItems(o)
<1>1. a \in Seq(Item) /\ r \in Seq(Item) /\ q = a \o r
  BY ListItems DEF NewTreeQueue
<1>2. /\ \A k \in 1..Len(a) : FromAlias(o, a[k])
      /\ \A k \in 1..Len(r) : FromReserved(o, r[k])
  BY ListItems DEF FromAlias, FromReserved
<1> HIDE DEF a, r
<1>3. /\ Len(a) \in Nat /\ Len(r) \in Nat /\ Len(q) = Len(a) + Len(r)
      /\ \A k \in 1..Len(q) : q[k] = IF k <= Len(a) THEN a[k] ELSE r[k - Len(a)]
  BY <1>1, ConcatProperties
<1>4. j <= Len(a)
  <2> SUFFICES ASSUME j > Len(a) PROVE FALSE
    BY <1>3
  <2>1. q[j] = r[j - Len(a)] /\ j - Len(a) \in 1..Len(r)
    BY <1>3
  <2>2. FromReserved(o, q[j])
    BY <1>2, <2>1
  <2> QED BY <2>2, ItemKinds
<1>5. i \in 1..Len(a) /\ q[i] = a[i]
  BY <1>3, <1>4
<1> QED BY <1>2, <1>5

-----------------------------------------------------------------------------
(* While a tree is made                                                    *)

\* What thaw_tree inserts once the tree is made.
ThawItems(nets) == [i \in DOMAIN nets |-> Thawed(nets[i])]
ToThaw == IF task = "thaw" THEN ThawItems(file.nets) ELSE << >>

Setup == NewTreeQueue(opts)

\* The items already dealt with.
Gone == Len(Setup) + Len(ToThaw) - Len(queue)

QueueLeft ==
    op = "new_tree" =>
        /\ strategy = "none" /\ held = NoKey /\ ToThaw \in DataItems
        /\ Gone \in Nat
        /\ \A i \in 1..Len(queue) : queue[i] = (Setup \o ToThaw)[Gone + i]

Comparable(p, q) == Covers(p, q) \/ Covers(q, p)

\* The recursion is at a record of the tree, above its network or in it.
Near == op \in Running => Comparable(at, net) /\ recs[at].type # "ABSENT"

SettingUp == op = "new_tree" /\ Gone < Len(Setup)

\* The item new_tree is at is in the tree t, except for what the recursion,
\* at a in direction d, has yet to go into.
SetupPart(t, a, d) ==
    /\ Sound(Setup, Gone + 1, t) /\ Complete(Setup, Gone, t)
    /\ \A p \in Prefix : t[p].type \notin {"NODE", "DATA"}
    /\ \A p \in Prefix :
          Marks(Head(queue), p) =>
             \/ t[p].type = "FIXED_NODE"
             \/ \E j \in 1..Gone : Reserves(Setup[j], p)
             \/ d = "down" /\ Covers(a, p)
    /\ d = "up" /\ new.type = "ALIAS" => t[net].type = "ALIAS"
    /\ \A p \in Prefix :
          Reserves(Head(queue), p) =>
             \/ t[p].type \notin Loose
             \/ LeftOf(p, a)
             \/ d = "down" /\ Covers(a, p)

Made == \/ op = "new_tree" /\ Gone >= Len(Setup)
        \/ op \in {"idle", "insert", "remove"}

SetupInv ==
    /\ opts \in Options /\ QueueLeft /\ Near
    /\ op \in {"insert", "remove"} => \A i \in 1..Len(queue) : queue[i].rec.type \in {"EMPTY", "DATA"}
    /\ SettingUp => SetupPart(recs, at, dir)
    /\ Made => AsMade(Setup, recs)

\* The item the insert loop is at.
LEMMA AtItem ==
    ASSUME Inv, opts \in Options, QueueLeft, op = "new_tree"
    PROVE  /\ Len(queue) \in Nat \ {0} /\ Gone \in Nat
           /\ Setup \in Seq(Item) /\ Len(Setup) \in Nat /\ Len(ToThaw) \in Nat
           /\ Gone = Len(Setup) + Len(ToThaw) - Len(queue)
           /\ net = Head(queue).net /\ new = Head(queue).rec
           /\ Gone < Len(Setup) =>
                /\ Gone + 1 \in 1..Len(Setup) /\ Head(queue) = Setup[Gone + 1]
                /\ FromAlias(opts, Head(queue)) \/ FromReserved(opts, Head(queue))
                /\ new.type \in FixedTypes
           /\ Gone >= Len(Setup) =>
                /\ Gone - Len(Setup) + 1 \in 1..Len(ToThaw)
                /\ Head(queue) = ToThaw[Gone - Len(Setup) + 1]
                /\ new.type = "DATA"
<1>1. /\ queue \in Seq(Item) /\ queue # << >>
      /\ ToThaw \in DataItems /\ Gone \in Nat
      /\ \A i \in 1..Len(queue) : queue[i] = (Setup \o ToThaw)[Gone + i]
  BY RunningFacts DEF Running, QueueLeft
<1>2. /\ Len(queue) \in Nat \ {0} /\ Head(queue) = queue[1] /\ 1 \in 1..Len(queue)
      /\ net = Head(queue).net /\ new = Head(queue).rec
  BY <1>1, QueueFacts DEF net, new
<1>3. Setup \in Seq(Item) /\ ToThaw \in Seq(Item)
  BY <1>1, QueueItems DEF Setup, DataItems
<1>4. /\ Len(Setup) \in Nat /\ Len(ToThaw) \in Nat
      /\ Gone = Len(Setup) + Len(ToThaw) - Len(queue)
  BY <1>3 DEF Gone
<1>5. /\ Head(queue) = (Setup \o ToThaw)[Gone + 1]
      /\ Gone + 1 \in 1..(Len(Setup) + Len(ToThaw))
  BY <1>1, <1>2, <1>4
<1>6. Head(queue) = IF Gone + 1 <= Len(Setup) THEN Setup[Gone + 1]
                    ELSE ToThaw[Gone + 1 - Len(Setup)]
  BY <1>3, <1>4, <1>5, ConcatProperties
<1>7. CASE Gone < Len(Setup)
  <2>1. Gone + 1 \in 1..Len(Setup) /\ Head(queue) = Setup[Gone + 1]
    BY <1>1, <1>4, <1>6, <1>7
  <2>2. FromAlias(opts, Head(queue)) \/ FromReserved(opts, Head(queue))
    BY <1>1, <2>1, QueueItems DEF Setup
  <2>3. new.type \in FixedTypes
    BY <1>2, <2>2, ItemKinds DEF FixedTypes
  <2> QED BY <1>1, <1>2, <1>3, <1>4, <1>7, <2>1, <2>2, <2>3
<1>8. CASE Gone >= Len(Setup)
  <2>1. /\ Gone - Len(Setup) + 1 \in 1..Len(ToThaw)
        /\ Head(queue) = ToThaw[Gone - Len(Setup) + 1]
    <3>1. Gone + 1 - Len(Setup) = Gone - Len(Setup) + 1 /\ ~(Gone + 1 <= Len(Setup))
      BY <1>1, <1>4, <1>8
    <3>2. Gone - Len(Setup) + 1 \in 1..Len(ToThaw)
      BY <1>1, <1>4, <1>5, <1>8
    <3> QED BY <1>6, <3>1, <3>2
  <2>2. new.type = "DATA"
    BY <1>1, <1>2, <2>1 DEF DataItems
  <2> QED BY <1>1, <1>2, <1>3, <1>4, <1>8, <2>1, <2>2
<1> QED BY <1>1, <1>4, <1>7, <1>8

\* Where the recursion can be.
LEMMA NearStep == ASSUME Inv, Shape, Near, Recurse, Shape', op' # "freed" PROVE Near'
<1>1. op \in Running /\ op' = op /\ net' = net
  BY RecurseFrame
<1>2. /\ at \in Prefix /\ net \in Prefix /\ Comparable(at, net) /\ recs[at].type # "ABSENT"
      /\ recs \in [Prefix -> Record] /\ new \in Record /\ new.type \notin {"ABSENT", "NODE"}
  BY <1>1, RunningFacts DEF Near
<1>3. Len(at) \in Nat /\ Len(net) \in Nat /\ Len(at) <= W
  BY <1>2, PrefixLength
<1>4. CASE SetRecord \/ MergeRecord \/ Ignore
  <2>1. at' = at
    BY <1>4 DEF SetRecord, MergeRecord, Ignore
  <2>2. recs'[at].type # "ABSENT"
    <3>1. CASE SetRecord
      BY <1>2, <3>1, GraftFacts DEF SetRecord
    <3>2. CASE MergeRecord
      <4>1. Data(Merged) \in Record /\ Data(Merged).type = "DATA" /\ recs' = Graft(at, Data(Merged))
        BY <3>2, RecordFacts DEF MergeRecord
      <4> QED BY <1>2, <4>1, GraftFacts
    <3>3. CASE Ignore
      BY <1>2, <3>3 DEF Ignore
    <3> QED BY <1>4, <3>1, <3>2, <3>3
  <2> QED BY <1>1, <1>2, <2>1, <2>2 DEF Near
<1>5. CASE Descend
  <2>1. /\ Len(at) < W
        /\ at' = Child(at, IF Inside THEN 1 ELSE net[Len(at) + 1])
        /\ recs[at].type \in {"EMPTY", "DATA", "NODE", "FIXED_NODE"}
        /\ recs' = IF HasNode(recs[at])
                   THEN [recs EXCEPT ![at] = Plain(NodeType)] ELSE Split(at, NodeType)
    BY <1>5, DescendRoom DEF Descend
  <2>2. NodeType \in PlainTypes /\ NodeType \in {"NODE", "FIXED_NODE"}
        /\ Plain(NodeType).type = NodeType
    BY DEF NodeType, PlainTypes, FixedTypes, Plain
  <2>3. HasNode(recs'[at])
    <3>1. recs'[at] = Plain(NodeType)
      <4>1. CASE HasNode(recs[at])
        BY <1>2, <2>1, <4>1
      <4>2. CASE ~HasNode(recs[at])
        BY <1>2, <2>1, <2>2, <4>2, SplitFacts
      <4> QED BY <4>1, <4>2
    <3> QED BY <2>2, <3>1 DEF HasNode
  <2>4. ASSUME NEW c \in Bit PROVE Child(at, c) \in Prefix /\ recs'[Child(at, c)].type # "ABSENT"
    <3>1. Child(at, c) \in Prefix /\ Child(at, c) # << >> /\ Parent(Child(at, c)) = at
      BY <1>2, <2>1, <2>4, ChildIsPrefix, AboveChild
    <3> QED BY <2>3, <3>1 DEF Shape
  <2>5. CASE Inside
    <3>1. Covers(net, at)
      BY <1>2, <1>3, <2>5, CoversOrder DEF Comparable, Inside, Covers
    <3>2. 1 \in Bit /\ at' = Child(at, 1)
      BY <2>1, <2>5 DEF Bit
    <3>3. Covers(net, Child(at, 1))
      BY <1>2, <2>1, <3>1, <3>2, AboveChild, ChildIsPrefix, BelowIsCovers
    <3> QED BY <1>1, <2>4, <3>2, <3>3 DEF Near, Comparable
  <2>6. CASE ~Inside
    <3>1. Below(at, net)
      BY <1>2, <1>3, <2>6 DEF Comparable, Inside, Covers, Below
    <3>2. net[Len(at) + 1] \in Bit /\ Covers(Child(at, net[Len(at) + 1]), net)
      BY <1>2, <3>1, ChildToward
    <3>3. at' = Child(at, net[Len(at) + 1])
      BY <2>1, <2>6
    <3> QED BY <1>1, <2>4, <3>2, <3>3 DEF Near, Comparable
  <2> QED BY <2>5, <2>6
<1>6. CASE GoLeft \/ Trim
  <2> DEFINE x == Parent(at)
             b == at[Len(at)]
  <2>1. at # << >>
    BY <1>6 DEF GoLeft, Trim, Up
  <2>2. x \in Prefix /\ Len(x) = Len(at) - 1 /\ b \in Bit /\ at = Child(x, b) /\ Len(x) < W
    BY <1>2, <2>1, ParentIsPrefix, ChildOfParent
  <2>3. HasNode(recs[x])
    BY <1>2, <2>1 DEF Shape
  <2>4. /\ GoLeft => at' = Child(x, 0) /\ recs' = recs /\ Len(net) <= Len(x)
        /\ Trim => at' = x /\ recs' = (IF Trimmable(x) THEN Graft(x, recs[Child(x, 0)]) ELSE recs)
    BY DEF GoLeft, LeftIsNext, Trim
  <2>5. 0 \in Bit
    BY DEF Bit
  <2> HIDE DEF x, b
  <2>6. CASE GoLeft
    <3>1. Covers(net, x)
      <4>1. Covers(net, at) /\ net # at
        BY <1>2, <1>3, <2>2, <2>4, <2>6 DEF Comparable, Covers
      <4> QED BY <1>2, <2>2, <4>1, AboveChild, BelowIsCovers
    <3>2. /\ Child(x, 0) \in Prefix /\ Child(x, 0) # << >> /\ Parent(Child(x, 0)) = x
          /\ Covers(net, Child(x, 0))
      BY <1>2, <2>2, <2>5, <3>1, AboveChild, ChildIsPrefix, BelowIsCovers
    <3>3. recs[Child(x, 0)].type # "ABSENT"
      BY <1>1, <2>3, <3>2 DEF Shape, Running
    <3> QED BY <1>1, <2>4, <2>6, <3>2, <3>3 DEF Near, Comparable
  <2>7. CASE Trim
    <3>1. Comparable(x, net)
      <4>1. CASE Covers(at, net)
        <5>1. Covers(x, at)
          BY <1>2, <2>2, AboveChild, BelowIsCovers
        <5> QED BY <1>2, <2>2, <4>1, <5>1, CoversOrder DEF Comparable
      <4>2. CASE Covers(net, at) /\ net # at
        BY <1>2, <2>2, <4>2, AboveChild, BelowIsCovers DEF Comparable
      <4> QED BY <1>2, <4>1, <4>2, CoversOrder DEF Comparable
    <3>2. recs'[x].type # "ABSENT"
      <4>1. CASE Trimmable(x)
        <5>1. /\ Child(x, 0) \in Prefix /\ recs[Child(x, 0)] \in Record
              /\ recs[Child(x, 0)].type \in {"EMPTY", "DATA"}
          BY <1>2, <2>2, <2>5, <4>1, ChildIsPrefix DEF Trimmable, Identical
        <5> DEFINE r == recs[Child(x, 0)]
        <5>2. r \in Record /\ r.type # "ABSENT" /\ recs' = Graft(x, r)
          BY <2>4, <2>7, <4>1, <5>1
        <5> HIDE DEF r
        <5> QED BY <1>2, <2>2, <5>2, GraftFacts
      <4>2. CASE ~Trimmable(x)
        BY <2>3, <2>4, <2>7, <4>2 DEF HasNode
      <4> QED BY <4>1, <4>2
    <3> QED BY <1>1, <2>4, <2>7, <3>1, <3>2 DEF Near
  <2> QED BY <1>6, <2>6, <2>7
<1> QED BY <1>4, <1>5, <1>6 DEF Recurse

-----------------------------------------------------------------------------
(* The steps of new_tree at its own items                                  *)

\* Where the recursion is, and with what.
LEMMA SetupFacts ==
    ASSUME Inv, Shape, SetupInv, SettingUp
    PROVE  /\ op = "new_tree" /\ strategy = "none" /\ opts \in Options
           /\ at \in Prefix /\ net \in Prefix /\ recs \in [Prefix -> Record] /\ IsTree(recs)
           /\ new \in Record /\ new.type \in FixedTypes
           /\ Setup \in Seq(Item) /\ Len(Setup) \in Nat /\ Gone \in Nat
           /\ Gone + 1 \in 1..Len(Setup) /\ Head(queue) = Setup[Gone + 1]
           /\ net = Setup[Gone + 1].net /\ new = Setup[Gone + 1].rec
           /\ SetupPart(recs, at, dir)
           /\ recs[at].type \in {"EMPTY"} \cup FixedTypes
           /\ Inside <=> Covers(net, at)
           /\ ~Inside <=> Below(at, net)
<1>1. op = "new_tree" /\ op \in Running /\ Gone < Len(Setup)
  BY DEF SettingUp, Running
<1>2. strategy = "none" /\ opts \in Options
  BY <1>1 DEF SetupInv, QueueLeft
<1>3. /\ at \in Prefix /\ net \in Prefix /\ recs \in [Prefix -> Record] /\ new \in Record
      /\ recs[at] \in Record
  BY <1>1, RunningFacts
<1>4. /\ Setup \in Seq(Item) /\ Len(Setup) \in Nat /\ Gone \in Nat
      /\ Gone + 1 \in 1..Len(Setup) /\ Head(queue) = Setup[Gone + 1]
      /\ net = Setup[Gone + 1].net /\ new = Setup[Gone + 1].rec /\ new.type \in FixedTypes
  <2>1. QueueLeft
    BY DEF SetupInv
  <2> QED BY <1>1, <1>2, <2>1, AtItem
<1>5. IsTree(recs)
  BY <1>1, <1>3 DEF IsTree, Shape, Inv, Depth
<1>6. SetupPart(recs, at, dir)
  BY DEF SetupInv
<1>7. Comparable(at, net) /\ recs[at].type # "ABSENT"
  BY <1>1 DEF SetupInv, Near
<1>8. recs[at].type \in {"EMPTY"} \cup FixedTypes
  <2>1. recs[at].type \notin {"NODE", "DATA"}
    BY <1>3, <1>6 DEF SetupPart
  <2>2. recs[at].type \in PlainTypes
    BY <1>3, <2>1, RecordFacts
  <2> QED BY <1>7, <2>1, <2>2 DEF PlainTypes
<1>9. (Inside <=> Covers(net, at)) /\ (~Inside <=> Below(at, net))
  <2>1. Len(at) \in Nat /\ Len(net) \in Nat
    BY <1>3, PrefixLength
  <2>2. Len(at) = Len(net) /\ Covers(at, net) => at = net
    BY <1>3, <2>1, BelowIsCovers DEF Below
  <2>3. Covers(net, at) => Len(net) <= Len(at)
    BY <1>3, BelowIsCovers
  <2>4. Covers(at, net) => Len(at) <= Len(net)
    BY <1>3, BelowIsCovers
  <2>5. Covers(net, net)
    BY <1>3, CoversOrder
  <2> QED BY <1>7, <2>1, <2>2, <2>3, <2>4, <2>5 DEF Inside, Comparable, Below
<1> QED BY <1>1, <1>2, <1>3, <1>4, <1>5, <1>6, <1>8, <1>9

\* While it is at the IPv4 root and the aliases.
LEMMA SetupAlias ==
    ASSUME Inv, Shape, SetupInv, SettingUp, new.type \in {"ALIAS", "FIXED_NODE"}
    PROVE  /\ \A i \in 1..(Gone + 1) : Setup[i].rec.type # "FIXED_EMPTY"
           /\ new.type = "ALIAS" => recs[net].type # "FIXED_NODE"
<1>1. /\ opts \in Options /\ Gone \in Nat /\ Gone + 1 \in 1..Len(Setup) /\ net \in Prefix
      /\ net = Setup[Gone + 1].net /\ new = Setup[Gone + 1].rec /\ Setup \in Seq(Item)
      /\ SetupPart(recs, at, dir)
  BY SetupFacts
<1>2. FromAlias(opts, Setup[Gone + 1])
  <2>1. FromAlias(opts, Setup[Gone + 1]) \/ FromReserved(opts, Setup[Gone + 1])
    BY <1>1, QueueItems DEF Setup
  <2> QED BY <1>1, <2>1, ItemKinds
<1>3. \A i \in 1..(Gone + 1) : FromAlias(opts, Setup[i])
  BY <1>1, <1>2, AliasesFirst DEF Setup
<1>4. \A i \in 1..(Gone + 1) : Setup[i].rec.type # "FIXED_EMPTY"
  BY <1>3, ItemKinds
<1>5. ASSUME new.type = "ALIAS", recs[net].type = "FIXED_NODE" PROVE FALSE
  <2>1. PICK j \in 1..Len(Aliases) : net = Aliases[j]
    BY <1>1, <1>2, <1>5, ItemKinds
  <2>2. FixedNode(Setup, Gone + 1, net)
    BY <1>1, <1>5 DEF SetupPart, Sound
  <2>3. PICK i \in 1..(Gone + 1) : Marks(Setup[i], net)
    BY <2>2 DEF FixedNode
  <2>4. i \in 1..Len(Setup)
    BY <1>1
  <2>5. Setup[i].net \in Prefix
    BY <1>1, <2>4, ItemOf
  <2>6. CASE Setup[i].rec.type = "FIXED_NODE" /\ Setup[i].net = V4Root
    <3>1. Covers(net, V4Root)
      BY <1>1, <2>3, <2>5, <2>6, CoversOrder, BelowIsCovers DEF Marks
    <3> QED BY <2>1, <3>1, AliasAssumption
  <2>7. CASE Setup[i].rec.type = "ALIAS" /\ \E k \in 1..Len(Aliases) : Setup[i].net = Aliases[k]
    <3>1. Below(net, Setup[i].net)
      BY <2>3, <2>7 DEF Marks
    <3>2. Covers(net, Setup[i].net) /\ net # Setup[i].net
      BY <1>1, <2>5, <3>1, BelowIsCovers
    <3> QED BY <2>1, <2>7, <3>2, AliasAssumption
  <2> QED BY <1>3, <2>6, <2>7, ItemKinds
<1> QED BY <1>4, <1>5

\* The record is put in the tree.
LEMMA SetupSet ==
    ASSUME Inv, Shape, SetupInv, SettingUp, SetRecord, KeepsFixed
    PROVE  SetupPart(recs', at, "up")
<1>1. /\ op = "new_tree" /\ strategy = "none" /\ opts \in Options
      /\ at \in Prefix /\ net \in Prefix /\ recs \in [Prefix -> Record] /\ IsTree(recs)
      /\ new \in Record /\ new.type \in FixedTypes
      /\ Setup \in Seq(Item) /\ Len(Setup) \in Nat /\ Gone \in Nat
      /\ Gone + 1 \in 1..Len(Setup) /\ Head(queue) = Setup[Gone + 1]
      /\ net = Setup[Gone + 1].net /\ new = Setup[Gone + 1].rec
      /\ SetupPart(recs, at, dir)
      /\ Inside <=> Covers(net, at)
  BY SetupFacts
<1>2. Inside /\ recs' = Graft(at, new) /\ dir = "down" /\ op' = op
      /\ recs[at].type \in {"EMPTY", "DATA", "NODE"}
  BY DEF SetRecord, Settles, Down
<1>3. Covers(net, at)
  BY <1>1, <1>2
<1>4. recs[at].type = "EMPTY"
  BY <1>1, <1>2 DEF SetupPart
<1>5. \A q \in Prefix :
         /\ q = at => recs'[q] = new
         /\ ~Covers(at, q) => recs'[q] = recs[q]
         /\ Below(at, q) => recs'[q] = IF new.type = "FIXED_NODE" /\ Len(q) = Len(at) + 1
                                       THEN Plain("EMPTY") ELSE Plain("ABSENT")
         /\ q = at \/ ~Covers(at, q) \/ Below(at, q)
  BY <1>1, <1>2, GraftedRecords
<1>6. Plain("EMPTY").type = "EMPTY" /\ Plain("ABSENT").type = "ABSENT"
  BY DEF Plain
<1>7. new.type \in {"ALIAS", "FIXED_NODE"} => at = net
  <2>1. CASE new.type = "FIXED_NODE"
    <3>1. Len(at) <= Len(net)
      BY <1>1, <2>1 DEF Inv, CursorOK, Running
    <3>2. Len(at) \in Nat /\ Len(net) \in Nat
      BY <1>1, PrefixLength
    <3> QED BY <1>1, <1>3, <3>1, <3>2, BelowIsCovers DEF Below
  <2>2. CASE new.type = "ALIAS"
    <3> SUFFICES ASSUME at # net PROVE FALSE
      OBVIOUS
    <3>1. Below(net, at)
      BY <1>1, <1>3, BelowIsCovers
    <3>2. HasNode(recs[net])
      BY <1>1, <1>4, <3>1, NodesAbove
    <3>3. recs[net].type = "FIXED_NODE"
      BY <1>1, <3>2 DEF HasNode, SetupPart
    <3> QED BY <2>2, <3>3, SetupAlias
  <2> QED BY <2>1, <2>2
<1>8. \A p \in Prefix : recs'[p].type \notin {"NODE", "DATA"}
  <2> TAKE p \in Prefix
  <2>1. recs[p].type \notin {"NODE", "DATA"}
    BY <1>1 DEF SetupPart
  <2>2. new.type \notin {"NODE", "DATA"}
    BY <1>1 DEF FixedTypes
  <2> QED BY <1>5, <1>6, <2>1, <2>2
<1>9. Recurse
  BY DEF Recurse
<1>10. Complete(Setup, Gone, recs')
  BY <1>1, <1>9, CompleteKept DEF SetupPart
<1>11. Sound(Setup, Gone + 1, recs')
  <2> SUFFICES ASSUME NEW p \in Prefix
               PROVE  /\ recs'[p].type = "FIXED_NODE" => FixedNode(Setup, Gone + 1, p)
                      /\ recs'[p].type = "FIXED_EMPTY" => \E i \in 1..(Gone + 1) : Reserves(Setup[i], p)
                      /\ recs'[p].type = "ALIAS" => \E i \in 1..(Gone + 1) : IsAlias(Setup[i], p)
    BY DEF Sound
  <2>1. CASE p # at
    <3>1. recs'[p] = recs[p] \/ recs'[p].type \in {"EMPTY", "ABSENT"}
      BY <1>5, <1>6, <2>1
    <3> QED BY <1>1, <3>1 DEF SetupPart, Sound
  <2>2. CASE p = at
    <3>1. recs'[p] = new /\ Gone + 1 \in 1..(Gone + 1)
      BY <1>1, <1>5, <2>2
    <3>2. new.type = "FIXED_NODE" => FixedNode(Setup, Gone + 1, p)
      <4> SUFFICES ASSUME new.type = "FIXED_NODE" PROVE FixedNode(Setup, Gone + 1, p)
        OBVIOUS
      <4>1. Marks(Setup[Gone + 1], p)
        BY <1>1, <1>7, <2>2 DEF Marks
      <4>2. \A j \in 1..(Gone + 1) : ~Reserves(Setup[j], p)
        BY SetupAlias DEF Reserves
      <4> QED BY <1>1, <3>1, <4>1, <4>2 DEF FixedNode
    <3>3. new.type = "FIXED_EMPTY" => Reserves(Setup[Gone + 1], p)
      BY <1>1, <1>3, <2>2 DEF Reserves
    <3>4. new.type = "ALIAS" => IsAlias(Setup[Gone + 1], p)
      BY <1>1, <1>7, <2>2 DEF IsAlias
    <3> QED BY <3>1, <3>2, <3>3, <3>4
  <2> QED BY <2>1, <2>2
<1>12. ASSUME NEW p \in Prefix, Marks(Head(queue), p)
       PROVE  recs'[p].type = "FIXED_NODE" \/ \E j \in 1..Gone : Reserves(Setup[j], p)
  <2>1. CASE recs[p].type = "FIXED_NODE"
    BY <1>1, <1>2, <2>1 DEF KeepsFixed, FixedTypes
  <2>2. CASE Covers(at, p)
    <3>1. Covers(net, p)
      BY <1>1, <1>3, <2>2, CoversOrder
    <3>2. ~Below(p, net)
      BY <1>1, <3>1, BelowIsCovers, CoversOrder
    <3>3. new.type = "FIXED_NODE" /\ p = net
      BY <1>1, <1>12, <3>2 DEF Marks
    <3> QED BY <1>1, <1>5, <1>7, <3>3
  <2> QED BY <1>1, <1>12, <2>1, <2>2 DEF SetupPart
<1>13. new.type = "ALIAS" => recs'[net].type = "ALIAS"
  BY <1>1, <1>5, <1>7
<1>14. ASSUME NEW p \in Prefix, Reserves(Head(queue), p)
       PROVE  recs'[p].type \notin Loose \/ LeftOf(p, at)
  <2>1. new.type = "FIXED_EMPTY"
    BY <1>1, <1>14 DEF Reserves
  <2>2. CASE Covers(at, p)
    <3>1. recs'[p] = new \/ recs'[p] = Plain("ABSENT")
      BY <1>5, <2>1, <2>2
    <3> QED BY <1>6, <2>1, <3>1 DEF Loose
  <2>3. CASE ~Covers(at, p)
    <3>1. recs'[p] = recs[p]
      BY <1>5, <2>3
    <3> QED BY <1>1, <1>14, <2>3, <3>1 DEF SetupPart
  <2> QED BY <2>2, <2>3
<1> QED BY <1>8, <1>10, <1>11, <1>12, <1>13, <1>14 DEF SetupPart

\* The record meets what was reserved or aliased before.
LEMMA SetupIgnore ==
    ASSUME Inv, Shape, SetupInv, SettingUp, Ignore
    PROVE  SetupPart(recs, at, "up")
<1>1. /\ op = "new_tree" /\ strategy = "none"
      /\ at \in Prefix /\ net \in Prefix /\ recs \in [Prefix -> Record] /\ IsTree(recs)
      /\ Setup \in Seq(Item) /\ Len(Setup) \in Nat /\ Gone \in Nat
      /\ Gone + 1 \in 1..Len(Setup) /\ Head(queue) = Setup[Gone + 1]
      /\ net = Setup[Gone + 1].net /\ new = Setup[Gone + 1].rec
      /\ SetupPart(recs, at, dir)
      /\ Inside <=> Covers(net, at)
  BY SetupFacts
<1>2. \/ recs[at].type = "FIXED_EMPTY"
      \/ recs[at].type = "ALIAS" /\ Len(at) > Len(net)
  BY <1>1 DEF Ignore, SkipsEmpty
<1>3. Len(at) \in Nat /\ Len(net) \in Nat
  BY <1>1, PrefixLength
<1>4. recs[at].type = "ALIAS" => Covers(net, at) /\ net # at
  BY <1>1, <1>2, <1>3 DEF Inside
<1>5. ASSUME recs[at].type = "FIXED_EMPTY"
      PROVE  \E i \in 1..(Gone + 1) : Reserves(Setup[i], at)
  BY <1>1, <1>5 DEF SetupPart, Sound
<1>6. ASSUME NEW p \in Prefix, Marks(Head(queue), p), Covers(at, p)
      PROVE  \E j \in 1..Gone : Reserves(Setup[j], p)
  <2>1. ~Covers(net, at) \/ (net = at /\ new.type = "FIXED_NODE")
    <3> SUFFICES ASSUME Covers(net, at)
                 PROVE  net = at /\ new.type = "FIXED_NODE"
      OBVIOUS
    <3>1. Covers(net, p)
      BY <1>1, <1>6, CoversOrder
    <3>2. new.type = "FIXED_NODE" /\ p = net
      BY <1>1, <1>6, <3>1, BelowIsCovers, CoversOrder DEF Marks
    <3> QED BY <1>1, <1>6, <3>2, CoversOrder
  <2>2. recs[at].type = "FIXED_EMPTY"
    BY <1>2, <1>4, <2>1
  <2>3. PICK i \in 1..(Gone + 1) : Reserves(Setup[i], at)
    BY <1>5, <2>2
  <2>4. i # Gone + 1
    BY <1>1, <2>1, <2>3 DEF Reserves
  <2>5. i \in 1..Gone /\ i \in 1..Len(Setup)
    BY <1>1, <2>4
  <2>6. Setup[i].net \in Prefix
    BY <1>1, <2>5, ItemOf
  <2>7. Reserves(Setup[i], p)
    BY <1>1, <1>6, <2>3, <2>6, CoversOrder DEF Reserves
  <2> QED BY <2>5, <2>7
<1>7. new.type # "ALIAS"
  <2> SUFFICES ASSUME new.type = "ALIAS" PROVE FALSE
    OBVIOUS
  <2>1. /\ \A i \in 1..(Gone + 1) : Setup[i].rec.type # "FIXED_EMPTY"
        /\ recs[net].type # "FIXED_NODE"
    BY SetupAlias
  <2>2. recs[at].type = "ALIAS"
    BY <1>2, <1>5, <2>1 DEF Reserves
  <2>3. Below(net, at)
    BY <1>1, <1>4, <2>2, BelowIsCovers
  <2>4. HasNode(recs[net])
    BY <1>1, <2>2, <2>3, NodesAbove
  <2> QED BY <1>1, <2>1, <2>4 DEF HasNode, SetupPart
<1>8. ASSUME NEW p \in Prefix, Covers(at, p) PROVE recs[p].type \notin Loose
  <2>1. CASE p = at
    BY <1>2, <2>1 DEF Loose
  <2>2. CASE p # at
    <3>1. Below(at, p)
      BY <1>1, <1>8, <2>2, BelowIsCovers
    <3>2. ~HasNode(recs[at])
      BY <1>2 DEF HasNode
    <3>3. recs[p].type = "ABSENT"
      BY <1>1, <3>1, <3>2, NodesAbove
    <3> QED BY <3>3 DEF Loose
  <2> QED BY <2>1, <2>2
<1> QED BY <1>1, <1>6, <1>7, <1>8 DEF SetupPart

\* The recursion goes further down, or on to a right half.
LEMMA SetupDescend ==
    ASSUME Inv, Shape, SetupInv, SettingUp, Descend, KeepsFixed
    PROVE  SetupPart(recs', at', "down")
<1>1. /\ op = "new_tree" /\ strategy = "none"
      /\ at \in Prefix /\ net \in Prefix /\ recs \in [Prefix -> Record] /\ IsTree(recs)
      /\ new.type \in FixedTypes
      /\ Setup \in Seq(Item) /\ Len(Setup) \in Nat /\ Gone \in Nat
      /\ Gone + 1 \in 1..Len(Setup) /\ Head(queue) = Setup[Gone + 1]
      /\ net = Setup[Gone + 1].net /\ new = Setup[Gone + 1].rec
      /\ SetupPart(recs, at, dir)
      /\ Inside <=> Covers(net, at)
      /\ ~Inside <=> Below(at, net)
      /\ recs[at] \in Record
  BY SetupFacts
<1>2. /\ ~Settles /\ Down /\ op' = op /\ Len(at) < W
      /\ recs[at].type \in {"EMPTY", "DATA", "NODE", "FIXED_NODE"}
      /\ recs' = IF HasNode(recs[at])
                 THEN [recs EXCEPT ![at] = Plain(NodeType)] ELSE Split(at, NodeType)
      /\ at' = Child(at, IF Inside THEN 1 ELSE net[Len(at) + 1])
  BY DescendRoom DEF Descend
<1>3. NodeType = "FIXED_NODE" /\ "FIXED_NODE" \in PlainTypes /\ "FIXED_NODE" \in FixedTypes
      /\ Plain("FIXED_NODE").type = "FIXED_NODE"
  BY <1>1 DEF NodeType, PlainTypes, FixedTypes, Plain
<1>4. recs[at].type \in {"EMPTY", "FIXED_NODE"}
  BY <1>1, <1>2 DEF SetupPart
<1>5. Inside => recs[at].type = "FIXED_NODE"
  BY <1>2, <1>4 DEF Settles
<1>6. recs[at].type = "FIXED_NODE" => recs' = recs
  <2> SUFFICES ASSUME recs[at].type = "FIXED_NODE" PROVE recs' = recs
    OBVIOUS
  <2>1. recs[at] = Plain("FIXED_NODE") /\ HasNode(recs[at])
    BY <1>1, RecordFacts DEF HasNode
  <2> QED BY <1>1, <1>2, <1>3, <2>1
<1>7. recs[at].type = "EMPTY" =>
         /\ recs'[at] = Plain("FIXED_NODE")
         /\ \A c \in Bit : recs'[Child(at, c)] = recs[at]
         /\ \A u \in Prefix : u # at /\ u # Child(at, 0) /\ u # Child(at, 1) => recs'[u] = recs[u]
  BY <1>1, <1>2, <1>3, SplitFacts DEF HasNode
<1>8. 0 \in Bit /\ 1 \in Bit /\ Recurse
  BY DEF Bit, Recurse
<1>9. recs'[at].type = "FIXED_NODE"
  BY <1>3, <1>4, <1>6, <1>7
<1>10. \A p \in Prefix : recs'[p].type \notin {"NODE", "DATA"}
  <2> TAKE p \in Prefix
  <2>1. recs[p].type \notin {"NODE", "DATA"} /\ recs[at].type \notin {"NODE", "DATA"}
    BY <1>1 DEF SetupPart
  <2>2. recs'[p] = recs[p] \/ recs'[p] = recs[at] \/ p = at
    BY <1>4, <1>6, <1>7, <1>8
  <2> QED BY <1>9, <2>1, <2>2
<1>11. Complete(Setup, Gone, recs')
  BY <1>1, <1>8, CompleteKept DEF SetupPart
<1>12. Sound(Setup, Gone + 1, recs')
  <2> SUFFICES ASSUME NEW p \in Prefix
               PROVE  /\ recs'[p].type = "FIXED_NODE" => FixedNode(Setup, Gone + 1, p)
                      /\ recs'[p].type = "FIXED_EMPTY" => \E i \in 1..(Gone + 1) : Reserves(Setup[i], p)
                      /\ recs'[p].type = "ALIAS" => \E i \in 1..(Gone + 1) : IsAlias(Setup[i], p)
    BY DEF Sound
  <2>1. CASE recs'[p].type = recs[p].type
    BY <1>1, <2>1 DEF SetupPart, Sound
  <2>2. CASE recs'[p].type # recs[p].type
    <3>1. recs'[p].type \in FixedTypes => p = at
      <4>1. ~SetRecord
        BY <1>2 DEF SetRecord
      <4> QED BY <1>8, <2>2, <4>1, NewFixed
    <3>2. p = at => FixedNode(Setup, Gone + 1, at)
      <4> SUFFICES ASSUME p = at PROVE FixedNode(Setup, Gone + 1, at)
        OBVIOUS
      <4>1. recs[at].type = "EMPTY"
        BY <1>4, <1>6, <2>2
      <4>2. Below(at, net)
        BY <1>1, <1>5, <4>1
      <4>3. \A j \in 1..Gone : ~Reserves(Setup[j], at)
        BY <1>1, <4>1 DEF SetupPart, Complete, Loose
      <4>4. Gone + 1 \in 1..(Gone + 1) /\ Marks(Setup[Gone + 1], at) /\ (Gone + 1) - 1 = Gone
        BY <1>1, <4>2 DEF Marks
      <4> QED BY <4>3, <4>4 DEF FixedNode
    <3> QED BY <1>9, <3>1, <3>2 DEF FixedTypes
  <2> QED BY <2>1, <2>2
<1>13. ASSUME NEW p \in Prefix, Marks(Head(queue), p)
       PROVE  \/ recs'[p].type = "FIXED_NODE"
              \/ \E j \in 1..Gone : Reserves(Setup[j], p)
              \/ Covers(at', p)
  <2>1. CASE recs[p].type = "FIXED_NODE"
    BY <1>1, <1>2, <1>3, <2>1 DEF KeepsFixed, Running
  <2>2. CASE Covers(at, p)
    <3>1. p = at \/ Covers(Child(at, 0), p) \/ Covers(Child(at, 1), p)
      BY <1>1, <1>2, <2>2, HalvesInOrder
    <3>2. CASE p = at
      BY <1>9, <3>2
    <3>3. CASE p # at
      <4>1. PICK c \in Bit : Covers(Child(at, c), p)
        BY <1>8, <3>1, <3>3
      <4>2. Child(at, c) \in Prefix /\ Below(at, Child(at, c))
        BY <1>1, <1>2, <4>1, ChildIsPrefix, AboveChild
      <4>3. Covers(p, net)
        BY <1>1, <1>13, BelowIsCovers, CoversOrder DEF Marks
      <4>4. Covers(Child(at, c), net)
        BY <1>1, <4>1, <4>2, <4>3, CoversOrder
      <4>5. Below(at, net)
        <5>1. Covers(at, net) /\ at # net
          BY <1>1, <4>2, <4>4, BelowIsCovers, CoversOrder
        <5> QED BY <1>1, <5>1, BelowIsCovers
      <4>6. /\ at' = Child(at, net[Len(at) + 1]) /\ net[Len(at) + 1] \in Bit
            /\ Covers(Child(at, net[Len(at) + 1]), net)
        BY <1>1, <1>2, <4>5, ChildToward
      <4>7. c = net[Len(at) + 1]
        BY <1>1, <1>2, <4>4, <4>6, HalvesInOrder DEF Bit
      <4> QED BY <4>1, <4>6, <4>7
    <3> QED BY <3>2, <3>3
  <2> QED BY <1>1, <1>13, <2>1, <2>2 DEF SetupPart
<1>14. ASSUME NEW p \in Prefix, Reserves(Head(queue), p)
       PROVE  recs'[p].type \notin Loose \/ LeftOf(p, at') \/ Covers(at', p)
  <2>1. Covers(net, p)
    BY <1>1, <1>14 DEF Reserves
  <2>2. CASE ~Inside
    <3>1. /\ at' = Child(at, net[Len(at) + 1]) /\ net[Len(at) + 1] \in Bit
          /\ Covers(Child(at, net[Len(at) + 1]), net)
      BY <1>1, <1>2, <2>2, ChildToward
    <3>2. Child(at, net[Len(at) + 1]) \in Prefix
      BY <1>1, <1>2, <3>1, ChildIsPrefix
    <3> QED BY <1>1, <2>1, <3>1, <3>2, CoversOrder
  <2>3. CASE Inside
    <3>1. recs' = recs /\ at' = Child(at, 1)
      BY <1>2, <1>5, <1>6, <2>3
    <3>2. recs[p].type \notin Loose \/ LeftOf(p, at) \/ Covers(at, p)
      BY <1>1, <1>14 DEF SetupPart
    <3>3. LeftOf(p, Child(at, 1)) <=> LeftOf(p, at) \/ Covers(Child(at, 0), p)
      BY <1>1, <1>2, HalvesInOrder
    <3>4. CASE Covers(at, p)
      <4>1. p = at \/ Covers(Child(at, 0), p) \/ Covers(Child(at, 1), p)
        BY <1>1, <1>2, <3>4, HalvesInOrder
      <4> QED BY <1>9, <3>1, <3>3, <4>1 DEF Loose
    <3> QED BY <3>1, <3>2, <3>3, <3>4
  <2> QED BY <2>2, <2>3
<1> QED BY <1>10, <1>11, <1>12, <1>13, <1>14 DEF SetupPart

\* The recursion goes on to a left half.
LEMMA SetupGoLeft ==
    ASSUME Inv, Shape, SetupInv, SettingUp, GoLeft
    PROVE  SetupPart(recs, at', "down")
<1>1. at \in Prefix /\ SetupPart(recs, at, dir)
  BY SetupFacts
<1> DEFINE x == Parent(at)
<1>2. /\ at # << >> /\ dir = "up" /\ at[Len(at)] = 1 /\ at' = Child(x, 0)
  BY DEF GoLeft, Up, LeftIsNext
<1>3. x \in Prefix /\ Len(x) < W /\ at = Child(x, 1)
  BY <1>1, <1>2, ParentIsPrefix, ChildOfParent
<1> HIDE DEF x
<1>4. \A p \in Prefix : LeftOf(p, at) => LeftOf(p, at') \/ Covers(at', p)
  BY <1>2, <1>3, HalvesInOrder
<1> QED BY <1>1, <1>2, <1>4 DEF SetupPart

\* The recursion returns.
LEMMA SetupTrim ==
    ASSUME Inv, Shape, SetupInv, SettingUp, Trim
    PROVE  recs' = recs /\ SetupPart(recs, at', "up")
<1>1. /\ at \in Prefix /\ net \in Prefix /\ SetupPart(recs, at, dir)
      /\ Inside <=> Covers(net, at)
      /\ ~Inside <=> Below(at, net)
      /\ net = Setup[Gone + 1].net /\ Head(queue) = Setup[Gone + 1]
  BY SetupFacts
<1> DEFINE x == Parent(at)
           b == at[Len(at)]
<1>2. /\ at # << >> /\ dir = "up" /\ at' = x /\ (b = 1 => ~(Len(x) >= Len(net)))
      /\ ~Trimmable(x) => recs' = recs
  BY DEF Trim, Up, LeftIsNext
<1>3. x \in Prefix /\ Len(x) < W /\ b \in Bit /\ at = Child(x, b) /\ Len(x) = Len(at) - 1
      /\ Len(at) \in Nat /\ Len(net) \in Nat
  BY <1>1, <1>2, ParentIsPrefix, ChildOfParent, PrefixLength
<1>4. recs' = recs
  <2>1. recs[x].type # "NODE"
    BY <1>1, <1>3 DEF SetupPart
  <2> QED BY <1>2, <2>1 DEF Trimmable
<1> HIDE DEF x, b
<1>5. ASSUME NEW p \in Prefix, Reserves(Head(queue), p), LeftOf(p, at)
      PROVE  LeftOf(p, x)
  <2>1. CASE b = 0
    BY <1>3, <1>5, <2>1, HalvesInOrder
  <2>2. CASE b = 1
    <3> SUFFICES ASSUME Covers(Child(x, 0), p) PROVE FALSE
      BY <1>3, <1>5, <2>2, HalvesInOrder
    <3>1. Len(x) < Len(net) /\ Len(at) <= Len(net)
      BY <1>2, <1>3, <2>2
    <3>2. Covers(at, net)
      <4>1. CASE Inside
        <5>1. Covers(net, at) /\ Len(at) = Len(net)
          BY <1>1, <1>3, <3>1, <4>1 DEF Inside
        <5>2. at = net
          BY <1>1, <1>3, <5>1, BelowIsCovers DEF Below
        <5> QED BY <1>1, <5>2, CoversOrder
      <4>2. CASE ~Inside
        BY <1>1, <4>2 DEF Below
      <4> QED BY <4>1, <4>2
    <3>3. Covers(net, p)
      BY <1>1, <1>5 DEF Reserves
    <3>4. Covers(at, p)
      BY <1>1, <3>2, <3>3, CoversOrder
    <3> QED BY <1>3, <2>2, <3>4, HalvesInOrder
  <2> QED BY <1>3, <2>1, <2>2 DEF Bit
<1> QED BY <1>1, <1>2, <1>4, <1>5 DEF SetupPart

\* Every step of the recursion.
LEMMA SetupStep ==
    ASSUME Inv, Shape, SetupInv, SettingUp, Recurse, KeepsFixed
    PROVE  SetupPart(recs', at', dir')
<1>1. op = "new_tree" /\ strategy = "none"
  BY SetupFacts
<1>2. ~MergeRecord
  BY <1>1 DEF MergeRecord, Merges
<1>3. CASE SetRecord
  <2>1. at' = at /\ dir' = "up"
    BY <1>3 DEF SetRecord
  <2> QED BY <1>3, <2>1, SetupSet
<1>4. CASE Ignore
  <2>1. at' = at /\ dir' = "up" /\ recs' = recs
    BY <1>4 DEF Ignore
  <2> QED BY <1>4, <2>1, SetupIgnore
<1>5. CASE Descend
  <2>1. dir' = "down"
    BY <1>5 DEF Descend, Down
  <2> QED BY <1>5, <2>1, SetupDescend
<1>6. CASE GoLeft
  <2>1. dir' = "down" /\ recs' = recs
    BY <1>6 DEF GoLeft
  <2> QED BY <1>6, <2>1, SetupGoLeft
<1>7. CASE Trim
  <2>1. dir' = "up"
    BY <1>7 DEF Trim, Up
  <2> QED BY <1>7, <2>1, SetupTrim
<1> QED BY <1>2, <1>3, <1>4, <1>5, <1>6, <1>7 DEF Recurse

-----------------------------------------------------------------------------
(* Every step keeps what was made                                          *)

\* Once the last of new_tree's items is done, all of them are in the tree.
LEMMA SetupDone ==
    ASSUME Inv, Shape, SetupInv, SettingUp, at = << >>, dir = "up"
    PROVE  Sound(Setup, Gone + 1, recs) /\ Complete(Setup, Gone + 1, recs)
<1>1. /\ Setup \in Seq(Item) /\ Len(Setup) \in Nat /\ Gone \in Nat
      /\ Gone + 1 \in 1..Len(Setup) /\ Head(queue) = Setup[Gone + 1]
      /\ net = Setup[Gone + 1].net /\ new = Setup[Gone + 1].rec
      /\ SetupPart(recs, at, dir)
  BY SetupFacts
<1>2. ASSUME NEW i \in 1..(Gone + 1) PROVE i \in 1..Gone \/ Setup[i] = Head(queue)
  BY <1>1
<1>3. ASSUME NEW p \in Prefix, FixedNode(Setup, Gone + 1, p)
      PROVE  recs[p].type = "FIXED_NODE"
  <2>1. PICK i \in 1..(Gone + 1) :
           Marks(Setup[i], p) /\ \A j \in 1..(i - 1) : ~Reserves(Setup[j], p)
    BY <1>3 DEF FixedNode
  <2>2. CASE i \in 1..Gone
    <3>1. FixedNode(Setup, Gone, p)
      BY <2>1, <2>2 DEF FixedNode
    <3> QED BY <1>1, <3>1 DEF SetupPart, Complete
  <2>3. CASE i = Gone + 1
    <3>1. Marks(Head(queue), p) /\ \A j \in 1..Gone : ~Reserves(Setup[j], p)
      BY <1>1, <2>1, <2>3
    <3> QED BY <1>1, <3>1 DEF SetupPart
  <2> QED BY <1>1, <2>2, <2>3
<1>4. ASSUME NEW p \in Prefix, NEW i \in 1..(Gone + 1), Reserves(Setup[i], p)
      PROVE  recs[p].type \notin Loose
  <2>1. ~LeftOf(p, << >>)
    BY EmptySeq DEF LeftOf
  <2>2. CASE i \in 1..Gone
    BY <1>1, <1>4, <2>2 DEF SetupPart, Complete
  <2>3. CASE Setup[i] = Head(queue)
    BY <1>1, <1>4, <2>1, <2>3 DEF SetupPart
  <2> QED BY <1>2, <2>2, <2>3
<1>5. ASSUME NEW p \in Prefix, NEW i \in 1..(Gone + 1), IsAlias(Setup[i], p)
      PROVE  recs[p].type = "ALIAS"
  <2>1. CASE i \in 1..Gone
    BY <1>1, <1>5, <2>1 DEF SetupPart, Complete
  <2>2. CASE Setup[i] = Head(queue)
    <3>1. new.type = "ALIAS" /\ p = net
      BY <1>1, <1>5, <2>2 DEF IsAlias, new, net
    <3> QED BY <1>1, <3>1 DEF SetupPart
  <2> QED BY <1>2, <2>1, <2>2
<1> QED BY <1>1, <1>3, <1>4, <1>5 DEF SetupPart, Complete

\* The recursion keeps it.
LEMMA RecurseSetup ==
    ASSUME Inv, Shape, SetupInv, Recurse, KeepsFixed, Shape', UNCHANGED <<task, file>>
    PROVE  SetupInv'
<1>1. op \in Running /\ UNCHANGED <<opts, op, strategy, held, queue>> /\ net' = net /\ new' = new
  BY RecurseFrame
<1>2. Setup' = Setup /\ ToThaw' = ToThaw /\ Gone' = Gone /\ opts \in Options
  BY <1>1 DEF Setup, ToThaw, Gone, SetupInv
<1>3. QueueLeft'
  BY <1>1, <1>2 DEF SetupInv, QueueLeft
<1>4. Near'
  BY <1>1, NearStep DEF SetupInv, Running
<1>5. ASSUME SettingUp' PROVE SetupPart(recs, at, dir)'
  <2>1. SettingUp
    BY <1>1, <1>2, <1>5 DEF SettingUp
  <2>2. SetupPart(recs', at', dir')
    BY <2>1, SetupStep
  <2> QED BY <1>1, <1>2, <2>2 DEF SetupPart
<1>6. ASSUME Made' PROVE AsMade(Setup, recs)'
  <2>1. Made /\ ~SettingUp
    <3>1. op = "new_tree" => Gone \in Nat /\ Len(Setup) \in Nat
      BY <1>2, AtItem DEF SetupInv
    <3>2. Made
      BY <1>1, <1>2, <1>6 DEF Made
    <3> QED BY <3>1, <3>2 DEF Made, SettingUp
  <2>2. AsMade(Setup, recs)
    BY <2>1 DEF SetupInv
  <2>3. Setup \in Seq(Item)
    BY <1>2, QueueItems DEF Setup
  <2>4. Len(Setup) \in 0..Len(Setup)
    BY <2>3, LenProperties
  <2>5. new.type \notin FixedTypes
    <3>1. CASE op = "new_tree"
      <4>1. Gone >= Len(Setup) /\ QueueLeft
        BY <2>1, <3>1 DEF Made, SetupInv
      <4>2. new.type = "DATA"
        BY <1>2, <3>1, <4>1, AtItem
      <4> QED BY <4>2 DEF FixedTypes
    <3>2. CASE op \in {"insert", "remove"}
      <4>1. Len(queue) \in Nat \ {0} /\ new = queue[1].rec
        BY <1>1, RunningFacts, QueueFacts
      <4>2. new.type \in {"EMPTY", "DATA"}
        BY <3>2, <4>1 DEF SetupInv
      <4> QED BY <4>2 DEF FixedTypes
    <3> QED BY <1>1, <3>1, <3>2 DEF Running
  <2>6. Sound(Setup, Len(Setup), recs') /\ Complete(Setup, Len(Setup), recs')
    BY <2>2, <2>3, <2>4, <2>5, CompleteKept, SoundKept DEF AsMade
  <2> QED BY <1>2, <2>6 DEF AsMade
<1>7. op' \in {"insert", "remove"} =>
         \A i \in 1..Len(queue') : queue'[i].rec.type \in {"EMPTY", "DATA"}
  BY <1>1 DEF SetupInv
<1> QED BY <1>1, <1>2, <1>3, <1>4, <1>5, <1>6, <1>7 DEF SetupInv

\* So does going on to the next record.
LEMMA NextRecordSetup ==
    ASSUME Inv, Shape, SetupInv, NextRecord, Inv', Shape', UNCHANGED <<task, file>>
    PROVE  SetupInv'
<1>1. /\ op \in Running /\ dir = "up" /\ at = << >> /\ queue' = Tail(queue) /\ dir' = "down"
      /\ UNCHANGED <<recs, opts, op, strategy, held, at>>
      /\ Len(queue) > 1
  BY DEF NextRecord
<1>2. /\ queue \in Seq(Item) /\ queue # << >> /\ queue' # << >>
      /\ Len(queue) \in Nat \ {0} /\ Len(queue') = Len(queue) - 1
      /\ \A i \in 1..Len(queue') : i + 1 \in 1..Len(queue) /\ queue'[i] = queue[i + 1]
  <2>1. /\ queue \in Seq(Item) /\ queue # << >>
    BY <1>1, RunningFacts
  <2>2. /\ Len(queue) \in Nat \ {0} /\ Len(Tail(queue)) = Len(queue) - 1
        /\ \A i \in 1..Len(Tail(queue)) : i + 1 \in 1..Len(queue) /\ Tail(queue)[i] = queue[i + 1]
    BY <2>1, QueueFacts
  <2>3. Tail(queue) # << >>
    <3>1. Len(Tail(queue)) # 0
      BY <1>1, <2>2
    <3> QED BY <3>1, RootIsPrefix
  <2> QED BY <1>1, <2>1, <2>2, <2>3
<1>3. /\ Setup' = Setup /\ ToThaw' = ToThaw /\ opts \in Options
      /\ Setup \in Seq(Item) /\ Len(Setup) \in Nat
  <2>1. Setup' = Setup /\ ToThaw' = ToThaw /\ opts \in Options
    BY <1>1 DEF Setup, ToThaw, SetupInv
  <2> QED BY <2>1, QueueItems, LenProperties DEF Setup
<1>4. ASSUME op = "new_tree" PROVE Gone' = Gone + 1 /\ Gone \in Nat
  <2>1. Len(ToThaw) \in Nat /\ Gone \in Nat
    BY <1>3, <1>4, AtItem DEF SetupInv
  <2> QED BY <1>2, <1>3, <2>1 DEF Gone
<1>5. QueueLeft'
  <2> SUFFICES ASSUME op = "new_tree"
               PROVE  /\ strategy' = "none" /\ held' = NoKey /\ ToThaw' \in DataItems
                      /\ Gone' \in Nat
                      /\ \A i \in 1..Len(queue') : queue'[i] = (Setup' \o ToThaw')[Gone' + i]
    BY <1>1 DEF QueueLeft
  <2>1. /\ strategy = "none" /\ held = NoKey /\ ToThaw \in DataItems
        /\ \A i \in 1..Len(queue) : queue[i] = (Setup \o ToThaw)[Gone + i]
    BY DEF SetupInv, QueueLeft
  <2>2. ASSUME NEW i \in 1..Len(queue') PROVE queue'[i] = (Setup \o ToThaw)[(Gone + 1) + i]
    <3>1. i + 1 \in 1..Len(queue) /\ queue'[i] = queue[i + 1]
      BY <1>2
    <3>2. Gone + (i + 1) = (Gone + 1) + i
      BY <1>2, <1>4
    <3> QED BY <2>1, <3>1, <3>2
  <2>3. ToThaw' \in DataItems /\ Gone' \in Nat /\ strategy' = "none" /\ held' = NoKey
    BY <1>1, <1>3, <1>4, <2>1
  <2>4. Setup' = Setup /\ ToThaw' = ToThaw /\ Gone' = Gone + 1
    BY <1>3, <1>4
  <2> QED BY <2>2, <2>3, <2>4
<1>6. /\ net' \in Prefix /\ at' = << >> /\ recs[<< >>].type # "ABSENT"
  <2>1. net' \in Prefix
    <3>1. 2 \in 1..Len(queue) /\ 1 \in 1..Len(queue') /\ queue'[1] = queue[2]
      BY <1>1, <1>2
    <3>2. queue[2].net \in Prefix
      BY <1>2, <3>1, ItemOf
    <3>3. net' = queue'[1].net
      BY <1>1, <1>2 DEF net
    <3> QED BY <3>1, <3>2, <3>3
  <2> QED BY <1>1, <2>1 DEF SetupInv, Near
<1>7. Near'
  BY <1>1, <1>6, CoversOrder DEF Near, Comparable
<1>8. ASSUME SettingUp' PROVE SetupPart(recs, at, dir)'
  <2>1. op = "new_tree" /\ Gone + 1 < Len(Setup)
    BY <1>1, <1>3, <1>4, <1>8 DEF SettingUp
  <2>2. SettingUp
    BY <1>3, <1>4, <2>1 DEF SettingUp
  <2>3. Sound(Setup, Gone + 1, recs) /\ Complete(Setup, Gone + 1, recs)
    BY <1>1, <2>2, SetupDone
  <2>4. Sound(Setup, (Gone + 1) + 1, recs)
    BY <1>4, <2>1, <2>3, MoreItems
  <2>5. \A p \in Prefix : recs[p].type \notin {"NODE", "DATA"}
    BY <2>2, SetupFacts DEF SetupPart
  <2>6. \A p \in Prefix : Covers(<< >>, p)
    BY CoversOrder
  <2> QED BY <1>1, <1>3, <1>4, <2>1, <2>3, <2>4, <2>5, <2>6 DEF SetupPart
<1>9. ASSUME Made' PROVE AsMade(Setup, recs)'
  <2>1. CASE op = "new_tree"
    <3>1. Gone + 1 >= Len(Setup)
      BY <1>1, <1>3, <1>4, <1>9, <2>1 DEF Made
    <3>2. CASE Gone < Len(Setup)
      <4>1. SettingUp /\ Gone + 1 = Len(Setup)
        BY <1>3, <1>4, <2>1, <3>1, <3>2 DEF SettingUp
      <4> QED BY <1>1, <1>3, <4>1, SetupDone DEF AsMade
    <3>3. CASE Gone >= Len(Setup)
      BY <1>1, <1>3, <2>1, <3>3 DEF Made, SetupInv, AsMade
    <3> QED BY <1>3, <1>4, <2>1, <3>2, <3>3
  <2>2. CASE op # "new_tree"
    BY <1>1, <1>3, <2>2 DEF Running, Made, SetupInv, AsMade
  <2> QED BY <2>1, <2>2
<1>10. op' \in {"insert", "remove"} =>
         \A i \in 1..Len(queue') : queue'[i].rec.type \in {"EMPTY", "DATA"}
  BY <1>1, <1>2 DEF SetupInv
<1> QED BY <1>1, <1>3, <1>5, <1>7, <1>8, <1>9, <1>10 DEF SetupInv

\* A call that ends, or begins, with the records as they are.
LEMMA IdleSetup ==
    ASSUME opts' = opts, SetupInv, recs' = recs, AsMade(Setup, recs),
           op' \in {"idle", "insert", "remove"},
           op' # "idle" => /\ at' = << >> /\ net' \in Prefix /\ recs[<< >>].type # "ABSENT"
                           /\ \A i \in 1..Len(queue') : queue'[i].rec.type \in {"EMPTY", "DATA"}
    PROVE  SetupInv'
<1>1. Setup' = Setup /\ opts \in Options
  BY DEF Setup, SetupInv
<1>2. QueueLeft' /\ ~SettingUp'
  BY DEF QueueLeft, SettingUp
<1>3. Near'
  BY CoversOrder DEF Near, Running, Comparable
<1>4. AsMade(Setup, recs)'
  BY <1>1 DEF AsMade
<1>5. op' \in {"insert", "remove"} =>
         \A i \in 1..Len(queue') : queue'[i].rec.type \in {"EMPTY", "DATA"}
  OBVIOUS
<1> QED BY <1>1, <1>2, <1>3, <1>4, <1>5 DEF SetupInv

\* So does the end of a call.
LEMMA FinishSetup ==
    ASSUME Inv, Shape, SetupInv, Finish
    PROVE  SetupInv' /\ op' = "idle" /\ recs' = recs
<1>1. /\ op \in Running /\ dir = "up" /\ at = << >> /\ Len(queue) = 1
      /\ op' = "idle" /\ recs' = recs /\ opts' = opts
  BY DEF Finish, EndCall
<1>2. AsMade(Setup, recs)
  <2>1. CASE SettingUp
    <3>1. /\ Gone = Len(Setup) + Len(ToThaw) - Len(queue) /\ Len(ToThaw) \in Nat
          /\ Len(Setup) \in Nat /\ Gone \in Nat /\ Gone < Len(Setup)
      BY <2>1, AtItem DEF SetupInv, SettingUp
    <3>2. Gone + 1 = Len(Setup)
      BY <1>1, <3>1
    <3> QED BY <1>1, <2>1, <3>2, SetupDone DEF AsMade
  <2>2. CASE ~SettingUp
    <3>1. op = "new_tree" => Gone \in Nat /\ Len(Setup) \in Nat
      BY AtItem DEF SetupInv
    <3>2. Made
      BY <1>1, <2>2, <3>1 DEF Made, SettingUp, Running
    <3> QED BY <3>2 DEF SetupInv
  <2> QED BY <2>1, <2>2
<1> QED BY <1>1, <1>2, IdleSetup

\* A freed tree has nothing in it.
LEMMA FreedSetup ==
    ASSUME op' = "freed", opts' \in Options PROVE SetupInv'
BY DEF SetupInv, QueueLeft, Near, SettingUp, Made, Running

\* A tree just made, to be empty or to be thawed.
JustMade ==
    /\ opts \in Options /\ ToThaw \in DataItems
    /\ recs = EmptyTree /\ queue = Setup \o ToThaw
    /\ op = IF queue = << >> THEN "idle" ELSE "new_tree"
    /\ strategy = "none" /\ held = NoKey /\ at = << >> /\ dir = "down"

\* Its items are all to be inserted yet.
LEMMA JustMadeSetup == JustMade => SetupInv
<1> SUFFICES ASSUME JustMade PROVE SetupInv
  OBVIOUS
<1>1. /\ opts \in Options /\ ToThaw \in DataItems /\ ToThaw \in Seq(Item)
      /\ Setup \in Seq(Item) /\ Len(Setup) \in Nat /\ Len(ToThaw) \in Nat
      /\ queue = Setup \o ToThaw
  <2>1. opts \in Options /\ ToThaw \in DataItems /\ ToThaw \in Seq(Item) /\ queue = Setup \o ToThaw
    BY DEF JustMade, DataItems
  <2>2. Setup \in Seq(Item)
    BY <2>1, QueueItems DEF Setup
  <2> QED BY <2>1, <2>2, LenProperties
<1>2. Len(queue) = Len(Setup) + Len(ToThaw) /\ queue \in Seq(Item)
  BY <1>1, ConcatProperties
<1>3. Gone = 0
  BY <1>1, <1>2 DEF Gone
<1>4. QueueLeft
  BY <1>1, <1>2, <1>3 DEF QueueLeft, JustMade
<1>5. \A p \in Prefix : recs[p].type \in {"EMPTY", "ABSENT"}
  BY EmptyFacts DEF JustMade
<1>6. recs[<< >>].type = "EMPTY"
  BY RootIsPrefix DEF JustMade, EmptyTree, Plain
<1>7. Near
  <2> SUFFICES ASSUME op \in Running PROVE Comparable(at, net)
    BY <1>6 DEF Near, JustMade
  <2>1. queue # << >>
    BY DEF JustMade, Running
  <2>2. net \in Prefix
    BY <1>2, <2>1, QueueFacts
  <2> QED BY <2>2, CoversOrder DEF Comparable, JustMade
<1>8. \A n \in Nat : Sound(Setup, n, recs)
  BY <1>5 DEF Sound
<1>9. Complete(Setup, 0, recs)
  BY DEF Complete, FixedNode
<1>10. SettingUp => SetupPart(recs, at, dir)
  <2>1. \A p \in Prefix : Covers(<< >>, p)
    BY CoversOrder
  <2>2. dir = "down" /\ at = << >>
    BY DEF JustMade
  <2> QED BY <1>3, <1>5, <1>8, <1>9, <2>1, <2>2 DEF SetupPart
<1>11. Made => AsMade(Setup, recs)
  <2> SUFFICES ASSUME Made PROVE Len(Setup) = 0
    BY <1>1, <1>8, <1>9 DEF AsMade
  <2>1. CASE op = "new_tree"
    BY <1>1, <1>3, <2>1 DEF Made
  <2>2. CASE op # "new_tree"
    <3>1. queue = << >>
      BY <2>2 DEF JustMade
    <3> QED BY <1>1, <1>2, <3>1, EmptySeq
  <2> QED BY <2>1, <2>2
<1>12. op \notin {"insert", "remove"}
  BY DEF JustMade
<1> QED BY <1>1, <1>4, <1>7, <1>10, <1>11, <1>12 DEF SetupInv

\* The records stay a tree.
LEMMA StepShape == ASSUME Inv, Shape, Step PROVE Shape'
<1>1. op \in Running /\ op # "freed"
  BY DEF Step, SetRecord, MergeRecord, MergeCroaks, Settles, Ignore, Refuse, Descend, GoLeft,
         Trim, Up, NextRecord, Finish, Down, Running
<1>2. recs \in [Prefix -> Record] /\ at \in Prefix
  BY <1>1, RunningFacts
<1>3. ASSUME recs' = recs, op' # "freed" PROVE Shape'
  BY <1>1, <1>3 DEF Shape
<1>4. ASSUME recs' = NoTree, op' = "freed" PROVE Shape'
  BY <1>4, EmptyFacts DEF Shape
<1>5. CASE SetRecord \/ MergeRecord \/ Trim
  <2>1. op' # "freed"
    BY <1>1, <1>5 DEF SetRecord, MergeRecord, Trim
  <2>2. CASE recs' = recs
    BY <1>3, <2>1, <2>2
  <2>3. CASE \E p \in Prefix, r \in Record :
                recs' = Graft(p, r) /\ recs[p].type \in Loose /\ r.type \notin {"ABSENT", "NODE"}
    <3>1. PICK p \in Prefix, r \in Record :
             recs' = Graft(p, r) /\ recs[p].type \in Loose /\ r.type \notin {"ABSENT", "NODE"}
      BY <2>3
    <3>2. recs[p].type # "ABSENT"
      BY <3>1 DEF Loose
    <3> QED BY <1>1, <1>2, <2>1, <3>1, <3>2, GraftShape
  <2> QED BY <1>5, <2>2, <2>3, GraftsOfRecurse
<1>6. CASE Descend
  <2>1. /\ recs[at].type \in {"EMPTY", "DATA", "NODE", "FIXED_NODE"} /\ op' = op
        /\ recs' = IF HasNode(recs[at])
                   THEN [recs EXCEPT ![at] = Plain(NodeType)] ELSE Split(at, NodeType)
        /\ Len(at) < W
    BY <1>6, DescendRoom DEF Descend
  <2>2. NodeType \in {"NODE", "FIXED_NODE"}
    BY DEF NodeType
  <2> QED BY <1>1, <1>2, <2>1, <2>2, DescendShape
<1>7. CASE Ignore \/ GoLeft \/ NextRecord
  BY <1>1, <1>3, <1>7 DEF Ignore, GoLeft, NextRecord
<1>8. CASE MergeCroaks
  BY <1>3, <1>8 DEF MergeCroaks, Return
<1>9. CASE Refuse \/ Finish
  <2>1. \/ recs' = recs /\ op' = "idle"
        \/ recs' = NoTree /\ op' = "freed"
    BY <1>9 DEF Refuse, Finish, EndCall
  <2> QED BY <1>3, <1>4, <2>1
<1> QED BY <1>5, <1>6, <1>7, <1>8, <1>9 DEF Step

\* Every step of a call, and of the calls of thaw_tree, keeps what was made.
LEMMA StepSetup ==
    ASSUME Inv, Shape, SetupInv, Step, UNCHANGED <<task, file>>
    PROVE  SetupInv'
<1>1. Shape' /\ (KeepsFixed \/ UNCHANGED vars)
  BY StepShape, NextInv DEF Next
<1>2. opts \in Options
  BY DEF SetupInv
<1>3. CASE Recurse
  <2>1. KeepsFixed
    BY <1>1 DEF vars, KeepsFixed
  <2> QED BY <1>1, <1>3, <2>1, RecurseSetup
<1>4. CASE NextRecord
  <2>1. Inv'
    BY <1>4, NextInv DEF Next, Step
  <2> QED BY <1>1, <1>4, <2>1, NextRecordSetup
<1>5. CASE Finish
  BY <1>5, FinishSetup
<1>6. CASE Refuse
  <2>1. /\ op \in Running /\ opts' = opts
        /\ op' = (IF op = "new_tree" THEN "freed" ELSE "idle")
        /\ recs' = (IF op = "new_tree" THEN NoTree ELSE recs)
    BY <1>6 DEF Refuse, Down, EndCall
  <2>2. CASE op = "new_tree"
    BY <1>2, <2>1, <2>2, FreedSetup
  <2>3. CASE op # "new_tree"
    <3>1. AsMade(Setup, recs)
      BY <2>1, <2>3 DEF SetupInv, Made, Running
    <3> QED BY <2>1, <2>3, <3>1, IdleSetup
  <2> QED BY <2>2, <2>3
<1>7. CASE MergeCroaks
  <2>1. op \in Running /\ opts' = opts /\ op' = "idle" /\ recs' = recs /\ strategy # "none"
    BY <1>7 DEF MergeCroaks, Return, Settles, Down, Merges
  <2>2. op # "new_tree"
    BY <2>1 DEF SetupInv, QueueLeft
  <2>3. AsMade(Setup, recs)
    BY <2>1, <2>2 DEF SetupInv, Made, Running
  <2> QED BY <2>1, <2>3, IdleSetup
<1> QED BY <1>3, <1>4, <1>5, <1>6, <1>7 DEF Step, Recurse

\* So do the calls.
LEMMA CallSetup ==
    ASSUME Inv, Shape, SetupInv, Call, task = "none", UNCHANGED <<task, file>>
    PROVE  SetupInv'
<1>1. /\ op = "idle" => /\ at = << >> /\ recs[<< >>].type # "ABSENT"
                        /\ AsMade(Setup, recs)
  <2>1. op = "idle" => at = << >>
    BY DEF Inv, CursorOK, Running
  <2>2. op = "idle" => recs[<< >>].type # "ABSENT"
    BY RootIsPrefix DEF Shape
  <2> QED BY <2>1, <2>2 DEF SetupInv, Made
<1>2. ASSUME NEW nets \in Seq(Prefix), nets # << >>, NEW r \in Record,
             r.type \in {"EMPTY", "DATA"}, queue' = Items(nets, r)
      PROVE  /\ net' \in Prefix
             /\ \A i \in 1..Len(queue') : queue'[i].rec.type \in {"EMPTY", "DATA"}
  <2>1. /\ queue' \in Seq(Item) /\ Len(queue') = Len(nets)
        /\ \A i \in 1..Len(nets) :
              nets[i] \in Prefix /\ queue'[i] = [net |-> nets[i], rec |-> r]
    BY <1>2, ItemsFacts
  <2>2. Len(nets) \in Nat \ {0}
    BY <1>2, EmptySeq
  <2>3. queue' # << >> /\ 1 \in 1..Len(nets)
    BY <2>1, <2>2, RootIsPrefix
  <2>4. net' = queue'[1].net
    BY <2>1, <2>3, HeadTailProperties DEF net
  <2>5. ASSUME NEW i \in 1..Len(queue')
        PROVE  queue'[i].net \in Prefix /\ queue'[i].rec = r
    <3>1. i \in 1..Len(nets)
      BY <2>1
    <3>2. nets[i] \in Prefix /\ queue'[i] = [net |-> nets[i], rec |-> r]
      BY <2>1, <3>1
    <3> QED BY <3>2
  <2>6. queue'[1].net \in Prefix /\ \A i \in 1..Len(queue') : queue'[i].rec = r
    BY <2>1, <2>3, <2>5
  <2> QED BY <1>2, <2>4, <2>6
<1>3. CASE \E c \in Inserts : InsertNetworks(c)
  <2>1. PICK c \in Inserts : InsertNetworks(c)
    BY <1>3
  <2>2. c.nets \in Seq(Prefix) /\ c.nets # << >> /\ c.key \in Key
    BY InsertAssumption
  <2> DEFINE n == c.nets
             r == Data(c.key)
  <2>3. r \in Record /\ r.type = "DATA" /\ n \in Seq(Prefix) /\ n # << >>
    BY <2>2, RecordFacts
  <2>4. /\ op = "idle" /\ op' = "insert" /\ queue' = Items(n, r)
        /\ UNCHANGED <<recs, opts, at>>
    BY <2>1 DEF InsertNetworks
  <2> HIDE DEF n, r
  <2> QED BY <1>1, <1>2, <2>3, <2>4, IdleSetup
<1>4. CASE \E n \in Prefix : RemoveNetwork(n)
  <2>1. PICK m \in Prefix : RemoveNetwork(m)
    BY <1>4
  <2> DEFINE n == <<m>>
             r == Plain("EMPTY")
  <2>2. r \in Record /\ r.type = "EMPTY" /\ n \in Seq(Prefix) /\ n # << >>
    BY RecordFacts DEF PlainTypes
  <2>3. /\ op = "idle" /\ op' = "remove" /\ queue' = Items(n, r)
        /\ UNCHANGED <<recs, opts, at>>
    BY <2>1 DEF RemoveNetwork
  <2> HIDE DEF n, r
  <2> QED BY <1>1, <1>2, <2>2, <2>3, IdleSetup
<1>5. CASE FreeTree
  BY <1>5, FreedSetup DEF FreeTree, SetupInv
<1>6. CASE NewTree
  <2>1. ToThaw' = << >>
    BY DEF ToThaw
  <2>2. << >> \in DataItems
    BY EmptySeq DEF DataItems
  <2>3. Setup' = NewTreeQueue(opts') /\ opts' \in Options
    BY <1>6 DEF Setup, NewTree
  <2>4. NewTreeQueue(opts') \o << >> = NewTreeQueue(opts')
    <3>1. NewTreeQueue(opts') \in Seq(Item)
      BY <2>3, QueueItems
    <3> QED BY <3>1, ConcatEmptySeq
  <2>5. JustMade'
    BY <1>6, <2>1, <2>2, <2>3, <2>4 DEF NewTree, JustMade
  <2> QED BY <2>5, JustMadeSetup, PTL
<1> QED BY <1>3, <1>4, <1>5, <1>6 DEF Call

-----------------------------------------------------------------------------
(* What was made, once it is                                               *)

\* The fixed records of two trees with the same options are the same.
LEMMA MadeAlike ==
    ASSUME NEW q, NEW s, NEW t, IsTree(s), IsTree(t), AsMade(q, s), AsMade(q, t),
           \A x, y \in Prefix : Below(x, y) /\ s[y].type \in FixedTypes => s[x].type = "FIXED_NODE",
           NEW p \in Prefix, s[p].type \in FixedTypes
    PROVE  t[p] = s[p]
<1>1. s[p] \in Record /\ t[p] \in Record
  BY DEF IsTree
<1>2. s[p] = Plain(s[p].type) /\ (t[p].type \in FixedTypes => t[p] = Plain(t[p].type))
  BY <1>1, RecordFacts DEF FixedTypes
<1>3. /\ s[p].type = "FIXED_NODE" => t[p].type = "FIXED_NODE"
      /\ s[p].type = "ALIAS" => t[p].type = "ALIAS"
      /\ t[p].type = "FIXED_NODE" => s[p].type = "FIXED_NODE"
      /\ t[p].type = "ALIAS" => s[p].type = "ALIAS"
  BY DEF AsMade, Sound, Complete
<1>4. CASE s[p].type = "FIXED_EMPTY"
  <2>1. t[p].type \notin Loose
    BY <1>4 DEF AsMade, Sound, Complete
  <2>2. t[p].type # "ABSENT"
    <3>1. CASE p = << >>
      BY <3>1, RootIsPrefix DEF IsTree
    <3>2. CASE p # << >>
      <4>1. Parent(p) \in Prefix /\ Below(Parent(p), p)
        <5>1. Parent(p) \in Prefix /\ Len(Parent(p)) < W /\ p[Len(p)] \in Bit
              /\ p = Child(Parent(p), p[Len(p)])
          BY <3>2, ParentIsPrefix, ChildOfParent
        <5> QED BY <5>1, AboveChild
      <4>2. s[Parent(p)].type = "FIXED_NODE"
        BY <4>1
      <4>3. t[Parent(p)].type = "FIXED_NODE"
        BY <4>1, <4>2 DEF AsMade, Sound, Complete
      <4> QED BY <4>1, <4>3 DEF IsTree, HasNode
    <3> QED BY <3>1, <3>2
  <2>3. t[p].type \in {"FIXED_EMPTY", "FIXED_NODE", "ALIAS"}
    <3>1. t[p].type = "DATA" \/ t[p].type \in PlainTypes
      BY <1>1, RecordFacts
    <3> QED BY <2>1, <2>2, <3>1 DEF Loose, PlainTypes, FixedTypes
  <2>4. t[p].type = "FIXED_EMPTY"
    BY <1>3, <1>4, <2>3
  <2> QED BY <1>2, <1>4, <2>4 DEF FixedTypes
<1>5. CASE s[p].type # "FIXED_EMPTY"
  <2>1. t[p].type = s[p].type
    BY <1>3, <1>5 DEF FixedTypes
  <2> QED BY <1>2, <2>1
<1> QED BY <1>4, <1>5

\* Nothing that new_tree makes of the items q is in the network m or at it, and
\* no alias is above it.
Free(q, m) ==
    \A p \in Prefix :
        /\ Covers(m, p) =>
             ~FixedNode(q, Len(q), p) /\ \A i \in 1..Len(q) : ~Reserves(q[i], p)
        /\ Comparable(m, p) => \A i \in 1..Len(q) : ~IsAlias(q[i], p)

\* That is so where data is.
LEMMA FreeOfMade ==
    ASSUME NEW q \in Seq(Item), NEW t, IsTree(t), AsMade(q, t),
           NEW m \in Prefix, t[m].type = "DATA"
    PROVE  Free(q, m)
<1>1. t[m].type # "ABSENT" /\ ~HasNode(t[m]) /\ t[m].type \in Loose /\ t[m].type # "ALIAS"
  BY DEF HasNode, Loose
<1>2. Len(q) \in Nat
  BY LenProperties
<1>3. \A p \in Prefix :
         /\ FixedNode(q, Len(q), p) => t[p].type = "FIXED_NODE"
         /\ (\E i \in 1..Len(q) : Reserves(q[i], p)) => t[p].type \notin Loose
         /\ (\E i \in 1..Len(q) : IsAlias(q[i], p)) => t[p].type = "ALIAS"
  BY DEF AsMade, Complete
<1>4. \A i \in 1..Len(q) : ~Reserves(q[i], m)
  BY <1>1, <1>3
<1>5. ASSUME NEW p \in Prefix, Below(m, p) PROVE t[p].type = "ABSENT"
  BY <1>1, <1>5, NodesAbove
<1>6. ASSUME NEW p \in Prefix, Covers(m, p) PROVE ~FixedNode(q, Len(q), p)
  <2>1. p = m \/ Below(m, p)
    BY <1>6, BelowIsCovers
  <2> QED BY <1>1, <1>3, <1>5, <2>1 DEF HasNode
<1>7. ASSUME NEW p \in Prefix, Covers(m, p), NEW i \in 1..Len(q), Reserves(q[i], p)
      PROVE  FALSE
  <2>1. q[i].net \in Prefix
    BY ItemOf
  <2>2. Covers(q[i].net, p) /\ q[i].rec.type = "FIXED_EMPTY"
    BY <1>7 DEF Reserves
  <2>3. ~Covers(q[i].net, m)
    BY <1>4, <2>2 DEF Reserves
  <2>4. Below(m, q[i].net)
    BY <1>7, <2>1, <2>2, <2>3, CoversOrder, BelowIsCovers
  <2>5. FixedNode(q, Len(q), m)
    <3>1. \A j \in 1..(i - 1) : j \in 1..Len(q)
      BY <1>2
    <3> QED BY <1>4, <2>4, <3>1 DEF FixedNode, Marks
  <2> QED BY <1>1, <1>3, <2>5 DEF HasNode
<1>8. ASSUME NEW p \in Prefix, Comparable(m, p), NEW i \in 1..Len(q), IsAlias(q[i], p)
      PROVE  FALSE
  <2>1. t[p].type = "ALIAS"
    BY <1>3, <1>8
  <2>2. p # m /\ ~Below(m, p) /\ ~Below(p, m)
    BY <1>1, <1>5, <2>1, NodesAbove DEF HasNode
  <2> QED BY <1>8, <2>2, BelowIsCovers DEF Comparable
<1> QED BY <1>6, <1>7, <1>8 DEF Free

\* The network m can be put in the tree t: there is nothing in it.
Pending(t, m) ==
    \A p \in Prefix :
        /\ Below(p, m) => t[p].type \in {"EMPTY", "NODE", "FIXED_NODE", "ABSENT"}
        /\ Covers(m, p) => t[p].type \in {"EMPTY", "ABSENT"}

\* So it is when the tree has just been made.
LEMMA PendingWhenMade ==
    ASSUME NEW q \in Seq(Item), NEW t \in [Prefix -> Record], AsMade(q, t),
           \A p \in Prefix : t[p].type \notin {"NODE", "DATA"},
           NEW m \in Prefix, Free(q, m)
    PROVE  Pending(t, m)
<1>1. ASSUME NEW p \in Prefix
      PROVE  t[p].type \in {"ABSENT", "EMPTY", "FIXED_EMPTY", "FIXED_NODE", "ALIAS"}
  <2>1. t[p].type = "DATA" \/ t[p].type \in PlainTypes
    BY RecordFacts
  <2> QED BY <2>1 DEF PlainTypes, FixedTypes
<1>2. ASSUME NEW p \in Prefix, Comparable(m, p)
      PROVE  t[p].type # "ALIAS" /\ t[p].type # "FIXED_EMPTY"
  <2>1. t[p].type # "ALIAS"
    BY <1>2 DEF Free, AsMade, Sound
  <2>2. ASSUME t[p].type = "FIXED_EMPTY" PROVE FALSE
    <3>1. PICK i \in 1..Len(q) : Reserves(q[i], p)
      BY <2>2 DEF AsMade, Sound
    <3>2. q[i].net \in Prefix
      BY ItemOf
    <3>3. ~Covers(m, p)
      BY <3>1 DEF Free
    <3>4. Covers(p, m)
      BY <1>2, <3>3 DEF Comparable
    <3>5. Reserves(q[i], m)
      BY <3>1, <3>2, <3>4, CoversOrder DEF Reserves
    <3> QED BY <3>5, CoversOrder DEF Free
  <2> QED BY <2>1, <2>2
<1>3. ASSUME NEW p \in Prefix, Covers(m, p) PROVE t[p].type # "FIXED_NODE"
  BY <1>3 DEF Free, AsMade, Sound
<1>4. \A p \in Prefix : Below(p, m) => Comparable(m, p)
  BY BelowIsCovers DEF Comparable
<1>5. \A p \in Prefix : Covers(m, p) => Comparable(m, p)
  BY DEF Comparable
<1> QED BY <1>1, <1>2, <1>3, <1>4, <1>5 DEF Pending

\* Lookups in a tree that was made are as they should be.
LEMMA IdleLookup == SetupInv /\ op = "idle" => LookupInv
<1> SUFFICES ASSUME SetupInv, op = "idle" PROVE LookupInv
  OBVIOUS
<1>1. opts \in Options /\ AsMade(Setup, recs)
  BY DEF SetupInv, Made
<1>2. /\ Setup \in Seq(Item) /\ Len(Setup) \in Nat
      /\ \A i \in 1..Len(Setup) : FromAlias(opts, Setup[i]) \/ FromReserved(opts, Setup[i])
      /\ \A it : FromAlias(opts, it) \/ FromReserved(opts, it) => \E i \in 1..Len(Setup) : Setup[i] = it
  BY <1>1, QueueItems, LenProperties DEF Setup
<1>3. QueueIsRest /\ RemoveOK /\ AliasPhaseOK
  BY DEF QueueIsRest, RemoveOK, AliasPhaseOK, AliasPhase
<1>4. AliasesOnly
  <2> SUFFICES ASSUME NEW p \in Prefix, recs[p].type = "ALIAS"
               PROVE  opts.alias /\ \E j \in 1..Len(Aliases) : p = Aliases[j]
    BY DEF AliasesOnly
  <2>1. PICK i \in 1..Len(Setup) : IsAlias(Setup[i], p)
    BY <1>1 DEF AsMade, Sound
  <2>2. Setup[i].rec.type = "ALIAS" /\ Setup[i].net = p
    BY <2>1 DEF IsAlias
  <2>3. FromAlias(opts, Setup[i])
    BY <1>2, <2>2, ItemKinds
  <2> QED BY <2>2, <2>3, ItemKinds DEF FromAlias
<1>5. RootsPlaced
  <2> SUFFICES ASSUME opts.alias
               PROVE  /\ recs[V4Root].type = "FIXED_NODE"
                      /\ \A j \in 1..Len(Aliases) : recs[Aliases[j]].type = "ALIAS"
    BY DEF RootsPlaced
  <2>1. V4Root \in Prefix /\ \A j \in 1..Len(Aliases) : Aliases[j] \in Prefix
    BY NetworkAssumption, ElementOfSeq
  <2>2. recs[V4Root].type = "FIXED_NODE"
    <3>1. FromAlias(opts, RootItem)
      BY DEF FromAlias
    <3>2. PICK i \in 1..Len(Setup) : Setup[i] = RootItem
      BY <1>2, <3>1
    <3>3. Marks(Setup[i], V4Root)
      BY <3>2 DEF RootItem, Marks, Plain
    <3>4. ASSUME NEW j \in 1..(i - 1) PROVE ~Reserves(Setup[j], V4Root)
      <4>1. j \in 1..i
        OBVIOUS
      <4>2. FromAlias(opts, Setup[j])
        BY <1>1, <3>1, <3>2, <4>1, AliasesFirst DEF Setup
      <4> QED BY <4>2, ItemKinds DEF Reserves
    <3>5. FixedNode(Setup, Len(Setup), V4Root)
      BY <3>3, <3>4 DEF FixedNode
    <3> QED BY <1>1, <2>1, <3>5 DEF AsMade, Complete
  <2>3. ASSUME NEW j \in 1..Len(Aliases) PROVE recs[Aliases[j]].type = "ALIAS"
    <3>1. FromAlias(opts, AliasItem(Aliases[j]))
      BY DEF FromAlias
    <3>2. PICK i \in 1..Len(Setup) : Setup[i] = AliasItem(Aliases[j])
      BY <1>2, <3>1
    <3>3. IsAlias(Setup[i], Aliases[j])
      BY <3>2 DEF AliasItem, IsAlias, Plain
    <3> QED BY <1>1, <2>1, <3>3 DEF AsMade, Complete
  <2> QED BY <2>2, <2>3
<1> QED BY <1>1, <1>3, <1>4, <1>5 DEF LookupInv

-----------------------------------------------------------------------------
(* While networks are thawed: those that are in the tree, and those that   *)
(* are not, which find nothing where they go.                              *)

\* The item is in the tree t, maybe as part of a larger network.
IsDone(t, it) == \E p \in Prefix : Covers(p, it.net) /\ t[p] = it.rec

\* All data in t is from the file.
FromFile(t) ==
    \A q \in Prefix : t[q].type = "DATA" =>
        \A a \in Address : Covers(q, a) =>
            \E i \in 1..Len(ToThaw) : ToThaw[i].rec = t[q] /\ Covers(ToThaw[i].net, a)

Apart(d) == \A i, j \in 1..Len(d) : i # j => ~Covers(d[i].net, d[j].net)

\* The networks in the file can all be put in a tree that has just been made.
FileFits ==
    /\ ToThaw \in DataItems /\ Apart(ToThaw)
    /\ \A i \in 1..Len(ToThaw) : Free(Setup, ToThaw[i].net)

Inserting == op = "new_tree" /\ Gone >= Len(Setup)
Current == Gone - Len(Setup) + 1

InsertPart(t, a, d) ==
    /\ Covers(a, net)
    /\ \A i \in 1..(Current - 1) : IsDone(t, ToThaw[i])
    /\ IF d = "down" THEN Pending(t, net) ELSE IsDone(t, Head(queue))
    /\ \A i \in 1..Len(ToThaw) : i > Current => Pending(t, ToThaw[i].net)
    /\ FromFile(t)

\* Where the recursion is, and with what.
LEMMA InsertFacts ==
    ASSUME Inv, Shape, SetupInv, FileFits, Inserting, InsertPart(recs, at, dir)
    PROVE  /\ op = "new_tree" /\ strategy = "none"
           /\ at \in Prefix /\ net \in Prefix /\ recs \in [Prefix -> Record] /\ IsTree(recs)
           /\ new \in Record /\ new.type = "DATA" /\ Head(queue).net = net /\ Head(queue).rec = new
           /\ ToThaw \in Seq(Item) /\ Len(ToThaw) \in Nat /\ Current \in 1..Len(ToThaw)
           /\ ToThaw[Current].net = net /\ ToThaw[Current].rec = new
           /\ \A i \in 1..Len(ToThaw) :
                 /\ ToThaw[i] \in Item /\ ToThaw[i].net \in Prefix /\ ToThaw[i].rec.type = "DATA"
                 /\ i # Current => ~Covers(net, ToThaw[i].net) /\ ~Covers(ToThaw[i].net, net)
           /\ recs[at].type # "ABSENT" /\ Covers(at, net)
           /\ Inside => at = net
           /\ ~Inside => Below(at, net)
           /\ dir = "down" => recs[at].type \in {"EMPTY", "NODE", "FIXED_NODE"}
           /\ dir = "down" /\ Inside => recs[at].type = "EMPTY"
<1>1. op = "new_tree" /\ op \in Running /\ Gone >= Len(Setup)
  BY DEF Inserting, Running
<1>2. strategy = "none" /\ opts \in Options /\ recs[at].type # "ABSENT"
  BY <1>1 DEF SetupInv, QueueLeft, Near
<1>3. /\ at \in Prefix /\ net \in Prefix /\ recs \in [Prefix -> Record] /\ new \in Record
  BY <1>1, RunningFacts
<1>4. IsTree(recs)
  BY <1>1, <1>3 DEF IsTree, Shape, Inv, Depth
<1>5. ToThaw \in Seq(Item) /\ Len(ToThaw) \in Nat
  BY LenProperties DEF FileFits, DataItems
<1>6. /\ Current \in 1..Len(ToThaw) /\ Head(queue) = ToThaw[Current] /\ new.type = "DATA"
      /\ net = Head(queue).net /\ new = Head(queue).rec
  BY <1>1, <1>2, AtItem DEF SetupInv, Current
<1>7. ASSUME NEW i \in 1..Len(ToThaw)
      PROVE  /\ ToThaw[i] \in Item /\ ToThaw[i].net \in Prefix /\ ToThaw[i].rec.type = "DATA"
             /\ i # Current => ~Covers(net, ToThaw[i].net) /\ ~Covers(ToThaw[i].net, net)
  <2>1. ToThaw[i] \in Item /\ ToThaw[i].net \in Prefix
    BY <1>5, ItemOf, ElementOfSeq
  <2>2. ToThaw[i].rec.type = "DATA"
    BY DEF FileFits, DataItems
  <2> QED BY <1>6, <2>1, <2>2 DEF FileFits, Apart
<1>8. Covers(at, net) /\ (Inside => at = net) /\ (~Inside => Below(at, net))
  <2>1. Covers(at, net)
    BY DEF InsertPart
  <2>2. Len(at) \in Nat /\ Len(net) \in Nat
    BY <1>3, PrefixLength
  <2> QED BY <1>3, <2>1, <2>2, BelowIsCovers DEF Inside, Below
<1>9. dir = "down" => /\ recs[at].type \in {"EMPTY", "NODE", "FIXED_NODE"}
                      /\ Inside => recs[at].type = "EMPTY"
  <2> SUFFICES ASSUME dir = "down"
               PROVE  /\ recs[at].type \in {"EMPTY", "NODE", "FIXED_NODE"}
                      /\ Inside => recs[at].type = "EMPTY"
    OBVIOUS
  <2>1. Pending(recs, net)
    BY DEF InsertPart
  <2>2. Covers(net, net)
    BY <1>3, CoversOrder
  <2> QED BY <1>2, <1>3, <1>8, <2>1, <2>2 DEF Pending
<1> QED BY <1>1, <1>2, <1>3, <1>4, <1>5, <1>6, <1>7, <1>8, <1>9

\* A network is put in the tree, where there was nothing.
LEMMA InsertSet ==
    ASSUME Inv, Shape, SetupInv, FileFits, Inserting, InsertPart(recs, at, dir), SetRecord
    PROVE  InsertPart(recs', at, "up")
<1>1. /\ at \in Prefix /\ net \in Prefix /\ recs \in [Prefix -> Record] /\ IsTree(recs)
      /\ new \in Record /\ new.type = "DATA" /\ Head(queue).net = net /\ Head(queue).rec = new
      /\ Len(ToThaw) \in Nat /\ Current \in 1..Len(ToThaw)
      /\ ToThaw[Current].net = net /\ ToThaw[Current].rec = new
      /\ \A i \in 1..Len(ToThaw) :
            /\ ToThaw[i].net \in Prefix /\ ToThaw[i].rec.type = "DATA"
            /\ i # Current => ~Covers(net, ToThaw[i].net) /\ ~Covers(ToThaw[i].net, net)
      /\ Inside => at = net
  BY InsertFacts
<1>2. at = net /\ dir = "down" /\ recs' = Graft(net, new)
  BY <1>1 DEF SetRecord, Settles, Down
<1>3. \A q \in Prefix :
         /\ q = net => recs'[q] = new
         /\ ~Covers(net, q) => recs'[q] = recs[q]
         /\ Below(net, q) => recs'[q] = Plain("ABSENT")
         /\ q = net \/ ~Covers(net, q) \/ Below(net, q)
  <2>1. new.type # "FIXED_NODE"
    BY <1>1
  <2>2. \A q \in Prefix :
              /\ q = net => recs'[q] = new
              /\ ~Covers(net, q) => recs'[q] = recs[q]
              /\ Below(net, q) => recs'[q] = IF new.type = "FIXED_NODE" /\ Len(q) = Len(net) + 1
                                             THEN Plain("EMPTY") ELSE Plain("ABSENT")
              /\ q = net \/ ~Covers(net, q) \/ Below(net, q)
    BY <1>1, <1>2, GraftedRecords
  <2> QED BY <2>1, <2>2
<1>4. Plain("ABSENT").type = "ABSENT" /\ Pending(recs, net) /\ Covers(net, net)
  BY <1>1, <1>2, CoversOrder DEF Plain, InsertPart
<1>5. ASSUME NEW i \in 1..(Current - 1) PROVE IsDone(recs', ToThaw[i])
  <2>1. i \in 1..Len(ToThaw)
    BY <1>1
  <2>2. PICK p \in Prefix : Covers(p, ToThaw[i].net) /\ recs[p] = ToThaw[i].rec
    BY <1>5 DEF InsertPart, IsDone
  <2>3. recs[p].type = "DATA"
    BY <1>1, <2>1, <2>2
  <2>4. ~Covers(net, p)
    BY <1>4, <2>3 DEF Pending
  <2>5. recs'[p] = recs[p]
    BY <1>3, <2>4
  <2> QED BY <2>2, <2>5 DEF IsDone
<1>6. IsDone(recs', Head(queue))
  BY <1>1, <1>3, <1>4 DEF IsDone
<1>7. ASSUME NEW i \in 1..Len(ToThaw), i > Current PROVE Pending(recs', ToThaw[i].net)
  <2> DEFINE m == ToThaw[i].net
  <2>1. m \in Prefix /\ ~Covers(net, m) /\ ~Covers(m, net) /\ Pending(recs, m)
    BY <1>1, <1>7 DEF InsertPart
  <2> HIDE DEF m
  <2>2. ASSUME NEW p \in Prefix, Below(p, m) \/ Covers(m, p) PROVE recs'[p] = recs[p]
    <3>1. ~Covers(net, p)
      BY <1>1, <2>1, <2>2, CoversOrder, BelowIsCovers
    <3> QED BY <1>3, <3>1
  <2>3. Pending(recs', m)
    BY <2>1, <2>2 DEF Pending
  <2> QED BY <2>3 DEF m
<1>8. FromFile(recs')
  <2> SUFFICES ASSUME NEW q \in Prefix, recs'[q].type = "DATA", NEW a \in Address, Covers(q, a)
               PROVE  \E i \in 1..Len(ToThaw) :
                         ToThaw[i].rec = recs'[q] /\ Covers(ToThaw[i].net, a)
    BY DEF FromFile
  <2>1. CASE q = net
    BY <1>1, <1>3, <2>1
  <2>2. CASE q # net
    <3>1. recs'[q] = recs[q]
      BY <1>3, <1>4, <2>2
    <3> QED BY <3>1 DEF InsertPart, FromFile
  <2> QED BY <2>1, <2>2
<1>9. Covers(at, net)
  BY <1>2, <1>4
<1> QED BY <1>5, <1>6, <1>7, <1>8, <1>9 DEF InsertPart

\* The recursion goes on through nodes, and splits what is empty.
LEMMA InsertDescend ==
    ASSUME Inv, Shape, SetupInv, FileFits, Inserting, InsertPart(recs, at, dir), Descend
    PROVE  InsertPart(recs', at', "down")
<1>1. /\ strategy = "none"
      /\ at \in Prefix /\ net \in Prefix /\ recs \in [Prefix -> Record] /\ IsTree(recs)
      /\ new.type = "DATA"
      /\ Len(ToThaw) \in Nat /\ Current \in 1..Len(ToThaw)
      /\ \A i \in 1..Len(ToThaw) :
            /\ ToThaw[i].net \in Prefix /\ ToThaw[i].rec.type = "DATA"
            /\ i # Current => ~Covers(net, ToThaw[i].net) /\ ~Covers(ToThaw[i].net, net)
      /\ dir = "down" => recs[at].type \in {"EMPTY", "NODE", "FIXED_NODE"}
      /\ dir = "down" /\ Inside => recs[at].type = "EMPTY"
      /\ ~Inside => Below(at, net)
  BY InsertFacts
<1>2. /\ ~Settles /\ Down /\ dir = "down" /\ Len(at) < W
      /\ recs' = IF HasNode(recs[at])
                 THEN [recs EXCEPT ![at] = Plain(NodeType)] ELSE Split(at, NodeType)
      /\ at' = Child(at, IF Inside THEN 1 ELSE net[Len(at) + 1])
  BY DescendRoom DEF Descend, Down
<1>3. ~Inside /\ Below(at, net)
  BY <1>1, <1>2 DEF Settles
<1>4. /\ net[Len(at) + 1] \in Bit /\ at' = Child(at, net[Len(at) + 1])
      /\ Covers(Child(at, net[Len(at) + 1]), net)
  BY <1>1, <1>2, <1>3, ChildToward
<1>5. /\ NodeType \in PlainTypes /\ NodeType \in {"NODE", "FIXED_NODE"}
      /\ Plain(NodeType).type = NodeType
  BY DEF NodeType, PlainTypes, FixedTypes, Plain
<1>6. 0 \in Bit /\ 1 \in Bit /\ Child(at, 0) \in Prefix /\ Child(at, 1) \in Prefix
  BY <1>1, <1>2, ChildIsPrefix DEF Bit
<1>7. /\ recs'[at].type \in {"NODE", "FIXED_NODE"}
      /\ \A u \in Prefix : u # at => recs'[u] = recs[u] \/ (recs'[u].type = "EMPTY" /\ recs[u].type = "ABSENT")
      /\ recs[at].type # "DATA"
  <2>1. CASE HasNode(recs[at])
    <3>1. recs' = [recs EXCEPT ![at] = Plain(NodeType)]
      BY <1>2, <2>1
    <3> QED BY <1>1, <1>5, <2>1, <3>1 DEF HasNode
  <2>2. CASE ~HasNode(recs[at])
    <3>1. recs[at].type = "EMPTY" /\ recs' = Split(at, NodeType)
      BY <1>1, <1>2, <2>2 DEF HasNode
    <3>2. /\ recs'[at] = Plain(NodeType)
          /\ \A c \in Bit : recs'[Child(at, c)] = recs[at]
          /\ \A u \in Prefix : u # at /\ u # Child(at, 0) /\ u # Child(at, 1) => recs'[u] = recs[u]
      <4> DEFINE t == NodeType
      <4>1. t \in PlainTypes
        BY <1>5
      <4>2. at \in Prefix /\ Len(at) < W /\ recs \in [Prefix -> Record] /\ recs' = Split(at, t)
        BY <1>1, <1>2, <3>1
      <4> HIDE DEF t
      <4>3. /\ recs'[at] = Plain(t)
            /\ \A c \in Bit : recs'[Child(at, c)] = recs[at]
            /\ \A u \in Prefix : u # at /\ u # Child(at, 0) /\ u # Child(at, 1) => recs'[u] = recs[u]
        BY <4>1, <4>2, SplitFacts
      <4> QED BY <4>3 DEF t
    <3>3. ASSUME NEW c \in Bit PROVE recs[Child(at, c)].type = "ABSENT"
      <4>1. Child(at, c) \in Prefix /\ Below(at, Child(at, c))
        BY <1>1, <1>2, <3>3, ChildIsPrefix, AboveChild
      <4> QED BY <1>1, <2>2, <4>1, NodesAbove
    <3> QED BY <1>5, <1>6, <3>1, <3>2, <3>3
  <2> QED BY <2>1, <2>2
<1>8. \A u \in Prefix : recs[u].type = "DATA" => recs'[u] = recs[u]
  BY <1>7
<1>9. \A u \in Prefix : recs'[u].type = "DATA" => recs'[u] = recs[u]
  BY <1>7
<1>10. ASSUME NEW m \in Prefix, Pending(recs, m), ~Covers(m, at) PROVE Pending(recs', m)
  BY <1>7, <1>10 DEF Pending
<1>11. ~Covers(net, at)
  BY <1>1, <1>3, BelowIsCovers, CoversOrder
<1>12. Pending(recs', net)
  BY <1>1, <1>2, <1>10, <1>11 DEF InsertPart
<1>13. ASSUME NEW i \in 1..Len(ToThaw), i > Current PROVE Pending(recs', ToThaw[i].net)
  <2> DEFINE m == ToThaw[i].net
  <2>1. m \in Prefix /\ ~Covers(m, net) /\ Pending(recs, m)
    BY <1>1, <1>13 DEF InsertPart
  <2> HIDE DEF m
  <2>2. ~Covers(m, at)
    BY <1>1, <1>3, <2>1, BelowIsCovers, CoversOrder
  <2>3. Pending(recs', m)
    BY <1>10, <2>1, <2>2
  <2> QED BY <2>3 DEF m
<1>14. ASSUME NEW i \in 1..(Current - 1) PROVE IsDone(recs', ToThaw[i])
  <2>1. i \in 1..Len(ToThaw)
    BY <1>1
  <2>2. PICK p \in Prefix : Covers(p, ToThaw[i].net) /\ recs[p] = ToThaw[i].rec
    BY <1>14 DEF InsertPart, IsDone
  <2> QED BY <1>1, <1>8, <2>1, <2>2 DEF IsDone
<1>15. FromFile(recs')
  BY <1>9 DEF InsertPart, FromFile
<1> QED BY <1>4, <1>12, <1>13, <1>14, <1>15 DEF InsertPart

\* The recursion returns; a record takes the place of two that are the same.
LEMMA InsertTrim ==
    ASSUME Inv, Shape, SetupInv, FileFits, Inserting, InsertPart(recs, at, dir), Trim
    PROVE  InsertPart(recs', at', "up")
<1>1. /\ at \in Prefix /\ net \in Prefix /\ recs \in [Prefix -> Record] /\ IsTree(recs)
      /\ Len(ToThaw) \in Nat /\ Current \in 1..Len(ToThaw)
      /\ Head(queue).net = net /\ Head(queue).rec = new /\ new.type = "DATA"
      /\ \A i \in 1..Len(ToThaw) : ToThaw[i].net \in Prefix /\ ToThaw[i].rec.type = "DATA"
      /\ Covers(at, net)
  BY InsertFacts
<1> DEFINE x == Parent(at)
           r == recs[Child(x, 0)]
<1>2. /\ at # << >> /\ dir = "up" /\ at' = x
      /\ recs' = IF Trimmable(x) THEN Graft(x, r) ELSE recs
  BY DEF Trim, Up
<1>3. x \in Prefix /\ Len(x) < W /\ Covers(x, at)
  <2>1. x \in Prefix /\ Len(x) < W /\ at[Len(at)] \in Bit /\ at = Child(x, at[Len(at)])
    BY <1>1, <1>2, ParentIsPrefix, ChildOfParent
  <2> QED BY <1>1, <2>1, AboveChild, BelowIsCovers
<1>4. 0 \in Bit /\ 1 \in Bit /\ Child(x, 0) \in Prefix /\ Child(x, 1) \in Prefix
  BY <1>3, ChildIsPrefix DEF Bit
<1>5. r \in Record /\ (Trimmable(x) => /\ recs[x].type = "NODE" /\ r.type \in {"EMPTY", "DATA"}
                                       /\ \A c \in Bit : recs[Child(x, c)] = r)
  BY <1>1, <1>4 DEF Trimmable, Identical, Bit
<1> HIDE DEF x, r
<1>6. Covers(x, net)
  BY <1>1, <1>3, CoversOrder
<1>7. CASE ~Trimmable(x)
  <2>1. recs' = recs
    BY <1>2, <1>7
  <2> QED BY <1>2, <1>6, <2>1 DEF InsertPart
<1>8. CASE Trimmable(x)
  <2>1. \A q \in Prefix :
           /\ q = x => recs'[q] = r
           /\ ~Covers(x, q) => recs'[q] = recs[q]
           /\ Below(x, q) => recs'[q] = Plain("ABSENT")
           /\ q = x \/ ~Covers(x, q) \/ Below(x, q)
    <3>1. r.type # "FIXED_NODE" /\ recs' = Graft(x, r)
      BY <1>2, <1>5, <1>8
    <3>2. \A q \in Prefix :
                /\ q = x => recs'[q] = r
                /\ ~Covers(x, q) => recs'[q] = recs[q]
                /\ Below(x, q) => recs'[q] = IF r.type = "FIXED_NODE" /\ Len(q) = Len(x) + 1
                                             THEN Plain("EMPTY") ELSE Plain("ABSENT")
                /\ q = x \/ ~Covers(x, q) \/ Below(x, q)
      BY <1>1, <1>3, <1>5, <3>1, GraftedRecords
    <3> QED BY <3>1, <3>2
  <2>2. Plain("ABSENT").type = "ABSENT"
    BY DEF Plain
  <2>3. ASSUME NEW p \in Prefix, Below(x, p)
        PROVE  /\ p[Len(x) + 1] \in Bit /\ Child(x, p[Len(x) + 1]) \in Prefix
               /\ Covers(Child(x, p[Len(x) + 1]), p)
               /\ recs[Child(x, p[Len(x) + 1])] = r
    BY <1>3, <1>5, <1>8, <2>3, ChildToward, ChildIsPrefix
  <2>4. ASSUME NEW m \in Prefix, Pending(recs, m) PROVE Pending(recs', m)
    <3>1. ~Covers(m, x)
      BY <1>3, <1>5, <1>8, <2>4 DEF Pending
    <3>2. ASSUME Below(x, m) PROVE r.type = "EMPTY"
      <4> DEFINE c == Child(x, m[Len(x) + 1])
      <4>1. c \in Prefix /\ Covers(c, m) /\ recs[c] = r
        BY <2>3, <3>2
      <4> HIDE DEF c
      <4>2. c = m \/ Below(c, m)
        BY <4>1, BelowIsCovers
      <4>3. Covers(m, m)
        BY CoversOrder
      <4>4. recs[c].type \in {"EMPTY", "NODE", "FIXED_NODE", "ABSENT"}
        BY <2>4, <4>1, <4>2, <4>3 DEF Pending
      <4> QED BY <1>5, <1>8, <4>1, <4>4
    <3>3. ASSUME NEW p \in Prefix, Below(p, m)
          PROVE  recs'[p].type \in {"EMPTY", "NODE", "FIXED_NODE", "ABSENT"}
      <4>1. p = x => recs'[p].type = "EMPTY"
        BY <2>1, <3>2, <3>3
      <4> QED BY <2>1, <2>2, <2>4, <3>3, <4>1 DEF Pending
    <3>4. ASSUME NEW p \in Prefix, Covers(m, p) PROVE recs'[p].type \in {"EMPTY", "ABSENT"}
      <4>1. p # x
        BY <3>1, <3>4
      <4> QED BY <2>1, <2>2, <2>4, <3>4, <4>1 DEF Pending
    <3> QED BY <3>3, <3>4 DEF Pending
  <2>5. ASSUME NEW it, it.net \in Prefix, it.rec.type = "DATA", IsDone(recs, it)
        PROVE  IsDone(recs', it)
    <3>1. PICK p \in Prefix : Covers(p, it.net) /\ recs[p] = it.rec
      BY <2>5 DEF IsDone
    <3>2. CASE ~Covers(x, p)
      BY <2>1, <3>1, <3>2 DEF IsDone
    <3>3. CASE Covers(x, p)
      <4>1. p # x
        BY <1>5, <1>8, <2>5, <3>1
      <4>2. Below(x, p)
        BY <1>3, <3>3, <4>1, BelowIsCovers
      <4> DEFINE c == Child(x, p[Len(x) + 1])
      <4>3. c \in Prefix /\ Covers(c, p) /\ recs[c] = r
        BY <2>3, <4>2
      <4> HIDE DEF c
      <4>4. ~HasNode(recs[c]) /\ recs[p].type # "ABSENT"
        BY <1>5, <1>8, <2>5, <3>1, <4>3 DEF HasNode
      <4>5. ~Below(c, p)
        BY <1>1, <4>3, <4>4, NodesAbove
      <4>6. c = p
        BY <4>3, <4>5, BelowIsCovers
      <4>7. recs'[x] = it.rec
        BY <1>3, <2>1, <3>1, <4>3, <4>6
      <4>8. Covers(x, it.net)
        BY <1>3, <2>5, <3>1, <3>3, CoversOrder
      <4> QED BY <1>3, <4>7, <4>8 DEF IsDone
    <3> QED BY <3>2, <3>3
  <2>6. FromFile(recs')
    <3> SUFFICES ASSUME NEW q \in Prefix, recs'[q].type = "DATA", NEW a \in Address, Covers(q, a)
                 PROVE  \E i \in 1..Len(ToThaw) :
                           ToThaw[i].rec = recs'[q] /\ Covers(ToThaw[i].net, a)
      BY DEF FromFile
    <3>1. FromFile(recs)
      BY DEF InsertPart
    <3>2. CASE q = x
      <4>1. a \in Prefix /\ Len(a) = W
        BY AddressIsPrefix
      <4>2. Below(x, a)
        BY <1>3, <3>2, <4>1 DEF Below
      <4> DEFINE c == Child(x, a[Len(x) + 1])
      <4>3. c \in Prefix /\ Covers(c, a) /\ recs[c] = r
        BY <2>3, <4>1, <4>2
      <4> HIDE DEF c
      <4>4. recs'[q] = recs[c]
        BY <1>3, <2>1, <3>2, <4>3
      <4> QED BY <3>1, <4>3, <4>4 DEF FromFile
    <3>3. CASE q # x
      <4>1. recs'[q] = recs[q]
        BY <2>1, <2>2, <3>3
      <4> QED BY <3>1, <4>1 DEF FromFile
    <3> QED BY <3>2, <3>3
  <2>7. ASSUME NEW i \in 1..(Current - 1) PROVE IsDone(recs', ToThaw[i])
    <3>1. i \in 1..Len(ToThaw) /\ IsDone(recs, ToThaw[i])
      BY <1>1 DEF InsertPart
    <3> QED BY <1>1, <2>5, <3>1
  <2>8. IsDone(recs', Head(queue))
    <3>1. IsDone(recs, Head(queue))
      BY <1>2 DEF InsertPart
    <3> QED BY <1>1, <2>5, <3>1
  <2>9. ASSUME NEW i \in 1..Len(ToThaw), i > Current PROVE Pending(recs', ToThaw[i].net)
    <3>1. ToThaw[i].net \in Prefix /\ Pending(recs, ToThaw[i].net)
      BY <1>1, <2>9 DEF InsertPart
    <3> QED BY <2>4, <3>1
  <2> QED BY <1>2, <1>6, <2>6, <2>7, <2>8, <2>9 DEF InsertPart
<1> QED BY <1>7, <1>8

\* Every step of the recursion.
LEMMA InsertStep ==
    ASSUME Inv, Shape, SetupInv, FileFits, Inserting, InsertPart(recs, at, dir), Recurse
    PROVE  InsertPart(recs', at', dir')
<1>1. /\ at \in Prefix /\ net \in Prefix /\ strategy = "none" /\ Covers(at, net)
      /\ dir = "down" => recs[at].type \in {"EMPTY", "NODE", "FIXED_NODE"}
  BY InsertFacts
<1>2. ~MergeRecord
  BY <1>1 DEF MergeRecord, Merges
<1>3. ~Ignore
  BY <1>1 DEF Ignore, Down, SkipsEmpty
<1>4. ~GoLeft
  <2> SUFFICES ASSUME GoLeft PROVE FALSE
    OBVIOUS
  <2>1. at # << >> /\ Len(Parent(at)) >= Len(net)
    BY DEF GoLeft, Up, LeftIsNext
  <2>2. Len(Parent(at)) = Len(at) - 1 /\ Len(at) <= Len(net) /\ Len(at) \in Nat /\ Len(net) \in Nat
    BY <1>1, <2>1, ParentIsPrefix, PrefixLength, BelowIsCovers
  <2> QED BY <2>1, <2>2
<1>5. CASE SetRecord
  <2>1. at' = at /\ dir' = "up"
    BY <1>5 DEF SetRecord
  <2> QED BY <1>5, <2>1, InsertSet
<1>6. CASE Descend
  <2>1. dir' = "down"
    BY <1>6 DEF Descend, Down
  <2> QED BY <1>6, <2>1, InsertDescend
<1>7. CASE Trim
  <2>1. dir' = "up"
    BY <1>7 DEF Trim, Up
  <2> QED BY <1>7, <2>1, InsertTrim
<1> QED BY <1>2, <1>3, <1>4, <1>5, <1>6, <1>7 DEF Recurse

-----------------------------------------------------------------------------
(* What is written: the networks of the data, each with its key            *)

Frames == {f \in Frame : f.network = Padded(f.at)}

NetworkRecord == [network : Address, prefix_length : 1..W, key : Key]

\* The records of t at the positions in S that are data, each once.
Listed(t, nets, S) ==
    /\ nets \in Seq(NetworkRecord)
    /\ \A i \in 1..Len(nets) :
          Thawed(nets[i]).net \in S /\ t[Thawed(nets[i]).net] = Thawed(nets[i]).rec
    /\ \A p \in S : t[p].type = "DATA" => \E i \in 1..Len(nets) : Thawed(nets[i]).net = p
    /\ \A i, j \in 1..Len(nets) : i # j => Thawed(nets[i]).net # Thawed(nets[j]).net

\* The networks can all be put in a tree made with the options o.
Fits(o, nets) ==
    /\ nets \in Seq(NetworkRecord)
    /\ \A i, j \in 1..Len(nets) : i # j => ~Covers(Thawed(nets[i]).net, Thawed(nets[j]).net)
    /\ \A i \in 1..Len(nets) : Free(NewTreeQueue(o), Thawed(nets[i]).net)

\* What thaw_network makes of a network.
LEMMA ThawedFacts ==
    ASSUME NEW n \in NetworkRecord
    PROVE  /\ Thawed(n) \in Item /\ Thawed(n).net \in Prefix
           /\ Thawed(n).net = [i \in 1..n.prefix_length |-> n.network[i]]
           /\ Thawed(n).rec = Data(n.key) /\ Thawed(n).rec.type = "DATA" /\ n.key \in Key
<1>1. /\ n.prefix_length \in 1..W /\ n.key \in Key /\ W \in Nat
      /\ n.network \in [1..W -> Bit]
  BY WidthAssumption DEF NetworkRecord, Address
<1>2. [i \in 1..n.prefix_length |-> n.network[i]] \in [1..n.prefix_length -> Bit]
  BY <1>1
<1>3. [i \in 1..n.prefix_length |-> n.network[i]] \in Prefix
  BY <1>1, <1>2 DEF Prefix
<1>4. Data(n.key) \in Record /\ Data(n.key).type = "DATA"
  BY <1>1, RecordFacts
<1> QED BY <1>1, <1>3, <1>4 DEF Thawed, Item

\* What thaw_tree reads is what freeze_data_record wrote.
LEMMA NetworkFacts ==
    ASSUME recs \in [Prefix -> Record], NEW f \in Frames, Len(f.at) < W, NEW b \in Bit,
           recs[Child(f.at, b)].type = "DATA"
    PROVE  /\ Network(f, b) \in NetworkRecord
           /\ Thawed(Network(f, b)).net = Child(f.at, b)
           /\ Thawed(Network(f, b)).rec = recs[Child(f.at, b)]
<1> DEFINE p == Child(f.at, b)
           n == Network(f, b)
<1>1. f.at \in Prefix /\ f.network = Padded(f.at)
  BY DEF Frames, Frame
<1>2. /\ p \in Prefix /\ Len(p) = Len(f.at) + 1 /\ Len(f.at) \in Nat /\ W \in Nat
      /\ recs[p] \in Record /\ recs[p].key \in Key /\ recs[p] = Data(recs[p].key)
  BY <1>1, ChildIsPrefix, PrefixLength, WidthAssumption, RecordFacts
<1>3. n = [network |-> Half(f, b).network, prefix_length |-> Len(p), key |-> recs[p].key]
  BY <1>2 DEF Network
<1>4. Half(f, b).network = Padded(p)
  BY <1>1, FramesOfHalves
<1> HIDE DEF p
<1>5. Padded(p) \in Address /\ [i \in 1..Len(p) |-> Padded(p)[i]] = p
  BY <1>2, FirstAddress
<1>6. n = [network |-> Padded(p), prefix_length |-> Len(p), key |-> recs[p].key]
  BY <1>3, <1>4
<1>7. Len(p) \in 1..W
  BY <1>2
<1> HIDE DEF n
<1>8. n \in NetworkRecord /\ n.network = Padded(p) /\ n.prefix_length = Len(p) /\ n.key = recs[p].key
  BY <1>2, <1>5, <1>6, <1>7 DEF NetworkRecord
<1>9. Thawed(n).net = p /\ Thawed(n).rec = recs[p]
  BY <1>2, <1>5, <1>8, ThawedFacts
<1> QED BY <1>8, <1>9 DEF p, n

\* A network more is listed.
LEMMA ListOne ==
    ASSUME NEW t, NEW nets, NEW S, Listed(t, nets, S), NEW n \in NetworkRecord,
           Thawed(n).net \notin S, t[Thawed(n).net] = Thawed(n).rec
    PROVE  Listed(t, nets \o <<n>>, S \cup {Thawed(n).net})
<1> DEFINE all == nets \o <<n>>
           p == Thawed(n).net
<1>1. nets \in Seq(NetworkRecord) /\ <<n>> \in Seq(NetworkRecord) /\ Len(nets) \in Nat
  BY LenProperties DEF Listed
<1>2. /\ all \in Seq(NetworkRecord) /\ Len(all) = Len(nets) + 1 /\ all[Len(nets) + 1] = n
      /\ \A i \in 1..Len(nets) : all[i] = nets[i]
  <2>1. Len(<<n>>) = 1 /\ <<n>>[1] = n
    OBVIOUS
  <2> QED BY <1>1, <2>1, ConcatProperties
<1> HIDE DEF all
<1>3. ASSUME NEW i \in 1..Len(all)
      PROVE  (i \in 1..Len(nets) /\ all[i] = nets[i]) \/ (i = Len(nets) + 1 /\ all[i] = n)
  BY <1>1, <1>2
<1>4. \A i \in 1..Len(nets) : i \in 1..Len(all) /\ Thawed(all[i]).net \in S
  BY <1>1, <1>2 DEF Listed
<1>5. Len(nets) + 1 \in 1..Len(all)
  BY <1>1, <1>2
<1>6. t[p] = Thawed(n).rec /\ p \notin S
  OBVIOUS
<1> HIDE DEF p
<1>7. ASSUME NEW i \in 1..Len(all)
      PROVE  Thawed(all[i]).net \in S \cup {p} /\ t[Thawed(all[i]).net] = Thawed(all[i]).rec
  <2>1. CASE i \in 1..Len(nets) /\ all[i] = nets[i]
    BY <2>1 DEF Listed
  <2>2. CASE all[i] = n
    BY <1>6, <2>2 DEF p
  <2> QED BY <1>3, <2>1, <2>2
<1>8. ASSUME NEW q \in S \cup {p}, t[q].type = "DATA"
      PROVE  \E i \in 1..Len(all) : Thawed(all[i]).net = q
  <2>1. CASE q \in S
    <3>1. PICK i \in 1..Len(nets) : Thawed(nets[i]).net = q
      BY <1>8, <2>1 DEF Listed
    <3> QED BY <1>2, <1>4, <3>1
  <2>2. CASE q = p
    BY <1>2, <1>5, <2>2 DEF p
  <2> QED BY <2>1, <2>2
<1>9. ASSUME NEW i \in 1..Len(all), NEW j \in 1..Len(all), i # j
      PROVE  Thawed(all[i]).net # Thawed(all[j]).net
  <2>1. CASE i \in 1..Len(nets) /\ j \in 1..Len(nets)
    BY <1>2, <1>9, <2>1 DEF Listed
  <2>2. CASE i \notin 1..Len(nets)
    <3>1. all[i] = n /\ j \in 1..Len(nets)
      BY <1>3, <1>9, <2>2
    <3> QED BY <1>4, <1>6, <3>1 DEF p
  <2>3. CASE j \notin 1..Len(nets)
    <3>1. all[j] = n /\ i \in 1..Len(nets)
      BY <1>3, <1>9, <2>3
    <3> QED BY <1>4, <1>6, <3>1 DEF p
  <2> QED BY <2>1, <2>2, <2>3
<1> QED BY <1>2, <1>7, <1>8, <1>9 DEF Listed, all, p

\* ... or none, for a record that is not data.
LEMMA ListNone ==
    ASSUME NEW t, NEW nets, NEW S, Listed(t, nets, S), NEW p, t[p].type # "DATA"
    PROVE  Listed(t, nets \o << >>, S \cup {p})
<1>1. nets \o << >> = nets
  BY ConcatEmptySeq DEF Listed
<1> QED BY <1>1 DEF Listed

\* A list of networks, as items to insert.
LEMMA ThawItemsFacts ==
    ASSUME NEW nets \in Seq(NetworkRecord)
    PROVE  /\ ThawItems(nets) \in DataItems /\ Len(ThawItems(nets)) = Len(nets) /\ Len(nets) \in Nat
           /\ \A i \in 1..Len(nets) : ThawItems(nets)[i] = Thawed(nets[i])
           /\ \A i \in 1..Len(nets) : Thawed(nets[i]).net \in Prefix /\ Thawed(nets[i]).rec.type = "DATA"
<1>1. DOMAIN nets = 1..Len(nets) /\ Len(nets) \in Nat
  BY LenProperties
<1>2. ASSUME NEW i \in 1..Len(nets)
      PROVE  Thawed(nets[i]) \in Item /\ Thawed(nets[i]).net \in Prefix
             /\ Thawed(nets[i]).rec.type = "DATA"
  <2>1. nets[i] \in NetworkRecord
    BY ElementOfSeq
  <2> QED BY <2>1, ThawedFacts
<1> DEFINE d == [i \in 1..Len(nets) |-> Thawed(nets[i])]
<1>3. ThawItems(nets) = d
  BY <1>1 DEF ThawItems
<1>4. d \in [1..Len(nets) -> Item] /\ \A i \in 1..Len(nets) : d[i] = Thawed(nets[i])
  BY <1>2
<1> HIDE DEF d
<1>5. d \in Seq(Item) /\ Len(d) = Len(nets)
  BY <1>1, <1>4, IsASeq, LenProperties
<1>6. d \in DataItems
  BY <1>2, <1>4, <1>5 DEF DataItems
<1> QED BY <1>1, <1>2, <1>3, <1>4, <1>5, <1>6

\* The networks of a tree fit a tree made alike.
LEMMA ListedFits ==
    ASSUME NEW o \in Options, NEW t, IsTree(t), AsMade(NewTreeQueue(o), t),
           NEW nets, NEW S \in SUBSET Prefix, Listed(t, nets, S)
    PROVE  Fits(o, nets)
<1>1. nets \in Seq(NetworkRecord)
  BY DEF Listed
<1>2. ASSUME NEW i \in 1..Len(nets)
      PROVE  Thawed(nets[i]).net \in Prefix /\ t[Thawed(nets[i]).net].type = "DATA"
  BY <1>1, <1>2, ThawItemsFacts DEF Listed
<1>3. ASSUME NEW i \in 1..Len(nets), NEW j \in 1..Len(nets), i # j
      PROVE  ~Covers(Thawed(nets[i]).net, Thawed(nets[j]).net)
  <2> DEFINE p == Thawed(nets[i]).net
             q == Thawed(nets[j]).net
  <2>1. p # q /\ p \in Prefix /\ q \in Prefix /\ t[p].type = "DATA" /\ t[q].type = "DATA"
    BY <1>2, <1>3 DEF Listed
  <2> HIDE DEF p, q
  <2>2. ~Below(p, q)
    BY <2>1, NodesAbove DEF HasNode
  <2>3. ~Covers(p, q)
    BY <2>1, <2>2, BelowIsCovers
  <2> QED BY <2>3 DEF p, q
<1>4. ASSUME NEW i \in 1..Len(nets) PROVE Free(NewTreeQueue(o), Thawed(nets[i]).net)
  <2> DEFINE m == Thawed(nets[i]).net
             q == NewTreeQueue(o)
  <2>1. m \in Prefix /\ t[m].type = "DATA" /\ q \in Seq(Item) /\ AsMade(q, t)
    BY <1>2, QueueItems
  <2> HIDE DEF m, q
  <2>2. Free(q, m)
    BY <2>1, FreeOfMade
  <2> QED BY <2>2 DEF m, q
<1> QED BY <1>1, <1>3, <1>4 DEF Fits

\* So do those at the beginning of the file.
LEMMA FitsBeginning ==
    ASSUME NEW o, NEW nets, Fits(o, nets), NEW n \in 0..Len(nets)
    PROVE  Fits(o, SubSeq(nets, 1, n))
<1> DEFINE b == SubSeq(nets, 1, n)
<1>1. nets \in Seq(NetworkRecord) /\ Len(nets) \in Nat
  BY LenProperties DEF Fits
<1>2. b \in Seq(NetworkRecord) /\ Len(b) = n /\ \A i \in 1..n : b[i] = nets[i]
  BY <1>1, SubSeqProperties
<1>3. \A i \in 1..n : i \in 1..Len(nets)
  BY <1>1
<1> HIDE DEF b
<1>4. Fits(o, b)
  BY <1>2, <1>3 DEF Fits
<1> QED BY <1>4 DEF b

\* So do none.
LEMMA NoneFits == ASSUME NEW o PROVE Fits(o, << >>)
<1>1. << >> \in Seq(NetworkRecord) /\ Len(<< >>) = 0
  BY EmptySeq
<1> QED BY <1>1 DEF Fits

-----------------------------------------------------------------------------
(* The invariant of freezing and thawing                                   *)

IsFile(f) == f = [opts |-> f.opts, nets |-> f.nets, hash |-> f.hash, ends |-> f.ends]

\* The positions in nodes that do not wait on the stack s.
Visited(s) ==
    {p \in Prefix : p # << >> /\ HasNode(recs[Parent(p)]) /\ ~Waits(s, Parent(p))}

\* The file has the networks of the nodes visited.
FreezePart ==
    task = "freeze" =>
        /\ op = "idle" /\ HasNode(recs[<< >>]) /\ file.opts = opts
        /\ InOrder(stack) /\ stack \in Seq(Frames)
        /\ Listed(recs, file.nets, Visited(stack))
        /\ file.ends \in {"networks", "separator"}
        /\ file.ends = "separator" => stack = << >>

FileInv ==
    /\ IsFile(file) /\ FreezePart
    /\ task \in {"frozen", "thaw"} => file.opts \in Options /\ Fits(file.opts, file.nets)
    /\ task # "freeze" => stack = << >>

\* What is in the tree while the file is read, and when it has been.
AllIn(t) == (\A i \in 1..Len(ToThaw) : IsDone(t, ToThaw[i])) /\ FromFile(t)
ThawPart ==
    task = "thaw" =>
        /\ op \in {"new_tree", "idle", "freed"} /\ opts = file.opts
        /\ Inserting => InsertPart(recs, at, dir)
        /\ op = "idle" => AllIn(recs)

FInv == Inv /\ Shape /\ SetupInv /\ FileInv /\ ThawPart

\* A tree between calls.
LEMMA IdleTree ==
    ASSUME Inv, Shape, SetupInv, op # "freed"
    PROVE  /\ IsTree(recs) /\ opts \in Options
           /\ op = "idle" => AsMade(NewTreeQueue(opts), recs)
<1>1. IsTree(recs)
  BY DEF Inv, TypeOK, Shape, Depth, IsTree
<1>2. opts \in Options /\ (op = "idle" => AsMade(NewTreeQueue(opts), recs))
  BY DEF SetupInv, Made, Setup
<1> QED BY <1>1, <1>2

\* Freezing changes no tree.
LEMMA FreezeKeeps ==
    ASSUME Inv, Shape, SetupInv, op = "idle", UNCHANGED vars
    PROVE  Inv' /\ Shape' /\ SetupInv' /\ Nodes' = Nodes
<1>1. Inv'
  BY NextInv
<1>2. Shape' /\ Nodes' = Nodes
  BY DEF vars, Shape, Nodes
<1>3. AsMade(Setup, recs)
  BY DEF SetupInv, Made
<1>4. SetupInv'
  BY <1>3, IdleSetup DEF vars
<1> QED BY <1>1, <1>2, <1>4

\* Freezing begins.
LEMMA FreezeBegins == ASSUME FInv, Freeze PROVE FInv'
<1>1. /\ op = "idle" /\ HasNode(recs[<< >>]) /\ UNCHANGED vars /\ task' = "freeze"
      /\ stack' = <<RootFrame>> /\ file' = [NoFile EXCEPT !.opts = opts]
  BY DEF Freeze, CanIterate
<1>2. Inv' /\ Shape' /\ SetupInv' /\ Nodes' = Nodes
  BY <1>1, FreezeKeeps DEF FInv
<1>3. IsTree(recs)
  BY <1>1, IdleTree DEF FInv
<1>4. InOrder(<<RootFrame>>) /\ \A q \in Nodes : Waits(<<RootFrame>>, q)
  BY <1>1, <1>3, BeginInOrder
<1>5. InOrder(stack)'
  BY <1>1, <1>2, <1>4 DEF InOrder
<1>6. <<RootFrame>> \in Seq(Frames)
  <2>1. RootFrame \in Frames
    <3>1. << >> \in Prefix /\ Len(<< >>) = 0 /\ W \in Nat
      BY RootIsPrefix, WidthAssumption
    <3>2. Padded(<< >>) \in Address
      BY <3>1, FirstAddress
    <3>3. Padded(<< >>) = [i \in 1..W |-> 0]
      BY <3>1 DEF Padded
    <3> QED BY <3>1, <3>2, <3>3 DEF RootFrame, Frames, Frame
  <2> QED BY <2>1
<1>7. Visited(<<RootFrame>>) = {}
  BY <1>4, ParentIsPrefix DEF Visited, Nodes
<1>8. /\ file'.opts = opts /\ file'.nets = << >> /\ file'.ends = "networks"
      /\ IsFile(file)'
  BY <1>1 DEF NoFile, IsFile
<1>9. Listed(recs, << >>, {})
  BY EmptySeq DEF Listed
<1>10. Visited(stack)' = {}
  BY <1>1, <1>7 DEF Visited, vars
<1>11. Listed(recs, file.nets, Visited(stack))'
  BY <1>1, <1>8, <1>9, <1>10 DEF vars, Listed
<1>12. FreezePart'
  BY <1>1, <1>5, <1>6, <1>8, <1>11 DEF FreezePart, vars
<1>13. FileInv'
  BY <1>1, <1>8, <1>12 DEF FileInv
<1>14. ThawPart'
  BY <1>1 DEF ThawPart
<1> QED BY <1>2, <1>13, <1>14 DEF FInv

\* A tree without nodes: there is nothing in the file but the options.
LEMMA FreezeNothing == ASSUME FInv, FreezeWithoutNodes PROVE FInv'
<1>1. /\ op = "idle" /\ UNCHANGED vars /\ task' = "frozen"
      /\ stack' = << >> /\ file' = [NoFile EXCEPT !.opts = opts]
  BY DEF FreezeWithoutNodes
<1>2. Inv' /\ Shape' /\ SetupInv' /\ opts \in Options
  BY <1>1, FreezeKeeps DEF FInv, SetupInv
<1>3. file'.opts = opts /\ file'.nets = << >> /\ IsFile(file)'
  BY <1>1 DEF NoFile, IsFile
<1>4. Fits(opts, << >>)
  BY NoneFits
<1>5. FileInv'
  BY <1>1, <1>2, <1>3, <1>4 DEF FileInv, FreezePart
<1> QED BY <1>1, <1>2, <1>5 DEF FInv, ThawPart

\* A node is entered.
LEMMA FreezeEnters == ASSUME FInv, EnterNode PROVE FInv'
<1> DEFINE f == Head(stack)
           t == Enter(f, FALSE) \o Tail(stack)
<1>1. /\ stack # << >> /\ ~f.due /\ stack' = t
      /\ UNCHANGED <<vars, task, file, was>> /\ UNCHANGED vars
  BY DEF EnterNode, Top
<1>2. task = "freeze" /\ op = "idle" /\ InOrder(stack) /\ stack \in Seq(Frames)
  BY <1>1 DEF FInv, FileInv, FreezePart
<1>3. Inv' /\ Shape' /\ SetupInv' /\ Nodes' = Nodes /\ IsTree(recs)
  BY <1>1, <1>2, FreezeKeeps, IdleTree DEF FInv
<1>4. InOrder(t) /\ \A q \in Nodes : Waits(t, q) <=> Waits(stack, q)
  BY <1>1, <1>2, <1>3, EnterInOrder
<1>5. t \in Seq(Frames)
  <2>1. f \in Frames /\ Tail(stack) \in Seq(Frames)
    BY <1>1, <1>2, HeadTailProperties
  <2>2. f.at \in Prefix /\ Len(f.at) < W /\ f.network = Padded(f.at) /\ f.network \in Address
    <3>1. f.at \in Nodes
      BY <1>1, <1>2, Pop
    <3> QED BY <1>3, <2>1, <3>1 DEF Nodes, IsTree, Frames, Frame
  <2> DEFINE d == Due(f)
             l == Half(f, 0)
             r == Half(f, 1)
  <2>3. d \in Frames
    BY <2>2 DEF Due, Frames, Frame
  <2>4. ASSUME NEW b \in Bit PROVE Half(f, b) \in Frames
    <3> DEFINE h == Half(f, b)
               c == Child(f.at, b)
    <3>1. h.at = c /\ h.due = FALSE /\ h.network = Padded(c) /\ c \in Prefix
      <4> HIDE DEF f
      <4>1. /\ Half(f, b).at = Child(f.at, b) /\ Half(f, b).due = FALSE
            /\ Half(f, b).network = Padded(Child(f.at, b))
        BY <2>2, FramesOfHalves
      <4>2. Child(f.at, b) \in Prefix
        BY <2>2, ChildIsPrefix
      <4> QED BY <4>1, <4>2
    <3>2. Padded(c) \in Address
      BY <3>1, FirstAddress
    <3>3. h = [at |-> h.at, network |-> h.network, due |-> h.due]
      BY DEF Half
    <3> HIDE DEF h, c
    <3>4. h \in Frames
      BY <3>1, <3>2, <3>3 DEF Frames, Frame
    <3> QED BY <3>4 DEF h
  <2>5. l \in Frames /\ r \in Frames
    BY <2>4 DEF Bit
  <2>6. Enter(f, FALSE) = (IfNode(d) \o IfNode(l)) \o IfNode(r)
    BY DEF Enter
  <2> HIDE DEF d, l, r, f
  <2>7. IfNode(d) \in Seq(Frames) /\ IfNode(l) \in Seq(Frames) /\ IfNode(r) \in Seq(Frames)
    BY <2>3, <2>5 DEF IfNode
  <2> QED BY <2>1, <2>6, <2>7, ConcatProperties
<1>6. Visited(t) = Visited(stack)
  BY <1>4, ParentIsPrefix DEF Visited, Nodes
<1> HIDE DEF t
<1>7. InOrder(stack)'
  BY <1>1, <1>3, <1>4 DEF InOrder
<1>8. Visited(stack)' = Visited(stack)
  BY <1>1, <1>6 DEF Visited, vars
<1>9. Listed(recs, file.nets, Visited(stack))'
  BY <1>1, <1>2, <1>8 DEF vars, Listed, FInv, FileInv, FreezePart
<1>10. FreezePart'
  <2>1. file.ends # "separator"
    BY <1>1, <1>2 DEF FInv, FileInv, FreezePart
  <2> QED BY <1>1, <1>2, <1>5, <1>7, <1>9, <2>1 DEF FreezePart, FInv, FileInv, vars
<1>11. FileInv'
  BY <1>1, <1>2, <1>10 DEF FileInv, FInv, IsFile
<1> QED BY <1>1, <1>2, <1>3, <1>11 DEF FInv, ThawPart

\* The networks of a node are written.
LEMMA FreezeVisits == ASSUME FInv, FreezeNode PROVE FInv'
<1> DEFINE f == Head(stack)
           t == Tail(stack)
           p == f.at
           a == Child(p, 0)
           b == Child(p, 1)
           A == IF recs[a].type = "DATA" THEN <<Network(f, 0)>> ELSE << >>
           B == IF recs[b].type = "DATA" THEN <<Network(f, 1)>> ELSE << >>
           n == file.nets
           V == Visited(stack)
<1>1. /\ task = "freeze" /\ stack # << >> /\ f.due /\ stack' = t
      /\ file' = [file EXCEPT !.nets = n \o (A \o B)]
      /\ UNCHANGED <<vars, task, was>> /\ UNCHANGED vars
  BY DEF FreezeNode, Top, DataOf
<1>2. /\ op = "idle" /\ InOrder(stack) /\ stack \in Seq(Frames) /\ Listed(recs, n, V)
      /\ file.ends \in {"networks", "separator"} /\ file.ends # "separator"
      /\ file.opts = opts /\ HasNode(recs[<< >>]) /\ IsFile(file)
  BY <1>1 DEF FInv, FileInv, FreezePart
<1>3. Inv' /\ Shape' /\ SetupInv' /\ Nodes' = Nodes /\ IsTree(recs)
  BY <1>1, <1>2, FreezeKeeps, IdleTree DEF FInv
<1>4. /\ InOrder(t) /\ p \in Nodes
      /\ \A q \in Nodes : Waits(stack, q) <=> q = p \/ Waits(t, q)
      /\ ~Waits(t, p)
  <2>1. /\ InOrder(t) /\ p \in Nodes
        /\ \A q \in Nodes : Waits(stack, q) <=> Stands(f, q) \/ Waits(t, q)
        /\ \A q \in Nodes : Waits(t, q) => t # << >> /\ ~Before(q, t[1].at)
        /\ t # << >> => Before(p, t[1].at)
    BY <1>1, <1>2, Pop
  <2> QED BY <1>1, <2>1 DEF Stands
<1>5. f \in Frames /\ t \in Seq(Frames) /\ p \in Prefix /\ Len(p) < W
  BY <1>1, <1>2, <1>3, <1>4, HeadTailProperties DEF Nodes, IsTree
<1>6. /\ 0 \in Bit /\ 1 \in Bit /\ \A c \in Bit : c = 0 \/ c = 1
      /\ \A c \in Bit : /\ Child(p, c) \in Prefix /\ Child(p, c) # << >> /\ Parent(Child(p, c)) = p
                        /\ Child(p, c)[Len(p) + 1] = c
  BY <1>5, ChildIsPrefix, AboveChild DEF Bit
<1>7. ASSUME NEW c \in Bit, recs[Child(p, c)].type = "DATA"
      PROVE  /\ Network(f, c) \in NetworkRecord
             /\ Thawed(Network(f, c)).net = Child(p, c)
             /\ Thawed(Network(f, c)).rec = recs[Child(p, c)]
  BY <1>3, <1>5, <1>7, NetworkFacts DEF IsTree
<1>8. a \notin V /\ b \notin V /\ a # b
  BY <1>4, <1>6 DEF Visited
<1>9. Visited(t) = (V \cup {a}) \cup {b}
  <2>1. ASSUME NEW q \in Visited(t) PROVE q \in V \/ q = a \/ q = b
    <3>1. q \in Prefix /\ q # << >> /\ HasNode(recs[Parent(q)]) /\ ~Waits(t, Parent(q))
      BY <2>1 DEF Visited
    <3>2. Parent(q) \in Nodes /\ q[Len(q)] \in Bit /\ q = Child(Parent(q), q[Len(q)])
      BY <3>1, ParentIsPrefix, ChildOfParent DEF Nodes
    <3>3. CASE Parent(q) = p
      BY <1>6, <3>2, <3>3
    <3>4. CASE Parent(q) # p
      BY <1>4, <3>1, <3>2, <3>4 DEF Visited
    <3> QED BY <3>3, <3>4
  <2>2. ASSUME NEW q \in V PROVE q \in Visited(t)
    <3>1. q \in Prefix /\ q # << >> /\ HasNode(recs[Parent(q)]) /\ ~Waits(stack, Parent(q))
      BY <2>2 DEF Visited
    <3>2. Parent(q) \in Nodes
      BY <3>1, ParentIsPrefix DEF Nodes
    <3> QED BY <1>4, <3>1, <3>2 DEF Visited
  <2>3. a \in Visited(t) /\ b \in Visited(t)
    BY <1>4, <1>6 DEF Visited, Nodes
  <2> QED BY <2>1, <2>2, <2>3
<1> HIDE DEF V, n, t, a, b
<1>10. Listed(recs, n \o A, V \cup {a}) /\ A \in Seq(NetworkRecord)
  <2>1. CASE recs[a].type = "DATA"
    <3>1. /\ Network(f, 0) \in NetworkRecord /\ Thawed(Network(f, 0)).net = a
          /\ Thawed(Network(f, 0)).rec = recs[a] /\ A = <<Network(f, 0)>>
      BY <1>6, <1>7, <2>1 DEF a
    <3> QED BY <1>2, <1>8, <3>1, ListOne
  <2>2. CASE recs[a].type # "DATA"
    <3>1. A = << >>
      BY <2>2
    <3> HIDE DEF A
    <3> QED BY <1>2, <2>2, <3>1, ListNone, EmptySeq
  <2> QED BY <2>1, <2>2
<1> DEFINE m == n \o A
           U == V \cup {a}
<1>11. Listed(recs, m, U) /\ b \notin U
  BY <1>8, <1>10
<1> HIDE DEF m, U
<1>12. Listed(recs, m \o B, U \cup {b}) /\ B \in Seq(NetworkRecord)
  <2>1. CASE recs[b].type = "DATA"
    <3>1. /\ Network(f, 1) \in NetworkRecord /\ Thawed(Network(f, 1)).net = b
          /\ Thawed(Network(f, 1)).rec = recs[b] /\ B = <<Network(f, 1)>>
      BY <1>6, <1>7, <2>1 DEF b
    <3> QED BY <1>11, <3>1, ListOne
  <2>2. CASE recs[b].type # "DATA"
    <3>1. B = << >>
      BY <2>2
    <3> HIDE DEF B
    <3> QED BY <1>11, <2>2, <3>1, ListNone, EmptySeq
  <2> QED BY <2>1, <2>2
<1>13. m \o B = n \o (A \o B)
  <2>1. n \in Seq(NetworkRecord)
    BY <1>2 DEF Listed
  <2> HIDE DEF A, B
  <2> QED BY <1>10, <1>12, <2>1, ConcatAssociative DEF m
<1> HIDE DEF A, B
<1>14. /\ file'.nets = n \o (A \o B) /\ file'.opts = opts /\ file'.ends = "networks"
       /\ IsFile(file)'
  BY <1>1, <1>2 DEF IsFile
<1>15. Visited(stack)' = U \cup {b}
  BY <1>1, <1>9 DEF Visited, vars, U
<1>16. Listed(recs, file.nets, Visited(stack))'
  <2>1. Listed(recs, file'.nets, U \cup {b})
    BY <1>12, <1>13, <1>14
  <2>2. recs' = recs
    BY <1>1 DEF vars
  <2> QED BY <1>15, <2>1, <2>2 DEF Listed
<1>17. InOrder(stack)'
  BY <1>1, <1>3, <1>4 DEF InOrder
<1>18. FreezePart'
  BY <1>1, <1>2, <1>5, <1>14, <1>16, <1>17 DEF FreezePart, vars
<1>19. FileInv'
  BY <1>1, <1>14, <1>18 DEF FileInv
<1> QED BY <1>1, <1>3, <1>19 DEF FInv, ThawPart

\* The end of the networks, the end of the file, and whatever else ends it.
LEMMA FreezeEnds == ASSUME FInv, FreezeSeparator \/ FreezeData \/ FreezeStops PROVE FInv'
<1>1. task = "freeze" /\ UNCHANGED vars
  BY DEF FreezeSeparator, FreezeData, FreezeStops
<1>2. /\ op = "idle" /\ InOrder(stack) /\ stack \in Seq(Frames)
      /\ Listed(recs, file.nets, Visited(stack)) /\ file.opts = opts /\ IsFile(file)
      /\ file.ends \in {"networks", "separator"} /\ HasNode(recs[<< >>])
      /\ file.ends = "separator" => stack = << >>
  BY <1>1 DEF FInv, FileInv, FreezePart
<1>3. /\ Inv' /\ Shape' /\ SetupInv' /\ Nodes' = Nodes /\ opts \in Options
      /\ Fits(opts, file.nets)
  <2>1. /\ Inv' /\ Shape' /\ SetupInv' /\ Nodes' = Nodes /\ IsTree(recs) /\ opts \in Options
        /\ AsMade(NewTreeQueue(opts), recs)
    BY <1>1, <1>2, FreezeKeeps, IdleTree DEF FInv
  <2>2. Visited(stack) \in SUBSET Prefix
    BY DEF Visited
  <2>3. Fits(opts, file.nets)
    BY <1>2, <2>1, <2>2, ListedFits
  <2> QED BY <2>1, <2>3
<1>4. CASE FreezeSeparator
  <2>1. /\ stack = << >> /\ stack' = stack /\ task' = "freeze"
        /\ file' = [file EXCEPT !.ends = "separator"]
    BY <1>1, <1>4 DEF FreezeSeparator
  <2>2. file'.opts = opts /\ file'.nets = file.nets /\ file'.ends = "separator" /\ IsFile(file)'
    BY <1>2, <2>1 DEF IsFile
  <2>3. Visited(stack)' = Visited(stack)
    BY <1>1, <2>1 DEF Visited, vars
  <2>4. Listed(recs, file.nets, Visited(stack))'
    BY <1>1, <1>2, <2>2, <2>3 DEF vars, Listed
  <2>5. InOrder(stack)'
    BY <1>2, <1>3, <2>1 DEF InOrder
  <2>6. FreezePart'
    BY <1>1, <1>2, <2>1, <2>2, <2>4, <2>5 DEF FreezePart, vars
  <2>7. FileInv'
    BY <2>1, <2>2, <2>6 DEF FileInv
  <2> QED BY <1>3, <2>1, <2>7 DEF FInv, ThawPart
<1>5. CASE FreezeData
  <2>1. /\ stack' = << >> /\ task' = "frozen"
        /\ file' = [file EXCEPT !.hash = {k \in Key : table[k].count > 0}, !.ends = "data"]
    BY <1>2, <1>5 DEF FreezeData
  <2>2. file'.opts = opts /\ file'.nets = file.nets /\ IsFile(file)'
    BY <1>2, <2>1 DEF IsFile
  <2>3. FileInv'
    BY <1>3, <2>1, <2>2 DEF FileInv, FreezePart
  <2> QED BY <1>3, <2>1, <2>3 DEF FInv, ThawPart
<1>6. CASE FreezeStops
  <2>1. /\ stack' = << >>
        /\ \/ task' = "frozen" /\ file' \in {file} \cup Beginnings(file) \cup DataBegun(file)
           \/ task' = "none" /\ file' = NoFile
    BY <1>6 DEF FreezeStops
  <2>2. CASE task' = "none" /\ file' = NoFile
    <3>1. FileInv'
      BY <2>1, <2>2 DEF FileInv, FreezePart, IsFile, NoFile
    <3> QED BY <1>3, <2>2, <3>1 DEF FInv, ThawPart
  <2>3. CASE task' = "frozen" /\ file' \in {file} \cup Beginnings(file) \cup DataBegun(file)
    <3>1. file'.opts = opts /\ Fits(opts, file'.nets) /\ IsFile(file)'
      <4>1. CASE file' = file
        BY <1>2, <1>3, <4>1 DEF IsFile
      <4>2. CASE file' \in Beginnings(file)
        <5>1. PICK k \in 0..Len(file.nets) :
                 file' = [file EXCEPT !.ends = "networks", !.nets = SubSeq(file.nets, 1, k)]
          BY <4>2 DEF Beginnings
        <5> DEFINE b == SubSeq(file.nets, 1, k)
        <5>2. Fits(opts, b)
          BY <1>3, FitsBeginning
        <5> HIDE DEF b
        <5>3. file' = [file EXCEPT !.ends = "networks", !.nets = b]
          BY <5>1 DEF b
        <5>4. file'.opts = opts /\ file'.nets = b /\ IsFile(file)'
          BY <1>2, <5>3 DEF IsFile
        <5> QED BY <5>2, <5>4
      <4>3. CASE file' \in DataBegun(file)
        <5>1. PICK h \in SUBSET Key :
                 file' = [file EXCEPT !.ends = "part of the data", !.hash = h]
          BY <4>3 DEF DataBegun
        <5>2. file'.opts = opts /\ file'.nets = file.nets /\ IsFile(file)'
          BY <1>2, <5>1 DEF IsFile
        <5> QED BY <1>3, <5>2
      <4> QED BY <2>3, <4>1, <4>2, <4>3
    <3>2. FileInv'
      BY <1>3, <2>1, <2>3, <3>1 DEF FileInv, FreezePart
    <3> QED BY <1>3, <2>3, <3>2 DEF FInv, ThawPart
  <2> QED BY <2>1, <2>2, <2>3
<1> QED BY <1>4, <1>5, <1>6

-----------------------------------------------------------------------------
(* A tree is made and the networks of the file are put in it               *)

\* A tree just made is a tree.
LEMMA JustMadeInv ==
    JustMade /\ table = EmptyTable /\ cache = EmptyCache => Inv /\ Shape
<1> SUFFICES ASSUME JustMade, table = EmptyTable, cache = EmptyCache PROVE Inv /\ Shape
  OBVIOUS
<1>1. /\ opts \in Options /\ ToThaw \in DataItems /\ recs = EmptyTree /\ queue = Setup \o ToThaw
      /\ op = (IF queue = << >> THEN "idle" ELSE "new_tree")
      /\ strategy = "none" /\ held = NoKey /\ at = << >> /\ dir = "down"
  BY DEF JustMade
<1>2. /\ Setup \in Seq(Item) /\ ToThaw \in Seq(Item)
      /\ \A i \in 1..Len(Setup) :
           \/ Setup[i].rec.type \in {"ALIAS", "FIXED_EMPTY"}
           \/ Setup[i].rec.type = "FIXED_NODE" /\ Len(Setup[i].net) < W
      /\ \A i \in 1..Len(ToThaw) : ToThaw[i].rec.type = "DATA"
  BY <1>1, NewTreeQueueFacts DEF Setup, DataItems
<1>3. queue \in Seq(Item)
      /\ \A i \in 1..Len(queue) :
           \/ queue[i].rec.type \in {"ALIAS", "FIXED_EMPTY", "DATA"}
           \/ queue[i].rec.type = "FIXED_NODE" /\ Len(queue[i].net) < W
  <2>1. /\ queue \in Seq(Item) /\ Len(queue) = Len(Setup) + Len(ToThaw)
        /\ \A i \in 1..Len(queue) :
              queue[i] = IF i <= Len(Setup) THEN Setup[i] ELSE ToThaw[i - Len(Setup)]
    BY <1>1, <1>2, ConcatProperties
  <2>2. Len(Setup) \in Nat /\ Len(ToThaw) \in Nat
    BY <1>2, LenProperties
  <2>3. ASSUME NEW i \in 1..Len(queue)
        PROVE  \/ i \in 1..Len(Setup) /\ queue[i] = Setup[i]
               \/ i - Len(Setup) \in 1..Len(ToThaw) /\ queue[i] = ToThaw[i - Len(Setup)]
    BY <2>1, <2>2
  <2> QED BY <1>2, <2>1, <2>3
<1>4. TypeOK
  BY <1>1, <1>3, EmptyFacts, RootIsPrefix, OptionAssumption DEF TypeOK, Running, Strategies
<1>5. FreedEmpty
  BY <1>1 DEF FreedEmpty
<1>6. QueueOK
  BY <1>1, <1>3 DEF QueueOK, Running
<1>7. CursorOK
  <2>1. ASSUME op \in Running PROVE Len(at) <= Len(net)
    <3>1. net \in Prefix
      BY <1>3, <1>6, <2>1, QueueFacts DEF QueueOK
    <3> QED BY <1>1, <3>1, RootIsPrefix, PrefixLength
  <2> QED BY <1>1, <2>1 DEF CursorOK
<1>8. Depth /\ FixedPath
  BY <1>1, EmptyFacts DEF Depth, FixedPath, HasNode, FixedTypes
<1>9. PathFixed
  <2>1. \A p \in Prefix : ~Below(p, << >>)
    BY RootIsPrefix, BelowIsCovers, CoversOrder
  <2> QED BY <1>1, <2>1 DEF PathFixed
<1>10. Shape
  BY <1>1, EmptyTreeFacts, ParentIsPrefix DEF Shape
<1> QED BY <1>4, <1>5, <1>6, <1>7, <1>8, <1>9, <1>10 DEF Inv

\* The network the insert loop is at.
LEMMA CurrentNetwork ==
    Inv /\ SetupInv /\ FileFits /\ Inserting =>
        /\ Len(ToThaw) \in Nat /\ Current \in 1..Len(ToThaw)
        /\ Head(queue) = ToThaw[Current] /\ net = ToThaw[Current].net
        /\ \A i \in 1..Len(ToThaw) : ToThaw[i].net \in Prefix
<1> SUFFICES ASSUME Inv, SetupInv, FileFits, Inserting
             PROVE  /\ Len(ToThaw) \in Nat /\ Current \in 1..Len(ToThaw)
                    /\ Head(queue) = ToThaw[Current] /\ net = ToThaw[Current].net
                    /\ \A i \in 1..Len(ToThaw) : ToThaw[i].net \in Prefix
  OBVIOUS
<1>1. ToThaw \in Seq(Item)
  BY DEF FileFits, DataItems
<1>2. \A i \in 1..Len(ToThaw) : ToThaw[i].net \in Prefix
  BY <1>1, ItemOf
<1>3. /\ Len(ToThaw) \in Nat /\ Current \in 1..Len(ToThaw)
      /\ Head(queue) = ToThaw[Current] /\ net = Head(queue).net
  BY AtItem DEF Inserting, SetupInv, Current
<1> QED BY <1>2, <1>3

\* When the tree has been made, all the networks can be put in it.
LEMMA StartInserting ==
    Inv /\ SetupInv /\ FileFits /\ Inserting /\ Gone = Len(Setup) /\ at = << >> /\ dir = "down"
        /\ (\A p \in Prefix : recs[p].type \notin {"NODE", "DATA"})
      => InsertPart(recs, at, dir)
<1> SUFFICES ASSUME Inv, SetupInv, FileFits, Inserting, Gone = Len(Setup),
                    \A p \in Prefix : recs[p].type \notin {"NODE", "DATA"}
             PROVE  InsertPart(recs, << >>, "down")
  OBVIOUS
<1>1. Len(ToThaw) \in Nat /\ Current \in 1..Len(ToThaw) /\ net = ToThaw[Current].net
      /\ \A i \in 1..Len(ToThaw) : ToThaw[i].net \in Prefix
  BY CurrentNetwork
<1>2. /\ recs \in [Prefix -> Record] /\ AsMade(Setup, recs) /\ Setup \in Seq(Item)
      /\ Len(Setup) \in Nat
  <2>1. recs \in [Prefix -> Record] /\ opts \in Options /\ AsMade(Setup, recs)
    BY DEF Inv, TypeOK, SetupInv, Made, Inserting
  <2> QED BY <2>1, QueueItems, LenProperties DEF Setup
<1>3. Current = 1
  BY <1>2 DEF Current
<1>4. ASSUME NEW i \in 1..Len(ToThaw) PROVE Pending(recs, ToThaw[i].net)
  <2> DEFINE m == ToThaw[i].net
  <2>1. m \in Prefix /\ Free(Setup, m)
    BY <1>1 DEF FileFits
  <2> HIDE DEF m
  <2>2. Pending(recs, m)
    BY <1>2, <2>1, PendingWhenMade
  <2> QED BY <2>2 DEF m
<1>5. Covers(<< >>, net)
  BY <1>1, CoversOrder
<1> QED BY <1>1, <1>3, <1>4, <1>5 DEF InsertPart, FromFile

\* The networks of a file fit the tree made with its options.
LEMMA FileFitsTree ==
    task = "thaw" /\ opts = file.opts /\ Fits(file.opts, file.nets)
      => FileFits /\ ToThaw = ThawItems(file.nets)
<1> SUFFICES ASSUME task = "thaw", opts = file.opts, Fits(file.opts, file.nets)
             PROVE  FileFits /\ ToThaw = ThawItems(file.nets)
  OBVIOUS
<1>1. ToThaw = ThawItems(file.nets) /\ Setup = NewTreeQueue(file.opts)
  BY DEF ToThaw, Setup
<1>2. /\ ToThaw \in DataItems /\ Len(ToThaw) = Len(file.nets)
      /\ \A i \in 1..Len(file.nets) : ToThaw[i] = Thawed(file.nets[i])
  BY <1>1, ThawItemsFacts DEF Fits
<1> QED BY <1>1, <1>2 DEF Fits, FileFits, Apart

\* thaw_tree makes a tree with the options of the file.
LEMMA ThawStarts == ASSUME FInv, Thaw PROVE FInv'
<1>1. /\ task = "frozen" /\ task' = "thaw" /\ opts' = file.opts /\ file' = file
      /\ stack' = stack /\ recs' = EmptyTree /\ table' = EmptyTable /\ cache' = EmptyCache
      /\ queue' = NewTreeQueue(file.opts) \o [i \in DOMAIN file.nets |-> Thawed(file.nets[i])]
      /\ op' = (IF queue' = << >> THEN "idle" ELSE "new_tree")
      /\ strategy' = "none" /\ held' = NoKey /\ at' = << >> /\ dir' = "down"
  BY DEF Thaw
<1>2. /\ IsFile(file) /\ file.opts \in Options /\ Fits(file.opts, file.nets) /\ stack = << >>
  BY <1>1 DEF FInv, FileInv
<1>3. (task = "thaw" /\ opts = file.opts /\ Fits(file.opts, file.nets))'
  BY <1>1, <1>2
<1>4. (FileFits /\ ToThaw = ThawItems(file.nets))'
  BY <1>3, FileFitsTree, PTL
<1>5. JustMade'
  <2>1. ToThaw' = [i \in DOMAIN file.nets |-> Thawed(file.nets[i])]
    BY <1>1, <1>4 DEF ThawItems
  <2>2. Setup' = NewTreeQueue(file.opts)
    BY <1>1 DEF Setup
  <2>3. ToThaw' \in DataItems
    BY <1>4 DEF FileFits
  <2> QED BY <1>1, <1>2, <2>1, <2>2, <2>3 DEF JustMade
<1>6. (table = EmptyTable /\ cache = EmptyCache)'
  BY <1>1
<1>7. Inv' /\ Shape' /\ SetupInv'
  BY <1>5, <1>6, JustMadeInv, JustMadeSetup, PTL
<1>8. FileInv'
  BY <1>1, <1>2 DEF FileInv, FreezePart
<1>9. (\A p \in Prefix : recs[p].type \notin {"NODE", "DATA"})'
  BY <1>1, EmptyFacts
<1>10. /\ Setup' \in Seq(Item) /\ ToThaw' \in Seq(Item) /\ queue' = Setup' \o ToThaw'
       /\ Len(Setup') \in Nat /\ Len(ToThaw') \in Nat /\ Len(queue') = Len(Setup') + Len(ToThaw')
  <2>1. Setup' \in Seq(Item)
    <3>1. Setup' = NewTreeQueue(file.opts)
      BY <1>1 DEF Setup
    <3> QED BY <1>2, <3>1, QueueItems
  <2>2. ToThaw' \in Seq(Item) /\ queue' = Setup' \o ToThaw'
    BY <1>4, <1>5 DEF JustMade, FileFits, DataItems
  <2> DEFINE s == Setup'
             t == ToThaw'
  <2> HIDE DEF s, t
  <2>3. s \in Seq(Item) /\ t \in Seq(Item) /\ queue' = s \o t
    BY <2>1, <2>2 DEF s, t
  <2>4. Len(s) \in Nat /\ Len(t) \in Nat /\ Len(queue') = Len(s) + Len(t)
    BY <2>3, ConcatProperties, LenProperties
  <2> QED BY <2>3, <2>4 DEF s, t
<1>11. Gone' = 0
  BY <1>10 DEF Gone
<1>12. ASSUME Inserting' PROVE InsertPart(recs, at, dir)'
  <2>1. Gone' = Len(Setup')
    BY <1>10, <1>11, <1>12 DEF Inserting
  <2>2. (Gone = Len(Setup) /\ at = << >> /\ dir = "down")'
    BY <1>1, <2>1
  <2> QED BY <1>4, <1>7, <1>9, <1>12, <2>2, StartInserting, PTL
<1>13. ASSUME op' = "idle" PROVE AllIn(recs)'
  <2>1. queue' = << >>
    BY <1>1, <1>13
  <2>2. Len(ToThaw') = 0
    BY <1>10, <2>1, EmptySeq
  <2> QED BY <1>9, <2>2 DEF AllIn, FromFile
<1>14. ThawPart'
  BY <1>1, <1>12, <1>13 DEF ThawPart
<1> QED BY <1>7, <1>8, <1>14 DEF FInv

\* One more step of new_tree, or of thaw_network.
LEMMA ThawSteps == ASSUME FInv, ThawNetwork PROVE FInv'
<1>1. task = "thaw" /\ Step /\ UNCHANGED fvars /\ UNCHANGED <<task, file, stack, was>>
  BY DEF ThawNetwork, fvars
<1>2. /\ Inv /\ Shape /\ SetupInv /\ Inv' /\ Shape' /\ SetupInv'
  <2>1. Inv /\ Shape /\ SetupInv
    BY DEF FInv
  <2>2. Inv'
    BY <1>1, <2>1, NextInv DEF Next
  <2> QED BY <1>1, <2>1, <2>2, StepShape, StepSetup
<1>3. /\ op \in {"new_tree", "idle", "freed"} /\ opts = file.opts
      /\ Fits(file.opts, file.nets)
      /\ Inserting => InsertPart(recs, at, dir)
  BY <1>1 DEF FInv, FileInv, ThawPart
<1>4. FileFits
  BY <1>1, <1>3, FileFitsTree
<1>5. FileInv'
  BY <1>1 DEF FInv, FileInv, FreezePart
<1>6. op = "new_tree" /\ op \in Running
  BY <1>1, <1>3 DEF Step, SetRecord, MergeRecord, MergeCroaks, Settles, Ignore, Refuse, Descend,
                    GoLeft, Trim, Up, NextRecord, Finish, Down, Running
<1>7. /\ strategy = "none" /\ Len(queue) \in Nat \ {0} /\ Gone \in Nat /\ Len(Setup) \in Nat
      /\ Len(ToThaw) \in Nat /\ Gone = Len(Setup) + Len(ToThaw) - Len(queue)
      /\ opts \in Options
  BY <1>2, <1>6, AtItem DEF SetupInv, QueueLeft
<1> SUFFICES ThawPart'
  BY <1>2, <1>5 DEF FInv
<1>8. CASE Recurse
  <2>1. /\ UNCHANGED <<opts, op, strategy, held, queue>> /\ net' = net
    BY <1>8, RecurseFrame
  <2>2. Setup' = Setup /\ ToThaw' = ToThaw /\ Gone' = Gone /\ Current' = Current
    BY <1>1, <2>1 DEF Setup, ToThaw, Gone, Current
  <2>3. ASSUME Inserting' PROVE InsertPart(recs, at, dir)'
    <3>1. Inserting
      BY <2>1, <2>2, <2>3 DEF Inserting
    <3>2. InsertPart(recs', at', dir')
      BY <1>2, <1>3, <1>4, <1>8, <3>1, InsertStep
    <3> QED BY <2>1, <2>2, <3>2 DEF InsertPart, IsDone, FromFile
  <2> QED BY <1>1, <1>3, <1>6, <2>1, <2>3 DEF ThawPart
<1>9. CASE NextRecord
  <2>1. /\ dir = "up" /\ at = << >> /\ queue' = Tail(queue) /\ dir' = "down" /\ at' = << >>
        /\ UNCHANGED <<recs, opts, op, strategy, held>> /\ Len(queue) > 1
    BY <1>9 DEF NextRecord
  <2>2. /\ Setup' = Setup /\ ToThaw' = ToThaw /\ Gone' = Gone + 1 /\ Current' = Current + 1
        /\ FileFits'
    <3>1. Len(Tail(queue)) = Len(queue) - 1
      BY <1>2, <1>6, RunningFacts, QueueFacts
    <3>2. Setup' = Setup /\ ToThaw' = ToThaw
      BY <1>1, <2>1 DEF Setup, ToThaw
    <3>3. Gone' = Gone + 1
      BY <1>7, <2>1, <3>1, <3>2 DEF Gone
    <3>4. Current' = Current + 1
      BY <1>7, <3>2, <3>3 DEF Current
    <3>5. FileFits'
      BY <1>4, <3>2 DEF FileFits
    <3> QED BY <3>2, <3>3, <3>4, <3>5
  <2>3. ASSUME Inserting' PROVE InsertPart(recs, at, dir)'
    <3>1. CASE SettingUp
      <4>1. (Gone = Len(Setup) /\ at = << >> /\ dir = "down")'
        BY <1>7, <2>1, <2>2, <2>3, <3>1 DEF SettingUp, Inserting
      <4>2. \A p \in Prefix : recs[p].type \notin {"NODE", "DATA"}
        BY <1>2, <3>1 DEF SetupInv, SetupPart
      <4>3. (\A p \in Prefix : recs[p].type \notin {"NODE", "DATA"})'
        BY <2>1, <4>2
      <4> QED BY <1>2, <2>2, <2>3, <4>1, <4>3, StartInserting, PTL
    <3>2. CASE Inserting
      <4>1. /\ Current \in 1..Len(ToThaw) /\ Head(queue) = ToThaw[Current]
            /\ InsertPart(recs, at, dir)
        BY <1>2, <1>3, <1>4, <3>2, CurrentNetwork
      <4>2. (/\ Len(ToThaw) \in Nat /\ Current \in 1..Len(ToThaw)
             /\ Head(queue) = ToThaw[Current] /\ net = ToThaw[Current].net
             /\ \A i \in 1..Len(ToThaw) : ToThaw[i].net \in Prefix)'
        BY <1>2, <2>2, <2>3, CurrentNetwork, PTL
      <4>3. ASSUME NEW i \in 1..((Current + 1) - 1) PROVE IsDone(recs, ToThaw[i])
        <5>1. i \in 1..(Current - 1) \/ i = Current
          BY <4>1
        <5> QED BY <2>1, <4>1, <5>1 DEF InsertPart
      <4>4. ASSUME NEW i \in 1..Len(ToThaw), i >= Current + 1 PROVE Pending(recs, ToThaw[i].net)
        <5>1. i > Current
          BY <4>1, <4>4
        <5> QED BY <4>1, <5>1 DEF InsertPart
      <4>5. Current + 1 \in 1..Len(ToThaw) /\ net' = ToThaw[Current + 1].net /\ net' \in Prefix
        BY <2>2, <4>2
      <4>6. Pending(recs, net') /\ \A i \in 1..Len(ToThaw) : i > Current + 1 => Pending(recs, ToThaw[i].net)
        BY <4>1, <4>4, <4>5
      <4>7. Covers(<< >>, net')
        BY <4>5, CoversOrder
      <4>8. FromFile(recs)'
        BY <2>1, <2>2, <4>1 DEF InsertPart, FromFile
      <4>9. (\A i \in 1..(Current - 1) : IsDone(recs, ToThaw[i]))'
        BY <2>1, <2>2, <4>3 DEF IsDone
      <4>10. (\A i \in 1..Len(ToThaw) : i > Current => Pending(recs, ToThaw[i].net))'
        BY <2>1, <2>2, <4>6 DEF Pending
      <4>11. Pending(recs, net)'
        BY <2>1, <4>6 DEF Pending
      <4> QED BY <2>1, <4>7, <4>8, <4>9, <4>10, <4>11 DEF InsertPart
    <3> QED BY <1>6, <1>7, <3>1, <3>2 DEF SettingUp, Inserting
  <2> QED BY <1>1, <1>3, <1>6, <2>1, <2>3 DEF ThawPart
<1>10. CASE Finish
  <2>1. /\ dir = "up" /\ at = << >> /\ Len(queue) = 1 /\ op' = "idle" /\ recs' = recs /\ opts' = opts
    BY <1>10 DEF Finish, EndCall
  <2>2. Setup' = Setup /\ ToThaw' = ToThaw
    BY <1>1, <2>1 DEF Setup, ToThaw
  <2>3. AllIn(recs)
    <3>1. CASE SettingUp
      <4>1. Len(ToThaw) = 0
        BY <1>7, <2>1, <3>1 DEF SettingUp
      <4>2. \A p \in Prefix : recs[p].type \notin {"NODE", "DATA"}
        BY <1>2, <3>1 DEF SetupInv, SetupPart
      <4> QED BY <4>1, <4>2 DEF AllIn, FromFile
    <3>2. CASE Inserting
      <4>1. /\ Current \in 1..Len(ToThaw) /\ Head(queue) = ToThaw[Current]
            /\ InsertPart(recs, at, dir)
        BY <1>2, <1>3, <1>4, <3>2, CurrentNetwork
      <4>2. Current = Len(ToThaw)
        BY <1>7, <2>1 DEF Current
      <4>3. ASSUME NEW i \in 1..Len(ToThaw) PROVE IsDone(recs, ToThaw[i])
        <5>1. i \in 1..(Current - 1) \/ i = Current
          BY <1>7, <4>2
        <5> QED BY <2>1, <4>1, <5>1 DEF InsertPart
      <4> QED BY <4>1, <4>3 DEF AllIn, InsertPart
    <3> QED BY <1>6, <1>7, <3>1, <3>2 DEF SettingUp, Inserting
  <2>4. AllIn(recs)'
    BY <2>1, <2>2, <2>3 DEF AllIn, IsDone, FromFile
  <2>5. ~Inserting'
    BY <2>1 DEF Inserting
  <2> QED BY <1>1, <1>3, <2>1, <2>4, <2>5 DEF ThawPart
<1>11. CASE Refuse
  <2>1. op' = "freed" /\ opts' = opts
    BY <1>6, <1>11 DEF Refuse, EndCall
  <2> QED BY <1>1, <1>3, <2>1 DEF ThawPart, Inserting
<1>12. ~MergeCroaks
  BY <1>7 DEF MergeCroaks, Merges
<1> QED BY <1>1, <1>8, <1>9, <1>10, <1>11, <1>12 DEF Step, Recurse

-----------------------------------------------------------------------------
(* Every step                                                              *)

\* The records stay a tree when a call begins.
LEMMA CallShape == ASSUME Shape, Call PROVE Shape'
<1>1. CASE \E c \in Inserts : InsertNetworks(c)
  BY <1>1 DEF InsertNetworks, Shape
<1>2. CASE \E n \in Prefix : RemoveNetwork(n)
  BY <1>2 DEF RemoveNetwork, Shape
<1>3. CASE FreeTree
  BY <1>3, EmptyFacts DEF FreeTree, Shape
<1>4. CASE NewTree
  <2>1. recs' = EmptyTree /\ op' # "freed"
    BY <1>4 DEF NewTree
  <2> QED BY <2>1, EmptyTreeFacts, ParentIsPrefix DEF Shape
<1> QED BY <1>1, <1>2, <1>3, <1>4 DEF Call

\* A step of the tree while nothing is frozen or thawed.
LEMMA TreeSteps == ASSUME FInv, TreeStep PROVE FInv'
<1>1. task = "none" /\ Next /\ UNCHANGED <<task, file, stack, was>> /\ UNCHANGED <<task, file>>
  BY DEF TreeStep
<1>2. Inv /\ Shape /\ SetupInv
  BY DEF FInv
<1>3. Inv'
  BY <1>1, <1>2, NextInv
<1>4. Shape' /\ SetupInv'
  BY <1>1, <1>2, StepShape, CallShape, StepSetup, CallSetup DEF Next
<1>5. FileInv'
  BY <1>1 DEF FInv, FileInv, FreezePart
<1> QED BY <1>1, <1>3, <1>4, <1>5 DEF FInv, ThawPart

\* The values come back, and the tree is one as any other.
LEMMA ThawEnds == ASSUME FInv, ThawData PROVE FInv'
<1>1. /\ op = "idle" /\ task' = "none" /\ file' = NoFile
      /\ table' = [k \in Key |-> IF k \in file.hash THEN SetStored(k) ELSE table[k]]
      /\ UNCHANGED <<recs, cache, opts, op, strategy, held, queue, at, dir, stack>>
      /\ task = "thaw" /\ stack = << >>
  BY DEF ThawData, FInv, FileInv
<1>2. Inv /\ Shape /\ SetupInv
  BY DEF FInv
<1>3. table' \in [Key -> [count : Int, sv : BOOLEAN]]
  <2>1. \A k \in Key : SetStored(k) \in [count : Int, sv : BOOLEAN] /\ table[k] \in [count : Int, sv : BOOLEAN]
    BY <1>2 DEF Inv, TypeOK, SetStored
  <2> QED BY <1>1, <2>1
<1>4. TypeOK'
  BY <1>1, <1>2, <1>3 DEF Inv, TypeOK
<1>5. net' = net /\ new' = new
  BY <1>1 DEF net, new
<1>6. Inv'
  BY <1>1, <1>2, <1>4, <1>5
     DEF Inv, FreedEmpty, QueueOK, CursorOK, Depth, PathFixed, FixedPath
<1>7. Shape'
  BY <1>1, <1>2 DEF Shape
<1>8. SetupInv'
  BY <1>1, <1>2, IdleSetup DEF SetupInv, Made
<1>9. FileInv'
  BY <1>1 DEF FileInv, FreezePart, IsFile, NoFile
<1> QED BY <1>1, <1>6, <1>7, <1>8, <1>9 DEF FInv, ThawPart

\* The file is no good, and there is no tree.
LEMMA ThawFails == ASSUME FInv, ThawCroaks PROVE FInv'
<1>1. /\ op = "idle" /\ op' = "freed" /\ recs' = NoTree /\ table' = EmptyTable
      /\ task' = "none" /\ file' = NoFile /\ stack = << >>
      /\ UNCHANGED <<cache, opts, strategy, held, queue, at, dir, stack>>
  BY DEF ThawCroaks, FInv, FileInv
<1>2. Inv /\ Shape /\ SetupInv /\ opts \in Options
  BY DEF FInv, SetupInv
<1>3. TypeOK'
  BY <1>1, <1>2, EmptyFacts DEF Inv, TypeOK
<1>4. FreedEmpty' /\ QueueOK' /\ CursorOK' /\ PathFixed'
  BY <1>1, <1>2 DEF Inv, FreedEmpty, QueueOK, CursorOK, PathFixed, Running
<1>5. Depth' /\ FixedPath' /\ Shape'
  BY <1>1, EmptyFacts DEF Depth, FixedPath, HasNode, FixedTypes, Shape
<1>6. SetupInv'
  BY <1>1, <1>2, FreedSetup
<1>7. FileInv'
  BY <1>1 DEF FileInv, FreezePart, IsFile, NoFile
<1> QED BY <1>1, <1>3, <1>4, <1>5, <1>6, <1>7 DEF FInv, ThawPart, Inv

\* Every step keeps the invariant.
LEMMA FreezeNextInv == ASSUME FInv, [FreezeNext]_<<vars, fvars>> PROVE FInv'
<1>1. CASE FreezeNext
  BY <1>1, TreeSteps, FreezeBegins, FreezeNothing, FreezeEnters, FreezeVisits, FreezeEnds,
     ThawStarts, ThawSteps, ThawEnds, ThawFails DEF FreezeNext
<1>2. CASE UNCHANGED <<vars, fvars>>
  <2>1. Inv'
    BY <1>2, NextInv DEF FInv
  <2>2. /\ Setup' = Setup /\ ToThaw' = ToThaw /\ Gone' = Gone /\ net' = net /\ new' = new
        /\ Inserting' = Inserting /\ Current' = Current /\ SettingUp' = SettingUp
        /\ Nodes' = Nodes /\ Visited(stack)' = Visited(stack)
    BY <1>2 DEF vars, fvars, Setup, ToThaw, Gone, net, new, Inserting, Current, SettingUp,
                Nodes, Visited
  <2>3. Shape'
    BY <1>2 DEF vars, FInv, Shape
  <2>4. SetupInv'
    <3>1. QueueLeft' /\ Near' /\ (op' \in {"insert", "remove"} =>
              \A i \in 1..Len(queue') : queue'[i].rec.type \in {"EMPTY", "DATA"})
      BY <1>2, <2>2 DEF vars, fvars, FInv, SetupInv, QueueLeft, Near
    <3>2. SettingUp' => SetupPart(recs, at, dir)'
      BY <1>2, <2>2 DEF vars, FInv, SetupInv, SetupPart
    <3>3. Made' => AsMade(Setup, recs)'
      BY <1>2, <2>2 DEF vars, FInv, SetupInv, Made, AsMade
    <3> QED BY <1>2, <3>1, <3>2, <3>3 DEF vars, FInv, SetupInv
  <2>5. FileInv'
    <3>1. (task' = "freeze" => Listed(recs, file.nets, Visited(stack))')
      BY <1>2, <2>2 DEF vars, fvars, FInv, FileInv, FreezePart, Listed
    <3>2. task' = "freeze" => InOrder(stack)'
      BY <1>2, <2>2 DEF fvars, FInv, FileInv, FreezePart, InOrder
    <3> QED BY <1>2, <3>1, <3>2 DEF vars, fvars, FInv, FileInv, FreezePart
  <2>6. ThawPart'
    <3>1. task' = "thaw" /\ Inserting' => InsertPart(recs, at, dir)'
      BY <1>2, <2>2 DEF vars, fvars, FInv, ThawPart, InsertPart, IsDone, FromFile
    <3>2. task' = "thaw" /\ op' = "idle" => AllIn(recs)'
      BY <1>2, <2>2 DEF vars, fvars, FInv, ThawPart, AllIn, IsDone, FromFile
    <3> QED BY <1>2, <3>1, <3>2 DEF vars, fvars, FInv, ThawPart
  <2> QED BY <2>1, <2>3, <2>4, <2>5, <2>6 DEF FInv
<1> QED BY <1>1, <1>2

\* The first tree is one just made.
LEMMA FreezeInitInv == FreezeInit => FInv
<1> SUFFICES ASSUME FreezeInit PROVE FInv
  OBVIOUS
<1>1. Init /\ task = "none" /\ stack = << >> /\ file = NoFile
  BY DEF FreezeInit
<1>2. JustMade /\ table = EmptyTable /\ cache = EmptyCache
  <2>1. ToThaw = << >> /\ << >> \in DataItems
    BY <1>1, EmptySeq DEF ToThaw, DataItems
  <2>2. opts \in Options /\ NewTreeQueue(opts) \o << >> = NewTreeQueue(opts)
    <3>1. NewTreeQueue(opts) \in Seq(Item)
      BY <1>1, QueueItems DEF Init
    <3> QED BY <1>1, <3>1, ConcatEmptySeq DEF Init
  <2> QED BY <1>1, <2>1, <2>2 DEF Init, JustMade, Setup
<1>3. Inv /\ Shape /\ SetupInv
  BY <1>2, JustMadeInv, JustMadeSetup
<1>4. FileInv
  BY <1>1 DEF FileInv, FreezePart, IsFile, NoFile
<1> QED BY <1>1, <1>3, <1>4 DEF FInv, ThawPart

\* The invariant holds in every reachable state.
LEMMA FInvAlways == FreezeSpec => []FInv
<1>1. FInv /\ [FreezeNext]_<<vars, fvars>> => FInv'
  BY FreezeNextInv
<1> QED BY <1>1, FreezeInitInv, PTL DEF FreezeSpec

-----------------------------------------------------------------------------
(* Thawing replaces nothing                                                *)

\* Thawing never replaces data, and never meets what new_tree has fixed, with
\* whatever options the tree was made and wherever freezing stopped.
THEOREM NeverReplacesOnThawAlways == FreezeSpec => []NeverReplacesOnThaw
<1>1. FInv => NeverReplacesOnThaw
  <2> SUFFICES ASSUME FInv, task = "thaw", op = "new_tree", dir = "down", new.type = "DATA"
               PROVE  IF Len(at) >= Len(net) THEN recs[at].type = "EMPTY"
                      ELSE recs[at].type \in {"EMPTY", "NODE", "FIXED_NODE"}
    BY DEF NeverReplacesOnThaw
  <2>1. Inv /\ Shape /\ SetupInv
    BY DEF FInv
  <2>2. FileFits
    BY FileFitsTree DEF FInv, FileInv, ThawPart
  <2>3. Inserting
    <3>1. /\ Gone \in Nat /\ Len(Setup) \in Nat
          /\ Gone < Len(Setup) => new.type \in FixedTypes
      BY <2>1, AtItem DEF SetupInv
    <3> QED BY <3>1 DEF Inserting, FixedTypes
  <2>4. InsertPart(recs, at, dir)
    BY <2>3 DEF FInv, ThawPart
  <2>5. /\ recs[at].type \in {"EMPTY", "NODE", "FIXED_NODE"}
        /\ Inside => recs[at].type = "EMPTY"
    BY <2>1, <2>2, <2>3, <2>4, InsertFacts
  <2> QED BY <2>5 DEF Inside
<1> QED BY <1>1, FInvAlways, PTL


-----------------------------------------------------------------------------
(* Two trees made with the same options that have the same data            *)

\* A tree that new_tree made of the items q, whatever was done with it since.
MadeOf(q, t) ==
    /\ IsTree(t) /\ AsMade(q, t)
    /\ \A x, y \in Prefix : Below(x, y) /\ t[y].type \in FixedTypes => t[x].type = "FIXED_NODE"

NoneToTrim(t) ==
    \A p \in Prefix :
        t[p].type = "NODE" /\ t[Child(p, 0)] = t[Child(p, 1)] => HasNode(t[Child(p, 0)])

\* Every address has the same leaf in both.
SameLeaves(s, t) ==
    \A a \in Address, p, u \in Prefix :
        Covers(p, a) /\ IsLeaf(s[p]) /\ Covers(u, a) /\ IsLeaf(t[u]) => s[p] = t[u]

\* What is fixed is the same in both.
LEMMA SameFixed ==
    ASSUME NEW q, NEW s, NEW t, MadeOf(q, s), MadeOf(q, t), NEW p \in Prefix,
           s[p].type \in FixedTypes
    PROVE  t[p] = s[p]
BY MadeAlike DEF MadeOf

\* If every data record of the one is part of a record of the other, and that
\* only has such data, they have the same leaves.
LEMMA LeavesOfSameData ==
    ASSUME NEW q, NEW s, NEW t, MadeOf(q, s), MadeOf(q, t),
           \A p \in Prefix : s[p].type = "DATA" => \E u \in Prefix : Covers(u, p) /\ t[u] = s[p],
           \A u \in Prefix : t[u].type = "DATA" =>
               \A a \in Address : Covers(u, a) =>
                   \E p \in Prefix : Covers(p, a) /\ s[p] = t[u]
    PROVE  SameLeaves(s, t)
<1> SUFFICES ASSUME NEW a \in Address, NEW p \in Prefix, NEW u \in Prefix,
                    Covers(p, a), IsLeaf(s[p]), Covers(u, a), IsLeaf(t[u])
             PROVE  s[p] = t[u]
  BY DEF SameLeaves
<1>1. /\ IsTree(s) /\ IsTree(t) /\ s[p] \in Record /\ t[u] \in Record /\ a \in Prefix
  BY AddressIsPrefix DEF MadeOf, IsTree
<1>2. /\ \A x, y \in Prefix : Covers(x, a) /\ IsLeaf(s[x]) /\ Covers(y, a) /\ IsLeaf(s[y]) => x = y
      /\ \A x, y \in Prefix : Covers(x, a) /\ IsLeaf(t[x]) /\ Covers(y, a) /\ IsLeaf(t[y]) => x = y
  BY <1>1, OneLeaf
<1>3. CASE s[p].type \in FixedTypes
  <2>1. t[p] = s[p]
    BY <1>3, SameFixed
  <2> QED BY <1>2, <2>1
<1>4. CASE t[u].type \in FixedTypes
  <2>1. s[u] = t[u]
    BY <1>4, SameFixed
  <2> QED BY <1>2, <2>1
<1>5. CASE s[p].type = "DATA"
  <2>1. PICK v \in Prefix : Covers(v, p) /\ t[v] = s[p]
    BY <1>5
  <2>2. Covers(v, a) /\ IsLeaf(t[v])
    BY <1>1, <2>1, CoversOrder
  <2> QED BY <1>2, <2>1, <2>2
<1>6. CASE t[u].type = "DATA"
  <2>1. PICK v \in Prefix : Covers(v, a) /\ s[v] = t[u]
    BY <1>6
  <2> QED BY <1>2, <2>1
<1>7. CASE s[p].type = "EMPTY" /\ t[u].type = "EMPTY"
  BY <1>1, <1>7, RecordFacts
<1>8. \A r \in Record : IsLeaf(r) => r.type \in {"DATA", "EMPTY"} \cup FixedTypes
  BY RecordFacts DEF IsLeaf, HasNode, PlainTypes, FixedTypes
<1> QED BY <1>1, <1>3, <1>4, <1>5, <1>6, <1>7, <1>8

\* Then a trimmed tree has no node that the other has not: below a leaf of the
\* other all its records would be the same.
LEMMA NodesOfSameLeaves ==
    ASSUME NEW q, NEW s, NEW t, MadeOf(q, s), MadeOf(q, t), SameLeaves(s, t), NoneToTrim(t),
           NEW p \in Prefix, HasNode(t[p])
    PROVE  HasNode(s[p])
<1> SUFFICES ASSUME ~HasNode(s[p]) PROVE FALSE
  OBVIOUS
<1>1. IsTree(s) /\ IsTree(t) /\ t[p].type # "ABSENT"
  BY DEF MadeOf, HasNode
<1>2. PICK a \in Address : Covers(p, a)
  BY AddressBelow
<1>3. PICK u \in Prefix : Covers(u, a) /\ IsLeaf(s[u])
  BY <1>1, OneLeaf
<1>4. Covers(u, p)
  <2>1. Covers(u, p) \/ Covers(p, u)
    BY <1>2, <1>3, AddressIsPrefix, CoversOrder
  <2>2. CASE Covers(p, u)
    <3>1. ~Below(p, u)
      BY <1>1, <1>3, NodesAbove DEF IsLeaf
    <3>2. p = u
      BY <2>2, <3>1, BelowIsCovers
    <3> QED BY <3>2, CoversOrder
  <2> QED BY <2>1, <2>2
<1>5. ~HasNode(t[u]) => FALSE
  BY <1>1, <1>4, NodesAbove, BelowIsCovers
<1>6. s[u].type \notin FixedTypes
  <2> SUFFICES ASSUME s[u].type \in FixedTypes PROVE FALSE
    OBVIOUS
  <2>1. t[u] = s[u]
    BY SameFixed
  <2> QED BY <1>3, <1>5, <2>1 DEF IsLeaf
<1>7. ASSUME NEW d \in Prefix, Covers(p, d), HasNode(t[d]) PROVE t[d].type = "NODE"
  <2> SUFFICES ASSUME t[d].type = "FIXED_NODE" PROVE FALSE
    BY <1>7 DEF HasNode
  <2>1. t[p].type = "FIXED_NODE"
    <3>1. CASE p = d
      BY <3>1
    <3>2. CASE Below(p, d)
      BY <3>2 DEF MadeOf, FixedTypes
    <3> QED BY <1>7, <3>1, <3>2, BelowIsCovers
  <2>2. s[p] = t[p]
    BY <2>1, SameFixed DEF FixedTypes
  <2> QED BY <2>2
<1>8. ASSUME NEW c \in Prefix, Covers(p, c), IsLeaf(t[c]) PROVE t[c] = s[u]
  <2>1. PICK b \in Address : Covers(c, b)
    BY AddressBelow
  <2>2. Covers(u, b)
    BY <1>4, <1>8, <2>1, AddressIsPrefix, CoversOrder
  <2> QED BY <1>3, <1>8, <2>1, <2>2 DEF SameLeaves
<1>9. ASSUME NEW d \in Prefix, Covers(p, d), HasNode(t[d])
      PROVE  \E b \in Bit : HasNode(t[Child(d, b)])
  <2> SUFFICES ASSUME \A b \in Bit : ~HasNode(t[Child(d, b)]) PROVE FALSE
    OBVIOUS
  <2>1. Len(d) < W
    BY <1>1, <1>9 DEF IsTree
  <2>2. ASSUME NEW b \in Bit PROVE t[Child(d, b)] = s[u]
    <3>1. /\ Child(d, b) \in Prefix /\ Child(d, b) # << >> /\ Parent(Child(d, b)) = d
          /\ Covers(d, Child(d, b))
      BY <2>1, ChildIsPrefix, AboveChild DEF Below
    <3>2. IsLeaf(t[Child(d, b)])
      BY <1>1, <1>9, <3>1 DEF IsTree, IsLeaf
    <3>3. Covers(p, Child(d, b))
      BY <1>9, <3>1, CoversOrder
    <3> QED BY <1>8, <3>1, <3>2, <3>3
  <2>3. t[Child(d, 0)] = t[Child(d, 1)]
    BY <2>2 DEF Bit
  <2>4. HasNode(t[Child(d, 0)])
    BY <1>7, <1>9, <2>3 DEF NoneToTrim
  <2> QED BY <2>4 DEF Bit
<1> DEFINE m == W - Len(p)
           S == {i \in Nat : \E d \in Prefix : Covers(p, d) /\ Len(d) = Len(p) + i /\ HasNode(t[d])}
<1>10. Len(p) \in Nat /\ W \in Nat /\ m \in Nat
  BY PrefixLength, WidthAssumption
<1>11. 0 \in S
  BY <1>10, CoversOrder
<1>12. ASSUME NEW i \in 0..(m - 1), i \in S PROVE i + 1 \in S
  <2>1. PICK d \in Prefix : Covers(p, d) /\ Len(d) = Len(p) + i /\ HasNode(t[d])
    BY <1>12
  <2>2. PICK b \in Bit : HasNode(t[Child(d, b)])
    BY <1>9, <2>1
  <2>3. Len(d) < W
    BY <1>1, <2>1 DEF IsTree
  <2>4. /\ Child(d, b) \in Prefix /\ Len(Child(d, b)) = Len(d) + 1 /\ Covers(d, Child(d, b))
    BY <2>3, ChildIsPrefix, AboveChild DEF Below
  <2>5. Covers(p, Child(d, b))
    BY <2>1, <2>4, CoversOrder
  <2>6. Len(Child(d, b)) = Len(p) + (i + 1) /\ i + 1 \in Nat
    BY <1>10, <2>1, <2>4
  <2> QED BY <2>2, <2>4, <2>5, <2>6
<1> HIDE DEF S
<1>13. \A i \in 0..m : i \in S
  BY <1>10, <1>11, <1>12, CountUp
<1>14. PICK d \in Prefix : Len(d) = Len(p) + m /\ HasNode(t[d])
  BY <1>10, <1>13 DEF S
<1>15. Len(d) = W /\ Len(d) < W
  BY <1>1, <1>10, <1>14 DEF IsTree
<1> QED BY <1>10, <1>15

\* Two trimmed trees with the same leaves are the same.
LEMMA TreesOfSameLeaves ==
    ASSUME NEW q, NEW s, NEW t, MadeOf(q, s), MadeOf(q, t), SameLeaves(s, t),
           NoneToTrim(s), NoneToTrim(t)
    PROVE  s = t
<1>1. IsTree(s) /\ IsTree(t) /\ s \in [Prefix -> Record] /\ t \in [Prefix -> Record]
  BY DEF MadeOf, IsTree
<1>2. SameLeaves(t, s)
  BY DEF SameLeaves
<1>3. \A p \in Prefix : HasNode(s[p]) <=> HasNode(t[p])
  BY <1>2, NodesOfSameLeaves
<1>4. ASSUME NEW p \in Prefix PROVE s[p] = t[p]
  <2>1. s[p] \in Record /\ t[p] \in Record
    BY <1>1
  <2>2. s[p].type = "ABSENT" <=> t[p].type = "ABSENT"
    <3>1. CASE p = << >>
      BY <1>1, <3>1 DEF IsTree
    <3>2. CASE p # << >>
      BY <1>1, <1>3, <3>2, ParentIsPrefix DEF IsTree
    <3> QED BY <3>1, <3>2
  <2>3. CASE s[p].type = "ABSENT"
    BY <2>1, <2>2, <2>3, RecordFacts
  <2>4. CASE IsLeaf(s[p])
    <3>1. IsLeaf(t[p])
      BY <1>3, <2>2, <2>4 DEF IsLeaf
    <3>2. PICK a \in Address : Covers(p, a)
      BY AddressBelow
    <3> QED BY <2>4, <3>1, <3>2 DEF SameLeaves
  <2>5. CASE HasNode(s[p])
    <3>1. s[p].type = "FIXED_NODE" => t[p] = s[p]
      BY SameFixed DEF FixedTypes
    <3>2. t[p].type = "FIXED_NODE" => t[p] = s[p]
      BY SameFixed DEF FixedTypes
    <3>3. s[p].type = "NODE" /\ t[p].type = "NODE" => t[p] = s[p]
      BY <2>1, RecordFacts
    <3> QED BY <1>3, <2>5, <3>1, <3>2, <3>3 DEF HasNode
  <2> QED BY <2>3, <2>4, <2>5 DEF IsLeaf
<1> QED BY <1>1, <1>4

-----------------------------------------------------------------------------
(* What lookups find in them                                               *)

\* b is the IPv4 address that a, in the alias at p, stands for.
StandsFor(p, a, b) ==
    /\ Covers(V4Root, b)
    /\ \A j \in 1..(W - Len(V4Root)) : a[Len(p) + j] = b[Len(V4Root) + j]

\* A lookup of a in the tree t finds r.
Finds(t, a, r) ==
    \/ \E p \in Prefix :
          Covers(p, a) /\ IsLeaf(t[p]) /\ t[p].type # "ALIAS" /\ r = t[p]
    \/ \E p, u \in Prefix, b \in Address :
          /\ Covers(p, a) /\ t[p].type = "ALIAS" /\ StandsFor(p, a, b)
          /\ Covers(u, b) /\ IsLeaf(t[u]) /\ r = t[u]

\* Between calls it does.
LEMMA LookupFinds ==
    Inv /\ Shape /\ LookupInv /\ op = "idle" =>
        \A a \in Address : Finds(recs, a, FoundRecord(a))
<1> SUFFICES ASSUME Inv, Shape, LookupInv, op = "idle", NEW a \in Address
             PROVE  Finds(recs, a, FoundRecord(a))
  OBVIOUS
<1>1. IsTree(recs)
  BY DEF Inv, TypeOK, Shape, Depth, IsTree
<1>2. PICK p \in Prefix : Covers(p, a) /\ IsLeaf(recs[p])
  BY <1>1, OneLeaf
<1>3. CASE recs[p].type # "ALIAS"
  <2>1. FoundRecord(a) = recs[p]
    BY <1>1, <1>2, <1>3, WalkToLeaf
  <2> QED BY <1>2, <1>3, <2>1 DEF Finds
<1>4. CASE recs[p].type = "ALIAS"
  <2>1. Len(p) <= Len(V4Root)
    BY <1>4, AliasAssumption DEF LookupInv, AliasesOnly
  <2>2. PICK b \in Address : StandsFor(p, a, b)
    BY <2>1, Target DEF StandsFor
  <2>3. PICK u \in Prefix : Covers(u, b) /\ IsLeaf(recs[u])
    BY <1>1, OneLeaf
  <2>4. FoundRecord(a) = recs[u]
    BY <1>1, <1>2, <1>4, <2>2, <2>3, FoundThroughAlias DEF StandsFor
  <2> QED BY <1>2, <1>4, <2>2, <2>3, <2>4 DEF Finds
<1> QED BY <1>3, <1>4

\* There is one such address.
LEMMA OneTarget ==
    ASSUME NEW p, NEW a, NEW b \in Address, StandsFor(p, a, b),
           NEW c \in Address, StandsFor(p, a, c)
    PROVE  b = c
<1> DEFINE v == Len(V4Root)
<1>1. v \in Nat /\ v <= W /\ W \in Nat /\ Len(b) = W /\ Len(c) = W
  BY NetworkAssumption, PrefixLength, AddressIsPrefix, WidthAssumption
<1>2. /\ \A i \in 1..v : V4Root[i] = b[i] /\ V4Root[i] = c[i]
      /\ \A j \in 1..(W - v) : a[Len(p) + j] = b[v + j] /\ a[Len(p) + j] = c[v + j]
  BY DEF StandsFor, Covers
<1> HIDE DEF v
<1>3. ASSUME NEW i \in 1..W PROVE b[i] = c[i]
  <2>1. CASE i <= v
    BY <1>1, <1>2, <2>1
  <2>2. CASE ~(i <= v)
    <3> DEFINE j == i - v
    <3>1. j \in 1..(W - v) /\ v + j = i
      BY <1>1, <2>2
    <3> HIDE DEF j
    <3>2. b[v + j] = c[v + j]
      BY <1>2, <3>1
    <3> QED BY <3>1, <3>2
  <2> QED BY <2>1, <2>2
<1>4. b = [i \in 1..W |-> b[i]] /\ c = [i \in 1..W |-> c[i]]
  BY DEF Address
<1>5. [i \in 1..W |-> b[i]] = [i \in 1..W |-> c[i]]
  BY <1>3
<1> QED BY <1>4, <1>5

\* Trees with the same leaves answer every lookup alike.
LEMMA FindsOfSameLeaves ==
    ASSUME NEW q, NEW s, NEW t, MadeOf(q, s), MadeOf(q, t), SameLeaves(s, t),
           NEW a \in Address, NEW r, Finds(s, a, r), NEW l, Finds(t, a, l)
    PROVE  r = l
<1>1. IsTree(s) /\ IsTree(t)
  BY DEF MadeOf
<1>2. PICK p \in Prefix : Covers(p, a) /\ IsLeaf(s[p])
  BY <1>1, OneLeaf
<1>3. PICK u \in Prefix : Covers(u, a) /\ IsLeaf(t[u])
  BY <1>1, OneLeaf
<1>4. s[p] = t[u]
  BY <1>2, <1>3 DEF SameLeaves
<1>5. /\ \A x \in Prefix : Covers(x, a) /\ IsLeaf(s[x]) => x = p
      /\ \A x \in Prefix : Covers(x, a) /\ IsLeaf(t[x]) => x = u
  BY <1>1, <1>2, <1>3, OneLeaf
<1>6. \A e : e.type = "ALIAS" => IsLeaf(e)
  BY DEF IsLeaf, HasNode
<1>7. CASE s[p].type # "ALIAS"
  <2>1. r = s[p]
    BY <1>5, <1>6, <1>7 DEF Finds
  <2>2. l = t[u]
    BY <1>4, <1>5, <1>6, <1>7 DEF Finds
  <2> QED BY <1>4, <2>1, <2>2
<1>8. CASE s[p].type = "ALIAS"
  <2>1. t[p] = s[p]
    BY <1>8, SameFixed DEF FixedTypes
  <2>2. p = u
    BY <1>2, <1>5, <2>1
  <2>3. PICK b \in Address, v \in Prefix :
           StandsFor(p, a, b) /\ Covers(v, b) /\ IsLeaf(s[v]) /\ r = s[v]
    BY <1>5, <1>6, <1>8 DEF Finds
  <2>4. PICK c \in Address, w \in Prefix :
           StandsFor(p, a, c) /\ Covers(w, c) /\ IsLeaf(t[w]) /\ l = t[w]
    BY <1>4, <1>5, <1>6, <1>8, <2>2 DEF Finds
  <2>5. b = c
    BY <2>3, <2>4, OneTarget
  <2> QED BY <2>3, <2>4, <2>5 DEF SameLeaves
<1> QED BY <1>7, <1>8

-----------------------------------------------------------------------------
(* The data table while a tree is thawed: every record has its reference,  *)
(* no call holds one, and no entry has its value yet                       *)

Exact == \A k \in Key : table[k].count = References(k)
NoValues(t) == \A k \in Key : ~t[k].sv

\* Counting gives no entry a value.
LEMMA NoValuesKept ==
    ASSUME NEW t \in Table, NoValues(t)
    PROVE  /\ \A k \in Key : NoValues(Inc(t, k))
           /\ \A p : NoValues(Release(t, p))
<1>1. ASSUME NEW k \in Key, NEW j \in Key PROVE ~Inc(t, k)[j].sv
  BY DEF Inc, NoValues, Table
<1>2. ASSUME NEW n, NEW j \in Key PROVE ~Drop(t, n)[j].sv
  BY DEF Drop, NoValues
<1>3. \A n : NoValues(Drop(t, n))
  BY <1>2 DEF NoValues
<1> QED BY <1>1, <1>3 DEF NoValues, Release

\* A graft that takes one reference for the new record and gives back those of
\* the subtree it replaces.
LEMMA GraftExact ==
    ASSUME Inv, Exact, NEW p \in Prefix, NEW r \in Record, recs' = Graft(p, r),
           \A k \in Key :
               table'[k].count =
                   table[k].count - CountBelow(p, k) + (IF r = Data(k) THEN 1 ELSE 0)
    PROVE  Exact'
<1>1. recs \in [Prefix -> Record]
  BY DEF Inv, TypeOK
<1>2. ASSUME NEW k \in Key PROVE table'[k].count = References(k)'
  <2>1. References(k)' = References(k) - CountBelow(p, k) + (IF r = Data(k) THEN 1 ELSE 0)
    BY <1>1, GraftReferences
  <2>2. table[k].count = References(k)
    BY DEF Exact
  <2> QED BY <2>1, <2>2
<1> QED BY <1>2 DEF Exact

\* A record is put in the tree.
LEMMA SetRecordExact ==
    ASSUME Inv, Exact, NoValues(table), SetRecord PROVE Exact' /\ NoValues(table')
<1>1. /\ op \in Running /\ recs' = Graft(at, new)
      /\ table' = IF new.type = "DATA" THEN Inc(Release(table, at), new.key)
                  ELSE Release(table, at)
  BY DEF SetRecord, Settles, Down
<1>2. /\ at \in Prefix /\ new \in Record /\ table \in Table
  BY <1>1, RunningFacts
<1> DEFINE t == Release(table, at)
<1>3. /\ t \in Table /\ NoValues(t)
      /\ \A k \in Key : t[k].count = table[k].count - CountBelow(at, k)
  BY <1>2, ReleaseFacts, NoValuesKept
<1> HIDE DEF t
<1>4. CASE new.type = "DATA"
  <2>1. new.key \in Key /\ new = Data(new.key)
    BY <1>2, <1>4, RecordFacts
  <2>2. table' = Inc(t, new.key)
    BY <1>1, <1>4 DEF t
  <2>3. NoValues(table')
    BY <1>3, <2>1, <2>2, NoValuesKept
  <2>4. ASSUME NEW k \in Key
        PROVE  table'[k].count =
                   table[k].count - CountBelow(at, k) + (IF new = Data(k) THEN 1 ELSE 0)
    <3>1. table'[k].count = t[k].count + (IF k = new.key THEN 1 ELSE 0)
      BY <1>3, <2>1, <2>2, TableFacts
    <3>2. new = Data(k) <=> k = new.key
      BY <2>1, RecordFacts
    <3> QED BY <1>3, <3>1, <3>2
  <2> QED BY <1>1, <1>2, <2>3, <2>4, GraftExact
<1>5. CASE new.type # "DATA"
  <2>1. table' = t
    BY <1>1, <1>5 DEF t
  <2>2. \A k \in Key : new # Data(k)
    BY <1>5, RecordFacts
  <2>3. \A k \in Key : table[k].count - CountBelow(at, k) \in Int
    BY <1>2, ReferencesFacts DEF Table
  <2>4. \A k \in Key :
           table'[k].count =
               table[k].count - CountBelow(at, k) + (IF new = Data(k) THEN 1 ELSE 0)
    BY <1>3, <2>1, <2>2, <2>3
  <2> QED BY <1>1, <1>2, <1>3, <2>1, <2>4, GraftExact
<1> QED BY <1>4, <1>5

\* Trimming upwards.
LEMMA TrimExact ==
    ASSUME Inv, Exact, NoValues(table), Trim PROVE Exact' /\ NoValues(table')
<1> DEFINE p == Parent(at)
           r == recs[Child(p, 0)]
           s == IF r.type = "DATA" THEN Inc(table, r.key) ELSE table
<1>1. /\ op \in Running /\ at # << >>
      /\ IF Trimmable(p)
         THEN recs' = Graft(p, r) /\ table' = Release(s, p)
         ELSE recs' = recs /\ table' = table
  BY DEF Trim, Up
<1>2. at \in Prefix /\ recs \in [Prefix -> Record] /\ table \in Table
  BY <1>1, RunningFacts
<1>3. p \in Prefix /\ Len(p) < W
  BY <1>1, <1>2, ParentIsPrefix, ChildOfParent
<1>4. r \in Record
  BY <1>2, <1>3, ChildIsPrefix DEF Bit
<1> HIDE DEF p, r
<1>5. CASE Trimmable(p)
  <2>1. /\ s \in Table /\ NoValues(s)
        /\ \A k \in Key : s[k].count = table[k].count + (IF r = Data(k) THEN 1 ELSE 0)
    <3>1. CASE r.type = "DATA"
      <4>1. r.key \in Key /\ r = Data(r.key)
        BY <1>4, <3>1, RecordFacts
      <4>2. /\ s \in Table /\ NoValues(s)
            /\ \A k \in Key : s[k].count = table[k].count + (IF k = r.key THEN 1 ELSE 0)
        BY <1>2, <3>1, <4>1, TableFacts, NoValuesKept
      <4>3. \A k \in Key : r = Data(k) <=> k = r.key
        BY <4>1, RecordFacts
      <4> HIDE DEF s
      <4> QED BY <4>2, <4>3
    <3>2. CASE r.type # "DATA"
      <4>1. \A k \in Key : r # Data(k)
        BY <3>2, RecordFacts
      <4> QED BY <1>2, <3>2, <4>1 DEF Table
    <3> QED BY <3>1, <3>2
  <2> HIDE DEF s
  <2>2. /\ NoValues(table')
        /\ \A k \in Key : table'[k].count = s[k].count - CountBelow(p, k)
    BY <1>1, <1>5, <2>1, ReleaseFacts, NoValuesKept
  <2>3. ASSUME NEW k \in Key
        PROVE  table'[k].count =
                   table[k].count - CountBelow(p, k) + (IF r = Data(k) THEN 1 ELSE 0)
    <3>1. table[k].count \in Int /\ CountBelow(p, k) \in Nat
      BY <1>2, ReferencesFacts DEF Table
    <3>2. /\ table'[k].count = s[k].count - CountBelow(p, k)
          /\ s[k].count = table[k].count + (IF r = Data(k) THEN 1 ELSE 0)
      BY <2>1, <2>2
    <3>3. CASE r = Data(k)
      BY <3>1, <3>2, <3>3
    <3>4. CASE r # Data(k)
      BY <3>1, <3>2, <3>4
    <3> QED BY <3>3, <3>4
  <2> QED BY <1>1, <1>3, <1>4, <1>5, <2>2, <2>3, GraftExact
<1>6. CASE ~Trimmable(p)
  <2>1. recs' = recs /\ table' = table
    BY <1>1, <1>6
  <2> QED BY <2>1 DEF Exact, References
<1> QED BY <1>5, <1>6

\* Going on to the next node, and splitting a leaf on the way.
LEMMA DescendExact ==
    ASSUME Inv, Shape, Exact, NoValues(table), Descend PROVE Exact' /\ NoValues(table')
<1>1. /\ op \in Running
      /\ recs[at].type \in {"EMPTY", "DATA", "NODE", "FIXED_NODE"}
      /\ recs' = IF HasNode(recs[at])
                 THEN [recs EXCEPT ![at] = Plain(NodeType)] ELSE Split(at, NodeType)
      /\ table' = CountCopy
  BY DEF Descend, Down
<1>2. /\ at \in Prefix /\ recs \in [Prefix -> Record] /\ recs[at] \in Record
      /\ table \in Table
  BY <1>1, RunningFacts
<1>3. Len(at) < W
  BY DescendRoom
<1>4. NodeType \in {"NODE", "FIXED_NODE"}
  BY DEF NodeType
<1>5. \A k \in Key :
         References(k)' = References(k) + (IF recs[at] = Data(k) THEN 1 ELSE 0)
  BY <1>1, <1>2, <1>3, <1>4, DescendReferences
<1>6. /\ NoValues(table')
      /\ \A k \in Key :
            table'[k].count = table[k].count + (IF recs[at] = Data(k) THEN 1 ELSE 0)
  <2>1. CASE recs[at].type = "DATA"
    <3> DEFINE j == recs[at].key
    <3>1. j \in Key /\ table' = Inc(table, j) /\ recs[at] = Data(j)
      BY <1>1, <1>2, <2>1, RecordFacts DEF CountCopy
    <3> HIDE DEF j
    <3>2. NoValues(table')
      BY <1>2, <3>1, NoValuesKept
    <3>3. \A k \in Key : table'[k].count = table[k].count + (IF k = j THEN 1 ELSE 0)
      BY <1>2, <3>1, TableFacts
    <3>4. \A k \in Key : recs[at] = Data(k) <=> k = j
      BY <3>1, RecordFacts
    <3> QED BY <3>2, <3>3, <3>4
  <2>2. CASE recs[at].type # "DATA"
    <3>1. \A k \in Key : recs[at] # Data(k)
      BY <2>2, RecordFacts
    <3>2. table' = table
      BY <1>1, <2>2 DEF CountCopy
    <3>3. \A k \in Key : table[k].count \in Int
      BY <1>2 DEF Table
    <3> QED BY <3>1, <3>2, <3>3
  <2> QED BY <2>1, <2>2
<1>7. ASSUME NEW k \in Key PROVE table'[k].count = References(k)'
  BY <1>5, <1>6 DEF Exact
<1> QED BY <1>6, <1>7 DEF Exact

\* Every step, unless new_tree fails.
LEMMA StepExact ==
    ASSUME Inv, Shape, strategy = "none", held = NoKey, Exact, NoValues(table),
           Step, op' # "freed"
    PROVE  Exact' /\ NoValues(table') /\ held' = NoKey
<1>1. ~MergeRecord /\ ~MergeCroaks
  BY DEF MergeRecord, MergeCroaks, Merges
<1>2. CASE Ignore \/ GoLeft \/ NextRecord
  <2>1. recs' = recs /\ table' = table /\ held' = held
    BY <1>2 DEF Ignore, GoLeft, NextRecord
  <2> QED BY <2>1 DEF Exact, References
<1>3. CASE Refuse \/ Finish
  <2>1. recs' = recs /\ table' = table /\ held' = NoKey
    BY <1>3 DEF Refuse, Finish, EndCall, TableOnReturn
  <2> QED BY <2>1 DEF Exact, References
<1>4. CASE SetRecord
  <2>1. held' = held
    BY <1>4 DEF SetRecord
  <2> QED BY <1>4, <2>1, SetRecordExact
<1>5. CASE Trim
  <2>1. held' = held
    BY <1>5 DEF Trim
  <2> QED BY <1>5, <2>1, TrimExact
<1>6. CASE Descend
  <2>1. held' = held
    BY <1>6 DEF Descend
  <2> QED BY <1>6, <2>1, DescendExact
<1> QED BY <1>1, <1>2, <1>3, <1>4, <1>5, <1>6 DEF Step

\* A count is positive if there is a record.
LEMMA PositiveCount ==
    ASSUME Exact, NEW k \in Key
    PROVE  /\ table[k].count \in Nat
           /\ table[k].count > 0 <=> \E p \in Prefix : recs[p] = Data(k)
<1>1. table[k].count = References(k) /\ References(k) \in Nat
      /\ \A p \in Prefix : recs[p] = Data(k) => References(k) >= 1
  BY ReferencesFacts DEF Exact
<1>2. ASSUME \A p \in Prefix : recs[p] # Data(k) PROVE References(k) = 0
  <2>1. {p \in Prefix : recs[p] = Data(k)} = {}
    BY <1>2
  <2> QED BY <2>1, FS_EmptySet DEF References
<1> QED BY <1>1, <1>2

-----------------------------------------------------------------------------
(* What the file and the table say of the tree that was frozen             *)

\* The positions in nodes of t.
InNodes(t) == {p \in Prefix : p # << >> /\ HasNode(t[Parent(p)])}

\* w is taken from a tree made with the options o.
TakenFrom(w, o) ==
    /\ o \in Options /\ MadeOf(NewTreeQueue(o), w.recs) /\ HasNode(w.recs[<< >>])
    /\ \A a \in Address : Finds(w.recs, a, w.found[a])

\* f has the networks of the tree in w, and if it has all of its data, that of
\* every key.
IsWhole(f, w) ==
    /\ TakenFrom(w, f.opts) /\ Listed(w.recs, f.nets, InNodes(w.recs))
    /\ f.hash \subseteq Key
    /\ f.ends = "data" =>
          /\ \A p \in Prefix : w.recs[p].type = "DATA" => w.recs[p].key \in f.hash
          /\ ~w.leaks => \A k \in f.hash : \E p \in Prefix : w.recs[p] = Data(k)

WasPart ==
    /\ task = "freeze" =>
          /\ was.recs = recs /\ TakenFrom(was, opts)
          /\ was.leaks <=> \E k \in Key : table[k].count # References(k)
    /\ task \in {"frozen", "thaw"} =>
          \/ was = Nothing /\ file.ends \in {"networks", "separator"}
          \/ IsWhole(file, was)

\* A tree that has lost values has lost no count.
LostPart == task = "none" /\ op = "idle" /\ held = NoKey /\ queue = << >> /\ Exact

TablePart ==
    /\ lost # {} => LostPart
    /\ task # "thaw" /\ lost = {} => TableInv
    /\ task = "thaw" =>
          /\ held = NoKey /\ PathUntrimmed
          /\ op # "new_tree" => queue = << >>
          /\ op # "freed" => Exact /\ NoValues(table)

ThawInv == TablePart /\ WasPart

\* A tree of which all is listed has no data but that.
LEMMA DataInNodes ==
    ASSUME NEW t, IsTree(t), HasNode(t[<< >>]), NEW p \in Prefix, t[p].type = "DATA"
    PROVE  p \in InNodes(t)
<1>1. p # << >> /\ t[p].type # "ABSENT"
  BY DEF HasNode
<1> QED BY <1>1 DEF IsTree, InNodes

\* Once all the networks are in the tree, it has the data of the tree that was
\* frozen.
LEMMA SameData ==
    ASSUME FInv, task = "thaw", op = "idle", IsWhole(file, was)
    PROVE  /\ \A p \in Prefix : was.recs[p].type = "DATA" =>
                 \E u \in Prefix : Covers(u, p) /\ recs[u] = was.recs[p]
           /\ \A u \in Prefix : recs[u].type = "DATA" =>
                 \A a \in Address : Covers(u, a) =>
                     \E p \in Prefix : Covers(p, a) /\ was.recs[p] = recs[u]
<1>1. /\ opts = file.opts /\ Fits(file.opts, file.nets) /\ AllIn(recs)
  BY DEF FInv, FileInv, ThawPart
<1>2. ToThaw = ThawItems(file.nets) /\ file.nets \in Seq(NetworkRecord)
  BY <1>1, FileFitsTree DEF Fits
<1>3. /\ Len(ToThaw) = Len(file.nets)
      /\ \A i \in 1..Len(file.nets) : ToThaw[i] = Thawed(file.nets[i])
  BY <1>2, ThawItemsFacts
<1>4. Listed(was.recs, file.nets, InNodes(was.recs))
  BY DEF IsWhole
<1>5. ASSUME NEW p \in Prefix, was.recs[p].type = "DATA"
      PROVE  \E u \in Prefix : Covers(u, p) /\ recs[u] = was.recs[p]
  <2>1. p \in InNodes(was.recs)
    BY <1>5, DataInNodes DEF IsWhole, TakenFrom, MadeOf
  <2>2. PICK i \in 1..Len(file.nets) : Thawed(file.nets[i]).net = p
    BY <1>4, <1>5, <2>1 DEF Listed
  <2>3. was.recs[p] = Thawed(file.nets[i]).rec
    BY <1>4, <2>2 DEF Listed
  <2>4. IsDone(recs, ToThaw[i])
    BY <1>1, <1>3 DEF AllIn
  <2> QED BY <1>3, <2>2, <2>3, <2>4 DEF IsDone
<1>6. ASSUME NEW u \in Prefix, recs[u].type = "DATA", NEW a \in Address, Covers(u, a)
      PROVE  \E p \in Prefix : Covers(p, a) /\ was.recs[p] = recs[u]
  <2>1. PICK i \in 1..Len(ToThaw) : ToThaw[i].rec = recs[u] /\ Covers(ToThaw[i].net, a)
    BY <1>1, <1>6 DEF AllIn, FromFile
  <2>2. /\ Thawed(file.nets[i]).net \in InNodes(was.recs)
        /\ was.recs[Thawed(file.nets[i]).net] = Thawed(file.nets[i]).rec
    BY <1>3, <1>4 DEF Listed
  <2> QED BY <1>3, <2>1, <2>2 DEF InNodes
<1> QED BY <1>5, <1>6

\* So it has the keys that the data hash must have.
LEMMA SameKeys ==
    ASSUME FInv, TablePart, task = "thaw", op = "idle", IsWhole(file, was), NEW k \in Key
    PROVE  /\ table[k].count > 0 /\ file.ends = "data" => k \in file.hash
           /\ (\E p \in Prefix : was.recs[p] = Data(k)) => table[k].count > 0
<1>1. Exact
  BY DEF TablePart
<1>2. ASSUME table[k].count > 0, file.ends = "data" PROVE k \in file.hash
  <2>1. PICK u \in Prefix : recs[u] = Data(k)
    BY <1>1, <1>2, PositiveCount
  <2>2. recs[u].type = "DATA"
    BY <2>1, RecordFacts
  <2>3. PICK a \in Address : Covers(u, a)
    BY AddressBelow
  <2>4. PICK p \in Prefix : was.recs[p] = Data(k)
    BY <2>1, <2>2, <2>3, SameData
  <2> QED BY <1>2, <2>4, RecordFacts DEF IsWhole
<1>3. ASSUME NEW p \in Prefix, was.recs[p] = Data(k) PROVE table[k].count > 0
  <2>1. was.recs[p].type = "DATA"
    BY <1>3, RecordFacts
  <2>2. PICK u \in Prefix : recs[u] = Data(k)
    BY <1>3, <2>1, SameData
  <2> QED BY <1>1, <2>2, PositiveCount
<1> QED BY <1>2, <1>3

-----------------------------------------------------------------------------
(* Every step keeps it                                                     *)

\* Freezing leaves the tree and its table alone.
LEMMA TableStands == ASSUME TableInv, UNCHANGED vars PROVE TableInv'
BY NextCounted

\* Freezing begins.
LEMMA FreezeTakes == ASSUME FInv, ThawInv, Freeze PROVE ThawInv'
<1>1. /\ task = "none" /\ op = "idle" /\ HasNode(recs[<< >>]) /\ UNCHANGED vars
      /\ task' = "freeze" /\ lost = {} /\ lost' = {}
      /\ was' = [recs |-> recs, found |-> [a \in Address |-> FoundRecord(a)],
                 leaks |-> \E k \in Key : table[k].count # References(k)]
  BY DEF Freeze, CanIterate
<1>2. TableInv /\ TableInv' /\ LookupInv
  BY <1>1, TableStands, IdleLookup DEF ThawInv, TablePart, FInv
<1>3. /\ was'.recs = recs /\ \A a \in Address : was'.found[a] = FoundRecord(a)
      /\ was'.leaks <=> \E k \in Key : table[k].count # References(k)
  BY <1>1
<1>4. MadeOf(NewTreeQueue(opts), recs) /\ opts \in Options
  BY <1>1, IdleTree DEF FInv, Inv, FixedPath, MadeOf
<1>5. \A a \in Address : Finds(recs, a, was'.found[a])
  BY <1>1, <1>2, <1>3, LookupFinds DEF TableInv
<1>6. TakenFrom(was', opts)
  BY <1>1, <1>3, <1>4, <1>5 DEF TakenFrom
<1>7. recs' = recs /\ opts' = opts /\ table' = table /\ \A k : References(k)' = References(k)
  BY <1>1 DEF vars, References
<1>8. WasPart'
  BY <1>1, <1>3, <1>6, <1>7 DEF WasPart
<1> QED BY <1>1, <1>2, <1>8 DEF ThawInv, TablePart

\* It goes on.
LEMMA FreezeGoesOn ==
    ASSUME FInv, ThawInv, EnterNode \/ FreezeNode \/ FreezeSeparator PROVE ThawInv'
<1>1. /\ task = "freeze" /\ task' = "freeze" /\ UNCHANGED vars /\ was' = was
      /\ lost = {} /\ lost' = {}
  <2>0. task = "freeze" => lost = {}
    BY DEF ThawInv, TablePart, LostPart
  <2>1. CASE EnterNode
    BY <2>0, <2>1 DEF EnterNode, FInv, FileInv
  <2>2. CASE FreezeNode \/ FreezeSeparator
    BY <2>0, <2>2 DEF FreezeNode, FreezeSeparator
  <2> QED BY <2>1, <2>2
<1>2. TableInv'
  BY <1>1, TableStands DEF ThawInv, TablePart
<1>3. recs' = recs /\ opts' = opts /\ table' = table /\ \A k : References(k)' = References(k)
  BY <1>1 DEF vars, References
<1>4. WasPart'
  BY <1>1, <1>3 DEF ThawInv, WasPart
<1> QED BY <1>1, <1>2, <1>4 DEF ThawInv, TablePart

\* All the networks are in the file, and a part of the data or all of it.
LEMMA FreezeIsWhole ==
    ASSUME FInv, ThawInv, file.ends = "separator",
           FreezeData \/ (/\ FreezeStops /\ task' = "frozen"
                          /\ file' \in DataBegun(file) /\ was' = was)
    PROVE  ThawInv'
<1>1. /\ task = "freeze" /\ task' = "frozen" /\ UNCHANGED vars /\ was' = was
      /\ file.ends = "separator" /\ lost = {} /\ lost' = {}
  <2>1. task = "freeze" /\ UNCHANGED vars /\ was' = was /\ lost' = lost
    BY DEF FreezeData, FreezeStops
  <2>2. task' = "frozen"
    BY DEF FreezeData
  <2> QED BY <2>1, <2>2 DEF ThawInv, TablePart, LostPart
<1>2. /\ IsFile(file) /\ file.opts = opts /\ stack = << >>
      /\ Listed(recs, file.nets, Visited(stack))
  BY <1>1 DEF FInv, FileInv, FreezePart
<1> DEFINE Counted == {k \in Key : table[k].count > 0}
<1>3. /\ file'.opts = opts /\ file'.nets = file.nets /\ file'.hash \subseteq Counted
      /\ file'.ends = "data" => file'.hash = Counted
  <2>1. CASE FreezeData
    <3>1. file' = [file EXCEPT !.hash = Counted, !.ends = "data"]
      BY <2>1 DEF FreezeData
    <3> HIDE DEF Counted
    <3> QED BY <1>2, <3>1 DEF IsFile
  <2>2. CASE file' \in DataBegun(file)
    <3>1. PICK h \in SUBSET Counted :
             file' = [file EXCEPT !.ends = "part of the data", !.hash = h]
      BY <2>2 DEF DataBegun
    <3> HIDE DEF Counted
    <3> QED BY <1>2, <3>1 DEF IsFile
  <2> QED BY <2>1, <2>2
<1>4. TableInv /\ TableInv'
  BY <1>1, TableStands DEF ThawInv, TablePart
<1>5. /\ was.recs = recs /\ TakenFrom(was, opts)
      /\ was.leaks <=> \E k \in Key : table[k].count # References(k)
  BY <1>1 DEF ThawInv, WasPart
<1>6. Visited(stack) = InNodes(recs)
  <2>1. \A p : ~Waits(<< >>, p)
    BY DEF Waits
  <2> QED BY <1>2, <2>1 DEF Visited, InNodes
<1>7. Listed(was.recs, file.nets, InNodes(was.recs))
  BY <1>2, <1>5, <1>6
<1>8. recs \in [Prefix -> Record] /\ table \in Table
  BY <1>4 DEF TableInv, Inv, TypeOK, Table
<1>9. ASSUME NEW p \in Prefix, recs[p].type = "DATA" PROVE recs[p].key \in Counted
  <2> DEFINE k == recs[p].key
  <2>1. k \in Key /\ recs[p] = Data(k)
    BY <1>8, <1>9, RecordFacts
  <2> HIDE DEF k
  <2>2. References(k) >= 1 /\ References(k) \in Nat
    BY <2>1, ReferencesFacts
  <2>3. table[k].count >= References(k) + Holds(k) /\ Holds(k) \in {0, 1}
        /\ table[k].count \in Int
    BY <1>4, <1>8, <2>1 DEF TableInv, CountsOK, Holds, Table
  <2>4. k \in Counted
    BY <2>1, <2>2, <2>3
  <2> QED BY <2>4 DEF k
<1>10. ASSUME ~was.leaks, NEW k \in Counted PROVE \E p \in Prefix : recs[p] = Data(k)
  <2>1. k \in Key /\ table[k].count > 0 /\ Exact
    BY <1>5, <1>10 DEF Exact
  <2> QED BY <2>1, PositiveCount
<1>11. Counted \subseteq Key
  OBVIOUS
<1> HIDE DEF Counted
<1>12. IsWhole(file', was)
  BY <1>3, <1>5, <1>7, <1>9, <1>10, <1>11 DEF IsWhole
<1>13. WasPart'
  BY <1>1, <1>12 DEF WasPart
<1> QED BY <1>1, <1>4, <1>13 DEF ThawInv, TablePart

\* There is not all in the file.
LEMMA FreezeIsNotWhole ==
    ASSUME FInv, ThawInv, FreezeStops \/ FreezeWithoutNodes, was' = Nothing,
           file' \in {file, NoFile} \cup Beginnings(file) \/ FreezeWithoutNodes
    PROVE  ThawInv'
<1>1. /\ task \in {"none", "freeze"} /\ task' \in {"none", "frozen"} /\ UNCHANGED vars
      /\ was' = Nothing /\ lost = {} /\ lost' = {}
  <2>1. task = "freeze" => lost = {}
    BY DEF ThawInv, TablePart, LostPart
  <2> QED BY <2>1 DEF FreezeStops, FreezeWithoutNodes
<1>2. TableInv'
  BY <1>1, TableStands DEF ThawInv, TablePart
<1>3. file'.ends \in {"networks", "separator"}
  <2>1. CASE FreezeStops /\ ~FreezeWithoutNodes
    <3>1. /\ IsFile(file) /\ file.ends \in {"networks", "separator"}
          /\ file' \in {file, NoFile} \cup Beginnings(file)
      BY <2>1 DEF FreezeStops, FInv, FileInv, FreezePart
    <3>2. CASE file' \in Beginnings(file)
      <4>1. PICK k \in 0..Len(file.nets) :
               file' = [file EXCEPT !.ends = "networks", !.nets = SubSeq(file.nets, 1, k)]
        BY <3>2 DEF Beginnings
      <4>2. file'.ends = "networks"
        BY <3>1, <4>1 DEF IsFile
      <4> QED BY <4>2
    <3> QED BY <3>1, <3>2 DEF NoFile
  <2>2. CASE FreezeWithoutNodes
    BY <2>2 DEF FreezeWithoutNodes, NoFile
  <2> QED BY <2>1, <2>2
<1> QED BY <1>1, <1>2, <1>3 DEF ThawInv, TablePart, WasPart

\* Freezing ends, or stops.
LEMMA FreezeEnded ==
    ASSUME FInv, ThawInv, FreezeData \/ FreezeStops \/ FreezeWithoutNodes PROVE ThawInv'
<1>1. CASE FreezeData
  BY <1>1, FreezeIsWhole DEF FreezeData
<1>2. CASE FreezeStops
  <2>1. \/ file' \in {file, NoFile} \cup Beginnings(file) /\ was' = Nothing
        \/ /\ file.ends = "separator" /\ task' = "frozen"
           /\ file' \in DataBegun(file) /\ was' = was
    BY <1>2 DEF FreezeStops
  <2> QED BY <1>2, <2>1, FreezeIsWhole, FreezeIsNotWhole
<1>3. CASE FreezeWithoutNodes
  <2>1. was' = Nothing
    BY <1>3 DEF FreezeWithoutNodes
  <2> QED BY <1>3, <2>1, FreezeIsNotWhole
<1> QED BY <1>1, <1>2, <1>3

\* The tree is made again.
LEMMA ThawBegins == ASSUME FInv, ThawInv, Thaw PROVE ThawInv'
<1>1. /\ task = "frozen" /\ task' = "thaw" /\ UNCHANGED <<file, was, lost>>
      /\ recs' = EmptyTree /\ table' = EmptyTable /\ held' = NoKey
      /\ op' = IF queue' = << >> THEN "idle" ELSE "new_tree"
  BY DEF Thaw
<1>2. Exact'
  BY <1>1, EmptyTreeFacts DEF Exact, References
<1>3. NoValues(table')
  BY <1>1 DEF NoValues, EmptyTable
<1>4. PathUntrimmed'
  BY <1>1, EmptyTreeFacts DEF PathUntrimmed, Trimmable, HasNode
<1>5. WasPart'
  BY <1>1 DEF ThawInv, WasPart
<1>6. lost' = {}
  BY <1>1 DEF ThawInv, TablePart, LostPart
<1> QED BY <1>1, <1>2, <1>3, <1>4, <1>5, <1>6 DEF ThawInv, TablePart

\* Its records come in.
LEMMA ThawGoesOn == ASSUME FInv, ThawInv, ThawNetwork PROVE ThawInv'
<1>1. task = "thaw" /\ task' = "thaw" /\ Step /\ UNCHANGED <<file, was>> /\ lost' = {}
  BY DEF ThawNetwork, fvars, ThawInv, TablePart, LostPart
<1>2. /\ held = NoKey /\ PathUntrimmed /\ Inv /\ Shape
      /\ op # "freed" => Exact /\ NoValues(table)
  BY <1>1 DEF ThawInv, TablePart, FInv
<1>3. op \in Running
  BY <1>1 DEF Step, SetRecord, MergeRecord, MergeCroaks, Settles, Ignore, Refuse, Descend,
              GoLeft, Trim, Up, NextRecord, Finish, Down
<1>4. op = "new_tree" /\ strategy = "none"
  BY <1>1, <1>3 DEF FInv, ThawPart, SetupInv, QueueLeft, Running
<1>5. ~MergeRecord /\ ~MergeCroaks
  BY <1>4 DEF MergeRecord, MergeCroaks, Merges
<1>6. PathUntrimmed'
  BY <1>1, <1>2, <1>5, StepTrimmed
<1>7. held' = NoKey /\ (op' # "new_tree" => queue' = << >>)
  BY <1>1, <1>2, <1>4, <1>5
     DEF Step, SetRecord, Ignore, Refuse, Descend, GoLeft, Trim, NextRecord, Finish, EndCall
<1>8. op' # "freed" => Exact' /\ NoValues(table')
  BY <1>1, <1>2, <1>4, StepExact
<1>9. WasPart'
  BY <1>1 DEF ThawInv, WasPart
<1> QED BY <1>1, <1>6, <1>7, <1>8, <1>9 DEF ThawInv, TablePart

\* The values that are not lost are in the table again, and if none is it is as
\* that of any tree.
LEMMA ThawFillsTable == ASSUME FInv, ThawInv, ThawData PROVE ThawInv'
<1>1. /\ task = "thaw" /\ task' = "none" /\ op = "idle" /\ MayThaw(file)
      /\ table' = [k \in Key |-> IF k \in file.hash THEN SetStored(k) ELSE table[k]]
      /\ UNCHANGED <<recs, op, held, queue>>
  BY DEF ThawData
<1>2. Inv' /\ Shape'
  BY ThawEnds DEF FInv
<1>4. Exact /\ table \in Table /\ held = NoKey /\ queue = << >>
  BY <1>1 DEF FInv, Inv, TypeOK, Table, ThawInv, TablePart
<1>5. ASSUME NEW k \in Key PROVE table'[k].count = table[k].count
  BY <1>1, <1>4, <1>5 DEF SetStored, Table
<1>6. HeldOK'
  BY <1>1, <1>4, EmptySeq DEF HeldOK
<1>7. ASSUME NEW k \in Key
      PROVE  /\ table'[k].count = References(k)' /\ References(k)' \in Nat
             /\ Holds(k)' = 0
  <2>1. References(k)' = References(k) /\ References(k) \in Nat
    BY <1>1, ReferencesFacts DEF References
  <2>2. Holds(k)' = 0
    BY <1>1, <1>4, KeyAssumption DEF Holds
  <2> QED BY <1>4, <1>5, <2>1, <2>2 DEF Exact
<1>8. CountsOK' /\ Exact'
  BY <1>7 DEF CountsOK, Exact
<1>9. CASE lost' = {}
  <2>1. StoredOK(table)'
    <3>1. ASSUME NEW k \in Key, table[k].count > 0 PROVE table'[k].sv
      BY <1>9, <3>1 DEF ThawData
    <3> QED BY <1>5, <3>1 DEF StoredOK
  <2> QED BY <1>1, <1>2, <1>6, <1>8, <1>9, <2>1 DEF ThawInv, TablePart, WasPart, TableInv
<1>10. CASE lost' # {}
  BY <1>1, <1>4, <1>8, <1>10 DEF ThawInv, TablePart, WasPart, LostPart
<1> QED BY <1>9, <1>10

\* There is no tree, and nothing in the table.
LEMMA ThawLeavesNothing == ASSUME FInv, ThawInv, ThawCroaks PROVE ThawInv'
<1>1. /\ task = "thaw" /\ op = "idle" /\ task' = "none" /\ op' = "freed"
      /\ recs' = NoTree /\ table' = EmptyTable /\ UNCHANGED <<held, queue>> /\ lost' = {}
  BY DEF ThawCroaks, ThawInv, TablePart, LostPart
<1>2. Inv' /\ Shape'
  BY ThawFails DEF FInv
<1>3. held = NoKey /\ queue = << >>
  BY <1>1 DEF ThawInv, TablePart
<1>4. HeldOK'
  BY <1>1, <1>3, EmptySeq DEF HeldOK
<1>5. ASSUME NEW k \in Key
      PROVE  table'[k].count = 0 /\ References(k)' = 0 /\ Holds(k)' = 0
  <2>1. \A p \in Prefix : recs'[p] # Data(k)
    BY <1>1, EmptyFacts, RecordFacts
  <2>2. {p \in Prefix : recs'[p] = Data(k)} = {}
    BY <2>1
  <2>3. References(k)' = 0
    BY <2>2, FS_EmptySet DEF References
  <2> QED BY <1>1, <1>3, <2>3, KeyAssumption DEF EmptyTable, Holds
<1>6. CountsOK' /\ StoredOK(table)'
  BY <1>5 DEF CountsOK, StoredOK
<1> QED BY <1>1, <1>2, <1>4, <1>6 DEF ThawInv, TablePart, WasPart, TableInv

\* Freeing a tree that has lost values leaves nothing in its table.
LEMMA LostFreed == ASSUME FInv, ThawInv, lost # {}, FreeTree PROVE TableInv'
<1>1. /\ op' = "freed" /\ table' = Release(table, << >>)
      /\ recs' = NoTree /\ UNCHANGED <<held, queue>>
  BY DEF FreeTree
<1>2. held = NoKey /\ queue = << >> /\ Exact /\ table \in Table
  BY DEF ThawInv, TablePart, LostPart, FInv, Inv, TypeOK, Table
<1>3. Inv'
  BY FreeTreeInv DEF FInv
<1>4. Shape'
  BY <1>1, EmptyFacts DEF Shape
<1>5. HeldOK'
  BY <1>1, <1>2, EmptySeq DEF HeldOK
<1>6. ASSUME NEW k \in Key
      PROVE  table'[k].count = 0 /\ References(k)' = 0 /\ Holds(k)' = 0
  <2>1. \A p \in Prefix : recs'[p] # Data(k)
    BY <1>1, EmptyFacts, RecordFacts
  <2>2. {p \in Prefix : recs'[p] = Data(k)} = {}
    BY <2>1
  <2>3. References(k)' = 0
    BY <2>2, FS_EmptySet DEF References
  <2>4. table'[k].count = table[k].count - References(k) /\ References(k) \in Nat
    BY <1>1, <1>2, ReleaseFacts, ReferencesFacts
  <2>5. table'[k].count = 0
    BY <1>2, <2>4 DEF Exact
  <2> QED BY <1>1, <1>2, <2>3, <2>5, KeyAssumption DEF Holds
<1>7. CountsOK' /\ StoredOK(table)'
  BY <1>6 DEF CountsOK, StoredOK
<1> QED BY <1>3, <1>4, <1>5, <1>7 DEF TableInv

\* Every step keeps the invariant.
LEMMA FreezeNextThawInv ==
    ASSUME FInv, ThawInv, [FreezeNext]_<<vars, fvars>> PROVE ThawInv'
<1>1. CASE TreeStep
  <2>1. /\ task = "none" /\ task' = "none" /\ Next /\ lost' = {}
        /\ lost # {} => FreeTree
    BY <1>1 DEF TreeStep
  <2>2. TableInv'
    BY <2>1, NextCounted, LostFreed DEF ThawInv, TablePart
  <2> QED BY <2>1, <2>2 DEF ThawInv, TablePart, WasPart
<1>2. CASE UNCHANGED <<vars, fvars>>
  <2>1. UNCHANGED vars /\ UNCHANGED <<task, file, was, lost>>
    BY <1>2 DEF fvars
  <2>2. task # "thaw" /\ lost = {} => TableInv'
    BY <2>1, TableStands DEF ThawInv, TablePart
  <2>3. /\ UNCHANGED <<recs, table, held, queue, op, at, opts>>
        /\ \A k : References(k)' = References(k)
    BY <2>1 DEF vars, References
  <2>4. WasPart'
    BY <2>1, <2>3 DEF ThawInv, WasPart
  <2>5. task = "thaw" => PathUntrimmed'
    BY <2>3 DEF ThawInv, TablePart, PathUntrimmed, Trimmable, Identical
  <2>6. task = "thaw" /\ op # "freed" => Exact' /\ NoValues(table')
    BY <2>3 DEF ThawInv, TablePart, Exact
  <2>7. lost # {} => LostPart'
    BY <2>1, <2>3 DEF ThawInv, TablePart, LostPart, Exact
  <2> QED BY <2>1, <2>2, <2>3, <2>4, <2>5, <2>6, <2>7 DEF ThawInv, TablePart
<1> QED BY <1>1, <1>2, FreezeTakes, FreezeGoesOn, FreezeEnded, ThawBegins,
           ThawGoesOn, ThawFillsTable, ThawLeavesNothing DEF FreezeNext

\* The invariant holds in every reachable state.
LEMMA ThawInvAlways == FreezeSpec => []ThawInv
<1>1. FreezeInit => ThawInv
  <2> SUFFICES ASSUME FreezeInit PROVE ThawInv
    OBVIOUS
  <2>1. TableInv
    BY InitInv, InitCounted DEF FreezeInit, TableInv, TableExact
  <2> QED BY <2>1 DEF FreezeInit, ThawInv, TablePart, WasPart
<1>2. FInv /\ ThawInv /\ [FreezeNext]_<<vars, fvars>> => ThawInv'
  BY FreezeNextThawInv
<1> QED BY <1>1, <1>2, FInvAlways, PTL DEF FreezeSpec

-----------------------------------------------------------------------------
(* The theorems about the end of a thaw                                    *)

\* If freezing got to its end, and the frozen tree had no more references counted
\* than records, thawing does not fail.
THEOREM ThawFailsOnlyAfterLeakHolds == FreezeSpec => ThawFailsOnlyAfterLeak
<1>1. FInv /\ ThawInv => (ThawCroaks => file.ends # "data" \/ was.leaks)
  <2> SUFFICES ASSUME FInv, ThawInv, ThawCroaks, file.ends = "data", ~was.leaks PROVE FALSE
    OBVIOUS
  <2>1. task = "thaw" /\ op = "idle" /\ ~MayThaw(file)
    BY DEF ThawCroaks
  <2>2. IsWhole(file, was)
    BY <2>1 DEF ThawInv, WasPart
  <2>3. ASSUME NEW k \in file.hash PROVE table[k].count > 0
    <3>1. k \in Key /\ \E p \in Prefix : was.recs[p] = Data(k)
      BY <2>2 DEF IsWhole
    <3> QED BY <2>1, <2>2, <3>1, SameKeys DEF ThawInv
  <2> QED BY <2>1, <2>3 DEF MayThaw, HasSeparator, MayDecode, Expected
<1> QED BY <1>1, FInvAlways, ThawInvAlways, PTL DEF ThawFailsOnlyAfterLeak

\* When nothing is being done a lookup finds what is there.
LEMMA FoundWhenIdle ==
    FInv /\ op = "idle" /\ task = "none"
        => \A a \in Address : Finds(recs, a, FoundRecord(a))
BY IdleLookup, LookupFinds DEF FInv

\* A tree that was thawed is the tree that was frozen: to every lookup, record
\* for record if that was trimmed, and in its counts; in its values too if
\* freezing got to its end.
THEOREM ThawedTreeIsFrozenTreeHolds == FreezeSpec => ThawedTreeIsFrozenTree
<1> DEFINE Same == /\ was # Nothing
                   /\ \A a \in Address : FoundRecord(a)' = was.found[a]
                   /\ WasTrimmed => recs' = was.recs
                   /\ \A k \in Key : table'[k].count = References(k)'
                   /\ file.ends = "data" =>
                         /\ lost' = {}
                         /\ \A k \in Key : table'[k].sv <=> References(k)' > 0
<1>1. ASSUME FInv, ThawInv, FInv', ThawInv', ThawData,
             op' = "idle" => \A a \in Address : Finds(recs', a, FoundRecord(a)')
      PROVE  Same
  <2>1. /\ task = "thaw" /\ op = "idle" /\ op' = "idle" /\ MayThaw(file) /\ recs' = recs
        /\ table' = [k \in Key |-> IF k \in file.hash THEN SetStored(k) ELSE table[k]]
    BY <1>1 DEF ThawData
  <2>2. IsWhole(file, was)
    BY <1>1, <2>1 DEF ThawInv, WasPart, MayThaw, HasSeparator, MayDecode
  <2> DEFINE q == NewTreeQueue(opts)
  <2>3. MadeOf(q, was.recs) /\ MadeOf(q, recs)
    <3>1. opts = file.opts
      BY <1>1, <2>1 DEF FInv, ThawPart
    <3>2. MadeOf(q, was.recs)
      BY <2>2, <3>1 DEF IsWhole, TakenFrom
    <3>3. MadeOf(q, recs)
      BY <1>1, <2>1, IdleTree DEF FInv, Inv, FixedPath, MadeOf
    <3> QED BY <3>2, <3>3
  <2> HIDE DEF q
  <2>4. SameLeaves(was.recs, recs)
    <3>1. /\ \A p \in Prefix : was.recs[p].type = "DATA" =>
               \E u \in Prefix : Covers(u, p) /\ recs[u] = was.recs[p]
          /\ \A u \in Prefix : recs[u].type = "DATA" =>
               \A a \in Address : Covers(u, a) =>
                   \E p \in Prefix : Covers(p, a) /\ was.recs[p] = recs[u]
      BY <1>1, <2>1, <2>2, SameData
    <3> QED BY <2>3, <3>1, LeavesOfSameData
  <2>5. was # Nothing
    <3>1. was.recs \in [Prefix -> Record]
      BY <2>3 DEF MadeOf, IsTree
    <3>2. Nothing.recs = << >> /\ << >> \in Prefix
      BY RootIsPrefix DEF Nothing
    <3>3. DOMAIN was.recs # DOMAIN << >>
      BY <3>1, <3>2
    <3> QED BY <3>2, <3>3
  <2>6. ASSUME NEW a \in Address PROVE FoundRecord(a)' = was.found[a]
    <3>1. Finds(recs, a, FoundRecord(a)')
      BY <1>1, <2>1
    <3>2. Finds(was.recs, a, was.found[a])
      BY <2>2 DEF IsWhole, TakenFrom
    <3> QED BY <2>3, <2>4, <3>1, <3>2, FindsOfSameLeaves
  <2>7. ASSUME WasTrimmed PROVE recs' = was.recs
    <3>1. NoneToTrim(was.recs)
      BY <2>7 DEF WasTrimmed, NoneToTrim
    <3>2. NoneToTrim(recs)
      <4> SUFFICES ASSUME NEW p \in Prefix, recs[p].type = "NODE",
                          recs[Child(p, 0)] = recs[Child(p, 1)], ~HasNode(recs[Child(p, 0)])
                   PROVE  FALSE
        BY DEF NoneToTrim
      <4>1. IsTree(recs) /\ Len(p) < W
        BY <2>3 DEF MadeOf, IsTree, HasNode
      <4> DEFINE c == Child(p, 0)
      <4>2. c \in Prefix /\ c # << >> /\ Parent(c) = p /\ Below(p, c)
        BY <4>1, ChildIsPrefix, AboveChild DEF Bit
      <4>3. recs[c].type # "ABSENT" /\ recs[c] \in Record /\ ~HasNode(recs[c])
        BY <4>1, <4>2 DEF IsTree, HasNode
      <4>4. recs[c].type \notin FixedTypes
        BY <2>3, <4>2 DEF MadeOf
      <4> HIDE DEF c
      <4>5. recs[c].type \in {"EMPTY", "DATA"}
        BY <4>3, <4>4, RecordFacts DEF HasNode, PlainTypes, FixedTypes
      <4>6. Trimmable(p)
        BY <4>5 DEF Trimmable, Identical, c
      <4>7. PathUntrimmed /\ op \notin Running
        BY <1>1, <2>1 DEF ThawInv, TablePart, Running
      <4> QED BY <4>1, <4>6, <4>7 DEF PathUntrimmed
    <3>3. was.recs = recs
      BY <2>3, <2>4, <3>1, <3>2, TreesOfSameLeaves
    <3> QED BY <2>1, <3>3
  <2>8. ASSUME NEW k \in Key
        PROVE  /\ table'[k].count = References(k)'
               /\ file.ends = "data" =>
                     /\ table'[k].sv <=> References(k)' > 0
                     /\ table[k].count > 0 => table'[k].sv
    <3>1. Exact /\ NoValues(table) /\ table \in Table
      BY <1>1, <2>1 DEF FInv, Inv, TypeOK, Table, ThawInv, TablePart
    <3>2. References(k)' = table[k].count /\ table[k].count \in Nat
      BY <2>1, <3>1, PositiveCount DEF Exact, References
    <3>3. /\ table'[k] = IF k \in file.hash THEN SetStored(k) ELSE table[k]
          /\ table[k] \in [count : Int, sv : BOOLEAN] /\ ~table[k].sv
      BY <2>1, <3>1 DEF NoValues, Table
    <3>4. table'[k].count = table[k].count /\ (table'[k].sv <=> k \in file.hash)
      BY <3>3 DEF SetStored
    <3>5. file.ends = "data" => (k \in file.hash <=> table[k].count > 0)
      BY <1>1, <2>1, <2>2, SameKeys DEF MayThaw, Expected, ThawInv
    <3> QED BY <3>2, <3>4, <3>5
  <2>9. ASSUME file.ends = "data" PROVE lost' = {}
    <3>1. PICK wrong \in SUBSET file.hash :
             /\ file.ends = "data" => wrong = {}
             /\ lost' = wrong \cup {k \in Key : table[k].count > 0 /\ ~table'[k].sv}
      BY <1>1 DEF ThawData
    <3>2. {k \in Key : table[k].count > 0 /\ ~table'[k].sv} = {}
      BY <2>8, <2>9
    <3> QED BY <2>9, <3>1, <3>2
  <2> QED BY <2>5, <2>6, <2>7, <2>8, <2>9
<1>2. (FInv /\ op = "idle" /\ task = "none")'
        => (\A a \in Address : Finds(recs, a, FoundRecord(a)))'
  <2>1. (FInv /\ op = "idle" /\ task = "none"
           => \A a \in Address : Finds(recs, a, FoundRecord(a)))'
    BY FoundWhenIdle, PTL
  <2> QED BY <2>1
<1>3. FInv /\ ThawInv /\ FInv' /\ ThawInv' => (ThawData => Same)
  <2> SUFFICES ASSUME FInv, ThawInv, FInv', ThawInv', ThawData PROVE Same
    OBVIOUS
  <2>1. op' = "idle" /\ task' = "none"
    BY DEF ThawData
  <2>2. (\A a \in Address : Finds(recs, a, FoundRecord(a)))'
    BY <1>2, <2>1
  <2> QED BY <1>1, <2>2
<1> QED BY <1>3, FInvAlways, ThawInvAlways, PTL DEF ThawedTreeIsFrozenTree
=============================================================================
