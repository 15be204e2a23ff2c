----------------------- MODULE TreeRefinesMap_proofs -----------------------
(***************************************************************************)
(* The search tree implements AddressMap, for every width of an address,   *)
(* every set of networks and options and every table of merges: each step  *)
(* of a tree call is a step of the map or changes nothing in it.           *)
(*                                                                         *)
(* The addresses still to be combined are those the traversal has yet to   *)
(* come to, right before left; the data of an address is that of the one   *)
(* leaf that covers it; and the addresses that are never combined are      *)
(* those covered by an alias or a reserved record.                         *)
(***************************************************************************)
EXTENDS TreeRefinesMap, Lookup_proofs

-----------------------------------------------------------------------------
(* The traversal                                                           *)

\* Address a comes after position p, and is still to be combined when the
\* recursion is at p in direction d for network n.
After(p, a) ==
    \E i \in 1..Len(p) : p[i] = 1 /\ a[i] = 0 /\ \A j \in 1..(i - 1) : a[j] = p[j]
Left(p, d, n, a) == Covers(n, a) /\ (After(p, a) \/ (d = "down" /\ Covers(p, a)))

\* This is what is left to do of the map's call.
LEMMA RemainingIsLeft ==
    \A a : /\ Remaining(a) <=> Left(at, dir, net, a)
           /\ Remaining(a)' <=> Left(at', dir', net', a)
BY DEF Remaining, Left, Later, After

\* No address of a position comes after it.
LEMMA NotAfter ==
    ASSUME NEW p \in Prefix, NEW a \in Address, Covers(p, a)
    PROVE  ~After(p, a)
<1>1. \A i \in 1..Len(p) : p[i] = a[i]
  BY DEF Covers
<1> QED BY <1>1 DEF After

\* What comes after a child, or lies in it.
LEMMA ChildAfter ==
    ASSUME NEW p \in Prefix, Len(p) < W, NEW b \in Bit, NEW a \in Address
    PROVE  /\ After(Child(p, b), a) <=>
                After(p, a) \/ (b = 1 /\ a[Len(p) + 1] = 0 /\ Covers(p, a))
           /\ Covers(Child(p, b), a) <=> Covers(p, a) /\ a[Len(p) + 1] = b
           /\ a[Len(p) + 1] \in Bit
<1> DEFINE c == Child(p, b)
           n == Len(p)
           m == n + 1
<1>1. /\ W \in Nat /\ n \in Nat /\ n < W /\ m \in 1..W
      /\ Len(a) = W /\ a \in [1..W -> Bit]
  BY WidthAssumption, PrefixLength, AddressIsPrefix DEF Address
<1>2. Len(c) = m /\ (\A i \in 1..n : c[i] = p[i]) /\ c[m] = b
  BY ChildIsPrefix
<1> HIDE DEF c, n, m
<1>3. /\ \A i \in 1..m : i \in 1..n \/ i = m
      /\ \A i \in 1..n : i \in 1..m
      /\ m \in 1..m
      /\ \A i \in 1..m : \A j \in 1..(i - 1) : j \in 1..n
      /\ \A j \in 1..n : j \in 1..(m - 1)
      /\ \A j \in 1..(m - 1) : j \in 1..n
  BY <1>1 DEF m
<1>4. Covers(p, a) <=> \A i \in 1..n : p[i] = a[i]
  BY <1>1 DEF Covers, n
<1>5. Covers(c, a) <=> \A i \in 1..m : c[i] = a[i]
  BY <1>1, <1>2 DEF Covers
<1>6. Covers(c, a) <=> Covers(p, a) /\ a[m] = b
  BY <1>2, <1>3, <1>4, <1>5
<1>7. ASSUME After(c, a) PROVE After(p, a) \/ (b = 1 /\ a[m] = 0 /\ Covers(p, a))
  <2>1. PICK i \in 1..m : c[i] = 1 /\ a[i] = 0 /\ \A j \in 1..(i - 1) : a[j] = c[j]
    BY <1>2, <1>7 DEF After
  <2>2. \A j \in 1..(i - 1) : a[j] = p[j]
    BY <1>2, <1>3, <2>1
  <2>3. CASE i \in 1..n
    BY <1>2, <2>1, <2>2, <2>3 DEF After, n
  <2>4. CASE i = m
    BY <1>2, <1>3, <1>4, <2>1, <2>2, <2>4
  <2> QED BY <1>3, <2>3, <2>4
<1>8. ASSUME After(p, a) PROVE After(c, a)
  <2>1. PICK i \in 1..n : p[i] = 1 /\ a[i] = 0 /\ \A j \in 1..(i - 1) : a[j] = p[j]
    BY <1>8 DEF After, n
  <2>2. i \in 1..m /\ \A j \in 1..(i - 1) : a[j] = c[j]
    BY <1>2, <1>3, <2>1
  <2> QED BY <1>2, <2>1, <2>2 DEF After
<1>9. ASSUME b = 1, a[m] = 0, Covers(p, a) PROVE After(c, a)
  <2>1. \A j \in 1..(m - 1) : a[j] = c[j]
    BY <1>2, <1>3, <1>4, <1>9
  <2> QED BY <1>2, <1>3, <1>9, <2>1 DEF After
<1>10. a[m] \in Bit
  BY <1>1
<1> QED BY <1>6, <1>7, <1>8, <1>9, <1>10 DEF c, m, n

\* Each move of the recursion, and what it leaves: all but what it has dealt
\* with when it turns round, and otherwise the same as before.
LEMMA LeftMoves ==
    ASSUME NEW p \in Prefix, NEW n \in Prefix, NEW a \in Address
    PROVE  /\ Left(p, "up", n, a) <=> Left(p, "down", n, a) /\ ~Covers(p, a)
           /\ Left(<< >>, "down", n, a) <=> Covers(n, a)
           /\ ~Left(<< >>, "up", n, a)
           /\ Covers(n, p) /\ Len(p) < W =>
                (Left(Child(p, 1), "down", n, a) <=> Left(p, "down", n, a))
           /\ Below(p, n) =>
                (Left(Child(p, n[Len(p) + 1]), "down", n, a) <=> Left(p, "down", n, a))
<1>1. Covers(p, a) => ~After(p, a)
  BY NotAfter
<1>2. ~After(<< >>, a) /\ Covers(<< >>, a)
  <2>1. a \in Prefix
    BY AddressIsPrefix
  <2>2. Covers(<< >>, a)
    BY <2>1, CoversOrder
  <2> QED BY <2>2, RootIsPrefix, NotAfter
<1>3. ASSUME Covers(n, p), Len(p) < W
      PROVE  Left(Child(p, 1), "down", n, a) <=> Left(p, "down", n, a)
  <2>1. /\ After(Child(p, 1), a) <=> After(p, a) \/ (a[Len(p) + 1] = 0 /\ Covers(p, a))
        /\ Covers(Child(p, 1), a) <=> Covers(p, a) /\ a[Len(p) + 1] = 1
        /\ a[Len(p) + 1] \in {0, 1}
    BY <1>3, ChildAfter DEF Bit
  <2> QED BY <2>1 DEF Left
<1>4. ASSUME Below(p, n)
      PROVE  Left(Child(p, n[Len(p) + 1]), "down", n, a) <=> Left(p, "down", n, a)
  <2> DEFINE c == Child(p, n[Len(p) + 1])
  <2>1. n[Len(p) + 1] \in Bit /\ Len(p) < W /\ Covers(c, n) /\ Covers(p, n)
    BY <1>4, ChildToward DEF Below
  <2>2. c \in Prefix /\ a \in Prefix
    BY <2>1, ChildIsPrefix, AddressIsPrefix
  <2> HIDE DEF c
  <2>3. Covers(n, a) => Covers(c, a) /\ Covers(p, a)
    BY <2>1, <2>2, CoversOrder
  <2>4. Left(c, "down", n, a) <=> Left(p, "down", n, a)
    BY <2>3 DEF Left
  <2> QED BY <2>4 DEF c
<1> QED BY <1>1, <1>2, <1>3, <1>4 DEF Left

\* The moves on the way up.
LEMMA LeftReturns ==
    ASSUME NEW p \in Prefix, p # << >>, NEW n \in Prefix, NEW a \in Address
    PROVE  /\ p[Len(p)] = 1 =>
                (Left(Child(Parent(p), 0), "down", n, a) <=> Left(p, "up", n, a))
           /\ (   /\ Covers(p, n) \/ Covers(n, p)
                  /\ ~(p[Len(p)] = 1 /\ Len(Parent(p)) >= Len(n)) ) =>
                (Left(Parent(p), "up", n, a) <=> Left(p, "up", n, a))
<1> DEFINE s == Parent(p)
           b == p[Len(p)]
<1>1. /\ s \in Prefix /\ Len(s) < W /\ b \in Bit /\ p = Child(s, b)
      /\ Len(s) = Len(p) - 1 /\ Len(p) \in Nat /\ Len(n) \in Nat
  BY ParentIsPrefix, ChildOfParent, PrefixLength
<1> HIDE DEF s, b
<1>2. /\ After(p, a) <=> After(s, a) \/ (b = 1 /\ a[Len(s) + 1] = 0 /\ Covers(s, a))
      /\ Covers(p, a) <=> Covers(s, a) /\ a[Len(s) + 1] = b
      /\ After(Child(s, 0), a) <=> After(s, a)
      /\ Covers(Child(s, 0), a) <=> Covers(s, a) /\ a[Len(s) + 1] = 0
  BY <1>1, ChildAfter DEF Bit
<1>3. b = 1 => (Left(Child(s, 0), "down", n, a) <=> Left(p, "up", n, a))
  BY <1>2 DEF Left
<1>4. ASSUME Covers(p, n) \/ Covers(n, p), ~(b = 1 /\ Len(s) >= Len(n))
      PROVE  Left(s, "up", n, a) <=> Left(p, "up", n, a)
  <2>1. CASE b # 1
    BY <1>2, <2>1 DEF Left
  <2>2. CASE b = 1
    <3>1. Len(p) <= Len(n)
      BY <1>1, <1>4, <2>2
    <3>2. Covers(p, n)
      <4>1. CASE Covers(n, p)
        <5>1. ~Below(n, p)
          BY <1>1, <3>1 DEF Below
        <5>2. n = p
          BY <4>1, <5>1, BelowIsCovers
        <5>3. Covers(p, p)
          BY CoversOrder
        <5> QED BY <5>2, <5>3
      <4> QED BY <1>4, <4>1
    <3>3. Covers(n, a) => Covers(p, a)
      BY <3>2, AddressIsPrefix, CoversOrder
    <3> QED BY <1>2, <2>2, <3>3 DEF Left
  <2> QED BY <2>1, <2>2
<1> QED BY <1>3, <1>4 DEF s, b

-----------------------------------------------------------------------------
(* The data of an address                                                  *)

\* The key that tree t gives address a.
KeyIn(t, a) ==
    LET n == CHOOSE n \in 0..W : t[SubSeq(a, 1, n)].type \in LeafTypes
    IN  t[SubSeq(a, 1, n)].key

\* The map gives every address the key of its leaf.
LEMMA KeysAreLeaves ==
    /\ op # "freed" => AddressKeys = [a \in Address |-> KeyIn(recs, a)]
    /\ op = "freed" => AddressKeys = [a \in Address |-> NoKey]
    /\ op' # "freed" => AddressKeys' = [a \in Address |-> KeyIn(recs', a)]
    /\ op' = "freed" => AddressKeys' = [a \in Address |-> NoKey]
<1>1. /\ op # "freed" => \A a \in Address : KeyAt(a) = KeyIn(recs, a)
      /\ op = "freed" => \A a \in Address : KeyAt(a) = NoKey
      /\ op' # "freed" => \A a \in Address : KeyAt(a)' = KeyIn(recs', a)
      /\ op' = "freed" => \A a \in Address : KeyAt(a)' = NoKey
  BY DEF KeyAt, KeyIn
<1> QED BY <1>1 DEF AddressKeys

\* Types of leaves.
LEMMA LeafRecord ==
    ASSUME NEW r \in Record
    PROVE  /\ IsLeaf(r) <=> r.type \in LeafTypes
           /\ r.type # "DATA" => r.key = NoKey
           /\ r.type = "DATA" => r.key \in Key
BY DEF IsLeaf, HasNode, LeafTypes, Record, PlainTypes, FixedTypes

\* An address has the key of the leaf that covers it.
LEMMA KeyOfLeaf ==
    ASSUME NEW t, IsTree(t), NEW a \in Address, NEW p \in Prefix, Covers(p, a), IsLeaf(t[p])
    PROVE  KeyIn(t, a) = t[p].key
<1> DEFINE IsDepth(n) == n \in 0..W /\ t[SubSeq(a, 1, n)].type \in LeafTypes
           n == CHOOSE n \in 0..W : t[SubSeq(a, 1, n)].type \in LeafTypes
<1>1. a \in Prefix /\ Len(a) = W /\ Len(p) \in 0..W /\ p = SubSeq(a, 1, Len(p))
  <2>1. a \in Prefix /\ Len(a) = W
    BY AddressIsPrefix
  <2> QED BY <2>1, TopOf
<1>2. t[p] \in Record
  BY DEF IsTree
<1>3. t[p].type \in LeafTypes
  BY <1>2, LeafRecord
<1>4. IsDepth(Len(p))
  BY <1>1, <1>3
<1>5. n \in 0..W /\ t[SubSeq(a, 1, n)].type \in LeafTypes
  BY <1>4
<1>6. KeyIn(t, a) = t[SubSeq(a, 1, n)].key
  BY DEF KeyIn
<1> HIDE DEF n
<1> DEFINE q == SubSeq(a, 1, n)
<1>7. q \in Prefix /\ Covers(q, a)
  BY <1>1, <1>5, TopFacts
<1>8. IsLeaf(t[q])
  BY <1>5, <1>7, LeafRecord DEF IsTree
<1> HIDE DEF q
<1>9. q = p
  BY <1>7, <1>8, OneLeaf
<1> QED BY <1>6, <1>9 DEF q

\* A graft gives the addresses it covers the new key, and the others keep
\* theirs.
LEMMA GraftKeys ==
    ASSUME NEW t, IsTree(t), NEW u, IsTree(u), NEW p \in Prefix, NEW r,
           t[p].type # "ABSENT", u[p] = r, IsLeaf(r),
           \A q \in Prefix : ~Covers(p, q) => u[q] = t[q],
           NEW a \in Address
    PROVE  KeyIn(u, a) = IF Covers(p, a) THEN r.key ELSE KeyIn(t, a)
<1>1. CASE Covers(p, a)
  BY <1>1, KeyOfLeaf
<1>2. CASE ~Covers(p, a)
  <2>1. PICK q \in Prefix : Covers(q, a) /\ IsLeaf(t[q])
    BY OneLeaf
  <2>2. a \in Prefix
    BY AddressIsPrefix
  <2>3. ~Covers(p, q)
    BY <1>2, <2>1, <2>2, CoversOrder
  <2>4. u[q] = t[q]
    BY <2>3
  <2>5. KeyIn(t, a) = t[q].key
    BY <2>1, KeyOfLeaf
  <2>6. KeyIn(u, a) = u[q].key
    BY <2>1, <2>4, KeyOfLeaf
  <2> QED BY <1>2, <2>4, <2>5, <2>6
<1> QED BY <1>1, <1>2

\* Trimming a node whose two records are one and the same leaf changes no key.
LEMMA TrimKeys ==
    ASSUME NEW t, IsTree(t), NEW u, IsTree(u), NEW p \in Prefix, Len(p) < W, NEW r,
           t[p].type # "ABSENT", u[p] = r, IsLeaf(r),
           \A q \in Prefix : ~Covers(p, q) => u[q] = t[q],
           t[Child(p, 0)] = r, t[Child(p, 1)] = r,
           NEW a \in Address
    PROVE  KeyIn(u, a) = KeyIn(t, a)
<1>1. KeyIn(u, a) = IF Covers(p, a) THEN r.key ELSE KeyIn(t, a)
  BY GraftKeys
<1>2. ASSUME Covers(p, a) PROVE KeyIn(t, a) = r.key
  <2> DEFINE b == a[Len(p) + 1]
             c == Child(p, b)
  <2>1. b \in Bit /\ (Covers(c, a) <=> Covers(p, a) /\ b = b)
    <3>1. b \in Bit
      BY ChildAfter DEF Bit
    <3> HIDE DEF b
    <3>2. Covers(Child(p, b), a) <=> Covers(p, a) /\ a[Len(p) + 1] = b
      BY <3>1, ChildAfter
    <3> QED BY <3>1, <3>2 DEF b
  <2>2. c \in Prefix
    BY <2>1, ChildIsPrefix
  <2>3. t[c] = r
    BY <2>1 DEF Bit
  <2> HIDE DEF c
  <2> QED BY <1>2, <2>1, <2>2, <2>3, KeyOfLeaf
<1> QED BY <1>1, <1>2

\* Splitting a leaf, or marking a node, changes none either.
LEMMA SplitKeys ==
    ASSUME NEW t, IsTree(t), NEW u, IsTree(u), NEW p \in Prefix, Len(p) < W,
           \A q \in Prefix : q # p /\ IsLeaf(t[q]) => u[q] = t[q],
           IsLeaf(t[p]) => u[Child(p, 0)] = t[p] /\ u[Child(p, 1)] = t[p],
           NEW a \in Address
    PROVE  KeyIn(u, a) = KeyIn(t, a)
<1>1. PICK q \in Prefix : Covers(q, a) /\ IsLeaf(t[q])
  BY OneLeaf
<1>2. KeyIn(t, a) = t[q].key
  BY <1>1, KeyOfLeaf
<1>3. CASE q # p
  <2>1. u[q] = t[q]
    BY <1>1, <1>3
  <2> QED BY <1>1, <1>2, <2>1, KeyOfLeaf
<1>4. CASE q = p
  <2> DEFINE b == a[Len(p) + 1]
             c == Child(p, b)
  <2>1. b \in Bit /\ (Covers(c, a) <=> Covers(p, a) /\ b = b)
    <3>1. b \in Bit
      BY ChildAfter DEF Bit
    <3> HIDE DEF b
    <3>2. Covers(Child(p, b), a) <=> Covers(p, a) /\ a[Len(p) + 1] = b
      BY <3>1, ChildAfter
    <3> QED BY <3>1, <3>2 DEF b
  <2>2. c \in Prefix
    BY <2>1, ChildIsPrefix
  <2>3. u[c] = t[p]
    BY <1>1, <1>4, <2>1 DEF Bit
  <2> HIDE DEF c
  <2>4. KeyIn(u, a) = u[c].key
    BY <1>1, <1>4, <2>1, <2>2, <2>3, KeyOfLeaf
  <2> QED BY <1>2, <1>4, <2>3, <2>4
<1> QED BY <1>3, <1>4

-----------------------------------------------------------------------------
(* The invariant                                                           *)

\* The recursion is above its network or within it, and begins at the top.
OnPath ==
    /\ op \in Running => Covers(at, net) \/ Covers(net, at)
    /\ op \notin Running => dir = "down"

\* A merge found in the cache is the merge that would be made.
CacheOK == \A m \in Strategies \X Key \X Key : cache[m] \in {NoKey, Merge[m]}

\* The records an insert never replaces, and the addresses they cover.
Bar == {"ALIAS", "FIXED_EMPTY"}
Barred(a) == \E p \in Prefix : Covers(p, a) /\ recs[p].type \in Bar
Bars(it, a) == it.rec.type \in Bar /\ Covers(it.net, a)

\* During new_tree they are those of the items inserted up to now, of which
\* the current one is in parts; then those of the options.
BarredOK ==
    /\ InUse => \A a \in Address : Barred(a) <=> a \in LockedBy[opts]
    /\ op = "new_tree" =>
          \A a \in Address :
             Barred(a) <=> \/ \E k \in 1..Past : Bars(NewTreeQueue(opts)[k], a)
                           \/ Bars(Head(queue), a) /\ ~Left(at, dir, net, a)

\* A recursion that has reached its network, or turned round, has passed no
\* alias on its way.
PassedNoAlias ==
    op \in {"insert", "remove"} /\ (dir = "up" \/ Len(at) > Len(net)) =>
        \A p \in Prefix : Covers(p, net) => recs[p].type # "ALIAS"

MapInv == OnPath /\ CacheOK /\ BarredOK /\ PassedNoAlias

\* The addresses that the options lock are those its queue bars.
LEMMA LockedIsBarred ==
    ASSUME NEW o \in Options, NEW a \in Address
    PROVE  a \in LockedBy[o] <=>
                \E i \in 1..Len(NewTreeQueue(o)) : Bars(NewTreeQueue(o)[i], a)
<1>1. a \in LockedBy[o] <=>
        \/ o.alias /\ \E j \in 1..Len(Aliases) : Covers(Aliases[j], a)
        \/ o.reserved /\ \E j \in 1..Len(Reserved) : Covers(Reserved[j], a)
  <2> DEFINE nets == (IF o.alias THEN Listed(Aliases) ELSE {})
                        \cup (IF o.reserved THEN Listed(Reserved) ELSE {})
  <2>1. LockedBy[o] = {b \in Address : \E n \in nets : Covers(n, b)}
    BY DEF LockedBy
  <2>2. \A n : n \in nets <=> \/ o.alias /\ \E j \in 1..Len(Aliases) : n = Aliases[j]
                              \/ o.reserved /\ \E j \in 1..Len(Reserved) : n = Reserved[j]
    BY DEF Listed
  <2> HIDE DEF nets
  <2> QED BY <2>1, <2>2
<1> DEFINE q == NewTreeQueue(o)
<1>2. /\ \A i \in 1..Len(q) : FromAlias(o, q[i]) \/ FromReserved(o, q[i])
      /\ \A it : FromAlias(o, it) \/ FromReserved(o, it) => \E i \in 1..Len(q) : q[i] = it
  BY QueueItems
<1> HIDE DEF q
<1>3. ASSUME NEW i \in 1..Len(q), Bars(q[i], a) PROVE a \in LockedBy[o]
  <2>1. CASE FromAlias(o, q[i])
    <3>1. q[i].rec.type = "ALIAS" /\ \E j \in 1..Len(Aliases) : q[i].net = Aliases[j]
      BY <1>3, <2>1, ItemKinds DEF Bars, Bar
    <3> QED BY <1>1, <1>3, <2>1, <3>1 DEF Bars, FromAlias
  <2>2. CASE FromReserved(o, q[i])
    <3>1. PICK j \in 1..Len(Reserved) : q[i] = ReservedItem(Reserved[j])
      BY <2>2 DEF FromReserved
    <3>2. q[i].net = Reserved[j]
      BY <3>1 DEF ReservedItem
    <3> QED BY <1>1, <1>3, <2>2, <3>2 DEF Bars, FromReserved
  <2> QED BY <1>2, <2>1, <2>2
<1>4. ASSUME a \in LockedBy[o] PROVE \E i \in 1..Len(q) : Bars(q[i], a)
  <2>1. CASE o.alias /\ \E j \in 1..Len(Aliases) : Covers(Aliases[j], a)
    <3>1. PICK j \in 1..Len(Aliases) : Covers(Aliases[j], a)
      BY <2>1
    <3> DEFINE it == AliasItem(Aliases[j])
    <3>2. FromAlias(o, it)
      BY <2>1 DEF FromAlias
    <3>3. Bars(it, a)
      BY <3>1 DEF Bars, Bar, AliasItem, Plain
    <3> HIDE DEF it
    <3> QED BY <1>2, <3>2, <3>3
  <2>2. CASE o.reserved /\ \E j \in 1..Len(Reserved) : Covers(Reserved[j], a)
    <3>1. PICK j \in 1..Len(Reserved) : Covers(Reserved[j], a)
      BY <2>2
    <3> DEFINE it == ReservedItem(Reserved[j])
    <3>2. FromReserved(o, it)
      BY <2>2 DEF FromReserved
    <3>3. Bars(it, a)
      BY <3>1 DEF Bars, Bar, ReservedItem, Plain
    <3> HIDE DEF it
    <3> QED BY <1>2, <3>2, <3>3
  <2> QED BY <1>1, <1>4, <2>1, <2>2
<1> QED BY <1>3, <1>4 DEF q

\* A tree just made satisfies the invariant.
LEMMA FreshMap == Fresh /\ cache = EmptyCache => MapInv
<1> SUFFICES ASSUME Fresh, cache = EmptyCache PROVE MapInv
  OBVIOUS
<1>1. opts \in Options /\ queue = NewTreeQueue(opts) /\ queue \in Seq(Item)
      /\ at = << >> /\ dir = "down" /\ recs = EmptyTree
      /\ op = IF queue = << >> THEN "idle" ELSE "new_tree"
  BY QueueItems DEF Fresh
<1>2. Len(queue) \in Nat /\ Past = 0
  <2>1. Len(queue) \in Nat
    BY <1>1, LenProperties
  <2> QED BY <1>1, <2>1 DEF Past
<1>3. op \in Running => net \in Prefix /\ Head(queue).net = net
  <2>1. op \in Running => queue # << >>
    BY <1>1 DEF Running
  <2> QED BY <1>1, <2>1, QueueFacts DEF net
<1>4. OnPath
  BY <1>1, <1>3, CoversOrder DEF OnPath
<1>5. CacheOK
  BY DEF CacheOK, EmptyCache
<1>6. \A a \in Address : ~Barred(a)
  <2>1. \A p \in Prefix : recs[p].type \in {"EMPTY", "ABSENT"}
    BY <1>1, EmptyFacts
  <2> QED BY <2>1 DEF Barred, Bar
<1>7. ASSUME InUse, NEW a \in Address PROVE a \notin LockedBy[opts]
  <2>1. queue = << >>
    BY <1>1, <1>7 DEF InUse
  <2>2. \A i \in 1..Len(queue) : FALSE
    BY <2>1, EmptySeq
  <2> QED BY <1>1, <2>2, LockedIsBarred
<1>8. ASSUME op = "new_tree", NEW a \in Address
      PROVE  ~Bars(Head(queue), a) \/ Left(at, dir, net, a)
  <2>1. net \in Prefix /\ Head(queue).net = net
    BY <1>3, <1>8 DEF Running
  <2>2. Left(<< >>, "down", net, a) <=> Covers(net, a)
    BY <2>1, RootIsPrefix, LeftMoves
  <2> QED BY <1>1, <2>1, <2>2 DEF Bars
<1>9. BarredOK
  BY <1>2, <1>6, <1>7, <1>8 DEF BarredOK
<1>10. PassedNoAlias
  BY <1>1 DEF PassedNoAlias
<1> QED BY <1>4, <1>5, <1>9, <1>10 DEF MapInv

-----------------------------------------------------------------------------
(* The steps of the recursion                                              *)

\* The records of a call are at its network and below, or on the way to it.
LEMMA InsideIs ==
    ASSUME Inv, OnPath, op \in Running
    PROVE  /\ Inside => Covers(net, at)
           /\ ~Inside => Below(at, net)
<1>1. at \in Prefix /\ net \in Prefix /\ Len(at) \in Nat /\ Len(net) \in Nat
  BY RunningFacts, PrefixLength
<1>2. Covers(at, net) \/ Covers(net, at)
  BY DEF OnPath
<1>3. ASSUME Inside PROVE Covers(net, at)
  <2>1. CASE Covers(at, net)
    <3>1. ~Below(at, net)
      BY <1>1, <1>3 DEF Below, Inside
    <3>2. at = net
      BY <1>1, <2>1, <3>1, BelowIsCovers
    <3> QED BY <1>1, <3>2, CoversOrder
  <2> QED BY <1>2, <2>1
<1>4. ASSUME ~Inside PROVE Below(at, net)
  <2>1. ~Covers(net, at)
    BY <1>4 DEF Covers, Inside
  <2> QED BY <1>1, <1>2, <1>4, <2>1 DEF Below, Inside
<1> QED BY <1>3, <1>4

Settle == SetRecord \/ MergeRecord \/ Ignore
Move == Descend \/ GoLeft \/ Trim

\* Where each step of the recursion leads, and what it leaves to be done.
LEMMA Moved ==
    ASSUME Inv, OnPath, Recurse, NEW a \in Address
    PROVE  /\ OnPath'
           /\ Settle => /\ dir = "down" /\ dir' = "up" /\ at' = at
                        /\ Left(at', dir', net', a) <=> Left(at, dir, net, a) /\ ~Covers(at, a)
           /\ Move => (Left(at', dir', net', a) <=> Left(at, dir, net, a))
<1>1. /\ op \in Running /\ op' = op /\ net' = net
      /\ Covers(at, net) \/ Covers(net, at)
  BY RecurseFrame DEF OnPath
<1>2. at \in Prefix /\ net \in Prefix /\ Len(at) \in Nat /\ Len(net) \in Nat
  BY <1>1, RunningFacts, PrefixLength
<1>3. ASSUME Covers(at', net) \/ Covers(net, at') PROVE OnPath'
  BY <1>1, <1>3 DEF OnPath
<1>4. CASE Settle
  <2>1. dir = "down" /\ dir' = "up" /\ at' = at
    BY <1>4 DEF Settle, SetRecord, MergeRecord, Ignore, Settles, Down
  <2>2. Left(at, "up", net, a) <=> Left(at, "down", net, a) /\ ~Covers(at, a)
    BY <1>2, LeftMoves
  <2>3. ~Move
    BY <2>1 DEF Move, Descend, GoLeft, Trim, Down, Up
  <2> QED BY <1>1, <1>3, <2>1, <2>2, <2>3
<1>5. CASE Move
  <2>1. CASE Descend
    <3>1. dir = "down" /\ dir' = "down" /\ Len(at) < W
          /\ at' = Child(at, IF Inside THEN 1 ELSE net[Len(at) + 1])
      BY <2>1, DescendRoom DEF Descend, Down
    <3>2. ~Settle
      BY <3>1 DEF Settle, SetRecord, MergeRecord, Ignore
    <3>3. CASE Inside
      <4>1. Covers(net, at) /\ at' = Child(at, 1)
        BY <1>1, <3>1, <3>3, InsideIs
      <4>2. Covers(at, at') /\ at' \in Prefix
        BY <1>2, <3>1, <4>1, ChildIsPrefix, AboveChild DEF Below, Bit
      <4>3. Covers(net, at')
        BY <1>2, <4>1, <4>2, CoversOrder
      <4>4. Left(Child(at, 1), "down", net, a) <=> Left(at, "down", net, a)
        BY <1>2, <3>1, <4>1, LeftMoves
      <4> QED BY <1>1, <1>3, <3>1, <3>2, <4>1, <4>3, <4>4
    <3>4. CASE ~Inside
      <4>1. Below(at, net) /\ at' = Child(at, net[Len(at) + 1])
        BY <1>1, <3>1, <3>4, InsideIs
      <4>2. Covers(Child(at, net[Len(at) + 1]), net)
        BY <1>2, <4>1, ChildToward
      <4>3. Left(Child(at, net[Len(at) + 1]), "down", net, a) <=> Left(at, "down", net, a)
        BY <1>2, <4>1, LeftMoves
      <4>4. Covers(at', net)
        BY <4>1, <4>2
      <4> QED BY <1>1, <1>3, <3>1, <3>2, <4>1, <4>3, <4>4
    <3> QED BY <3>3, <3>4
  <2>2. CASE GoLeft \/ Trim
    <3>1. /\ at # << >> /\ dir = "up"
          /\ GoLeft => /\ at[Len(at)] = 1 /\ Len(Parent(at)) >= Len(net)
                       /\ at' = Child(Parent(at), 0) /\ dir' = "down"
          /\ Trim => /\ ~(at[Len(at)] = 1 /\ Len(Parent(at)) >= Len(net))
                     /\ at' = Parent(at) /\ dir' = "up"
      BY <2>2 DEF GoLeft, Trim, Up, LeftIsNext
    <3>2. /\ Parent(at) \in Prefix /\ Len(Parent(at)) = Len(at) - 1 /\ Len(Parent(at)) < W
          /\ Covers(Parent(at), at) /\ Len(Parent(at)) \in Nat
      BY <1>2, <3>1, ParentIsPrefix, ChildOfParent, AboveChild, PrefixLength DEF Below
    <3>3. Covers(Parent(at), net) \/ Covers(net, Parent(at))
      BY <1>1, <1>2, <3>2, CoversOrder
    <3>4. CASE GoLeft
      <4>1. Covers(net, Parent(at))
        <5>1. CASE Covers(Parent(at), net)
          <6>1. ~Below(Parent(at), net)
            BY <1>2, <3>1, <3>2, <3>4 DEF Below
          <6>2. Parent(at) = net
            BY <1>2, <3>2, <5>1, <6>1, BelowIsCovers
          <6> QED BY <1>2, <6>2, CoversOrder
        <5> QED BY <3>3, <5>1
      <4>2. Child(Parent(at), 0) \in Prefix /\ Covers(Parent(at), Child(Parent(at), 0))
        BY <3>2, ChildIsPrefix, AboveChild DEF Below, Bit
      <4>3. Covers(net, Child(Parent(at), 0))
        BY <1>2, <3>2, <4>1, <4>2, CoversOrder
      <4>4. Left(Child(Parent(at), 0), "down", net, a) <=> Left(at, "up", net, a)
        BY <1>2, <3>1, <3>4, LeftReturns
      <4>5. Covers(net, at')
        BY <3>1, <3>4, <4>3
      <4> QED BY <1>1, <1>3, <3>1, <3>4, <4>4, <4>5 DEF Settle, SetRecord, MergeRecord, Ignore, Settles, Down
    <3>5. CASE Trim
      <4>1. Left(Parent(at), "up", net, a) <=> Left(at, "up", net, a)
        BY <1>1, <1>2, <3>1, <3>5, LeftReturns
      <4>2. Covers(at', net) \/ Covers(net, at')
        BY <3>1, <3>3, <3>5
      <4> QED BY <1>1, <1>3, <3>1, <3>5, <4>1, <4>2 DEF Settle, SetRecord, MergeRecord, Ignore, Settles, Down
    <3> QED BY <2>2, <3>4, <3>5
  <2> QED BY <1>5, <2>1, <2>2 DEF Move
<1> QED BY <1>4, <1>5 DEF Recurse, Settle, Move

\* What a step of the recursion does to the aliases and reserved networks.
LEMMA BarsKept ==
    ASSUME Inv, Recurse, KeepsFixed
    PROVE  /\ ~(SetRecord /\ new.type \in Bar) =>
                 \A a \in Address : Barred(a)' <=> Barred(a)
           /\ SetRecord /\ new.type \in Bar =>
                 \A a \in Address : Barred(a)' <=> Barred(a) \/ Covers(at, a)
           /\ ~(SetRecord /\ new.type = "ALIAS") =>
                 \A p \in Prefix : recs'[p].type = "ALIAS" => recs[p].type = "ALIAS"
<1>1. op \in Running /\ op' # "freed"
  BY RecurseFrame DEF Running
<1>2. /\ at \in Prefix /\ recs \in [Prefix -> Record] /\ new \in Record
  BY <1>1, RunningFacts
<1>3. \A p \in Prefix : recs[p].type \in Bar => recs'[p].type \in Bar
  BY <1>1 DEF KeepsFixed, Bar, FixedTypes
<1>4. ~(SetRecord /\ new.type = "ALIAS") =>
         \A p \in Prefix : recs'[p].type = "ALIAS" => recs[p].type = "ALIAS"
  BY NoNewFixed
<1>5. ~(SetRecord /\ new.type = "FIXED_EMPTY") =>
         \A p \in Prefix : recs'[p].type = "FIXED_EMPTY" => recs[p].type = "FIXED_EMPTY"
  BY NoNewFixed
<1>6. ~(SetRecord /\ new.type \in Bar) =>
         \A p \in Prefix : recs'[p].type \in Bar => recs[p].type \in Bar
  BY <1>4, <1>5 DEF Bar
<1>7. ASSUME SetRecord, new.type \in Bar, NEW a \in Address
      PROVE  Barred(a)' <=> Barred(a) \/ Covers(at, a)
  <2>1. recs' = Graft(at, new)
    BY <1>7 DEF SetRecord
  <2>2. /\ recs'[at] = new
        /\ \A q \in Prefix : ~Covers(at, q) => recs'[q] = recs[q]
        /\ \A q \in Prefix : Below(at, q) => recs'[q].type \in {"EMPTY", "ABSENT"}
    <3>1. Plain("EMPTY").type = "EMPTY" /\ Plain("ABSENT").type = "ABSENT"
      BY DEF Plain
    <3>2. \A q \in Prefix : Below(at, q) => recs'[q] = Plain("ABSENT")
      BY <1>2, <1>7, <2>1, GraftFacts DEF Bar
    <3> QED BY <1>2, <2>1, <3>1, <3>2, GraftFacts
  <2>3. \A q \in Prefix : q = at \/ ~Covers(at, q) \/ Below(at, q)
    BY <1>2, BelowIsCovers
  <2>4. \A q \in Prefix : recs'[q].type \in Bar => q = at \/ recs[q].type \in Bar
    BY <2>2, <2>3 DEF Bar
  <2>5. recs'[at].type \in Bar
    BY <1>7, <2>2
  <2> QED BY <1>2, <1>3, <2>4, <2>5 DEF Barred
<1> QED BY <1>3, <1>4, <1>6, <1>7 DEF Barred

\* Above a network that a record covers which is no alias, and a leaf unless it
\* is the network's own, there is no alias.
LEMMA NoAliasAbove ==
    ASSUME IsTree(recs), NEW p \in Prefix, NEW n \in Prefix, Covers(p, n),
           recs[p].type \notin {"ABSENT", "ALIAS"}, p = n \/ ~HasNode(recs[p])
    PROVE  \A q \in Prefix : Covers(q, n) => recs[q].type # "ALIAS"
<1> SUFFICES ASSUME NEW q \in Prefix, Covers(q, n), recs[q].type = "ALIAS" PROVE FALSE
  OBVIOUS
<1>1. ~HasNode(recs[q]) /\ recs[q].type # "ABSENT"
  BY DEF HasNode
<1>2. Covers(q, p) \/ Covers(p, q)
  BY CoversOrder
<1>3. q # p
  OBVIOUS
<1>4. CASE Covers(q, p)
  BY <1>1, <1>3, <1>4, NodesAbove, BelowIsCovers
<1>5. CASE Covers(p, q)
  <2>1. HasNode(recs[p])
    BY <1>1, <1>3, <1>5, NodesAbove, BelowIsCovers
  <2>2. p = n
    BY <2>1
  <2> QED BY <1>3, <1>5, <2>2, CoversOrder
<1> QED BY <1>2, <1>4, <1>5

\* A record on the way to the network, or at it, that the recursion turns round
\* at or goes below is no alias.
LEMMA AliasPassed ==
    ASSUME TableInv, OnPath, Recurse, op \in {"insert", "remove"},
           dir = "down", Len(at) <= Len(net), dir' = "up" \/ Len(at') > Len(net)
    PROVE  \A p \in Prefix : Covers(p, net) => recs[p].type # "ALIAS"
<1>1. op \in Running /\ op # "freed" /\ Inv
  BY DEF Running, TableInv
<1>2. /\ at \in Prefix /\ net \in Prefix /\ recs[at] \in Record
      /\ Len(at) \in Nat /\ Len(net) \in Nat
  BY <1>1, RunningFacts, PrefixLength
<1>3. Covers(at, net)
  <2>1. Inside => at = net
    <3>1. Inside => Covers(net, at) /\ ~Below(net, at)
      BY <1>1, <1>2, InsideIs DEF Below
    <3> QED BY <1>2, <3>1, BelowIsCovers
  <2> QED BY <1>1, <1>2, <2>1, InsideIs, CoversOrder DEF Below
<1>4. Inside => at = net
  BY <1>2, <1>3, BelowIsCovers DEF Inside, Below
<1>5. recs[at].type \notin {"ABSENT", "ALIAS"} /\ (at = net \/ ~HasNode(recs[at]))
  <2>1. CASE SetRecord \/ MergeRecord
    BY <1>4, <2>1 DEF SetRecord, MergeRecord, Settles
  <2>2. CASE Ignore
    BY <1>2, <1>4, <2>2 DEF Ignore, Settles, HasNode
  <2>3. CASE Descend
    <3>1. /\ Len(at') > Len(net) /\ Len(at) < W
          /\ at' = Child(at, IF Inside THEN 1 ELSE net[Len(at) + 1])
          /\ recs[at].type \in {"EMPTY", "DATA", "NODE", "FIXED_NODE"}
      BY <1>1, <2>3, DescendRoom DEF Descend, Down
    <3>2. Inside
      <4> SUFFICES ASSUME ~Inside PROVE FALSE
        OBVIOUS
      <4>1. Below(at, net) /\ at' = Child(at, net[Len(at) + 1])
        BY <1>1, <3>1, InsideIs
      <4>2. net[Len(at) + 1] \in Bit
        BY <1>2, <4>1, ChildToward
      <4>3. Len(at') = Len(at) + 1
        BY <1>2, <3>1, <4>1, <4>2, ChildIsPrefix
      <4> QED BY <1>2, <3>1, <4>1, <4>3 DEF Below
    <3> QED BY <1>4, <3>1, <3>2
  <2> QED BY <2>1, <2>2, <2>3 DEF Recurse, GoLeft, Trim, Up
<1>6. IsTree(recs)
  BY <1>1, TreeOfRecs
<1> QED BY <1>2, <1>3, <1>5, <1>6, NoAliasAbove

\* Only new_tree inserts fixed records.
LEMMA NewIsPlain ==
    ASSUME TableInv, LookupInv, op \in {"insert", "remove"}
    PROVE  /\ op = "insert" => new = Data(held) /\ held \in Key
           /\ op = "remove" => new = Plain("EMPTY") /\ strategy = "none"
           /\ new.type \notin FixedTypes
<1>1. op \in Running /\ Inv
  BY DEF Running, TableInv
<1>2. op = "insert" => new = Data(held) /\ held \in Key
  BY <1>1, HeldFacts DEF Data
<1>3. op = "remove" => new = Plain("EMPTY") /\ strategy = "none"
  <2>1. 1 \in 1..Len(queue) /\ new = queue[1].rec
    BY <1>1, RunningFacts, QueueFacts
  <2> QED BY <2>1 DEF LookupInv, RemoveOK
<1> QED BY <1>2, <1>3 DEF Data, Plain, FixedTypes

\* A merged value is what merging gives, from the cache or not.
LEMMA MergedIs ==
    ASSUME Inv, CacheOK, op \in Running, Merges
    PROVE  Merged = Merge[MergeArgs] /\ MergeArgs \in Strategies \X Key \X Key
<1>1. recs[at] \in Record /\ new \in Record /\ strategy \in Strategies
  BY RunningFacts DEF Inv, TypeOK
<1>2. recs[at].key \in Key /\ new.key \in Key
  BY <1>1, RecordFacts DEF Merges
<1>3. MergeArgs \in Strategies \X Key \X Key
  BY <1>1, <1>2 DEF MergeArgs
<1>4. cache[MergeArgs] \in {NoKey, Merge[MergeArgs]}
  BY <1>3 DEF CacheOK
<1> QED BY <1>3, <1>4 DEF Merged, CacheHit

\* A step of the recursion keeps the invariant.
LEMMA RecurseMap ==
    ASSUME TableInv, LookupInv, MapInv, KeepsFixed, Recurse
    PROVE  MapInv'
<1>1. /\ op \in Running /\ Inv /\ OnPath
      /\ UNCHANGED <<opts, op, strategy, held, queue>>
      /\ net' = net /\ new' = new /\ Past' = Past /\ Head(queue)' = Head(queue)
  BY RecurseFrame DEF TableInv, MapInv
<1>2. /\ at \in Prefix /\ net \in Prefix /\ recs[at] \in Record
      /\ Len(at) \in Nat /\ Len(net) \in Nat
  BY <1>1, RunningFacts, PrefixLength
<1>3. OnPath'
  <2>1. PICK a \in Address : Covers(<< >>, a)
    BY RootIsPrefix, AddressBelow
  <2> QED BY <1>1, <2>1, Moved
<1>4. CacheOK'
  <2>1. CASE MergeRecord
    <3>1. Merged = Merge[MergeArgs] /\ cache' = [cache EXCEPT ![MergeArgs] = Merged]
      BY <1>1, <2>1, MergedIs DEF MergeRecord, MapInv
    <3>2. cache \in [Strategies \X Key \X Key -> Key \cup {NoKey}]
      BY <1>1 DEF Inv, TypeOK
    <3> QED BY <3>1, <3>2 DEF MapInv, CacheOK
  <2>2. CASE ~MergeRecord
    <3>1. cache' = cache
      BY <2>2 DEF Recurse, SetRecord, Ignore, Descend, GoLeft, Trim
    <3> QED BY <3>1 DEF MapInv, CacheOK
  <2> QED BY <2>1, <2>2
<1>5. ASSUME op \in {"insert", "remove"}
      PROVE  /\ \A a \in Address : Barred(a)' <=> Barred(a)
             /\ \A p \in Prefix : recs'[p].type = "ALIAS" => recs[p].type = "ALIAS"
  <2>1. new.type \notin Bar
    BY <1>5, NewIsPlain DEF Bar, FixedTypes
  <2> QED BY <1>1, <2>1, BarsKept DEF Bar
<1>6. PassedNoAlias'
  <2> SUFFICES ASSUME op \in {"insert", "remove"}, dir' = "up" \/ Len(at') > Len(net)
               PROVE  \A p \in Prefix : Covers(p, net) => recs[p].type # "ALIAS"
    BY <1>1, <1>5 DEF PassedNoAlias
  <2>1. CASE dir = "up" \/ Len(at) > Len(net)
    BY <2>1 DEF MapInv, PassedNoAlias
  <2>2. CASE ~(dir = "up" \/ Len(at) > Len(net))
    <3>1. dir = "down" /\ Len(at) <= Len(net)
      BY <1>1, <1>2, <2>2 DEF Inv, TypeOK
    <3> QED BY <1>1, <3>1, AliasPassed
  <2> QED BY <2>1, <2>2
<1>7. ASSUME op = "new_tree", NEW a \in Address
      PROVE  Barred(a)' <=>
                \/ \E k \in 1..Past : Bars(NewTreeQueue(opts)[k], a)
                \/ Bars(Head(queue), a) /\ ~Left(at', dir', net', a)
  <2>1. Barred(a) <=> \/ \E k \in 1..Past : Bars(NewTreeQueue(opts)[k], a)
                      \/ Bars(Head(queue), a) /\ ~Left(at, dir, net, a)
    BY <1>7 DEF MapInv, BarredOK
  <2>2. net = Head(queue).net /\ new = Head(queue).rec /\ strategy = "none"
    BY <1>1, <1>7, HeadItem
  <2>3. /\ Settle => /\ dir = "down" /\ dir' = "up"
                     /\ Left(at', dir', net', a) <=> Left(at, dir, net, a) /\ ~Covers(at, a)
        /\ Move => (Left(at', dir', net', a) <=> Left(at, dir, net, a))
    BY <1>1, Moved
  <2>4. CASE SetRecord /\ new.type \in Bar
    <3>1. Barred(a)' <=> Barred(a) \/ Covers(at, a)
      BY <1>1, <2>4, BarsKept
    <3>2. Covers(net, at)
      BY <1>1, <2>4, InsideIs DEF SetRecord, Settles
    <3>3. a \in Prefix
      BY AddressIsPrefix
    <3>4. Covers(at, a) => Covers(net, a)
      BY <1>2, <3>2, <3>3, CoversOrder
    <3>5. Bars(Head(queue), a) <=> Covers(net, a)
      BY <2>2, <2>4 DEF Bars
    <3>6. Left(at', dir', net', a) <=> Left(at, dir, net, a) /\ ~Covers(at, a)
      BY <2>3, <2>4 DEF Settle
    <3> QED BY <2>1, <3>1, <3>4, <3>5, <3>6
  <2>5. CASE ~(SetRecord /\ new.type \in Bar)
    <3>1. Barred(a)' <=> Barred(a)
      BY <1>1, <2>5, BarsKept
    <3>2. CASE Move
      BY <2>1, <2>3, <3>1, <3>2
    <3>3. CASE SetRecord /\ new.type \notin Bar
      BY <2>1, <2>2, <3>1, <3>3 DEF Bars
    <3>4. CASE MergeRecord
      BY <2>2, <3>4 DEF MergeRecord, Merges
    <3>5. CASE Ignore
      <4>1. recs[at].type \in Bar
        BY <2>2, <3>5 DEF Ignore, SkipsEmpty, Bar
      <4>2. Covers(at, a) => Barred(a)
        BY <1>2, <4>1 DEF Barred
      <4>3. Left(at', dir', net', a) <=> Left(at, dir, net, a) /\ ~Covers(at, a)
        BY <2>3, <3>5 DEF Settle
      <4>4. ~Left(at, dir, net, a) \/ ~Covers(at, a) \/ Barred(a)
        BY <4>2
      <4> QED BY <2>1, <3>1, <4>2, <4>3
    <3> QED BY <2>5, <3>2, <3>3, <3>4, <3>5 DEF Recurse, Move
  <2> QED BY <2>4, <2>5
<1>8. BarredOK'
  <2>1. InUse' => \A a \in Address : Barred(a)' <=> a \in LockedBy[opts']
    <3>1. InUse' => InUse /\ op \in {"insert", "remove"}
      BY <1>1 DEF InUse, Running
    <3> QED BY <1>1, <1>5, <3>1 DEF MapInv, BarredOK
  <2>2. op' = "new_tree" =>
           \A a \in Address :
              Barred(a)' <=> \/ \E k \in 1..Past' : Bars(NewTreeQueue(opts')[k], a)
                             \/ Bars(Head(queue)', a) /\ ~Left(at', dir', net', a)
    BY <1>1, <1>7
  <2> QED BY <2>1, <2>2 DEF BarredOK
<1> QED BY <1>3, <1>4, <1>6, <1>8 DEF MapInv

-----------------------------------------------------------------------------
(* The other steps                                                         *)

\* Going on to the next record.
LEMMA NextRecordMap ==
    ASSUME TableInv, TableInv', LookupInv, MapInv, NextRecord PROVE MapInv'
<1>1. /\ op \in Running /\ dir = "up" /\ at = << >> /\ Len(queue) > 1
      /\ queue' = Tail(queue) /\ dir' = "down" /\ at' = << >>
      /\ UNCHANGED <<recs, cache, opts, op>> /\ Inv /\ Inv'
  BY DEF NextRecord, TableInv
<1>2. net \in Prefix /\ net' \in Prefix
  <2>1. Inv => net \in Prefix
    BY <1>1, RunningFacts
  <2>2. Inv' /\ op' \in Running => net' \in Prefix
    <3>1. Inv' /\ op' \in Running => queue' \in Seq(Item) /\ queue' # << >>
      BY DEF Inv, TypeOK, QueueOK
    <3>2. queue' \in Seq(Item) /\ queue' # << >> => Head(queue') \in Item
      BY HeadTailProperties
    <3> QED BY <3>1, <3>2 DEF net, Item
  <2> QED BY <1>1, <2>1, <2>2
<1>3. OnPath'
  BY <1>1, <1>2, CoversOrder DEF OnPath
<1>4. CacheOK'
  BY <1>1 DEF MapInv, CacheOK
<1>5. PassedNoAlias'
  BY <1>1, <1>2, RootIsPrefix, PrefixLength DEF PassedNoAlias
<1>6. ASSUME op = "new_tree", NEW a \in Address
      PROVE  Barred(a)' <=>
                \/ \E k \in 1..Past' : Bars(NewTreeQueue(opts)[k], a)
                \/ Bars(Head(queue'), a) /\ ~Left(at', dir', net', a)
  <2>1. Barred(a) <=> \/ \E k \in 1..Past : Bars(NewTreeQueue(opts)[k], a)
                      \/ Bars(Head(queue), a) /\ ~Left(at, dir, net, a)
    BY <1>6 DEF MapInv, BarredOK
  <2>2. /\ Past \in Nat /\ Head(queue) = NewTreeQueue(opts)[Past + 1]
        /\ Len(NewTreeQueue(opts)) = Past + Len(queue) /\ Len(queue) \in Nat
    BY <1>1, <1>6, HeadItem DEF LookupInv, QueueIsRest
  <2>3. Past' = Past + 1
    <3>1. Len(queue') = Len(queue) - 1
      BY <1>1, RunningFacts, QueueFacts
    <3>2. Past' = Len(NewTreeQueue(opts)) - Len(queue')
      BY <1>1 DEF Past
    <3> QED BY <2>2, <3>1, <3>2
  <2>4. ~Left(at, dir, net, a)
    BY <1>1, <1>2, RootIsPrefix, LeftMoves
  <2>5. Left(at', dir', net', a) <=> Covers(net', a)
    BY <1>1, <1>2, RootIsPrefix, LeftMoves
  <2>6. Bars(Head(queue'), a) => Covers(net', a)
    BY DEF Bars, net
  <2>7. (\E k \in 1..Past' : Bars(NewTreeQueue(opts)[k], a)) <=>
             \/ \E k \in 1..Past : Bars(NewTreeQueue(opts)[k], a)
             \/ Bars(Head(queue), a)
    <3> DEFINE n == Past
               B(k) == Bars(NewTreeQueue(opts)[k], a)
    <3>1. n \in Nat /\ Past' = n + 1 /\ (B(n + 1) <=> Bars(Head(queue), a))
      BY <2>2, <2>3
    <3> HIDE DEF n, B
    <3>2. \A k \in 1..(n + 1) : k \in 1..n \/ k = n + 1
      BY <3>1
    <3>3. n + 1 \in 1..(n + 1) /\ \A k \in 1..n : k \in 1..(n + 1)
      BY <3>1
    <3>4. (\E k \in 1..(n + 1) : B(k)) <=> (\E k \in 1..n : B(k)) \/ B(n + 1)
      BY <3>2, <3>3
    <3>5. (\E k \in 1..Past' : B(k)) <=> (\E k \in 1..n : B(k)) \/ Bars(Head(queue), a)
      BY <3>1, <3>4
    <3> QED BY <3>5 DEF n, B
  <2>8. Barred(a)' <=> Barred(a)
    BY <1>1 DEF Barred
  <2> QED BY <2>1, <2>4, <2>5, <2>6, <2>7, <2>8
<1>7. BarredOK'
  <2>1. InUse' => InUse
    BY <1>1 DEF InUse
  <2>2. \A a \in Address : Barred(a)' <=> Barred(a)
    BY <1>1 DEF Barred
  <2>3. op' = "new_tree" =>
           \A a \in Address :
              Barred(a)' <=> \/ \E k \in 1..Past' : Bars(NewTreeQueue(opts')[k], a)
                             \/ Bars(Head(queue)', a) /\ ~Left(at', dir', net', a)
    BY <1>1, <1>6
  <2> QED BY <1>1, <2>1, <2>2, <2>3 DEF MapInv, BarredOK
<1> QED BY <1>3, <1>4, <1>5, <1>7 DEF MapInv

\* The steps that begin or end a call and keep the records.
LEMMA CallMap ==
    ASSUME TableInv', MapInv, op' # "new_tree", at' = << >>, dir' = "down",
           UNCHANGED opts,
           CacheOK',
           \/ op' = "freed"
           \/ recs' = recs /\ InUse
           \/ recs' = recs /\ \A a \in Address : Barred(a) <=> a \in LockedBy[opts]
    PROVE  MapInv'
<1>1. Inv'
  BY DEF TableInv
<1>2. op' \in Running => net' \in Prefix
  <2>1. Inv' /\ op' \in Running => queue' \in Seq(Item) /\ queue' # << >>
    BY DEF Inv, TypeOK, QueueOK
  <2>2. queue' \in Seq(Item) /\ queue' # << >> => Head(queue') \in Item
    BY HeadTailProperties
  <2> QED BY <1>1, <2>1, <2>2 DEF net, Item
<1>3. OnPath'
  BY <1>2, CoversOrder DEF OnPath
<1>4. PassedNoAlias'
  BY <1>2, RootIsPrefix, PrefixLength DEF PassedNoAlias, Running
<1>5. BarredOK'
  <2>1. op' # "freed" => \A a \in Address : Barred(a) <=> a \in LockedBy[opts]
    BY DEF MapInv, BarredOK
  <2>2. recs' = recs => \A a \in Address : Barred(a)' <=> Barred(a)
    BY DEF Barred
  <2> QED BY <2>1, <2>2 DEF BarredOK, InUse
<1> QED BY <1>3, <1>4, <1>5 DEF MapInv

\* The end of new_tree: what its items bar is what its options lock.
LEMMA NewTreeDone ==
    ASSUME TableInv, LookupInv, MapInv, Finish, op = "new_tree", NEW a \in Address
    PROVE  Barred(a) <=> a \in LockedBy[opts]
<1>1. dir = "up" /\ at = << >> /\ Len(queue) = 1 /\ Inv /\ op \in Running
  BY DEF Finish, TableInv
<1>2. Barred(a) <=> \/ \E k \in 1..Past : Bars(NewTreeQueue(opts)[k], a)
                    \/ Bars(Head(queue), a) /\ ~Left(at, dir, net, a)
  BY DEF MapInv, BarredOK
<1>3. net \in Prefix
  BY <1>1, RunningFacts
<1>4. ~Left(at, dir, net, a)
  BY <1>1, <1>3, RootIsPrefix, LeftMoves
<1> DEFINE n == Past
           B(k) == Bars(NewTreeQueue(opts)[k], a)
<1>5. /\ n \in Nat /\ Len(NewTreeQueue(opts)) = n + 1
      /\ B(n + 1) <=> Bars(Head(queue), a)
  BY <1>1, HeadItem DEF LookupInv, QueueIsRest
<1>6. a \in LockedBy[opts] <=> \E k \in 1..Len(NewTreeQueue(opts)) : B(k)
  BY LockedIsBarred DEF LookupInv
<1>7. Barred(a) <=> (\E k \in 1..n : B(k)) \/ B(n + 1)
  BY <1>2, <1>4, <1>5
<1> HIDE DEF n, B
<1>8. \A k : k \in 1..(n + 1) <=> k \in 1..n \/ k = n + 1
  BY <1>5
<1>9. (\E k \in 1..(n + 1) : B(k)) <=> (\E k \in 1..n : B(k)) \/ B(n + 1)
  BY <1>8
<1> QED BY <1>5, <1>6, <1>7, <1>9

\* Every step keeps the invariant.
LEMMA NextMap ==
    ASSUME TableInv, TableInv', LookupInv, MapInv, [Next]_vars PROVE MapInv'
<1>1. KeepsFixed \/ UNCHANGED vars
  BY NextInv DEF TableInv
<1>2. CASE UNCHANGED vars
  BY <1>2 DEF vars, MapInv, OnPath, CacheOK, BarredOK, PassedNoAlias, Barred, InUse, Past, net
<1>3. CASE Recurse
  <2>1. KeepsFixed
    BY <1>1 DEF vars, KeepsFixed
  <2> QED BY <1>3, <2>1, RecurseMap
<1>4. CASE NextRecord
  BY <1>4, NextRecordMap
<1>5. CASE Finish
  <2>1. /\ op \in Running /\ op' = "idle" /\ at' = << >> /\ dir' = "down"
        /\ UNCHANGED <<opts, cache, recs>>
    BY <1>5 DEF Finish, EndCall
  <2>2. CacheOK'
    BY <2>1 DEF MapInv, CacheOK
  <2>3. InUse \/ \A a \in Address : Barred(a) <=> a \in LockedBy[opts]
    BY <1>5, <2>1, NewTreeDone DEF InUse, Running
  <2> QED BY <2>1, <2>2, <2>3, CallMap
<1>6. CASE Refuse
  <2>1. /\ op \in Running /\ at' = << >> /\ dir' = "down"
        /\ op' = (IF op = "new_tree" THEN "freed" ELSE "idle")
        /\ recs' = (IF op = "new_tree" THEN NoTree ELSE recs)
        /\ UNCHANGED <<opts, cache>>
    BY <1>6 DEF Refuse, Down, EndCall
  <2>2. CacheOK'
    BY <2>1 DEF MapInv, CacheOK
  <2>3. op' = "freed" \/ (recs' = recs /\ InUse)
    BY <2>1 DEF InUse, Running
  <2> QED BY <2>1, <2>2, <2>3, CallMap
<1>7. CASE MergeCroaks
  <2>1. /\ op \in Running /\ op' = "idle" /\ new.type = "DATA"
        /\ UNCHANGED <<recs, opts>> /\ at' = << >> /\ dir' = "down"
        /\ cache' = [cache EXCEPT ![MergeArgs] = NoKey]
    BY <1>7 DEF MergeCroaks, Return, Settles, Down, Merges
  <2>2. op = "insert" /\ cache \in [Strategies \X Key \X Key -> Key \cup {NoKey}]
    BY <2>1, HeldFacts DEF TableInv, Inv, TypeOK
  <2>3. CacheOK'
    BY <2>1, <2>2 DEF MapInv, CacheOK
  <2> QED BY <2>1, <2>2, <2>3, CallMap DEF InUse
<1>8. CASE (\E c \in Inserts : InsertNetworks(c)) \/ (\E n \in Prefix : RemoveNetwork(n))
  <2>1. /\ op = "idle" /\ op' \in {"insert", "remove"}
        /\ UNCHANGED <<recs, cache, opts, at, dir>>
    BY <1>8 DEF InsertNetworks, RemoveNetwork
  <2>2. at' = << >> /\ dir' = "down"
    BY <2>1 DEF TableInv, Inv, CursorOK, MapInv, OnPath, Running
  <2>3. CacheOK'
    BY <2>1 DEF MapInv, CacheOK
  <2> QED BY <2>1, <2>2, <2>3, CallMap DEF InUse
<1>9. CASE FreeTree
  <2>1. op = "idle" /\ op' = "freed" /\ UNCHANGED <<opts, at, dir>> /\ cache' = EmptyCache
    BY <1>9 DEF FreeTree
  <2>2. at' = << >> /\ dir' = "down"
    BY <2>1 DEF TableInv, Inv, CursorOK, MapInv, OnPath, Running
  <2>3. CacheOK'
    BY <2>1 DEF CacheOK, EmptyCache
  <2> QED BY <2>1, <2>2, <2>3, CallMap
<1>10. CASE NewTree
  <2>1. Fresh' /\ (cache = EmptyCache)'
    BY <1>10 DEF NewTree, Fresh
  <2> QED BY <2>1, FreshMap, PTL
<1> QED BY <1>2, <1>3, <1>4, <1>5, <1>6, <1>7, <1>8, <1>9, <1>10
    DEF Next, Step, Call, Recurse

\* The invariant holds in every reachable state.
LEMMA MapInvAlways == Spec => []MapInv
<1>1. Init => MapInv
  BY FreshMap DEF Init, Fresh
<1>2. TableInv /\ TableInv' /\ LookupInv /\ MapInv /\ [Next]_vars => MapInv'
  BY NextMap
<1> QED BY TableInvAlways, LookupInvAlways, <1>1, <1>2, PTL DEF Spec

-----------------------------------------------------------------------------
(* The map's steps: within a call                                          *)

\* What the call in progress makes of a value.
LEMMA CombineIs ==
    ASSUME op \in {"insert", "remove"}, NEW v
    PROVE  /\ op = "remove" => Map!Combine(Job, v) = NoKey
           /\ op = "insert" /\ v = NoKey =>
                Map!Combine(Job, v) = IF strategy = "add_only" THEN NoKey ELSE new.key
           /\ op = "insert" /\ v # NoKey =>
                Map!Combine(Job, v) = IF strategy = "none" \/ v = new.key THEN new.key
                                      ELSE Merge[<<strategy, new.key, v>>]
<1>1. op = "remove" => Job = [kind |-> "remove"] /\ Job.kind = "remove"
  BY DEF Job
<1>2. op = "insert" => /\ Job.kind = "insert" /\ Job.key = new.key
                       /\ Job.strategy = strategy
  BY DEF Job
<1> DEFINE j == Job
           k == new.key
<1>3. /\ op = "remove" => j.kind = "remove"
      /\ op = "insert" => j.kind = "insert" /\ j.key = k /\ j.strategy = strategy
  BY <1>1, <1>2
<1> HIDE DEF j
<1>4. ASSUME j.kind = "remove" PROVE Map!Combine(j, v) = NoKey
  BY <1>4 DEF Map!Combine
<1>5. ASSUME j.kind = "insert", v = NoKey
      PROVE  Map!Combine(j, v) = IF j.strategy = "add_only" THEN NoKey ELSE j.key
  BY <1>5 DEF Map!Combine
<1>6. ASSUME j.kind = "insert", v # NoKey
      PROVE  Map!Combine(j, v) = IF j.strategy = "none" \/ v = j.key THEN j.key
                                 ELSE Merge[<<j.strategy, j.key, v>>]
  BY <1>6 DEF Map!Combine
<1>7. /\ op = "remove" => Map!Combine(j, v) = NoKey
      /\ op = "insert" /\ v = NoKey =>
            Map!Combine(j, v) = IF strategy = "add_only" THEN NoKey ELSE k
      /\ op = "insert" /\ v # NoKey =>
            Map!Combine(j, v) = IF strategy = "none" \/ v = k THEN k
                                ELSE Merge[<<strategy, k, v>>]
  BY <1>3, <1>4, <1>5, <1>6
<1> QED BY <1>7 DEF j

\* What is left to do of the map's call.
LEMMA TodoIs ==
    ASSUME op \in {"insert", "remove"}
    PROVE  /\ Locked = LockedBy[opts] /\ Todo \subseteq Address
           /\ \A a : a \in Todo <=> /\ a \in Address /\ a \notin Locked
                                    /\ Left(at, dir, net, a)
<1>1. Busy /\ InUse
  BY DEF Busy, InUse
<1>2. Locked = LockedBy[opts]
  BY <1>1 DEF Locked
<1>3. Todo = {a \in Address \ Locked : Remaining(a)}
  BY <1>1 DEF Todo
<1> QED BY <1>2, <1>3, RemainingIsLeft

\* A step of the recursion is none of the map's beginnings or ends.
LEMMA BusyFrame ==
    ASSUME Recurse, op \in {"insert", "remove"}
    PROVE  /\ op' = op /\ Status = "busy"
           /\ UNCHANGED <<Locked, Closed, Status, Job, Nets>>
           /\ AddressKeys = [a \in Address |-> KeyIn(recs, a)]
           /\ AddressKeys' = [a \in Address |-> KeyIn(recs', a)]
           /\ Todo' \subseteq Address
           /\ \A a : a \in Todo' <=> /\ a \in Address /\ a \notin Locked
                                     /\ Left(at', dir', net', a)
<1>1. UNCHANGED <<opts, op, strategy, held, queue>> /\ net' = net /\ new' = new
  BY RecurseFrame
<1>2. /\ Busy /\ Busy' /\ InUse /\ InUse'
  BY <1>1 DEF Busy, InUse
<1>3. Locked' = Locked /\ Closed' = Closed /\ Nets' = Nets
  BY <1>1, <1>2 DEF Locked, Closed, Nets
<1>4. Status = "busy" /\ Status' = "busy"
  BY <1>2 DEF Status
<1>5. Job' = Job
  BY <1>1 DEF Job
<1>6. op # "freed" /\ op' # "freed"
  BY <1>1
<1>7. Todo' = {a \in Address \ Locked : Remaining(a)'}
  BY <1>2, <1>3 DEF Todo
<1> QED BY <1>1, <1>3, <1>4, <1>5, <1>6, <1>7, KeysAreLeaves, RemainingIsLeft

\* Nothing within a record that may be replaced is barred.
LEMMA NoneBarred ==
    ASSUME TableInv, op \in Running, NEW p \in Prefix,
           recs[p].type \in {"EMPTY", "DATA", "NODE"},
           NEW a \in Address, Covers(p, a)
    PROVE  ~Barred(a)
<1> SUFFICES ASSUME NEW q \in Prefix, Covers(q, a), recs[q].type \in Bar PROVE FALSE
  BY DEF Barred
<1>1. IsTree(recs)
  BY TreeOfRecs DEF Running
<1>2. a \in Prefix
  BY AddressIsPrefix
<1>3. Covers(p, q) \/ Covers(q, p)
  BY <1>2, CoversOrder
<1>4. p # q
  BY DEF Bar
<1>5. ~Below(q, p)
  BY <1>1, NodesAbove DEF Bar, HasNode
<1>6. ~Below(p, q)
  BY DEF TableInv, Inv, FixedPath, Bar, FixedTypes
<1> QED BY <1>3, <1>4, <1>5, <1>6, BelowIsCovers

\* A step that combines the record with the addresses of one leaf, and turns
\* round there.
LEMMA ApplyStep ==
    ASSUME TableInv, LookupInv, MapInv, Settle, op \in {"insert", "remove"},
           Settles,
           NEW k \in Key \cup {NoKey},
           \A a \in Address : Covers(at, a) =>
               KeyIn(recs', a) = k /\ Map!Combine(Job, KeyIn(recs, a)) = k,
           \A a \in Address : ~Covers(at, a) => KeyIn(recs', a) = KeyIn(recs, a)
    PROVE  Map!Apply
<1>1. Recurse /\ op \in Running /\ Inv /\ OnPath
  BY DEF Settle, Recurse, Running, TableInv, MapInv
<1>2. /\ at \in Prefix /\ net \in Prefix /\ recs[at].type \in {"EMPTY", "DATA", "NODE"}
      /\ Covers(net, at) /\ dir = "down"
  BY <1>1, RunningFacts, InsideIs DEF Settles, Down
<1>3. /\ Status = "busy" /\ UNCHANGED <<Locked, Closed, Status, Job, Nets>>
      /\ AddressKeys = [a \in Address |-> KeyIn(recs, a)]
      /\ AddressKeys' = [a \in Address |-> KeyIn(recs', a)]
      /\ Todo' \subseteq Address
      /\ \A a : a \in Todo' <=> /\ a \in Address /\ a \notin Locked
                                /\ Left(at', dir', net', a)
  BY <1>1, BusyFrame
<1>4. /\ Todo \subseteq Address /\ Locked = LockedBy[opts]
      /\ \A a : a \in Todo <=> /\ a \in Address /\ a \notin Locked
                               /\ Left(at, dir, net, a)
  BY TodoIs
<1>5. \A a \in Address : Left(at', dir', net', a) <=> Left(at, dir, net, a) /\ ~Covers(at, a)
  BY <1>1, Moved
<1>6. ASSUME NEW a \in Address, Covers(at, a) PROVE a \in Todo /\ a \notin Todo'
  <2>1. ~Barred(a)
    BY <1>1, <1>2, <1>6, NoneBarred
  <2>2. a \notin Locked
    BY <1>4, <2>1 DEF MapInv, BarredOK, InUse
  <2>3. Covers(net, a)
    BY <1>2, <1>6, AddressIsPrefix, CoversOrder
  <2>4. Left(at, dir, net, a)
    BY <1>2, <1>6, <2>3 DEF Left
  <2> QED BY <1>3, <1>4, <1>5, <1>6, <2>2, <2>4
<1>7. \A a : a \in Todo \ Todo' <=> a \in Address /\ Covers(at, a)
  BY <1>3, <1>4, <1>5, <1>6
<1>8. Todo' \subseteq Todo
  BY <1>3, <1>4, <1>5
<1>9. Todo \ Todo' # {}
  <2>1. PICK a \in Address : Covers(at, a)
    BY <1>2, AddressBelow
  <2> QED BY <1>7, <2>1
<1>10. \A a \in Todo \ Todo' : ~Map!Fails(a)
  BY <1>3, <1>7 DEF Map!Fails
<1>11. AddressKeys' = [a \in Address |-> IF a \in Todo \ Todo' THEN Map!Combine(Job, AddressKeys[a])
                                         ELSE AddressKeys[a]]
  <2>1. \A a \in Address : KeyIn(recs', a) = IF a \in Todo \ Todo' THEN Map!Combine(Job, AddressKeys[a])
                                             ELSE AddressKeys[a]
    BY <1>3, <1>7
  <2> QED BY <1>3, <2>1
<1>12. Map!Address = Address
  BY DEF Map!Address, Address, Bit
<1> QED BY <1>3, <1>8, <1>9, <1>10, <1>11, <1>12 DEF Map!Apply

\* A step that changes no key and leaves the same to be done.
LEMMA StutterStep ==
    ASSUME Recurse, op \in {"insert", "remove"},
           \A a \in Address : KeyIn(recs', a) = KeyIn(recs, a),
           \A a \in Address : a \notin Locked =>
               (Left(at', dir', net', a) <=> Left(at, dir, net, a))
    PROVE  UNCHANGED Map!vars
<1>1. /\ UNCHANGED <<Locked, Closed, Status, Job, Nets>>
      /\ AddressKeys = [a \in Address |-> KeyIn(recs, a)]
      /\ AddressKeys' = [a \in Address |-> KeyIn(recs', a)]
      /\ Todo' \subseteq Address
      /\ \A a : a \in Todo' <=> /\ a \in Address /\ a \notin Locked
                                /\ Left(at', dir', net', a)
  BY BusyFrame
<1>2. /\ Todo \subseteq Address
      /\ \A a : a \in Todo <=> /\ a \in Address /\ a \notin Locked
                               /\ Left(at, dir, net, a)
  BY TodoIs
<1>3. Todo' = Todo
  BY <1>1, <1>2
<1>4. AddressKeys' = AddressKeys
  BY <1>1
<1> QED BY <1>1, <1>3, <1>4 DEF Map!vars

\* The records form a tree after a step, too.
LEMMA TreeAfter ==
    ASSUME TableInv', op' # "freed" PROVE IsTree(recs')
BY DEF TableInv, Inv, TypeOK, Shape, Depth, IsTree

\* Replacing a record without a merge combines it with the addresses it covers.
LEMMA SetRecordMaps ==
    ASSUME TableInv, TableInv', LookupInv, MapInv, op \in {"insert", "remove"}, SetRecord
    PROVE  Map!Apply
<1>1. /\ op \in Running /\ op # "freed" /\ op' # "freed" /\ Inv
      /\ Settles /\ ~SkipsEmpty /\ ~Merges /\ recs' = Graft(at, new)
  BY DEF SetRecord, Running, TableInv
<1>2. /\ at \in Prefix /\ recs \in [Prefix -> Record] /\ new \in Record /\ recs[at] \in Record
      /\ recs[at].type \in {"EMPTY", "DATA", "NODE"}
      /\ recs[at].type = "NODE" => strategy = "none"
  BY <1>1, RunningFacts DEF Settles
<1>3. /\ op = "insert" => new.type = "DATA" /\ new.key \in Key
      /\ op = "remove" => new.type = "EMPTY" /\ new.key = NoKey
  BY NewIsPlain DEF Data, Plain
<1>4. IsTree(recs) /\ IsTree(recs')
  BY <1>1, TreeOfRecs, TreeAfter
<1>5. recs'[at] = new /\ \A q \in Prefix : ~Covers(at, q) => recs'[q] = recs[q]
  BY <1>1, <1>2, GraftFacts
<1>6. IsLeaf(new) /\ recs[at].type # "ABSENT"
  BY <1>2, <1>3 DEF IsLeaf, HasNode
<1>7. \A a \in Address :
         KeyIn(recs', a) = IF Covers(at, a) THEN new.key ELSE KeyIn(recs, a)
  BY <1>2, <1>4, <1>5, <1>6, GraftKeys
<1>8. ASSUME NEW a \in Address, Covers(at, a)
      PROVE  Map!Combine(Job, KeyIn(recs, a)) = new.key
  <2> DEFINE v == KeyIn(recs, a)
  <2> SUFFICES Map!Combine(Job, v) = new.key
    OBVIOUS
  <2>1. recs[at].type \in {"EMPTY", "DATA"} => v = recs[at].key
    BY <1>2, <1>4, <1>8, KeyOfLeaf DEF IsLeaf, HasNode
  <2> HIDE DEF v
  <2>2. /\ recs[at].type = "EMPTY" => v = NoKey
        /\ recs[at].type = "DATA" => v \in Key
    BY <1>2, <2>1, LeafRecord
  <2>3. /\ op = "remove" => Map!Combine(Job, v) = NoKey
        /\ op = "insert" /\ v = NoKey =>
             Map!Combine(Job, v) = IF strategy = "add_only" THEN NoKey ELSE new.key
        /\ op = "insert" /\ v # NoKey =>
             Map!Combine(Job, v) = IF strategy = "none" \/ v = new.key THEN new.key
                                   ELSE Merge[<<strategy, new.key, v>>]
    BY CombineIs
  <2>4. CASE op = "remove"
    BY <1>3, <2>3, <2>4
  <2>5. CASE op = "insert" /\ recs[at].type = "EMPTY"
    BY <1>1, <2>2, <2>3, <2>5 DEF SkipsEmpty
  <2>6. CASE op = "insert" /\ recs[at].type = "DATA"
    <3>1. v # NoKey
      BY <2>2, <2>6, KeyAssumption
    <3>2. strategy = "none" \/ v = new.key
      BY <1>1, <1>3, <2>1, <2>6 DEF Merges
    <3> QED BY <2>3, <2>6, <3>1, <3>2
  <2>7. CASE op = "insert" /\ recs[at].type = "NODE"
    BY <1>2, <2>3, <2>7
  <2> QED BY <1>2, <2>4, <2>5, <2>6, <2>7
<1>9. new.key \in Key \cup {NoKey}
  BY <1>3
<1>10. Settle
  BY DEF Settle
<1> QED BY <1>1, <1>7, <1>8, <1>9, <1>10, ApplyStep

\* So does merging with the data of a record.
LEMMA MergeRecordMaps ==
    ASSUME TableInv, TableInv', LookupInv, MapInv, op \in {"insert", "remove"}, MergeRecord
    PROVE  Map!Apply
<1>1. /\ op \in Running /\ op # "freed" /\ op' # "freed" /\ Inv
      /\ Settles /\ Merges /\ Merged \in Key /\ recs' = Graft(at, Data(Merged))
  BY DEF MergeRecord, Running, TableInv
<1>2. /\ at \in Prefix /\ recs \in [Prefix -> Record] /\ recs[at] \in Record
      /\ recs[at].type = "DATA" /\ recs[at].key # new.key /\ strategy # "none"
      /\ new.type = "DATA"
  BY <1>1, RunningFacts DEF Merges
<1> DEFINE r == Data(Merged)
<1>3. r \in Record /\ r.type = "DATA" /\ r.key = Merged
  BY <1>1, RecordFacts
<1> HIDE DEF r
<1>4. IsTree(recs) /\ IsTree(recs')
  BY <1>1, TreeOfRecs, TreeAfter
<1>5. recs'[at] = r /\ \A q \in Prefix : ~Covers(at, q) => recs'[q] = recs[q]
  BY <1>1, <1>2, <1>3, GraftFacts DEF r
<1>6. IsLeaf(r) /\ recs[at].type # "ABSENT" /\ IsLeaf(recs[at])
  BY <1>2, <1>3 DEF IsLeaf, HasNode
<1>7. \A a \in Address :
         KeyIn(recs', a) = IF Covers(at, a) THEN Merged ELSE KeyIn(recs, a)
  BY <1>2, <1>3, <1>4, <1>5, <1>6, GraftKeys
<1>8. ASSUME NEW a \in Address, Covers(at, a)
      PROVE  Map!Combine(Job, KeyIn(recs, a)) = Merged
  <2> DEFINE v == KeyIn(recs, a)
  <2>1. v = recs[at].key
    BY <1>2, <1>4, <1>6, <1>8, KeyOfLeaf
  <2> HIDE DEF v
  <2>2. v \in Key /\ v # NoKey
    BY <1>2, <2>1, LeafRecord, KeyAssumption
  <2>3. op = "insert"
    BY <1>1, <1>2, HeldFacts
  <2>4. Map!Combine(Job, v) = IF strategy = "none" \/ v = new.key THEN new.key
                              ELSE Merge[<<strategy, new.key, v>>]
    BY <2>2, <2>3, CombineIs
  <2>5. Merged = Merge[<<strategy, new.key, v>>]
    BY <1>1, <2>1, MergedIs DEF MapInv, MergeArgs
  <2>6. Map!Combine(Job, v) = Merged
    BY <1>2, <2>1, <2>4, <2>5
  <2> QED BY <2>6 DEF v
<1>9. Settle
  BY DEF Settle
<1> QED BY <1>1, <1>7, <1>8, <1>9, ApplyStep

\* Passing over a record changes nothing: add-only leaves an empty record empty,
\* and a reserved network or an alias is locked.
LEMMA IgnoreMaps ==
    ASSUME TableInv, LookupInv, MapInv, op \in {"insert", "remove"}, Ignore
    PROVE  Map!Apply \/ UNCHANGED Map!vars
<1>1. /\ op \in Running /\ op # "freed" /\ Inv /\ recs' = recs /\ Settle /\ Recurse /\ OnPath
  BY DEF Ignore, Running, TableInv, Settle, Recurse, MapInv
<1>2. at \in Prefix /\ recs[at] \in Record
  BY <1>1, RunningFacts
<1>3. CASE Settles /\ SkipsEmpty
  <2>1. recs[at].type = "EMPTY" /\ strategy = "add_only" /\ op = "insert"
    BY <1>3, NewIsPlain DEF SkipsEmpty
  <2>2. IsTree(recs)
    BY <1>1, TreeOfRecs
  <2>3. ASSUME NEW a \in Address, Covers(at, a)
        PROVE  KeyIn(recs, a) = NoKey /\ Map!Combine(Job, KeyIn(recs, a)) = NoKey
    <3> DEFINE v == KeyIn(recs, a)
    <3>1. v = recs[at].key
      BY <1>2, <2>1, <2>2, <2>3, KeyOfLeaf DEF IsLeaf, HasNode
    <3> HIDE DEF v
    <3>2. v = NoKey
      BY <1>2, <2>1, <3>1, LeafRecord
    <3>3. Map!Combine(Job, v) = NoKey
      BY <2>1, <3>2, CombineIs
    <3> QED BY <3>2, <3>3 DEF v
  <2> QED BY <1>1, <1>3, <2>3, ApplyStep
<1>4. CASE recs[at].type \in Bar
  <2>1. ASSUME NEW a \in Address, a \notin Locked
        PROVE  Left(at', dir', net', a) <=> Left(at, dir, net, a)
    <3>1. ~Barred(a)
      BY <2>1, TodoIs DEF MapInv, BarredOK, InUse
    <3>2. ~Covers(at, a)
      BY <1>2, <1>4, <3>1 DEF Barred
    <3>3. Left(at', dir', net', a) <=> Left(at, dir, net, a) /\ ~Covers(at, a)
      BY <1>1, Moved
    <3> QED BY <3>2, <3>3
  <2> QED BY <1>1, <2>1, StutterStep
<1> QED BY <1>3, <1>4 DEF Ignore, Bar

\* Going down, left or up, splitting and trimming on the way, changes nothing.
LEMMA MoveMaps ==
    ASSUME TableInv, TableInv', LookupInv, MapInv, op \in {"insert", "remove"}, Move
    PROVE  UNCHANGED Map!vars
<1>1. /\ op \in Running /\ op # "freed" /\ op' # "freed" /\ Inv /\ Recurse /\ OnPath
  <2>1. Recurse
    BY DEF Move, Recurse
  <2> QED BY <2>1, RecurseFrame DEF Running, TableInv, MapInv
<1>2. at \in Prefix /\ recs[at] \in Record /\ recs \in [Prefix -> Record]
  BY <1>1, RunningFacts
<1>3. IsTree(recs) /\ IsTree(recs')
  BY <1>1, TreeOfRecs, TreeAfter
<1>4. \A a \in Address : Left(at', dir', net', a) <=> Left(at, dir, net, a)
  BY <1>1, Moved
<1>5. ASSUME NEW a \in Address PROVE KeyIn(recs', a) = KeyIn(recs, a)
  <2>1. CASE GoLeft
    BY <2>1 DEF GoLeft
  <2>2. CASE Descend
    <3>1. /\ Len(at) < W /\ recs[at].type \in {"EMPTY", "DATA", "NODE", "FIXED_NODE"}
          /\ recs' = IF HasNode(recs[at])
                     THEN [recs EXCEPT ![at] = Plain(NodeType)] ELSE Split(at, NodeType)
      BY <1>1, <2>2, DescendRoom DEF Descend
    <3>2. NodeType \in PlainTypes
      BY DEF NodeType, PlainTypes, FixedTypes
    <3>3. 0 \in Bit /\ 1 \in Bit
      BY DEF Bit
    <3>4. CASE HasNode(recs[at])
      <4>1. \A q \in Prefix : q # at => recs'[q] = recs[q]
        BY <1>2, <3>1, <3>4
      <4> QED BY <1>2, <1>3, <3>1, <3>4, <4>1, SplitKeys DEF IsLeaf
    <3>5. CASE ~HasNode(recs[at])
      <4>1. /\ \A b \in Bit : recs'[Child(at, b)] = recs[at]
            /\ \A q \in Prefix :
                 q # at /\ q # Child(at, 0) /\ q # Child(at, 1) => recs'[q] = recs[q]
        BY <1>2, <3>1, <3>2, <3>5, SplitFacts
      <4>2. \A b \in Bit : /\ Child(at, b) \in Prefix /\ Child(at, b) # << >>
                           /\ Parent(Child(at, b)) = at
        BY <1>2, <3>1, ChildIsPrefix, AboveChild
      <4>3. \A b \in Bit : recs[Child(at, b)].type = "ABSENT"
        BY <1>3, <3>5, <4>2 DEF IsTree
      <4>4. \A q \in Prefix : q # at /\ IsLeaf(recs[q]) => recs'[q] = recs[q]
        BY <3>3, <4>1, <4>3 DEF IsLeaf
      <4>5. recs'[Child(at, 0)] = recs[at] /\ recs'[Child(at, 1)] = recs[at]
        BY <3>3, <4>1
      <4> QED BY <1>2, <1>3, <3>1, <4>4, <4>5, SplitKeys
    <3> QED BY <3>4, <3>5
  <2>3. CASE Trim
    <3> DEFINE p == Parent(at)
               r == recs[Child(p, 0)]
    <3>1. at # << >> /\ recs' = IF Trimmable(p) THEN Graft(p, r) ELSE recs
      BY <2>3 DEF Trim, Up
    <3>2. p \in Prefix /\ Len(p) < W
      BY <1>2, <3>1, ParentIsPrefix, ChildOfParent
    <3>3. Child(p, 0) \in Prefix
      BY <3>2, ChildIsPrefix DEF Bit
    <3>4. /\ r \in Record
          /\ Trimmable(p) => /\ IsLeaf(r) /\ recs[p].type # "ABSENT"
                             /\ recs[Child(p, 0)] = r /\ recs[Child(p, 1)] = r
      BY <1>2, <3>3 DEF Trimmable, Identical, IsLeaf, HasNode
    <3> HIDE DEF p, r
    <3>5. CASE Trimmable(p)
      <4>1. recs'[p] = r /\ \A q \in Prefix : ~Covers(p, q) => recs'[q] = recs[q]
        BY <1>2, <3>1, <3>2, <3>4, <3>5, GraftFacts
      <4> QED BY <1>3, <3>2, <3>4, <3>5, <4>1, TrimKeys
    <3>6. CASE ~Trimmable(p)
      BY <3>1, <3>6
    <3> QED BY <3>5, <3>6
  <2> QED BY <2>1, <2>2, <2>3 DEF Move
<1> QED BY <1>1, <1>4, <1>5, StutterStep

-----------------------------------------------------------------------------
(* The map's state: without a tree, between calls and in a call            *)

\* A tree without data gives no address a key.
LEMMA NoDataNoKeys ==
    ASSUME NEW t, IsTree(t), \A p \in Prefix : t[p].type # "DATA", NEW a \in Address
    PROVE  KeyIn(t, a) = NoKey
<1>1. PICK p \in Prefix : Covers(p, a) /\ IsLeaf(t[p])
  BY OneLeaf
<1>2. KeyIn(t, a) = t[p].key
  BY <1>1, KeyOfLeaf
<1>3. t[p] \in Record
  BY DEF IsTree
<1> QED BY <1>2, <1>3, LeafRecord

AtRest == Job = [kind |-> "none"] /\ Nets = << >> /\ Todo = {}
AbsentMap ==
    /\ AddressKeys = [a \in Address |-> NoKey] /\ Locked = {} /\ Closed = {}
    /\ Status = "absent" /\ AtRest
IdleMap ==
    /\ AddressKeys = [a \in Address |-> KeyIn(recs, a)]
    /\ Locked = LockedBy[opts] /\ Closed = ClosedBy[opts]
    /\ Status = "idle" /\ AtRest
BusyMap ==
    /\ AddressKeys = [a \in Address |-> KeyIn(recs, a)]
    /\ Locked = LockedBy[opts] /\ Closed = ClosedBy[opts]
    /\ Status = "busy" /\ Job.kind \in {"insert", "remove"}
    /\ Nets = [i \in 1..Len(queue) |-> queue[i].net]
    /\ Len(Nets) = Len(queue) /\ Nets # << >> /\ Head(Nets) = net /\ net \in Prefix
    /\ Todo = {a \in Address \ Locked : Left(at, dir, net, a)}

\* Until new_tree has returned, there is no map.
LEMMA AbsentIs == TableInv /\ op \in {"freed", "new_tree"} => AbsentMap
<1> SUFFICES ASSUME TableInv, op \in {"freed", "new_tree"} PROVE AbsentMap
  OBVIOUS
<1>1. ~InUse /\ ~Busy /\ Job = [kind |-> "none"]
  BY DEF InUse, Busy, Job
<1>2. AddressKeys = [a \in Address |-> NoKey]
  <2>1. CASE op = "freed"
    BY <2>1, KeysAreLeaves
  <2>2. CASE op = "new_tree"
    <3>1. \A p \in Prefix : recs[p].type # "DATA"
      BY <2>2 DEF TableInv, HeldOK
    <3>2. IsTree(recs)
      BY <2>2, TreeOfRecs
    <3>3. \A a \in Address : KeyIn(recs, a) = NoKey
      BY <3>1, <3>2, NoDataNoKeys
    <3> QED BY <2>2, <3>3, KeysAreLeaves
  <2> QED BY <2>1, <2>2
<1> QED BY <1>1, <1>2 DEF AbsentMap, AtRest, Locked, Closed, Status, Nets, Todo

\* Between calls it holds the data of the tree's leaves.
LEMMA IdleIs == op = "idle" => IdleMap
<1> SUFFICES ASSUME op = "idle" PROVE IdleMap
  OBVIOUS
<1>1. InUse /\ ~Busy /\ Job = [kind |-> "none"]
  BY DEF InUse, Busy, Job
<1> QED BY <1>1, KeysAreLeaves DEF IdleMap, AtRest, Locked, Closed, Status, Nets, Todo

\* And so it does in a call, which has records left.
LEMMA BusyIs == Inv /\ op \in {"insert", "remove"} => BusyMap
<1> SUFFICES ASSUME Inv, op \in {"insert", "remove"} PROVE BusyMap
  OBVIOUS
<1>1. InUse /\ Busy /\ op \in Running
  BY DEF InUse, Busy, Running
<1>2. Job.kind \in {"insert", "remove"}
  <2>1. op = "insert" => Job.kind = "insert"
    BY DEF Job
  <2>2. op = "remove" => Job.kind = "remove"
    BY DEF Job
  <2> QED BY <2>1, <2>2
<1>3. Nets = [i \in 1..Len(queue) |-> queue[i].net]
  BY <1>1 DEF Nets
<1>4. queue \in Seq(Item) /\ Len(queue) \in Nat \ {0} /\ queue[1].net = net /\ net \in Prefix
  BY <1>1, RunningFacts, QueueFacts
<1>5. Nets \in Seq(Prefix) /\ Len(Nets) = Len(queue) /\ Nets[1] = net
  <2>1. ASSUME NEW i \in 1..Len(queue) PROVE queue[i].net \in Prefix
    <3>1. queue[i] \in Item
      BY <1>4, ElementOfSeq
    <3> QED BY <3>1 DEF Item
  <2>2. Nets \in [1..Len(queue) -> Prefix]
    BY <1>3, <2>1
  <2>3. Nets \in Seq(Prefix)
    BY <1>4, <2>2
  <2>4. Len(Nets) = Len(queue)
    BY <1>4, <2>2, <2>3, LenProperties
  <2> QED BY <1>3, <1>4, <2>3, <2>4
<1>6. Nets # << >> /\ Head(Nets) = net
  BY <1>4, <1>5, EmptySeq
<1>7. Todo = {a \in Address \ Locked : Left(at, dir, net, a)}
  <2>1. Todo = {a \in Address \ Locked : Remaining(a)}
    BY <1>1 DEF Todo
  <2> QED BY <2>1, RemainingIsLeft
<1> QED BY <1>1, <1>2, <1>3, <1>4, <1>5, <1>6, <1>7, KeysAreLeaves
    DEF BusyMap, Locked, Closed, Status

\* The addresses of a network.
LEMMA WithinIs ==
    ASSUME NEW n \in Prefix
    PROVE  Map!Within(n) = {a \in Address : Covers(n, a)}
<1>1. DOMAIN n = 1..Len(n) /\ Len(n) \in Nat /\ Len(n) <= W
  BY PrefixIsSeq, LenProperties, PrefixLength
<1>2. \A a \in Address : Len(a) = W
  BY AddressIsPrefix
<1>3. \A a \in Address : Covers(n, a) <=> \A i \in DOMAIN n : a[i] = n[i]
  BY <1>1, <1>2 DEF Covers
<1>4. Map!Address = Address
  BY DEF Map!Address, Address, Bit
<1> QED BY <1>3, <1>4 DEF Map!Within

\* What the options lock are addresses and networks.
LEMMA LocksAreAddresses ==
    ASSUME NEW o \in Options
    PROVE  LockedBy[o] \subseteq Map!Address /\ ClosedBy[o] \subseteq Map!Network
<1>1. Map!Address = Address /\ Map!Network = Prefix
  BY DEF Map!Address, Address, Map!Network, Prefix, Bit
<1>2. LockedBy[o] \subseteq Address
  BY DEF LockedBy
<1>3. ClosedBy[o] \subseteq Prefix
  BY DEF ClosedBy
<1> QED BY <1>1, <1>2, <1>3

-----------------------------------------------------------------------------
(* The map's steps: between networks and calls                             *)

\* A recursion that returns has dealt with all of its network, and the network
\* lies in no alias.
LEMMA NetworkDone ==
    ASSUME TableInv, LookupInv, MapInv, op \in {"insert", "remove"}, dir = "up", at = << >>
    PROVE  /\ Todo = {} /\ Head(Nets) \notin Closed /\ Status = "busy"
           /\ Len(Nets) = Len(queue)
<1>1. /\ Locked = LockedBy[opts] /\ Closed = ClosedBy[opts] /\ Status = "busy"
      /\ Len(Nets) = Len(queue) /\ Head(Nets) = net /\ net \in Prefix
      /\ Todo = {a \in Address \ Locked : Left(at, dir, net, a)}
  BY BusyIs DEF BusyMap, TableInv
<1>2. \A a \in Address : ~Left(at, dir, net, a)
  BY <1>1, RootIsPrefix, LeftMoves
<1>3. net \notin Closed
  <2> SUFFICES ASSUME net \in Closed PROVE FALSE
    OBVIOUS
  <2>1. opts \in Options
    BY DEF LookupInv
  <2>2. opts.alias /\ \E l \in Listed(Aliases) : Covers(l, net)
    BY <1>1, <2>1 DEF ClosedBy
  <2>3. PICK j \in 1..Len(Aliases) : Covers(Aliases[j], net)
    BY <2>2 DEF Listed
  <2>4. Aliases[j] \in Prefix
    BY NetworkAssumption, ElementOfSeq
  <2>5. recs[Aliases[j]].type = "ALIAS"
    BY <2>2 DEF LookupInv, RootsPlaced
  <2> QED BY <2>3, <2>4, <2>5 DEF MapInv, PassedNoAlias
<1> QED BY <1>1, <1>2, <1>3

\* The networks of a queue.
LEMMA NetsOfItems ==
    ASSUME NEW q \in Seq(Item)
    PROVE  [i \in 1..Len(q) |-> q[i].net] \in Seq(Prefix)
<1>1. ASSUME NEW i \in 1..Len(q) PROVE q[i].net \in Prefix
  <2>1. q[i] \in Item
    BY ElementOfSeq
  <2> QED BY <2>1 DEF Item
<1> QED BY <1>1

\* Going on to the next network.
LEMMA NextRecordMaps ==
    ASSUME TableInv, TableInv', LookupInv, MapInv, op \in {"insert", "remove"}, NextRecord
    PROVE  Map!NextNetwork
<1>1. /\ dir = "up" /\ at = << >> /\ Len(queue) > 1
      /\ queue' = Tail(queue) /\ dir' = "down" /\ at' = << >>
      /\ UNCHANGED <<recs, opts, op, strategy>>
      /\ op \in Running /\ Inv
  BY DEF NextRecord, TableInv
<1>2. /\ Todo = {} /\ Head(Nets) \notin Closed /\ Status = "busy" /\ Len(Nets) = Len(queue)
  BY <1>1, NetworkDone
<1>3. BusyMap
  BY BusyIs DEF TableInv
<1>4. BusyMap'
  <2>1. (Inv /\ op \in {"insert", "remove"})'
    BY <1>1 DEF TableInv
  <2> QED BY <2>1, BusyIs, PTL
<1>5. UNCHANGED <<AddressKeys, Locked, Closed, Status>>
  BY <1>1, <1>3, <1>4 DEF BusyMap
<1>6. Job' = Job
  <2>1. /\ queue \in Seq(Item) /\ queue # << >>
        /\ \A i \in 1..Len(queue') : i + 1 \in 1..Len(queue) /\ queue'[i] = queue[i + 1]
    BY <1>1, RunningFacts, QueueFacts
  <2>2. queue' \in Seq(Item) /\ queue' # << >>
    BY <1>1 DEF TableInv, Inv, TypeOK, QueueOK
  <2>3. 1 \in 1..Len(queue') /\ Head(queue') = queue'[1] /\ Head(queue) = queue[1]
        /\ 1 \in 1..Len(queue)
    BY <2>1, <2>2
  <2>4. op = "insert" => new' = new
    BY <2>1, <2>3, <1>1 DEF TableInv, HeldOK, new
  <2> QED BY <1>1, <2>4 DEF Job
<1>7. Nets' = Tail(Nets)
  <2>1. /\ queue \in Seq(Item) /\ Len(queue) \in Nat /\ Len(queue') = Len(queue) - 1
        /\ \A i \in 1..Len(queue') : i + 1 \in 1..Len(queue) /\ queue'[i] = queue[i + 1]
    BY <1>1, RunningFacts, QueueFacts
  <2>2. Nets = [i \in 1..Len(queue) |-> queue[i].net]
        /\ Nets' = [i \in 1..Len(queue') |-> queue'[i].net]
    BY <1>3, <1>4 DEF BusyMap
  <2>3. queue' \in Seq(Item) /\ Len(queue') \in Nat
    BY <1>1 DEF TableInv, Inv, TypeOK, QueueOK
  <2>4. Nets \in Seq(Prefix) /\ Nets' \in Seq(Prefix)
    BY <2>1, <2>2, <2>3, NetsOfItems
  <2>5. Nets # << >> /\ Len(Nets') = Len(queue')
    BY <1>3, <1>4 DEF BusyMap
  <2>6. /\ Tail(Nets) \in Seq(Prefix) /\ Len(Tail(Nets)) = Len(Nets) - 1
        /\ \A i \in 1..Len(Tail(Nets)) : Tail(Nets)[i] = Nets[i + 1]
    BY <2>4, <2>5, HeadTailProperties
  <2>7. Len(Nets') = Len(Tail(Nets))
    BY <1>2, <2>1, <2>5, <2>6
  <2>8. \A i \in 1..Len(Nets') : Nets'[i] = Tail(Nets)[i]
    BY <1>2, <2>1, <2>2, <2>5, <2>6, <2>7
  <2> QED BY <2>4, <2>6, <2>7, <2>8, SeqEqual
<1>8. Todo' = Map!Writable(Head(Nets'))
  <2>1. /\ net' \in Prefix /\ Head(Nets') = net'
        /\ Todo' = {a \in Address \ Locked' : Left(at', dir', net', a)}
    BY <1>4 DEF BusyMap
  <2>2. \A a \in Address : Left(at', dir', net', a) <=> Covers(net', a)
    BY <1>1, <2>1, RootIsPrefix, LeftMoves
  <2>3. Map!Within(net') = {a \in Address : Covers(net', a)}
    BY <2>1, WithinIs
  <2> QED BY <1>5, <2>1, <2>2, <2>3 DEF Map!Writable
<1> QED BY <1>1, <1>2, <1>5, <1>6, <1>7, <1>8 DEF Map!NextNetwork

\* The end of a call, after its last network.
LEMMA FinishMaps ==
    ASSUME TableInv, LookupInv, MapInv, Finish
    PROVE  Map!Finish \/ Map!Make
<1>1. /\ op \in Running /\ dir = "up" /\ at = << >> /\ Len(queue) = 1
      /\ op' = "idle" /\ UNCHANGED <<recs, opts>>
  BY DEF Finish, EndCall
<1>2. IdleMap'
  <2>1. (op = "idle")'
    BY <1>1
  <2> QED BY <2>1, IdleIs, PTL
<1>3. AddressKeys' = AddressKeys
  BY <1>1, KeysAreLeaves DEF Running
<1>4. Map!Rest
  BY <1>2 DEF IdleMap, AtRest, Map!Rest, Map!NoJob
<1>5. CASE op = "new_tree"
  <2>1. Status = "absent"
    BY <1>5, AbsentIs DEF AbsentMap
  <2>2. Locked' \subseteq Map!Address /\ Closed' \subseteq Map!Network /\ Status' = "idle"
    BY <1>1, <1>2, LocksAreAddresses DEF IdleMap, LookupInv
  <2> QED BY <1>3, <1>4, <2>1, <2>2 DEF Map!Make
<1>6. CASE op \in {"insert", "remove"}
  <2>1. /\ Todo = {} /\ Head(Nets) \notin Closed /\ Status = "busy" /\ Len(Nets) = 1
    BY <1>1, <1>6, NetworkDone
  <2>2. Locked' = Locked /\ Closed' = Closed /\ Status' = "idle"
    BY <1>1, <1>2, <1>6, BusyIs DEF IdleMap, BusyMap, TableInv
  <2> QED BY <1>3, <1>4, <2>1, <2>2 DEF Map!Finish
<1> QED BY <1>1, <1>5, <1>6 DEF Running

\* A call that stops early has met an alias around its network, or data that
\* cannot be merged.
LEMMA FailMaps ==
    ASSUME TableInv, LookupInv, MapInv, op \in {"insert", "remove"},
           op' = "idle", recs' = recs, opts' = opts,
           Head(Nets) \in Closed \/ \E a \in Todo : Map!Fails(a)
    PROVE  Map!Fail
<1>1. IdleMap'
  <2>1. (op = "idle")'
    OBVIOUS
  <2> QED BY <2>1, IdleIs, PTL
<1>2. BusyMap
  BY BusyIs DEF TableInv
<1>3. Map!Rest
  BY <1>1 DEF IdleMap, AtRest, Map!Rest, Map!NoJob
<1>4. UNCHANGED <<AddressKeys, Locked, Closed>> /\ Status = "busy" /\ Status' = "idle"
  BY <1>1, <1>2 DEF IdleMap, BusyMap
<1> QED BY <1>3, <1>4 DEF Map!Fail

\* A merge that croaks.
LEMMA MergeCroaksMaps ==
    ASSUME TableInv, LookupInv, MapInv, MergeCroaks
    PROVE  Map!Fail
<1>1. /\ op \in Running /\ Inv /\ OnPath /\ Settles /\ Merges /\ Merged \notin Key
      /\ op' = "idle" /\ UNCHANGED <<recs, opts>>
  BY DEF MergeCroaks, Return, Settles, Down, TableInv, MapInv
<1>2. /\ at \in Prefix /\ net \in Prefix /\ recs[at] \in Record
      /\ recs[at].type = "DATA" /\ recs[at].key # new.key /\ strategy # "none"
      /\ Covers(net, at) /\ dir = "down"
  BY <1>1, RunningFacts, InsideIs DEF Merges, Settles, Down
<1>3. op = "insert"
  BY <1>1, HeldFacts DEF Merges
<1>4. PICK a \in Address : Covers(at, a)
  BY <1>2, AddressBelow
<1>5. a \in Todo
  <2>1. ~Barred(a)
    BY <1>1, <1>2, <1>4, NoneBarred
  <2>2. a \notin Locked
    BY <1>3, <2>1, TodoIs DEF MapInv, BarredOK, InUse
  <2>3. Covers(net, a)
    BY <1>2, <1>4, AddressIsPrefix, CoversOrder
  <2> QED BY <1>2, <1>3, <1>4, <2>2, <2>3, TodoIs DEF Left
<1> DEFINE v == KeyIn(recs, a)
<1>6. v = recs[at].key /\ AddressKeys[a] = v
  <2>1. v = recs[at].key
    BY <1>2, <1>3, <1>4, TreeOfRecs, KeyOfLeaf DEF IsLeaf, HasNode
  <2> QED BY <1>3, <2>1, KeysAreLeaves
<1> HIDE DEF v
<1>7. v # NoKey
  BY <1>2, <1>6, LeafRecord, KeyAssumption
<1>8. Map!Combine(Job, v) = Merge[<<strategy, new.key, v>>]
  BY <1>2, <1>3, <1>6, <1>7, CombineIs
<1>9. /\ Merged = Merge[<<strategy, new.key, v>>]
      /\ <<strategy, new.key, v>> \in Strategies \X Key \X Key
  BY <1>1, <1>6, MergedIs DEF MapInv, MergeArgs
<1>10. Merge[<<strategy, new.key, v>>] \notin Key \cup {NoKey}
  BY <1>1, <1>9, MergeAssumption, KeyAssumption
<1>11. Map!Fails(a)
  BY <1>6, <1>8, <1>10 DEF Map!Fails
<1> QED BY <1>1, <1>3, <1>5, <1>11, FailMaps

\* A network within an alias.
LEMMA RefuseMaps ==
    ASSUME TableInv, LookupInv, MapInv, op \in {"insert", "remove"}, Refuse
    PROVE  Map!Fail
<1>1. op \in Running /\ Inv /\ Refused /\ op' = "idle" /\ UNCHANGED <<recs, opts>>
  BY DEF Refuse, Down, EndCall, TableInv
<1>2. at \in Prefix /\ net \in Prefix /\ Len(at) \in Nat /\ Len(net) \in Nat
  BY <1>1, RunningFacts, PrefixLength
<1>3. recs[at].type = "ALIAS" /\ Len(at) <= Len(net)
  <2>1. new.type # "FIXED_NODE"
    BY NewIsPlain DEF FixedTypes
  <2> QED BY <1>1, <2>1 DEF Refused
<1>4. Covers(at, net)
  <2>1. CASE Covers(net, at)
    <3>1. at = net
      BY <1>2, <1>3, <2>1, BelowIsCovers DEF Below
    <3> QED BY <1>2, <3>1, CoversOrder
  <2> QED BY <1>1, <2>1 DEF MapInv, OnPath
<1>5. opts.alias /\ \E j \in 1..Len(Aliases) : at = Aliases[j]
  BY <1>2, <1>3 DEF LookupInv, AliasesOnly
<1>6. at \in Listed(Aliases)
  BY <1>5 DEF Listed
<1>7. net \in ClosedBy[opts]
  BY <1>2, <1>4, <1>5, <1>6 DEF ClosedBy, LookupInv
<1>8. Head(Nets) \in Closed
  BY <1>7, BusyIs DEF BusyMap, TableInv
<1> QED BY <1>1, <1>8, FailMaps

\* A call begins.
LEMMA BeginMaps ==
    ASSUME TableInv, TableInv', MapInv, op = "idle", op' \in {"insert", "remove"},
           UNCHANGED <<recs, opts, at, dir>>
    PROVE  Map!Begin
<1>1. at = << >> /\ dir = "down"
  BY DEF TableInv, Inv, CursorOK, MapInv, OnPath, Running
<1>2. IdleMap
  BY IdleIs
<1>3. BusyMap'
  <2>1. (Inv /\ op \in {"insert", "remove"})'
    BY DEF TableInv
  <2> QED BY <2>1, BusyIs, PTL
<1>4. /\ UNCHANGED <<AddressKeys, Locked, Closed>> /\ Status = "idle" /\ Status' = "busy"
      /\ Job'.kind \in {"insert", "remove"} /\ Nets' # << >>
  BY <1>2, <1>3 DEF IdleMap, BusyMap
<1>5. Todo' = Map!Writable(Head(Nets'))
  <2>1. /\ net' \in Prefix /\ Head(Nets') = net'
        /\ Todo' = {a \in Address \ Locked' : Left(at', dir', net', a)}
    BY <1>3 DEF BusyMap
  <2>2. \A a \in Address : Left(at', dir', net', a) <=> Covers(net', a)
    BY <1>1, <2>1, RootIsPrefix, LeftMoves
  <2>3. Map!Within(net') = {a \in Address : Covers(net', a)}
    BY <2>1, WithinIs
  <2> QED BY <1>4, <2>1, <2>2, <2>3 DEF Map!Writable
<1> QED BY <1>4, <1>5 DEF Map!Begin

\* The tree is freed.
LEMMA FreeMaps ==
    ASSUME TableInv', op = "idle", op' = "freed" PROVE Map!Free
<1>1. IdleMap
  BY IdleIs
<1>2. AbsentMap'
  <2>1. (TableInv /\ op \in {"freed", "new_tree"})'
    OBVIOUS
  <2> QED BY <2>1, AbsentIs, PTL
<1>3. Map!Address = Address
  BY DEF Map!Address, Address, Bit
<1> QED BY <1>1, <1>2, <1>3
    DEF IdleMap, AbsentMap, AtRest, Map!Free, Map!Nothing, Map!Rest, Map!NoJob

\* A tree is made: at once, or by a new_tree that goes on for a while.
LEMMA NewTreeMaps ==
    ASSUME TableInv, TableInv', LookupInv', NewTree
    PROVE  Map!Make \/ UNCHANGED Map!vars
<1>1. op = "freed" /\ op' \in {"idle", "new_tree"} /\ recs' = EmptyTree
  BY DEF NewTree
<1>2. AbsentMap
  BY <1>1, AbsentIs
<1>3. CASE op' = "new_tree"
  <2>1. (TableInv /\ op \in {"freed", "new_tree"})'
    BY <1>3
  <2>2. AbsentMap'
    BY <2>1, AbsentIs, PTL
  <2> QED BY <1>2, <2>2 DEF AbsentMap, AtRest, Map!vars
<1>4. CASE op' = "idle"
  <2>1. IdleMap'
    <3>1. (op = "idle")'
      BY <1>4
    <3> QED BY <3>1, IdleIs, PTL
  <2>2. \A p \in Prefix : recs'[p].type # "DATA"
    BY <1>1, EmptyFacts
  <2>3. \A a \in Address : KeyIn(recs', a) = NoKey
    BY <1>4, <2>2, TreeAfter, NoDataNoKeys
  <2>4. AddressKeys' = AddressKeys
    BY <1>2, <2>1, <2>3 DEF AbsentMap, IdleMap
  <2>5. Locked' \subseteq Map!Address /\ Closed' \subseteq Map!Network
    BY <2>1, LocksAreAddresses DEF IdleMap, LookupInv
  <2> QED BY <1>2, <2>1, <2>4, <2>5
      DEF AbsentMap, IdleMap, AtRest, Map!Make, Map!Rest, Map!NoJob
<1> QED BY <1>1, <1>3, <1>4

-----------------------------------------------------------------------------
(* The theorem                                                             *)

\* Every step of the tree is a step of the map or leaves it as it is.
LEMMA StepMaps ==
    ASSUME TableInv, TableInv', LookupInv, LookupInv', MapInv, [Next]_vars
    PROVE  [Map!Next]_(Map!vars)
<1>1. CASE UNCHANGED vars
  <2>1. UNCHANGED <<recs, opts, op, strategy, queue, at, dir>> /\ net' = net /\ new' = new
    BY <1>1 DEF vars, net, new
  <2>2. UNCHANGED <<Locked, Closed, Status, Job, Nets>>
    BY <2>1 DEF Locked, Closed, Status, Job, Nets, InUse, Busy
  <2>3. AddressKeys' = AddressKeys
    BY <2>1, KeysAreLeaves
  <2>4. Todo' = Todo
    <3>1. \A a : Remaining(a)' <=> Remaining(a)
      BY <2>1, RemainingIsLeft
    <3> QED BY <2>1, <2>2, <3>1 DEF Todo, Busy
  <2> QED BY <2>2, <2>3, <2>4 DEF Map!vars
<1>2. CASE op = "new_tree" /\ op' \in {"new_tree", "freed"}
  <2>1. (TableInv /\ op \in {"freed", "new_tree"})'
    BY <1>2
  <2>2. AbsentMap
    BY <1>2, AbsentIs
  <2>3. AbsentMap'
    BY <2>1, AbsentIs, PTL
  <2> QED BY <2>2, <2>3 DEF AbsentMap, AtRest, Map!vars
<1>3. CASE Recurse
  <2>1. op \in Running /\ op' = op
    BY <1>3, RecurseFrame
  <2>2. CASE op \in {"insert", "remove"}
    BY <1>3, <2>2, SetRecordMaps, MergeRecordMaps, IgnoreMaps, MoveMaps
       DEF Recurse, Move, Map!Next
  <2> QED BY <1>2, <2>1, <2>2 DEF Running
<1>4. CASE NextRecord
  <2>1. op \in Running /\ op' = op
    BY <1>4 DEF NextRecord
  <2>2. CASE op \in {"insert", "remove"}
    BY <1>4, <2>2, NextRecordMaps DEF Map!Next
  <2> QED BY <1>2, <2>1, <2>2 DEF Running
<1>5. CASE Finish
  BY <1>5, FinishMaps DEF Map!Next
<1>6. CASE Refuse
  <2>1. op \in Running /\ (op = "new_tree" => op' = "freed")
    BY <1>6 DEF Refuse, Down, EndCall
  <2>2. CASE op \in {"insert", "remove"}
    BY <1>6, <2>2, RefuseMaps DEF Map!Next
  <2> QED BY <1>2, <2>1, <2>2 DEF Running
<1>7. CASE MergeCroaks
  BY <1>7, MergeCroaksMaps DEF Map!Next
<1>8. CASE (\E c \in Inserts : InsertNetworks(c)) \/ (\E n \in Prefix : RemoveNetwork(n))
  <2>1. /\ op = "idle" /\ op' \in {"insert", "remove"}
        /\ UNCHANGED <<recs, opts, at, dir>>
    BY <1>8 DEF InsertNetworks, RemoveNetwork
  <2> QED BY <2>1, BeginMaps DEF Map!Next
<1>9. CASE FreeTree
  BY <1>9, FreeMaps DEF FreeTree, Map!Next
<1>10. CASE NewTree
  BY <1>10, NewTreeMaps DEF Map!Next
<1> QED BY <1>1, <1>3, <1>4, <1>5, <1>6, <1>7, <1>8, <1>9, <1>10
    DEF Next, Step, Call, Recurse

\* The initial trees are initial maps.
LEMMA InitMaps ==
    ASSUME Init, TableInv, LookupInv PROVE Map!Init
<1>1. op \in {"idle", "new_tree"} /\ recs = EmptyTree
  BY DEF Init
<1>2. Map!Address = Address
  BY DEF Map!Address, Address, Bit
<1>3. CASE op = "new_tree"
  BY <1>2, <1>3, AbsentIs DEF AbsentMap, AtRest, Map!Init, Map!Nothing, Map!NoJob
<1>4. CASE op = "idle"
  <2>1. \A p \in Prefix : recs[p].type # "DATA"
    BY <1>1, EmptyFacts
  <2>2. \A a \in Address : KeyIn(recs, a) = NoKey
    BY <1>4, <2>1, TreeOfRecs, NoDataNoKeys
  <2>3. Locked \subseteq Map!Address /\ Closed \subseteq Map!Network
    BY <1>4, IdleIs, LocksAreAddresses DEF IdleMap, LookupInv
  <2>4. AddressKeys = [a \in Address |-> NoKey] /\ Status = "idle" /\ AtRest
    BY <1>4, <2>2, IdleIs DEF IdleMap
  <2> QED BY <1>2, <2>3, <2>4 DEF AtRest, Map!Init, Map!Nothing, Map!NoJob
<1> QED BY <1>1, <1>3, <1>4

\* The search tree implements the map from addresses to data: a call combines
\* its record exactly once with every address of its networks that is neither
\* reserved nor aliased, and nothing else it does to the tree - splitting,
\* marking, trimming - changes the data of any address.
THEOREM TreeImplementsMap == Spec => ImplementsMap
<1>1. Init /\ TableInv /\ LookupInv => Map!Init
  BY InitMaps
<1>2. TableInv /\ TableInv' /\ LookupInv /\ LookupInv' /\ MapInv /\ [Next]_vars
         => [Map!Next]_(Map!vars)
  BY StepMaps
<1> QED BY <1>1, <1>2, TableInvAlways, LookupInvAlways, MapInvAlways, PTL
    DEF Spec, ImplementsMap, Map!Spec

=============================================================================
