-------------------------- MODULE SearchTree_proofs --------------------------
(***************************************************************************)
(* The search tree keeps its types, and what is fixed stays fixed: for     *)
(* every address width, every set of keys, every merge function and every  *)
(* list of aliases and reserved networks.                                  *)
(*                                                                         *)
(* TypeOK and FixedPath are not inductive: that a node has room for its    *)
(* children, and that the path down to a fixed record is marked, depend on *)
(* what the queue may hold and how far the recursion has gone.  Inv says   *)
(* so.                                                                     *)
(*                                                                         *)
(* The records always form a tree, and the reference counts of the data    *)
(* table are right: never too low, so that no value is deleted while a     *)
(* record points to it, and exact where no merge fails below the top       *)
(* level of the values, so that nothing is left once the tree is freed.    *)
(* Where no merge fails at all, no call leaves a node to be trimmed.       *)
(***************************************************************************)
EXTENDS SearchTree, FiniteSetTheorems, SequenceTheorems, WellFoundedInduction, TLAPS

-----------------------------------------------------------------------------
(* Positions *)

\* A position is a sequence of at most W bits.
LEMMA PrefixIsSeq ==
    \A p : p \in Prefix <=> p \in Seq(Bit) /\ Len(p) <= W
<1>1. ASSUME NEW p \in Prefix PROVE p \in Seq(Bit) /\ Len(p) <= W
  <2>1. PICK n \in 0..W : p \in [1..n -> Bit]
    BY DEF Prefix
  <2>2. n \in Nat
    BY WidthAssumption
  <2>3. p \in Seq(Bit) /\ Len(p) = n
    BY <2>1, <2>2
  <2> QED BY <2>3, WidthAssumption
<1>2. ASSUME NEW p \in Seq(Bit), Len(p) <= W PROVE p \in Prefix
  <2>1. Len(p) \in 0..W /\ p \in [1..Len(p) -> Bit]
    BY <1>2, WidthAssumption, LenProperties
  <2> QED BY <2>1 DEF Prefix
<1> QED BY <1>1, <1>2

\* The root is the position of length 0.
LEMMA RootIsPrefix == << >> \in Prefix /\ Len(<< >>) = 0
<1>1. << >> \in Seq(Bit) /\ Len(<< >>) = 0
  BY EmptySeq
<1>2. 0 <= W
  BY WidthAssumption
<1> QED BY <1>1, <1>2, PrefixIsSeq

\* The child of a position above the last bit is a position, one bit longer.
LEMMA ChildIsPrefix ==
    ASSUME NEW p \in Prefix, NEW b \in Bit, Len(p) < W
    PROVE  /\ Child(p, b) \in Prefix
           /\ Len(Child(p, b)) = Len(p) + 1
           /\ \A i \in 1..Len(p) : Child(p, b)[i] = p[i]
           /\ Child(p, b)[Len(p) + 1] = b
<1>1. p \in Seq(Bit) /\ Len(p) \in Nat
  BY PrefixIsSeq, LenProperties
<1>2. Append(p, b) \in Seq(Bit) /\ Len(Append(p, b)) = Len(p) + 1
  BY <1>1, AppendProperties
<1>3. \A i \in 1..Len(p) : Append(p, b)[i] = p[i]
  BY <1>1, AppendProperties
<1>4. Append(p, b)[Len(p) + 1] = b
  BY <1>1, AppendProperties
<1>5. Len(Append(p, b)) <= W
  BY <1>1, <1>2, WidthAssumption
<1> QED BY <1>2, <1>3, <1>4, <1>5, PrefixIsSeq DEF Child

\* The parent of a position other than the root is a position, one bit shorter.
LEMMA ParentIsPrefix ==
    ASSUME NEW p \in Prefix, p # << >>
    PROVE  /\ Parent(p) \in Prefix
           /\ Len(Parent(p)) = Len(p) - 1
           /\ Len(p) \in 1..W
           /\ \A i \in 1..(Len(p) - 1) : Parent(p)[i] = p[i]
<1>1. p \in Seq(Bit) /\ Len(p) \in Nat /\ p \in [1..Len(p) -> Bit] /\ Len(p) <= W
  BY PrefixIsSeq, LenProperties
<1>2. Len(p) # 0
  BY <1>1, EmptySeq, SeqEqual
<1>3. \A i \in 1..(Len(p) - 1) : p[i] \in Bit
  BY <1>1, <1>2
<1>4. /\ SubSeq(p, 1, Len(p) - 1) \in Seq(Bit)
      /\ Len(SubSeq(p, 1, Len(p) - 1)) = Len(p) - 1
      /\ \A i \in 1..(Len(p) - 1) : SubSeq(p, 1, Len(p) - 1)[i] = p[i]
  BY <1>1, <1>2, <1>3, SubSeqProperties
<1>5. Len(p) - 1 <= W /\ Len(p) \in 1..W
  BY <1>1, <1>2, WidthAssumption
<1>6. SubSeq(p, 1, Len(p) - 1) \in Prefix
  BY <1>4, <1>5, PrefixIsSeq
<1> QED BY <1>4, <1>5, <1>6 DEF Parent

\* A position has at most W bits.
LEMMA PrefixLength == \A p \in Prefix : Len(p) \in Nat /\ Len(p) <= W
BY PrefixIsSeq, LenProperties

-----------------------------------------------------------------------------
(* There are finitely many positions, so the records of a subtree can be   *)
(* counted.                                                                *)

\* There are finitely many positions of each length: a position is the set of
\* its 1 bits.
LEMMA SameLengthFinite ==
    ASSUME NEW n \in Nat
    PROVE  IsFiniteSet([1..n -> Bit])
<1> DEFINE Ones == [f \in [1..n -> Bit] |-> {i \in 1..n : f[i] = 1}]
<1>1. IsFiniteSet(SUBSET (1..n))
  <2>1. IsFiniteSet(1..n)
    BY FS_Interval
  <2> QED BY <2>1, FS_SUBSET
<1>2. Ones \in [[1..n -> Bit] -> SUBSET (1..n)]
  OBVIOUS
<1>3. ASSUME NEW f \in [1..n -> Bit], NEW g \in [1..n -> Bit], Ones[f] = Ones[g]
      PROVE  f = g
  <2>1. \A i \in 1..n : i \in Ones[f] <=> i \in Ones[g]
    BY <1>3
  <2>2. \A i \in 1..n : f[i] \in {0, 1} /\ g[i] \in {0, 1}
    BY DEF Bit
  <2>3. \A i \in 1..n : f[i] = 1 <=> g[i] = 1
    BY <2>1
  <2>4. \A i \in 1..n : f[i] = g[i]
    BY <2>2, <2>3
  <2> QED BY <2>4
<1>4. Ones \in Injection([1..n -> Bit], SUBSET (1..n))
  BY <1>2, <1>3 DEF Injection, IsInjective
<1> QED BY <1>1, <1>4, FS_Injection

\* A tree has finitely many positions.
LEMMA PrefixFinite == IsFiniteSet(Prefix)
<1> DEFINE Family == {[1..n -> Bit] : n \in 0..W}
           OfLength == [n \in 0..W |-> [1..n -> Bit]]
<1>1. IsFiniteSet(0..W)
  BY FS_Interval, WidthAssumption
<1>2. OfLength \in Surjection(0..W, Family)
  BY DEF Surjection
<1>3. IsFiniteSet(Family)
  BY <1>1, <1>2, FS_Surjection
<1>4. \A T \in Family : IsFiniteSet(T)
  <2>1. \A n \in 0..W : n \in Nat
    BY WidthAssumption
  <2>2. \A n \in 0..W : IsFiniteSet([1..n -> Bit])
    BY <2>1, SameLengthFinite
  <2> QED BY <2>2
<1>5. IsFiniteSet(UNION Family)
  BY <1>3, <1>4, FS_UNION
<1> QED BY <1>5 DEF Prefix

\* Any set of positions can be counted.
LEMMA PositionsCounted ==
    ASSUME NEW S \in SUBSET Prefix
    PROVE  IsFiniteSet(S) /\ Cardinality(S) \in Nat
BY PrefixFinite, FS_Subset, FS_CardinalityType

-----------------------------------------------------------------------------
(* The order of positions                                                  *)

\* Covers is a partial order with the root below everything, and the
\* positions above a given one are ordered.
LEMMA CoversOrder ==
    /\ \A p \in Prefix : Covers(p, p) /\ Covers(<< >>, p)
    /\ \A p, q \in Prefix : Covers(p, q) /\ Covers(q, p) => p = q
    /\ \A p, q, r \in Prefix : Covers(p, q) /\ Covers(q, r) => Covers(p, r)
    /\ \A p, q, r \in Prefix :
          Covers(p, r) /\ Covers(q, r) => Covers(p, q) \/ Covers(q, p)
<1>1. \A p \in Prefix : Len(p) \in Nat /\ p \in Seq(Bit)
  BY PrefixIsSeq, LenProperties
<1>2. \A p \in Prefix : Covers(p, p) /\ Covers(<< >>, p)
  BY <1>1, RootIsPrefix DEF Covers
<1>3. \A p, q \in Prefix : Covers(p, q) /\ Covers(q, p) => p = q
  <2>1. TAKE p, q \in Prefix
  <2>2. HAVE Covers(p, q) /\ Covers(q, p)
  <2>3. Len(p) = Len(q) /\ \A i \in 1..Len(p) : p[i] = q[i]
    BY <1>1, <2>2 DEF Covers
  <2> QED BY <1>1, <2>3, SeqEqual
<1>4. \A p, q, r \in Prefix : Covers(p, q) /\ Covers(q, r) => Covers(p, r)
  <2>1. TAKE p, q, r \in Prefix
  <2>2. HAVE Covers(p, q) /\ Covers(q, r)
  <2>3. Len(p) <= Len(q) /\ Len(q) <= Len(r)
    BY <2>2 DEF Covers
  <2>4. \A i \in 1..Len(p) : i \in 1..Len(q) /\ p[i] = q[i]
    BY <1>1, <2>2, <2>3 DEF Covers
  <2>5. \A i \in 1..Len(q) : q[i] = r[i]
    BY <2>2 DEF Covers
  <2> QED BY <1>1, <2>3, <2>4, <2>5 DEF Covers
<1>5. \A p, q, r \in Prefix :
         Covers(p, r) /\ Covers(q, r) => Covers(p, q) \/ Covers(q, p)
  <2>1. TAKE p, q, r \in Prefix
  <2>2. HAVE Covers(p, r) /\ Covers(q, r)
  <2>3. \A i \in 1..Len(p) : p[i] = r[i]
    BY <2>2 DEF Covers
  <2>4. \A i \in 1..Len(q) : q[i] = r[i]
    BY <2>2 DEF Covers
  <2>5. CASE Len(p) <= Len(q)
    <3>1. \A i \in 1..Len(p) : i \in 1..Len(q)
      BY <1>1, <2>5
    <3> QED BY <2>3, <2>4, <2>5, <3>1 DEF Covers
  <2>6. CASE Len(q) <= Len(p)
    <3>1. \A i \in 1..Len(q) : i \in 1..Len(p)
      BY <1>1, <2>6
    <3> QED BY <2>3, <2>4, <2>6, <3>1 DEF Covers
  <2> QED BY <1>1, <2>5, <2>6
<1> QED BY <1>2, <1>3, <1>4, <1>5

\* Of two positions that differ, the one that covers the other is shorter.
LEMMA BelowIsCovers ==
    ASSUME NEW p \in Prefix, NEW q \in Prefix
    PROVE  /\ Below(p, q) <=> Covers(p, q) /\ p # q
           /\ Covers(p, q) => Len(p) <= Len(q)
<1>1. Len(p) \in Nat /\ Len(q) \in Nat /\ p \in Seq(Bit) /\ q \in Seq(Bit)
  BY PrefixIsSeq, LenProperties
<1>2. ASSUME Covers(p, q), Len(p) = Len(q) PROVE p = q
  BY <1>1, <1>2, SeqEqual DEF Covers
<1> QED BY <1>1, <1>2 DEF Below, Covers

\* The positions above a child are its parent's and the parent itself.
LEMMA AboveChild ==
    ASSUME NEW p \in Prefix, NEW b \in Bit, Len(p) < W, NEW q \in Prefix
    PROVE  /\ Below(p, Child(p, b))
           /\ Below(q, Child(p, b)) <=> Covers(q, p)
           /\ Child(p, b) # << >>
           /\ Parent(Child(p, b)) = p
<1>1. /\ Child(p, b) \in Prefix /\ Len(Child(p, b)) = Len(p) + 1
      /\ \A i \in 1..Len(p) : Child(p, b)[i] = p[i]
  BY ChildIsPrefix
<1>2. /\ Len(p) \in Nat /\ Len(q) \in Nat
      /\ p \in Seq(Bit) /\ Len(Child(p, b)) \in Nat
  BY <1>1, PrefixIsSeq, LenProperties
<1>3. Below(p, Child(p, b))
  BY <1>1, <1>2 DEF Below, Covers
<1>4. ASSUME Below(q, Child(p, b)) PROVE Covers(q, p)
  <2>1. Len(q) <= Len(p) /\ \A i \in 1..Len(q) : q[i] = Child(p, b)[i]
    BY <1>1, <1>2, <1>4 DEF Below, Covers
  <2>2. \A i \in 1..Len(q) : i \in 1..Len(p)
    BY <1>2, <2>1
  <2> QED BY <1>1, <2>1, <2>2 DEF Covers
<1>5. ASSUME Covers(q, p) PROVE Below(q, Child(p, b))
  <2>1. Len(q) <= Len(p) /\ \A i \in 1..Len(q) : q[i] = p[i]
    BY <1>5 DEF Covers
  <2>2. \A i \in 1..Len(q) : i \in 1..Len(p)
    BY <1>2, <2>1
  <2> QED BY <1>1, <1>2, <2>1, <2>2 DEF Below, Covers
<1>6. Child(p, b) # << >>
  BY <1>1, <1>2, RootIsPrefix
<1>7. Parent(Child(p, b)) = p
  <2>1. /\ Parent(Child(p, b)) \in Prefix
        /\ Len(Parent(Child(p, b))) = Len(p)
        /\ \A i \in 1..Len(p) : Parent(Child(p, b))[i] = Child(p, b)[i]
    <3> DEFINE c == Child(p, b)
    <3>1. /\ Parent(c) \in Prefix /\ Len(Parent(c)) = Len(c) - 1
          /\ \A i \in 1..(Len(c) - 1) : Parent(c)[i] = c[i]
      BY <1>1, <1>6, ParentIsPrefix
    <3>2. Len(c) - 1 = Len(p)
      BY <1>1, <1>2
    <3> QED BY <3>1, <3>2
  <2>2. Parent(Child(p, b)) \in Seq(Bit)
    BY <2>1, PrefixIsSeq
  <2> QED BY <1>1, <1>2, <2>1, <2>2, SeqEqual
<1> QED BY <1>3, <1>4, <1>5, <1>6, <1>7

\* A position other than the root is a child of its parent.
LEMMA ChildOfParent ==
    ASSUME NEW p \in Prefix, p # << >>
    PROVE  /\ p[Len(p)] \in Bit
           /\ p = Child(Parent(p), p[Len(p)])
           /\ Len(Parent(p)) < W
<1>1. /\ Parent(p) \in Prefix /\ Len(Parent(p)) = Len(p) - 1
      /\ Len(p) \in 1..W
      /\ \A i \in 1..(Len(p) - 1) : Parent(p)[i] = p[i]
  BY ParentIsPrefix
<1>2. p \in Seq(Bit) /\ p \in [1..Len(p) -> Bit] /\ Len(p) \in Nat
  BY PrefixIsSeq, LenProperties
<1>3. p[Len(p)] \in Bit /\ Len(Parent(p)) < W
  BY <1>1, <1>2, WidthAssumption
<1> DEFINE c == Child(Parent(p), p[Len(p)])
<1>4. /\ c \in Prefix /\ Len(c) = Len(p)
      /\ \A i \in 1..(Len(p) - 1) : c[i] = p[i]
      /\ c[Len(p)] = p[Len(p)]
  BY <1>1, <1>2, <1>3, ChildIsPrefix
<1>5. \A i \in 1..Len(p) : c[i] = p[i]
  BY <1>1, <1>2, <1>4
<1>6. c \in Seq(Bit)
  BY <1>4, PrefixIsSeq
<1>7. c = p
  BY <1>2, <1>4, <1>5, <1>6, SeqEqual
<1> QED BY <1>3, <1>7

-----------------------------------------------------------------------------
(* Records *)

\* A record is its type and, for DATA, its key.
LEMMA RecordFacts ==
    /\ "DATA" \notin PlainTypes
    /\ \A t \in PlainTypes : Plain(t) \in Record /\ Plain(t).type = t
    /\ \A k \in Key : Data(k) \in Record
    /\ \A k : Data(k).type = "DATA" /\ Data(k).key = k
    /\ \A r \in Record : r.type = "DATA" => r.key \in Key /\ r = Data(r.key)
    /\ \A r \in Record : r.type # "DATA" => r.type \in PlainTypes /\ r = Plain(r.type)
    /\ \A r \in Record : r.key \in Key \cup {NoKey}
BY DEF PlainTypes, FixedTypes, Record, Plain, Data

-----------------------------------------------------------------------------
(* The data table *)

Table == [Key -> [count : Int, sv : BOOLEAN]]

\* What each operation of the table does to the counts.
LEMMA DropFacts ==
    ASSUME NEW t \in Table, NEW n \in [Key -> Int]
    PROVE  /\ Drop(t, n) \in Table
           /\ \A j \in Key : Drop(t, n)[j].count = t[j].count - n[j]
<1>1. \A j \in Key : t[j].count \in Int /\ t[j].sv \in BOOLEAN
  BY DEF Table
<1> QED BY <1>1 DEF Drop, Table

\* What taking a reference does to the table.
LEMMA TableFacts ==
    ASSUME NEW t \in Table, NEW k \in Key
    PROVE  /\ Inc(t, k) \in Table
           /\ Store(t, k) \in Table
           /\ Dec(t, k) \in Table
           /\ \A j \in Key :
                /\ Inc(t, k)[j].count = t[j].count + (IF j = k THEN 1 ELSE 0)
                /\ Store(t, k)[j].count = t[j].count + (IF j = k THEN 1 ELSE 0)
                /\ Dec(t, k)[j].count = t[j].count - (IF j = k THEN 1 ELSE 0)
<1>1. \A j \in Key : /\ t[j] = [count |-> t[j].count, sv |-> t[j].sv]
                     /\ t[j].count \in Int /\ t[j].sv \in BOOLEAN
  BY DEF Table
<1>2. /\ Inc(t, k) \in Table
      /\ \A j \in Key : Inc(t, k)[j].count = t[j].count + (IF j = k THEN 1 ELSE 0)
  BY <1>1 DEF Inc, Table
<1>3. /\ Store(t, k) \in Table
      /\ \A j \in Key : Store(t, k)[j].count = t[j].count + (IF j = k THEN 1 ELSE 0)
  BY <1>1 DEF Store, Table
<1>4. /\ Dec(t, k) \in Table
      /\ \A j \in Key : Dec(t, k)[j].count = t[j].count - (IF j = k THEN 1 ELSE 0)
  <2> DEFINE m == [j \in Key |-> IF j = k THEN 1 ELSE 0]
  <2>1. m \in [Key -> Int] /\ \A j \in Key : m[j] = IF j = k THEN 1 ELSE 0
    OBVIOUS
  <2> HIDE DEF m
  <2>2. /\ Drop(t, m) \in Table
        /\ \A j \in Key : Drop(t, m)[j].count = t[j].count - (IF j = k THEN 1 ELSE 0)
    BY <2>1, DropFacts
  <2> QED BY <2>2 DEF Dec, m
<1> QED BY <1>2, <1>3, <1>4

\* The number of records with key k in the subtree at p.
CountBelow(p, k) == Cardinality({q \in Prefix : Covers(p, q) /\ recs[q] = Data(k)})

\* What free_record_value does to the table.
LEMMA ReleaseFacts ==
    ASSUME NEW t \in Table, NEW p
    PROVE  /\ Release(t, p) \in Table
           /\ \A k \in Key : CountBelow(p, k) \in Nat
           /\ \A k \in Key : Release(t, p)[k].count = t[k].count - CountBelow(p, k)
<1> DEFINE n == [k \in Key |-> CountBelow(p, k)]
<1>1. \A k \in Key : CountBelow(p, k) \in Nat
  BY PositionsCounted DEF CountBelow
<1>2. n \in [Key -> Int] /\ \A k \in Key : n[k] = CountBelow(p, k)
  BY <1>1
<1>3. Release(t, p) = Drop(t, n)
  BY DEF Release, CountBelow
<1> HIDE DEF n
<1>4. Drop(t, n) \in Table /\ \A k \in Key : Drop(t, n)[k].count = t[k].count - n[k]
  BY <1>2, DropFacts
<1> QED BY <1>1, <1>2, <1>3, <1>4

-----------------------------------------------------------------------------
(* Reshaping the tree *)

\* Where each record of the tree goes when r is grafted at p.
LEMMA GraftFacts ==
    ASSUME recs \in [Prefix -> Record], NEW p \in Prefix, NEW r \in Record
    PROVE  /\ Graft(p, r) \in [Prefix -> Record]
           /\ Graft(p, r)[p] = r
           /\ \A q \in Prefix : ~Covers(p, q) => Graft(p, r)[q] = recs[q]
           /\ \A q \in Prefix :
                Below(p, q) =>
                    Graft(p, r)[q] = IF r.type = "FIXED_NODE" /\ Len(q) = Len(p) + 1
                                     THEN Plain("EMPTY") ELSE Plain("ABSENT")
<1>1. Plain("EMPTY") \in Record /\ Plain("ABSENT") \in Record
  BY RecordFacts DEF PlainTypes
<1>2. Graft(p, r) \in [Prefix -> Record]
  BY <1>1 DEF Graft
<1>3. \A q \in Prefix : ~Covers(p, q) => q # p
  BY CoversOrder
<1>4. \A q \in Prefix : Below(p, q) => q # p /\ Covers(p, q)
  BY BelowIsCovers
<1> QED BY <1>2, <1>3, <1>4 DEF Graft

\* Where each record goes when the leaf at p is split.
LEMMA SplitFacts ==
    ASSUME recs \in [Prefix -> Record], NEW p \in Prefix, Len(p) < W,
           NEW t \in PlainTypes
    PROVE  /\ Split(p, t) \in [Prefix -> Record]
           /\ Split(p, t)[p] = Plain(t)
           /\ \A b \in Bit : Split(p, t)[Child(p, b)] = recs[p]
           /\ \A q \in Prefix :
                q # p /\ q # Child(p, 0) /\ q # Child(p, 1) => Split(p, t)[q] = recs[q]
<1>1. Plain(t) \in Record
  BY RecordFacts
<1>2. \A b \in Bit : Child(p, b) \in Prefix /\ Child(p, b) # p
  BY ChildIsPrefix, AboveChild, BelowIsCovers
<1>3. 0 \in Bit /\ 1 \in Bit /\ \A b \in Bit : b = 0 \/ b = 1
  BY DEF Bit
<1> QED BY <1>1, <1>2, <1>3 DEF Split

-----------------------------------------------------------------------------
(* Counting up to a bound, one step at a time                              *)

\* A set that holds 0 and, below N, the successor of all it holds, has all the
\* numbers up to N.
LEMMA CountUp ==
    ASSUME NEW N \in Nat, NEW S, 0 \in S,
           \A i \in 0..(N - 1) : i \in S => i + 1 \in S
    PROVE  \A i \in 0..N : i \in S
<1> DEFINE T == {i \in 0..N : i \notin S}
           R == {ss \in Nat \X Nat : ss[1] < ss[2]}
<1> SUFFICES ASSUME T # {} PROVE FALSE
  OBVIOUS
<1>0. IsWellFoundedOn(R, Nat)
  BY NatLessThanWellFounded DEF OpToRel
<1>1. PICK x \in T : \A y \in T : <<y, x>> \notin R
  <2>1. T \subseteq Nat
    OBVIOUS
  <2> HIDE DEF T, R
  <2> QED BY <2>1, <1>0, WFMin
<1>2. \A y \in T : <<y, x>> \in Nat \X Nat
  OBVIOUS
<1>3. x # 0 /\ x - 1 \in 0..(N - 1) /\ x - 1 \notin S
  OBVIOUS
<1>4. x - 1 \in T
  BY <1>3
<1>5. <<x - 1, x>> \in R
  BY <1>2, <1>4
<1> QED BY <1>1, <1>4, <1>5

-----------------------------------------------------------------------------
(* The way down to a position                                              *)

\* The first n bits of a position are a position above it.
LEMMA TopFacts ==
    ASSUME NEW q \in Prefix, NEW n \in 0..Len(q)
    PROVE  /\ SubSeq(q, 1, n) \in Prefix
           /\ Len(SubSeq(q, 1, n)) = n
           /\ Covers(SubSeq(q, 1, n), q)
           /\ \A i \in 1..n : SubSeq(q, 1, n)[i] = q[i]
<1>1. q \in Seq(Bit) /\ Len(q) \in Nat /\ q \in [1..Len(q) -> Bit] /\ Len(q) <= W
  BY PrefixIsSeq, LenProperties
<1>2. n \in Nat /\ n <= Len(q)
  BY <1>1
<1>3. \A i \in 1..n : q[i] \in Bit
  BY <1>1, <1>2
<1>4. /\ SubSeq(q, 1, n) \in Seq(Bit)
      /\ Len(SubSeq(q, 1, n)) = n
      /\ \A i \in 1..n : SubSeq(q, 1, n)[i] = q[i]
  BY <1>2, <1>3, SubSeqProperties
<1>5. SubSeq(q, 1, n) \in Prefix
  <2>1. Len(SubSeq(q, 1, n)) <= W
    BY <1>1, <1>2, <1>4, WidthAssumption
  <2> QED BY <1>4, <2>1, PrefixIsSeq
<1> QED BY <1>2, <1>4, <1>5 DEF Covers

\* A position above another is its first bits.
LEMMA TopOf ==
    ASSUME NEW p \in Prefix, NEW q \in Prefix, Covers(p, q)
    PROVE  Len(p) \in 0..Len(q) /\ p = SubSeq(q, 1, Len(p))
<1>1. Len(p) \in 0..Len(q)
  BY PrefixLength DEF Covers
<1>2. /\ SubSeq(q, 1, Len(p)) \in Prefix /\ Len(SubSeq(q, 1, Len(p))) = Len(p)
      /\ \A i \in 1..Len(p) : SubSeq(q, 1, Len(p))[i] = q[i]
  BY <1>1, TopFacts
<1>3. p \in Seq(Bit) /\ SubSeq(q, 1, Len(p)) \in Seq(Bit)
  BY <1>2, PrefixIsSeq
<1>4. \A i \in 1..Len(p) : p[i] = SubSeq(q, 1, Len(p))[i]
  BY <1>2 DEF Covers
<1> QED BY <1>1, <1>2, <1>3, <1>4, SeqEqual

\* One bit more on the way down to a position.
LEMMA TopChild ==
    ASSUME NEW q \in Prefix, NEW n \in 0..(Len(q) - 1)
    PROVE  /\ q[n + 1] \in Bit
           /\ SubSeq(q, 1, n + 1) = Child(SubSeq(q, 1, n), q[n + 1])
           /\ Len(SubSeq(q, 1, n)) < W
           /\ SubSeq(q, 1, n + 1) # << >>
           /\ Parent(SubSeq(q, 1, n + 1)) = SubSeq(q, 1, n)
<1>1. q \in Seq(Bit) /\ Len(q) \in Nat /\ q \in [1..Len(q) -> Bit] /\ Len(q) <= W
  BY PrefixIsSeq, LenProperties
<1>2. n \in 0..Len(q) /\ n + 1 \in 0..Len(q) /\ n + 1 \in 1..Len(q) /\ n < W /\ n \in Nat
  BY <1>1, WidthAssumption
<1> DEFINE s == SubSeq(q, 1, n)
           c == SubSeq(q, 1, n + 1)
           d == Child(s, q[n + 1])
<1>3. /\ s \in Prefix /\ Len(s) = n /\ \A i \in 1..n : s[i] = q[i]
  BY <1>2, TopFacts
<1>4. /\ c \in Prefix /\ Len(c) = n + 1 /\ \A i \in 1..(n + 1) : c[i] = q[i]
  <2> DEFINE m == n + 1
  <2>1. m \in 0..Len(q)
    BY <1>2
  <2> HIDE DEF m
  <2>2. /\ SubSeq(q, 1, m) \in Prefix /\ Len(SubSeq(q, 1, m)) = m
        /\ \A i \in 1..m : SubSeq(q, 1, m)[i] = q[i]
    BY <2>1, TopFacts
  <2> QED BY <2>2 DEF m
<1>5. q[n + 1] \in Bit
  BY <1>1, <1>2
<1> HIDE DEF s, c
<1>6. /\ d \in Prefix /\ Len(d) = n + 1 /\ d # << >> /\ Parent(d) = s
      /\ \A i \in 1..n : d[i] = s[i]
      /\ d[n + 1] = q[n + 1]
  BY <1>2, <1>3, <1>5, ChildIsPrefix, AboveChild
<1>7. \A i \in 1..(n + 1) : d[i] = c[i]
  BY <1>2, <1>3, <1>4, <1>6
<1>8. c \in Seq(Bit) /\ d \in Seq(Bit)
  BY <1>4, <1>6, PrefixIsSeq
<1> HIDE DEF d
<1>9. c = d
  BY <1>4, <1>6, <1>7, <1>8, SeqEqual
<1>10. Len(s) < W
  BY <1>2, <1>3
<1> QED BY <1>5, <1>6, <1>9, <1>10 DEF s, c, d

\* The child on the way from a position to another below it.
LEMMA ChildToward ==
    ASSUME NEW p \in Prefix, NEW q \in Prefix, Below(p, q)
    PROVE  /\ q[Len(p) + 1] \in Bit /\ Len(p) < W
           /\ Covers(Child(p, q[Len(p) + 1]), q)
<1> DEFINE n == Len(p)
<1>1. Len(q) \in Nat /\ n \in Nat /\ n < Len(q) /\ Covers(p, q)
  BY PrefixLength DEF Below
<1>2. p = SubSeq(q, 1, n)
  BY <1>1, TopOf
<1> HIDE DEF n
<1>3. n \in 0..(Len(q) - 1)
  BY <1>1
<1>4. /\ q[n + 1] \in Bit
      /\ SubSeq(q, 1, n + 1) = Child(p, q[n + 1])
      /\ Len(p) < W
  BY <1>2, <1>3, TopChild
<1> DEFINE m == n + 1
<1>5. m \in 0..Len(q)
  BY <1>1
<1> HIDE DEF m
<1>6. Covers(SubSeq(q, 1, m), q)
  BY <1>5, TopFacts
<1> QED BY <1>4, <1>6 DEF m, n

\* An address is a position of full length.
LEMMA AddressIsPrefix ==
    \A a : a \in Address <=> a \in Prefix /\ Len(a) = W
<1>1. W \in Nat /\ W \in 0..W
  BY WidthAssumption
<1>2. ASSUME NEW a \in Address PROVE a \in Prefix /\ Len(a) = W
  <2>1. a \in [1..W -> Bit]
    BY DEF Address
  <2>2. a \in Prefix
    BY <1>1, <2>1 DEF Prefix
  <2> QED BY <1>1, <2>1, <2>2
<1>3. ASSUME NEW a \in Prefix, Len(a) = W PROVE a \in Address
  BY <1>3, PrefixIsSeq, LenProperties DEF Address
<1> QED BY <1>2, <1>3

\* Every position has addresses below it.
LEMMA AddressBelow ==
    ASSUME NEW p \in Prefix
    PROVE  \E a \in Address : Covers(p, a)
<1> DEFINE a == [i \in 1..W |-> IF i <= Len(p) THEN p[i] ELSE 0]
<1>1. /\ p \in [1..Len(p) -> Bit] /\ Len(p) \in Nat /\ Len(p) <= W
  BY PrefixIsSeq, LenProperties
<1>2. \A i \in 1..W : i <= Len(p) => i \in 1..Len(p)
  BY <1>1
<1>3. a \in Address
  BY <1>1, <1>2 DEF Address, Bit
<1>4. Len(a) = W
  BY <1>3, AddressIsPrefix
<1>5. \A i \in 1..Len(p) : p[i] = a[i]
  BY <1>1, WidthAssumption
<1>6. Covers(p, a)
  BY <1>1, <1>4, <1>5 DEF Covers
<1> QED BY <1>3, <1>6

-----------------------------------------------------------------------------
(* The leaves of a tree                                                    *)

\* The records t form a tree; its nodes have room for their children.
IsTree(t) ==
    /\ t \in [Prefix -> Record]
    /\ \A p \in Prefix : t[p].type # "ABSENT" <=> p = << >> \/ HasNode(t[Parent(p)])
    /\ \A p \in Prefix : HasNode(t[p]) => Len(p) < W

IsLeaf(r) == r.type # "ABSENT" /\ ~HasNode(r)

\* Above a record there are nodes only.
LEMMA NodesAbove ==
    ASSUME NEW t, IsTree(t), NEW p \in Prefix, NEW q \in Prefix,
           t[q].type # "ABSENT", Below(p, q)
    PROVE  HasNode(t[p])
<1> DEFINE top(n) == SubSeq(q, 1, n)
           S == {k \in 0..Len(q) : t[top(Len(q) - k)].type # "ABSENT"}
<1>1. Len(q) \in Nat /\ Len(p) \in Nat /\ Len(p) < Len(q) /\ Covers(p, q)
  BY PrefixLength DEF Below
<1>2. /\ Len(p) \in 0..Len(q) /\ p = top(Len(p))
      /\ Len(q) \in 0..Len(q) /\ q = top(Len(q))
  BY <1>1, TopOf, CoversOrder
<1>3. ASSUME NEW n \in 0..(Len(q) - 1), t[top(n + 1)].type # "ABSENT"
      PROVE  HasNode(t[top(n)])
  <2>1. n + 1 \in 0..Len(q)
    BY <1>1
  <2>2. top(n + 1) \in Prefix
    BY <2>1, TopFacts
  <2>3. top(n + 1) # << >> /\ Parent(top(n + 1)) = top(n)
    BY TopChild
  <2> HIDE DEF top
  <2> QED BY <1>3, <2>2, <2>3 DEF IsTree
<1>4. 0 \in S
  <2>1. 0 \in 0..Len(q) /\ Len(q) - 0 = Len(q)
    BY <1>1
  <2>2. t[top(Len(q) - 0)].type # "ABSENT"
    BY <1>2, <2>1
  <2> QED BY <2>1, <2>2
<1>5. \A i \in 0..(Len(q) - 1) : i \in S => i + 1 \in S
  <2> SUFFICES ASSUME NEW i \in 0..(Len(q) - 1), i \in S PROVE i + 1 \in S
    OBVIOUS
  <2> DEFINE n == Len(q) - (i + 1)
  <2>1. n \in 0..(Len(q) - 1) /\ n + 1 = Len(q) - i /\ i + 1 \in 0..Len(q)
    BY <1>1
  <2>2. t[top(n + 1)].type # "ABSENT"
    BY <2>1
  <2> HIDE DEF top, n
  <2>3. HasNode(t[top(n)])
    BY <1>3, <2>1, <2>2
  <2>4. t[top(n)].type # "ABSENT"
    BY <2>3 DEF HasNode
  <2> QED BY <2>1, <2>4 DEF n
<1> HIDE DEF S
<1>6. \A i \in 0..Len(q) : i \in S
  BY <1>1, <1>4, <1>5, CountUp
<1> DEFINE m == Len(p) + 1
<1>7. m \in 0..Len(q) /\ Len(p) \in 0..(Len(q) - 1) /\ Len(q) - m \in 0..Len(q)
      /\ Len(q) - (Len(q) - m) = m
  BY <1>1
<1>8. t[top(m)].type # "ABSENT"
  <2>1. Len(q) - m \in S
    BY <1>6, <1>7
  <2> HIDE DEF top, m
  <2> QED BY <1>7, <2>1 DEF S
<1> HIDE DEF top
<1> QED BY <1>2, <1>3, <1>7, <1>8

\* An address lies in exactly one leaf.
LEMMA OneLeaf ==
    ASSUME NEW t, IsTree(t), NEW a \in Address
    PROVE  /\ \E p \in Prefix : Covers(p, a) /\ IsLeaf(t[p])
           /\ \A p, q \in Prefix :
                Covers(p, a) /\ IsLeaf(t[p]) /\ Covers(q, a) /\ IsLeaf(t[q]) => p = q
<1>1. a \in Prefix /\ Len(a) = W /\ W \in Nat
  BY AddressIsPrefix, WidthAssumption
<1>2. \E p \in Prefix : Covers(p, a) /\ IsLeaf(t[p])
  <2> SUFFICES ASSUME \A p \in Prefix : Covers(p, a) => ~IsLeaf(t[p]) PROVE FALSE
    OBVIOUS
  <2> DEFINE top(n) == SubSeq(a, 1, n)
             S == {n \in 0..W : HasNode(t[top(n)])}
  <2>1. ASSUME NEW n \in 0..W, t[top(n)].type # "ABSENT" PROVE n \in S
    <3>1. top(n) \in Prefix /\ Covers(top(n), a)
      <4>1. n \in 0..Len(a)
        BY <1>1
      <4> QED BY <1>1, <4>1, TopFacts
    <3> QED BY <2>1, <3>1 DEF IsLeaf
  <2>2. 0 \in S
    <3>1. 0 \in 0..W /\ top(0) = << >>
      BY <1>1, SubSeqEmpty
    <3>2. t[<< >>].type # "ABSENT"
      BY RootIsPrefix DEF IsTree
    <3> HIDE DEF top
    <3>3. t[top(0)].type # "ABSENT"
      BY <3>1, <3>2
    <3> QED BY <2>1, <3>1, <3>3
  <2>3. \A i \in 0..(W - 1) : i \in S => i + 1 \in S
    <3> SUFFICES ASSUME NEW i \in 0..(W - 1), i \in S PROVE i + 1 \in S
      OBVIOUS
    <3> DEFINE m == i + 1
    <3>1. m \in 0..W /\ i \in 0..(Len(a) - 1) /\ m \in 0..Len(a)
      BY <1>1
    <3>2. top(m) \in Prefix
      BY <1>1, <3>1, TopFacts
    <3>3. top(m) # << >> /\ Parent(top(m)) = top(i)
      BY <1>1, <3>1, TopChild
    <3>4. HasNode(t[top(i)])
      OBVIOUS
    <3> HIDE DEF top, m, S
    <3>5. t[top(m)].type # "ABSENT"
      BY <3>2, <3>3, <3>4 DEF IsTree
    <3> QED BY <2>1, <3>1, <3>5 DEF m
  <2> HIDE DEF S
  <2>4. W \in S
    <3>1. \A i \in 0..W : i \in S
      BY <1>1, <2>2, <2>3, CountUp
    <3> QED BY <1>1, <3>1
  <2>5. W \in 0..Len(a) /\ HasNode(t[top(W)])
    BY <1>1, <2>4 DEF S
  <2>6. top(W) \in Prefix /\ Len(top(W)) = W
    BY <1>1, <2>5, TopFacts
  <2> HIDE DEF top
  <2> QED BY <1>1, <2>5, <2>6 DEF IsTree
<1>3. ASSUME NEW p \in Prefix, NEW q \in Prefix,
             Covers(p, a), IsLeaf(t[p]), Covers(q, a), IsLeaf(t[q])
      PROVE  p = q
  <2>1. Covers(p, q) \/ Covers(q, p)
    BY <1>1, <1>3, CoversOrder
  <2>2. ~Below(p, q) /\ ~Below(q, p)
    BY <1>3, NodesAbove DEF IsLeaf
  <2> QED BY <2>1, <2>2, BelowIsCovers
<1> QED BY <1>2, <1>3

-----------------------------------------------------------------------------
(* What the queue and the recursion keep to                                *)

\* A freed tree has no records.
FreedEmpty == op = "freed" => recs = NoTree

\* A call in progress has a record to insert.  Only new_tree inserts fixed
\* ones, without merging, and a FIXED_NODE above the last bit.
QueueOK ==
    /\ op \in Running => queue # << >>
    /\ \A i \in 1..Len(queue) :
          \/ queue[i].rec.type \in {"EMPTY", "DATA"}
          \/ strategy = "none" /\ queue[i].rec.type \in {"ALIAS", "FIXED_EMPTY"}
          \/ /\ strategy = "none" /\ queue[i].rec.type = "FIXED_NODE"
             /\ Len(queue[i].net) < W

\* Between calls the recursion is at the root; a FIXED_NODE goes no deeper
\* than its network.
CursorOK ==
    /\ op \notin Running => at = << >>
    /\ op \in Running /\ new.type = "FIXED_NODE" => Len(at) <= Len(net)

\* A node has room for its children.
Depth == \A p \in Prefix : HasNode(recs[p]) => Len(p) < W

\* On its way down to a fixed record the recursion marks every node.
PathFixed ==
    op \in Running /\ new.type \in FixedTypes =>
        \A p \in Prefix : Below(p, at) => recs[p].type = "FIXED_NODE"

Inv ==
    /\ TypeOK /\ FreedEmpty /\ QueueOK /\ CursorOK /\ Depth /\ PathFixed
    /\ FixedPath

-----------------------------------------------------------------------------
(* The queue *)

\* The first record of a call in progress, and what is left after it.
LEMMA QueueFacts ==
    ASSUME queue \in Seq(Item), queue # << >>
    PROVE  /\ Len(queue) \in Nat \ {0}
           /\ net \in Prefix /\ new \in Record
           /\ net = queue[1].net /\ new = queue[1].rec
           /\ Tail(queue) \in Seq(Item)
           /\ Len(Tail(queue)) = Len(queue) - 1
           /\ \A i \in 1..Len(Tail(queue)) :
                i + 1 \in 1..Len(queue) /\ Tail(queue)[i] = queue[i + 1]
<1>1. Len(queue) \in Nat \ {0} /\ queue[1] \in Item /\ Head(queue) = queue[1]
  BY EmptySeq, ElementOfSeq
<1>2. /\ Tail(queue) \in Seq(Item) /\ Len(Tail(queue)) = Len(queue) - 1
      /\ \A i \in 1..Len(Tail(queue)) : Tail(queue)[i] = queue[i + 1]
  BY HeadTailProperties
<1>3. \A i \in 1..Len(Tail(queue)) : i + 1 \in 1..Len(queue)
  BY <1>1, <1>2
<1> QED BY <1>1, <1>2, <1>3 DEF Item, net, new

\* The queue made of a list of networks and one record.
LEMMA ItemsFacts ==
    ASSUME NEW nets \in Seq(Prefix), NEW r \in Record
    PROVE  /\ Items(nets, r) \in Seq(Item)
           /\ Len(Items(nets, r)) = Len(nets)
           /\ \A i \in 1..Len(nets) :
                nets[i] \in Prefix /\ Items(nets, r)[i] = [net |-> nets[i], rec |-> r]
<1>1. Len(nets) \in Nat /\ \A i \in 1..Len(nets) : nets[i] \in Prefix
  BY LenProperties
<1>2. Items(nets, r) \in [1..Len(nets) -> Item]
  BY <1>1 DEF Items, Item
<1>3. Items(nets, r) \in Seq(Item)
  BY <1>1, <1>2
<1>4. Len(Items(nets, r)) = Len(nets)
  BY <1>1, <1>2, <1>3, LenProperties
<1> QED BY <1>1, <1>3, <1>4 DEF Items

\* What new_tree inserts: fixed records, the FIXED_NODE above the last bit.
LEMMA NewTreeQueueFacts ==
    ASSUME NEW o \in Options
    PROVE  /\ NewTreeQueue(o) \in Seq(Item)
           /\ \A i \in 1..Len(NewTreeQueue(o)) :
                LET it == NewTreeQueue(o)[i]
                IN  \/ it.rec.type \in {"ALIAS", "FIXED_EMPTY"}
                    \/ it.rec.type = "FIXED_NODE" /\ Len(it.net) < W
<1> DEFINE Good(it) == \/ it.rec.type \in {"ALIAS", "FIXED_EMPTY"}
                       \/ it.rec.type = "FIXED_NODE" /\ Len(it.net) < W
           AllGood(q) == q \in Seq(Item) /\ \A i \in 1..Len(q) : Good(q[i])
<1>1. \A t \in FixedTypes : Plain(t) \in Record /\ Plain(t).type = t
  BY RecordFacts DEF PlainTypes
<1>2. AllGood(<< >>)
  BY EmptySeq
<1>3. ASSUME NEW q, NEW r, AllGood(q), AllGood(r) PROVE AllGood(q \o r)
  <2>1. /\ q \o r \in Seq(Item) /\ Len(q \o r) = Len(q) + Len(r)
        /\ \A i \in 1..(Len(q) + Len(r)) :
              (q \o r)[i] = IF i <= Len(q) THEN q[i] ELSE r[i - Len(q)]
    BY <1>3, ConcatProperties
  <2>2. Len(q) \in Nat /\ Len(r) \in Nat
    BY <1>3, LenProperties
  <2>3. ASSUME NEW i \in 1..Len(q \o r) PROVE Good((q \o r)[i])
    <3>1. CASE i <= Len(q)
      <4>1. i \in 1..Len(q) /\ (q \o r)[i] = q[i]
        BY <2>1, <2>2, <2>3, <3>1
      <4> QED BY <1>3, <4>1
    <3>2. CASE ~(i <= Len(q))
      <4>1. i - Len(q) \in 1..Len(r) /\ (q \o r)[i] = r[i - Len(q)]
        BY <2>1, <2>2, <2>3, <3>2
      <4> QED BY <1>3, <4>1
    <3> QED BY <3>1, <3>2
  <2> QED BY <2>1, <2>3
<1>4. AllGood(Items(<<V4Root>>, Plain("FIXED_NODE")))
  <2>1. <<V4Root>> \in Seq(Prefix) /\ Len(<<V4Root>>) = 1 /\ <<V4Root>>[1] = V4Root
    BY NetworkAssumption
  <2>2. Plain("FIXED_NODE") \in Record /\ Plain("FIXED_NODE").type = "FIXED_NODE"
    BY <1>1 DEF FixedTypes
  <2> DEFINE s == <<V4Root>>
             f == Items(s, Plain("FIXED_NODE"))
  <2>3. s \in Seq(Prefix) /\ Len(s) = 1 /\ s[1] = V4Root
    BY <2>1
  <2> HIDE DEF s
  <2>4. /\ f \in Seq(Item) /\ Len(f) = Len(s)
        /\ \A i \in 1..Len(s) : f[i] = [net |-> s[i], rec |-> Plain("FIXED_NODE")]
    BY <2>2, <2>3, ItemsFacts
  <2> HIDE DEF f
  <2>5. \A i \in 1..Len(f) : f[i].rec.type = "FIXED_NODE" /\ f[i].net = V4Root
    BY <2>2, <2>3, <2>4
  <2>6. AllGood(f)
    BY <2>4, <2>5, NetworkAssumption
  <2> QED BY <2>6 DEF s, f
<1>5. ASSUME NEW nets \in Seq(Prefix), NEW t \in {"ALIAS", "FIXED_EMPTY"}
      PROVE  AllGood(Items(nets, Plain(t)))
  <2> DEFINE r == Plain(t)
             f == Items(nets, r)
  <2>1. r \in Record /\ r.type = t
    BY <1>1 DEF FixedTypes
  <2> HIDE DEF r
  <2>2. /\ f \in Seq(Item) /\ Len(f) = Len(nets)
        /\ \A i \in 1..Len(nets) : f[i] = [net |-> nets[i], rec |-> r]
    BY <2>1, ItemsFacts
  <2> HIDE DEF f
  <2>3. ASSUME NEW i \in 1..Len(f) PROVE f[i].rec.type = t
    <3>1. i \in 1..Len(nets)
      BY <2>2
    <3>2. f[i] = [net |-> nets[i], rec |-> r]
      BY <2>2, <3>1
    <3>3. f[i].rec = r
      BY <3>2
    <3> QED BY <2>1, <3>3
  <2>4. AllGood(f)
    BY <2>2, <2>3
  <2> QED BY <2>4 DEF f, r
<1>6. AllGood(Items(Aliases, Plain("ALIAS"))) /\ AllGood(Items(Reserved, Plain("FIXED_EMPTY")))
  BY <1>5, NetworkAssumption
<1> HIDE DEF AllGood
<1>7. AllGood(AliasItems(o)) /\ AllGood(ReservedItems(o))
  BY <1>2, <1>3, <1>4, <1>6 DEF AliasItems, ReservedItems
<1>8. AllGood(NewTreeQueue(o))
  BY <1>3, <1>7 DEF NewTreeQueue
<1> QED BY <1>8 DEF AllGood

-----------------------------------------------------------------------------
(* How the tree's own invariants survive the reshapings                    *)

\* A subtree whose root is not fixed holds nothing fixed, so that grafting a
\* record over it loses nothing fixed.
LEMMA GraftKeepsFixed ==
    ASSUME recs \in [Prefix -> Record], FixedPath, Depth,
           NEW p \in Prefix, NEW r \in Record,
           recs[p].type \notin FixedTypes,
           HasNode(r) => Len(p) < W,
           r.type \in FixedTypes =>
               \A q \in Prefix : Below(q, p) => recs[q].type = "FIXED_NODE",
           recs' = Graft(p, r)
    PROVE  /\ recs' \in [Prefix -> Record]
           /\ FixedPath' /\ Depth'
           /\ \A q \in Prefix : recs[q].type \in FixedTypes => recs'[q] = recs[q]
           /\ \A q \in Prefix : Below(q, p) => recs'[q] = recs[q]
<1>1. /\ recs' \in [Prefix -> Record] /\ recs'[p] = r
      /\ \A q \in Prefix : ~Covers(p, q) => recs'[q] = recs[q]
      /\ \A q \in Prefix :
            Below(p, q) => recs'[q].type \notin FixedTypes /\ ~HasNode(recs'[q])
  <2>1. /\ Plain("EMPTY").type = "EMPTY" /\ Plain("ABSENT").type = "ABSENT"
    BY RecordFacts DEF PlainTypes
  <2> QED BY <2>1, GraftFacts DEF FixedTypes, HasNode
<1>2. \A q \in Prefix : Covers(p, q) => recs[q].type \notin FixedTypes
  <2>1. \A q \in Prefix : Below(p, q) => recs[q].type \notin FixedTypes
    BY DEF FixedPath, FixedTypes
  <2> QED BY <2>1, BelowIsCovers
<1>3. \A q \in Prefix : recs[q].type \in FixedTypes => recs'[q] = recs[q]
  BY <1>1, <1>2
<1>4. \A q \in Prefix : Below(q, p) => recs'[q] = recs[q]
  <2>1. \A q \in Prefix : Below(q, p) => ~Covers(p, q)
    BY BelowIsCovers, CoversOrder
  <2> QED BY <1>1, <2>1
<1>5. \A q \in Prefix : Covers(p, q) => q = p \/ Below(p, q)
  BY BelowIsCovers
<1>6. Depth'
  BY <1>1, <1>5 DEF Depth, HasNode
<1>7. FixedPath'
  <2> SUFFICES ASSUME NEW s \in Prefix, NEW q \in Prefix,
                      Below(s, q), recs'[q].type \in FixedTypes
               PROVE  recs'[s].type = "FIXED_NODE"
    BY DEF FixedPath
  <2>1. CASE q = p
    BY <1>1, <1>4, <2>1 DEF FixedTypes
  <2>2. CASE q # p
    <3>1. ~Covers(p, q)
      BY <1>1, <1>5, <2>2
    <3>2. ~Covers(p, s)
      BY <3>1, BelowIsCovers, CoversOrder
    <3>3. recs'[q] = recs[q] /\ recs'[s] = recs[s]
      BY <1>1, <3>1, <3>2
    <3> QED BY <3>3 DEF FixedPath
  <2> QED BY <2>1, <2>2
<1> QED BY <1>1, <1>3, <1>4, <1>6, <1>7

\* Going on to the next node keeps everything fixed, and marks the node on the
\* way to a fixed record.
LEMMA DescendKeepsFixed ==
    ASSUME recs \in [Prefix -> Record], FixedPath, Depth,
           NEW p \in Prefix, Len(p) < W,
           recs[p].type \in {"EMPTY", "DATA", "NODE", "FIXED_NODE"},
           NEW t \in {"NODE", "FIXED_NODE"},
           recs[p].type = "FIXED_NODE" => t = "FIXED_NODE",
           t = "FIXED_NODE" => \A q \in Prefix : Below(q, p) => recs[q].type = "FIXED_NODE",
           recs' = IF HasNode(recs[p]) THEN [recs EXCEPT ![p] = Plain(t)] ELSE Split(p, t)
    PROVE  /\ recs' \in [Prefix -> Record]
           /\ FixedPath' /\ Depth'
           /\ recs'[p] = Plain(t)
           /\ \A q \in Prefix : recs[q].type \in FixedTypes => recs'[q] = recs[q]
           /\ \A q \in Prefix : Below(q, p) => recs'[q] = recs[q]
<1>1. /\ t \in PlainTypes /\ Plain(t) \in Record /\ Plain(t).type = t
      /\ t \in FixedTypes => t = "FIXED_NODE"
  BY RecordFacts DEF PlainTypes, FixedTypes
<1>2. \A b \in Bit : /\ Child(p, b) \in Prefix /\ Child(p, b) # p
                     /\ Below(p, Child(p, b)) /\ ~Covers(Child(p, b), p)
  BY ChildIsPrefix, AboveChild, BelowIsCovers, CoversOrder
<1>3. 0 \in Bit /\ 1 \in Bit /\ \A b \in Bit : b = 0 \/ b = 1
  BY DEF Bit
<1>4. \A r \in Record : r = Plain("FIXED_NODE") <=> r.type = "FIXED_NODE"
  BY RecordFacts DEF PlainTypes, FixedTypes
<1>5. recs[p].type \in FixedTypes => recs[p] = Plain("FIXED_NODE")
  BY <1>4 DEF FixedTypes
<1>6. CASE HasNode(recs[p])
  <2>1. /\ recs' \in [Prefix -> Record] /\ recs'[p] = Plain(t)
        /\ \A q \in Prefix : q # p => recs'[q] = recs[q]
    BY <1>1, <1>6
  <2>2. Depth'
    BY <2>1 DEF Depth
  <2>3. \A q \in Prefix : recs[q].type \in FixedTypes => recs'[q] = recs[q]
    BY <1>1, <1>5, <2>1 DEF FixedTypes
  <2>4. \A q \in Prefix : Below(q, p) => recs'[q] = recs[q]
    BY <2>1, BelowIsCovers
  <2>5. FixedPath'
    <3> SUFFICES ASSUME NEW s \in Prefix, NEW q \in Prefix,
                        Below(s, q), recs'[q].type \in FixedTypes
                 PROVE  recs'[s].type = "FIXED_NODE"
      BY DEF FixedPath
    <3>1. CASE q = p
      BY <1>1, <2>1, <2>4, <3>1
    <3>2. CASE q # p
      BY <2>1, <2>3, <3>2 DEF FixedPath, FixedTypes
    <3> QED BY <3>1, <3>2
  <2> QED BY <2>1, <2>2, <2>3, <2>4, <2>5
<1>7. CASE ~HasNode(recs[p])
  <2>1. recs[p].type \in {"EMPTY", "DATA"}
    BY <1>7 DEF HasNode
  <2>2. /\ recs' \in [Prefix -> Record] /\ recs'[p] = Plain(t)
        /\ \A b \in Bit : recs'[Child(p, b)] = recs[p]
        /\ \A q \in Prefix :
             q # p /\ q # Child(p, 0) /\ q # Child(p, 1) => recs'[q] = recs[q]
    BY <1>1, <1>7, SplitFacts
  <2>3. \A q \in Prefix : Below(p, q) => recs[q].type \notin FixedTypes
    BY <2>1 DEF FixedPath, FixedTypes
  <2>4. \A q \in Prefix : recs[q].type \in FixedTypes => recs'[q] = recs[q]
    BY <1>2, <1>3, <2>1, <2>2, <2>3 DEF FixedTypes
  <2>5. \A q \in Prefix : Below(q, p) => recs'[q] = recs[q]
    <3>1. \A q \in Prefix : Below(q, p) => q # p /\ q # Child(p, 0) /\ q # Child(p, 1)
      BY <1>2, <1>3, BelowIsCovers
    <3> QED BY <2>2, <3>1
  <2>6. Depth'
    BY <1>3, <2>1, <2>2 DEF Depth, HasNode
  <2>7. FixedPath'
    <3> SUFFICES ASSUME NEW s \in Prefix, NEW q \in Prefix,
                        Below(s, q), recs'[q].type \in FixedTypes
                 PROVE  recs'[s].type = "FIXED_NODE"
      BY DEF FixedPath
    <3>1. CASE q = p
      BY <1>1, <2>2, <2>5, <3>1
    <3>2. CASE q # p
      <4>1. q # Child(p, 0) /\ q # Child(p, 1)
        BY <1>3, <2>1, <2>2 DEF FixedTypes
      <4>2. recs[q].type \in FixedTypes
        BY <2>2, <3>2, <4>1
      <4> QED BY <2>4, <4>2 DEF FixedPath, FixedTypes
    <3> QED BY <3>1, <3>2
  <2> QED BY <2>2, <2>4, <2>5, <2>6, <2>7
<1> QED BY <1>6, <1>7

-----------------------------------------------------------------------------
(* A fresh tree, and the calls                                             *)

\* The empty tree, table and cache have their types.
LEMMA EmptyFacts ==
    /\ EmptyTree \in [Prefix -> Record] /\ NoTree \in [Prefix -> Record]
    /\ EmptyTable \in [Key -> [count : Int, sv : BOOLEAN]]
    /\ EmptyCache \in [Strategies \X Key \X Key -> Key \cup {NoKey}]
    /\ \A p \in Prefix : /\ EmptyTree[p].type \in {"EMPTY", "ABSENT"}
                         /\ NoTree[p].type = "ABSENT"
<1>1. \A t \in {"EMPTY", "ABSENT"} : Plain(t) \in Record /\ Plain(t).type = t
  BY RecordFacts DEF PlainTypes
<1> QED BY <1>1 DEF EmptyTree, NoTree, EmptyTable, EmptyCache

\* The inductive invariant holds initially.
LEMMA InitInv == Init => Inv
<1> SUFFICES ASSUME Init PROVE Inv
  OBVIOUS
<1>1. /\ NewTreeQueue(opts) \in Seq(Item)
      /\ \A i \in 1..Len(queue) :
           \/ queue[i].rec.type \in {"ALIAS", "FIXED_EMPTY"}
           \/ queue[i].rec.type = "FIXED_NODE" /\ Len(queue[i].net) < W
  BY NewTreeQueueFacts DEF Init
<1>2. TypeOK
  BY <1>1, EmptyFacts, RootIsPrefix, OptionAssumption DEF Init, TypeOK, Running, Strategies
<1>3. FreedEmpty
  BY DEF Init, FreedEmpty
<1>4. QueueOK
  BY <1>1 DEF Init, QueueOK, Running
<1>5. CursorOK
  <2>1. ASSUME op \in Running PROVE Len(at) <= Len(net)
    <3>1. net \in Prefix
      BY <1>2, <1>4, <2>1, QueueFacts DEF TypeOK, QueueOK
    <3> QED BY <3>1, RootIsPrefix, PrefixLength DEF Init
  <2> QED BY <2>1 DEF Init, CursorOK
<1>6. Depth /\ FixedPath
  BY EmptyFacts DEF Init, Depth, FixedPath, HasNode, FixedTypes
<1>7. PathFixed
  <2>1. \A p \in Prefix : ~Below(p, << >>)
    BY RootIsPrefix, BelowIsCovers, CoversOrder
  <2> QED BY <2>1 DEF Init, PathFixed
<1> QED BY <1>2, <1>3, <1>4, <1>5, <1>6, <1>7 DEF Inv

\* new_tree again, after free_tree.
LEMMA NewTreeInv == ASSUME Inv, NewTree PROVE Inv' /\ KeepsFixed
<1> USE DEF NewTree
<1>1. opts' \in Options
  OBVIOUS
<1>2. /\ NewTreeQueue(opts') \in Seq(Item)
      /\ \A i \in 1..Len(queue') :
           \/ queue'[i].rec.type \in {"ALIAS", "FIXED_EMPTY"}
           \/ queue'[i].rec.type = "FIXED_NODE" /\ Len(queue'[i].net) < W
  BY <1>1, NewTreeQueueFacts
<1>3. TypeOK'
  BY <1>1, <1>2, EmptyFacts, RootIsPrefix, OptionAssumption DEF TypeOK, Running, Strategies
<1>4. FreedEmpty'
  BY DEF FreedEmpty
<1>5. QueueOK'
  BY <1>2 DEF QueueOK, Running
<1>6. CursorOK'
  <2>1. ASSUME op' \in Running PROVE Len(at') <= Len(net')
    <3>1. queue' \in Seq(Item) /\ queue' # << >>
      BY <1>3, <1>5, <2>1 DEF TypeOK, QueueOK
    <3>2. Head(queue').net \in Prefix
      <4>1. Head(queue') \in Item
        BY <3>1, HeadTailProperties
      <4> QED BY <4>1 DEF Item
    <3>3. Len(Head(queue').net) \in Nat
      BY <3>2, PrefixLength
    <3>4. net' = Head(queue').net
      BY DEF net
    <3> QED BY <3>3, <3>4, RootIsPrefix
  <2> QED BY <2>1 DEF CursorOK
<1>7. Depth' /\ FixedPath'
  BY EmptyFacts DEF Depth, FixedPath, HasNode, FixedTypes
<1>8. PathFixed'
  <2>1. \A p \in Prefix : ~Below(p, << >>)
    BY RootIsPrefix, BelowIsCovers, CoversOrder
  <2> QED BY <2>1 DEF PathFixed
<1>9. \A p \in Prefix : recs[p].type \notin FixedTypes
  BY EmptyFacts DEF Inv, FreedEmpty, FixedTypes
<1>10. KeepsFixed
  BY <1>9 DEF KeepsFixed
<1> QED BY <1>3, <1>4, <1>5, <1>6, <1>7, <1>8, <1>10 DEF Inv

\* A call that begins with EMPTY or DATA records to insert.
LEMMA BeginInv ==
    ASSUME Inv, op = "idle", op' \in Running, strategy' \in Strategies,
           held' \in Key \cup {NoKey}, table' \in Table,
           NEW nets \in Seq(Prefix), nets # << >>,
           NEW r \in Record, r.type \in {"EMPTY", "DATA"},
           queue' = Items(nets, r), UNCHANGED <<recs, cache, opts, at, dir>>
    PROVE  Inv' /\ KeepsFixed
<1>1. /\ queue' \in Seq(Item) /\ Len(queue') = Len(nets) /\ Len(nets) \in Nat \ {0}
      /\ \A i \in 1..Len(queue') : queue'[i].rec.type \in {"EMPTY", "DATA"}
  <2>1. /\ queue' \in Seq(Item) /\ Len(queue') = Len(nets)
        /\ \A i \in 1..Len(nets) : queue'[i] = [net |-> nets[i], rec |-> r]
    BY ItemsFacts
  <2>2. Len(nets) \in Nat \ {0}
    BY EmptySeq
  <2>3. ASSUME NEW i \in 1..Len(queue') PROVE queue'[i].rec.type \in {"EMPTY", "DATA"}
    <3>1. queue'[i] = [net |-> nets[i], rec |-> r]
      BY <2>1
    <3> QED BY <3>1
  <2> QED BY <2>1, <2>2, <2>3
<1>2. queue' # << >>
  BY <1>1
<1>3. Head(queue') = queue'[1] /\ new'.type \in {"EMPTY", "DATA"}
  BY <1>1 DEF new
<1>4. TypeOK'
  BY <1>1 DEF Inv, TypeOK, Table
<1>5. FreedEmpty'
  BY DEF FreedEmpty, Running
<1>6. QueueOK'
  BY <1>1, <1>2 DEF QueueOK
<1>7. CursorOK'
  BY <1>3 DEF CursorOK
<1>8. Depth' /\ FixedPath'
  BY DEF Inv, Depth, FixedPath
<1>9. PathFixed'
  BY <1>3 DEF PathFixed, FixedTypes
<1>10. KeepsFixed
  BY DEF KeepsFixed
<1> QED BY <1>4, <1>5, <1>6, <1>7, <1>8, <1>9, <1>10 DEF Inv

\* Beginning an insert keeps the invariant and the fixed records.
LEMMA InsertNetworksInv ==
    ASSUME Inv, NEW c \in Inserts, InsertNetworks(c) PROVE Inv' /\ KeepsFixed
<1>1. /\ c.nets \in Seq(Prefix) /\ c.nets # << >> /\ c.key \in Key
      /\ c.strategy \in Strategies
  BY InsertAssumption
<1>2. Store(table, c.key) \in Table
  <2>1. table \in Table
    BY DEF Inv, TypeOK, Table
  <2> QED BY <1>1, <2>1, TableFacts
<1>3. Data(c.key) \in Record /\ Data(c.key).type = "DATA"
  BY <1>1, RecordFacts
<1> QED BY <1>1, <1>2, <1>3, BeginInv DEF InsertNetworks, Running

\* So does beginning a removal.
LEMMA RemoveNetworkInv ==
    ASSUME Inv, NEW n \in Prefix, RemoveNetwork(n) PROVE Inv' /\ KeepsFixed
<1>1. <<n>> \in Seq(Prefix) /\ <<n>> # << >>
  OBVIOUS
<1>2. Plain("EMPTY") \in Record /\ Plain("EMPTY").type = "EMPTY"
  BY RecordFacts DEF PlainTypes
<1> QED BY <1>1, <1>2, BeginInv DEF RemoveNetwork, Running, Strategies, Inv, TypeOK, Table

\* free_tree keeps the invariant.
LEMMA FreeTreeInv == ASSUME Inv, FreeTree PROVE Inv' /\ KeepsFixed
<1>1. Release(table, << >>) \in Table
  BY ReleaseFacts DEF Inv, TypeOK, Table
<1>2. TypeOK'
  BY <1>1, EmptyFacts DEF Inv, TypeOK, FreeTree, Table
<1>3. FreedEmpty' /\ QueueOK' /\ CursorOK' /\ PathFixed'
  BY DEF Inv, FreeTree, FreedEmpty, QueueOK, CursorOK, PathFixed, Running
<1>4. Depth' /\ FixedPath'
  BY EmptyFacts DEF FreeTree, Depth, FixedPath, HasNode, FixedTypes
<1>5. KeepsFixed
  BY DEF FreeTree, KeepsFixed
<1> QED BY <1>2, <1>3, <1>4, <1>5 DEF Inv

-----------------------------------------------------------------------------
(* The steps of a call                                                     *)

\* What holds of a call in progress.
LEMMA RunningFacts ==
    ASSUME Inv, op \in Running
    PROVE  /\ queue \in Seq(Item) /\ queue # << >>
           /\ net \in Prefix /\ new \in Record
           /\ at \in Prefix /\ recs[at] \in Record
           /\ recs \in [Prefix -> Record] /\ table \in Table
           /\ \/ new.type \in {"EMPTY", "DATA"}
              \/ strategy = "none" /\ new.type \in {"ALIAS", "FIXED_EMPTY"}
              \/ strategy = "none" /\ new.type = "FIXED_NODE" /\ Len(net) < W
<1>1. queue \in Seq(Item) /\ queue # << >>
  BY DEF Inv, TypeOK, QueueOK
<1>2. at \in Prefix /\ recs \in [Prefix -> Record] /\ table \in Table
  BY DEF Inv, TypeOK, Table
<1>3. /\ 1 \in 1..Len(queue) /\ net \in Prefix /\ new \in Record
      /\ net = queue[1].net /\ new = queue[1].rec
  BY <1>1, QueueFacts
<1> QED BY <1>1, <1>2, <1>3 DEF Inv, QueueOK

\* A step that keeps the records and goes no further down.
LEMMA MoveInv ==
    ASSUME Inv, op \in Running, UNCHANGED <<recs, table, cache, opts, op, strategy, held, queue>>,
           at' \in Prefix, dir' \in {"down", "up"}, Len(at') <= Len(at),
           \A q \in Prefix : Below(q, at') => Below(q, at)
    PROVE  Inv' /\ KeepsFixed
<1>1. at \in Prefix /\ net \in Prefix
  BY RunningFacts
<1>2. Len(at) \in Nat /\ Len(at') \in Nat /\ Len(net) \in Nat
  BY <1>1, PrefixLength
<1>3. new' = new /\ net' = net
  BY DEF new, net
<1>4. TypeOK' /\ FreedEmpty' /\ QueueOK' /\ Depth' /\ FixedPath'
  BY DEF Inv, TypeOK, FreedEmpty, QueueOK, Depth, FixedPath
<1>5. CursorOK'
  BY <1>2, <1>3 DEF Inv, CursorOK
<1>6. PathFixed'
  BY <1>3 DEF Inv, PathFixed
<1>7. KeepsFixed
  BY DEF KeepsFixed
<1> QED BY <1>4, <1>5, <1>6, <1>7 DEF Inv

\* A step that grafts a record at p, above or at the present one.
LEMMA GraftInv ==
    ASSUME Inv, op \in Running, UNCHANGED <<opts, op, strategy, held, queue>>,
           table' \in Table,
           cache' \in [Strategies \X Key \X Key -> Key \cup {NoKey}],
           dir' \in {"down", "up"},
           NEW p \in Prefix, at' = p, Covers(p, at),
           NEW r \in Record, recs' = Graft(p, r), recs[p].type \notin FixedTypes,
           HasNode(r) => Len(p) < W,
           r.type \in FixedTypes => r.type = new.type
    PROVE  Inv' /\ KeepsFixed
<1>1. at \in Prefix /\ net \in Prefix /\ recs \in [Prefix -> Record]
  BY RunningFacts
<1>2. Len(at) \in Nat /\ Len(at') \in Nat /\ Len(net) \in Nat
  BY <1>1, PrefixLength
<1>3. new' = new /\ net' = net
  BY DEF new, net
<1>4. \A q \in Prefix : Below(q, p) => Below(q, at)
  BY <1>1, BelowIsCovers, CoversOrder
<1>5. r.type \in FixedTypes =>
          \A q \in Prefix : Below(q, p) => recs[q].type = "FIXED_NODE"
  BY <1>4 DEF Inv, PathFixed
<1>6. /\ recs' \in [Prefix -> Record] /\ FixedPath' /\ Depth'
      /\ \A q \in Prefix : Below(q, p) => recs'[q] = recs[q]
      /\ \A q \in Prefix : recs[q].type \in FixedTypes => recs'[q] = recs[q]
  BY <1>1, <1>5, GraftKeepsFixed DEF Inv
<1>7. TypeOK' /\ QueueOK'
  BY <1>6 DEF Inv, TypeOK, QueueOK, Table
<1>8. FreedEmpty'
  BY DEF FreedEmpty, Running
<1>9. CursorOK'
  BY <1>1, <1>2, <1>3, BelowIsCovers DEF Inv, CursorOK
<1>10. PathFixed'
  BY <1>3, <1>4, <1>6 DEF Inv, PathFixed
<1>11. KeepsFixed
  BY <1>6 DEF KeepsFixed
<1> QED BY <1>6, <1>7, <1>8, <1>9, <1>10, <1>11 DEF Inv

\* Replacing a record keeps the invariant and the fixed records.
LEMMA SetRecordInv == ASSUME Inv, SetRecord PROVE Inv' /\ KeepsFixed
<1>1. /\ op \in Running /\ Len(at) >= Len(net)
      /\ recs[at].type \in {"EMPTY", "DATA", "NODE"}
      /\ recs' = Graft(at, new) /\ at' = at /\ dir' = "up"
      /\ UNCHANGED <<cache, opts, op, strategy, held, queue>>
  BY DEF SetRecord, Settles, Down, Inside
<1>2. /\ at \in Prefix /\ net \in Prefix /\ new \in Record /\ table \in Table
      /\ new.type = "FIXED_NODE" => Len(net) < W
  BY <1>1, RunningFacts
<1>3. HasNode(new) => Len(at) < W
  <2>1. new.type # "NODE"
    BY <1>1, RunningFacts
  <2>2. new.type = "FIXED_NODE" => Len(at) <= Len(net)
    BY <1>1 DEF Inv, CursorOK
  <2>3. Len(at) \in Nat /\ Len(net) \in Nat
    BY <1>2, PrefixLength
  <2> QED BY <1>1, <1>2, <2>1, <2>2, <2>3, WidthAssumption DEF HasNode
<1>4. table' \in Table
  <2>1. Release(table, at) \in Table
    BY <1>2, ReleaseFacts
  <2>2. new.type = "DATA" => new.key \in Key
    BY <1>2, RecordFacts
  <2> QED BY <2>1, <2>2, TableFacts DEF SetRecord
<1>5. cache' \in [Strategies \X Key \X Key -> Key \cup {NoKey}]
  BY <1>1 DEF Inv, TypeOK
<1>6. recs[at].type \notin FixedTypes
  BY <1>1 DEF FixedTypes
<1>7. Covers(at, at)
  BY <1>2, CoversOrder
<1> QED BY <1>1, <1>2, <1>3, <1>4, <1>5, <1>6, <1>7, GraftInv

\* So does replacing it by a merged one.
LEMMA MergeRecordInv == ASSUME Inv, MergeRecord PROVE Inv' /\ KeepsFixed
<1> DEFINE stored == IF CacheHit THEN Inc(table, Merged) ELSE Store(table, Merged)
<1>1. /\ op \in Running /\ Merged \in Key
      /\ recs[at].type \in {"EMPTY", "DATA", "NODE"}
      /\ recs' = Graft(at, Data(Merged)) /\ at' = at /\ dir' = "up"
      /\ UNCHANGED <<opts, op, strategy, held, queue>>
      /\ table' = Dec(Inc(Release(stored, at), Merged), Merged)
      /\ cache' = [cache EXCEPT ![MergeArgs] = Merged]
  BY DEF MergeRecord, Settles, Down
<1>2. at \in Prefix /\ table \in Table
  BY <1>1, RunningFacts
<1>3. table' \in Table
  <2>1. stored \in Table
    BY <1>1, <1>2, TableFacts
  <2> HIDE DEF stored
  <2>2. Release(stored, at) \in Table
    BY <2>1, ReleaseFacts
  <2>3. Inc(Release(stored, at), Merged) \in Table
    BY <1>1, <2>2, TableFacts
  <2> QED BY <1>1, <2>3, TableFacts
<1>4. cache' \in [Strategies \X Key \X Key -> Key \cup {NoKey}]
  BY <1>1 DEF Inv, TypeOK
<1>5. Data(Merged) \in Record /\ Data(Merged).type = "DATA"
  BY <1>1, RecordFacts
<1>6. recs[at].type \notin FixedTypes
  BY <1>1 DEF FixedTypes
<1>7. Covers(at, at)
  BY <1>2, CoversOrder
<1> QED BY <1>1, <1>2, <1>3, <1>4, <1>5, <1>6, <1>7, GraftInv DEF HasNode, FixedTypes

\* So does leaving it alone.
LEMMA IgnoreInv == ASSUME Inv, Ignore PROVE Inv' /\ KeepsFixed
<1>1. /\ op \in Running /\ at' = at /\ dir' = "up"
      /\ UNCHANGED <<recs, table, cache, opts, op, strategy, held, queue>>
  BY DEF Ignore, Down
<1>2. at \in Prefix /\ Len(at) <= Len(at)
  BY <1>1, RunningFacts, PrefixLength
<1> QED BY <1>1, <1>2, MoveInv

\* A call that returns, in whichever way.
LEMMA ReturnInv ==
    ASSUME Inv, op \in Running, op' \in {"idle", "freed"}, table' \in Table,
           \/ op' = "idle" /\ recs' = recs
           \/ op' = "freed" /\ recs' = NoTree,
           cache' \in [Strategies \X Key \X Key -> Key \cup {NoKey}],
           strategy' = "none", held' = NoKey, queue' = << >>, at' = << >>,
           dir' = "down", opts' = opts
    PROVE  Inv' /\ KeepsFixed
<1>1. TypeOK'
  BY EmptyFacts, RootIsPrefix, EmptySeq DEF Inv, TypeOK, Strategies, Table
<1>2. FreedEmpty' /\ QueueOK' /\ CursorOK' /\ PathFixed'
  <2>1. op' \notin Running /\ Len(queue') = 0
    BY EmptySeq DEF Running
  <2> QED BY <2>1 DEF FreedEmpty, QueueOK, CursorOK, PathFixed
<1>3. Depth' /\ FixedPath'
  BY EmptyFacts DEF Inv, Depth, FixedPath, HasNode, FixedTypes
<1>4. KeepsFixed
  BY DEF KeepsFixed
<1> QED BY <1>1, <1>2, <1>3, <1>4 DEF Inv

\* So does the end of a call.
LEMMA EndCallInv ==
    ASSUME Inv, op \in Running, NEW failed \in BOOLEAN, EndCall(failed) PROVE Inv' /\ KeepsFixed
<1>1. table' \in Table
  <2>1. table \in Table /\ held \in Key \cup {NoKey}
    BY DEF Inv, TypeOK, Table
  <2>2. held # NoKey => Dec(table, held) \in Table
    BY <2>1, TableFacts
  <2> QED BY <2>1, <2>2 DEF EndCall, TableOnReturn
<1>2. cache' \in [Strategies \X Key \X Key -> Key \cup {NoKey}] /\ opts' = opts
  BY DEF EndCall, Inv, TypeOK
<1>3. \/ op' = "idle" /\ recs' = recs
      \/ op' = "freed" /\ recs' = NoTree
  BY DEF EndCall
<1>4. /\ strategy' = "none" /\ held' = NoKey /\ queue' = << >> /\ at' = << >>
      /\ dir' = "down"
  BY DEF EndCall
<1> QED BY <1>1, <1>2, <1>3, <1>4, ReturnInv

\* So does a merge that croaks.
LEMMA MergeCroaksInv == ASSUME Inv, MergeCroaks PROVE Inv' /\ KeepsFixed
<1>1. /\ op \in Running /\ new.type = "DATA"
  BY DEF MergeCroaks, Settles, Merges, Down
<1>2. table \in Table /\ new.key \in Key
  BY <1>1, RunningFacts, RecordFacts
<1>3. table' \in Table
  BY <1>2, TableFacts DEF MergeCroaks
<1>4. cache' \in [Strategies \X Key \X Key -> Key \cup {NoKey}]
  BY DEF MergeCroaks, Inv, TypeOK
<1> QED BY <1>1, <1>3, <1>4, ReturnInv DEF MergeCroaks, Return

\* So does going on to the left record.
LEMMA GoLeftInv == ASSUME Inv, GoLeft PROVE Inv' /\ KeepsFixed
<1>1. /\ op \in Running /\ at # << >> /\ at' = Child(Parent(at), 0) /\ dir' = "down"
      /\ UNCHANGED <<recs, table, cache, opts, op, strategy, held, queue>>
  BY DEF GoLeft, Up
<1>2. at \in Prefix
  BY <1>1, RunningFacts
<1>3. /\ Parent(at) \in Prefix /\ Len(Parent(at)) = Len(at) - 1
      /\ Len(Parent(at)) < W /\ at[Len(at)] \in Bit
      /\ at = Child(Parent(at), at[Len(at)])
  BY <1>1, <1>2, ParentIsPrefix, ChildOfParent
<1>4. at' \in Prefix /\ Len(at') = Len(Parent(at)) + 1
  BY <1>1, <1>3, ChildIsPrefix DEF Bit
<1>5. Len(at') <= Len(at)
  BY <1>2, <1>3, <1>4, PrefixLength
<1>6. \A q \in Prefix : Below(q, at') => Below(q, at)
  <2>1. \A q \in Prefix, b \in Bit : Below(q, Child(Parent(at), b)) <=> Covers(q, Parent(at))
    BY <1>3, AboveChild
  <2> QED BY <1>1, <1>3, <2>1 DEF Bit
<1> QED BY <1>1, <1>4, <1>5, <1>6, MoveInv

\* So does trimming upwards.
LEMMA TrimInv == ASSUME Inv, Trim PROVE Inv' /\ KeepsFixed
<1> DEFINE p == Parent(at)
           r == recs[Child(p, 0)]
<1>1. /\ op \in Running /\ at # << >> /\ at' = p /\ dir' = dir
      /\ UNCHANGED <<cache, opts, op, strategy, held, queue>>
      /\ IF Trimmable(p)
         THEN /\ recs' = Graft(p, r)
              /\ table' = Release(IF r.type = "DATA" THEN Inc(table, r.key) ELSE table, p)
         ELSE recs' = recs /\ table' = table
  BY DEF Trim, Up
<1>2. at \in Prefix /\ recs \in [Prefix -> Record] /\ table \in Table
  BY <1>1, RunningFacts
<1>3. /\ p \in Prefix /\ Len(p) = Len(at) - 1 /\ Len(p) < W
      /\ at[Len(at)] \in Bit /\ at = Child(p, at[Len(at)])
  BY <1>1, <1>2, ParentIsPrefix, ChildOfParent
<1>4. Child(p, 0) \in Prefix
  BY <1>3, ChildIsPrefix DEF Bit
<1>5. Covers(p, at)
  BY <1>2, <1>3, AboveChild, BelowIsCovers
<1>6. dir' \in {"down", "up"} /\ cache' \in [Strategies \X Key \X Key -> Key \cup {NoKey}]
  BY <1>1 DEF Inv, TypeOK
<1> HIDE DEF p, r
<1>7. CASE Trimmable(p)
  <2>1. /\ recs[p].type \notin FixedTypes
        /\ r.type \in {"EMPTY", "DATA"} /\ r \in Record
    BY <1>2, <1>4, <1>7 DEF Trimmable, Identical, FixedTypes, r
  <2>2. table' \in Table
    <3>1. r.type = "DATA" => r.key \in Key
      BY <2>1, RecordFacts
    <3>2. (IF r.type = "DATA" THEN Inc(table, r.key) ELSE table) \in Table
      BY <1>2, <3>1, TableFacts
    <3> QED BY <1>1, <1>7, <3>2, ReleaseFacts
  <2>3. ~HasNode(r) /\ r.type \notin FixedTypes
    BY <2>1 DEF HasNode, FixedTypes
  <2>4. recs' = Graft(p, r)
    BY <1>1, <1>7
  <2> QED BY <1>1, <1>3, <1>5, <1>6, <2>1, <2>2, <2>3, <2>4, GraftInv
<1>8. CASE ~Trimmable(p)
  <2>1. \A q \in Prefix : Below(q, p) => Below(q, at)
    BY <1>2, <1>3, <1>5, BelowIsCovers, CoversOrder
  <2>2. Len(p) <= Len(at)
    BY <1>2, <1>3, PrefixLength
  <2>3. UNCHANGED <<recs, table, cache, opts, op, strategy, held, queue>>
    BY <1>1, <1>8
  <2> QED BY <1>1, <1>3, <1>6, <2>1, <2>2, <2>3, MoveInv
<1> QED BY <1>7, <1>8

\* So does going on to the next network.
LEMMA NextRecordInv == ASSUME Inv, NextRecord PROVE Inv' /\ KeepsFixed
<1>1. /\ op \in Running /\ at = << >> /\ at' = << >> /\ Len(queue) > 1
      /\ queue' = Tail(queue) /\ dir' = "down"
      /\ UNCHANGED <<recs, table, cache, opts, op, strategy, held>>
  BY DEF NextRecord
<1>2. /\ queue' \in Seq(Item) /\ Len(queue') = Len(queue) - 1
      /\ Len(queue) \in Nat
      /\ \A i \in 1..Len(queue') : i + 1 \in 1..Len(queue) /\ queue'[i] = queue[i + 1]
  BY <1>1, RunningFacts, QueueFacts
<1>3. queue' # << >>
  <2>1. Len(queue') >= 1
    BY <1>1, <1>2
  <2> QED BY <2>1, RootIsPrefix
<1>4. TypeOK'
  BY <1>1, <1>2 DEF Inv, TypeOK
<1>5. QueueOK'
  BY <1>1, <1>2, <1>3 DEF Inv, QueueOK
<1>6. FreedEmpty' /\ Depth' /\ FixedPath'
  BY <1>1 DEF Inv, FreedEmpty, Depth, FixedPath
<1>7. CursorOK'
  <2>1. Head(queue').net \in Prefix
    <3>1. Head(queue') \in Item
      BY <1>2, <1>3, HeadTailProperties
    <3> QED BY <3>1 DEF Item
  <2>2. Len(Head(queue').net) \in Nat /\ Len(at') = 0
    BY <1>1, <2>1, PrefixLength, RootIsPrefix
  <2>3. net' = Head(queue').net
    BY DEF net
  <2> QED BY <1>1, <2>2, <2>3 DEF CursorOK
<1>8. PathFixed'
  <2>1. \A p \in Prefix : ~Below(p, << >>)
    BY RootIsPrefix, BelowIsCovers, CoversOrder
  <2> QED BY <1>1, <2>1 DEF PathFixed
<1>9. KeepsFixed
  BY <1>1 DEF KeepsFixed
<1> QED BY <1>4, <1>5, <1>6, <1>7, <1>8, <1>9 DEF Inv

\* The recursion goes on only above the last bit: a leaf is split above the
\* end of the network, and a node has room for its children.
LEMMA DescendRoom == ASSUME Inv, Descend PROVE Len(at) < W
<1>1. /\ op \in Running /\ ~Settles /\ Down
      /\ recs[at].type \in {"EMPTY", "DATA", "NODE", "FIXED_NODE"}
  BY DEF Descend, Down
<1>2. /\ at \in Prefix /\ Len(at) \in Nat /\ Len(net) \in Nat /\ Len(net) <= W
  BY <1>1, RunningFacts, PrefixLength
<1>3. CASE Inside
  <2>1. HasNode(recs[at])
    BY <1>1, <1>3 DEF Settles, HasNode
  <2> QED BY <1>2, <2>1 DEF Inv, Depth
<1>4. CASE ~Inside
  BY <1>2, <1>4, WidthAssumption DEF Inside
<1> QED BY <1>3, <1>4

\* So does descending, with the split and the marking of fixed nodes.
LEMMA DescendInv == ASSUME Inv, Descend PROVE Inv' /\ KeepsFixed
<1> DEFINE b == IF Inside THEN 1 ELSE net[Len(at) + 1]
<1>1. /\ op \in Running /\ ~Settles /\ ~Refused /\ Down
      /\ recs[at].type \in {"EMPTY", "DATA", "NODE", "FIXED_NODE"}
      /\ recs' = IF HasNode(recs[at])
                 THEN [recs EXCEPT ![at] = Plain(NodeType)] ELSE Split(at, NodeType)
      /\ table' = CountCopy /\ at' = Child(at, b)
      /\ UNCHANGED <<cache, opts, op, strategy, held, queue, dir>>
  BY DEF Descend, Down
<1>2. /\ at \in Prefix /\ net \in Prefix /\ new \in Record
      /\ recs \in [Prefix -> Record] /\ recs[at] \in Record /\ table \in Table
      /\ Len(at) \in Nat /\ Len(net) \in Nat /\ Len(net) <= W
  BY <1>1, RunningFacts, PrefixLength
<1>3. ~Inside => Len(at) < Len(net)
  BY <1>2 DEF Inside
<1>4. Len(at) < W
  BY DescendRoom
<1>5. b \in Bit
  <2>1. ~Inside => Len(at) + 1 \in 1..Len(net)
    BY <1>2, <1>3
  <2>2. net \in [1..Len(net) -> Bit]
    BY <1>2, PrefixIsSeq, LenProperties
  <2> QED BY <2>1, <2>2 DEF Bit
<1>6. /\ NodeType \in {"NODE", "FIXED_NODE"}
      /\ recs[at].type = "FIXED_NODE" => NodeType = "FIXED_NODE"
      /\ NodeType = "FIXED_NODE" =>
            new.type \in FixedTypes \/ recs[at].type = "FIXED_NODE"
      /\ new.type \in FixedTypes => NodeType = "FIXED_NODE"
  BY DEF NodeType
<1>7. NodeType = "FIXED_NODE" =>
         \A q \in Prefix : Below(q, at) => recs[q].type = "FIXED_NODE"
  <2>1. new.type \in FixedTypes =>
            \A q \in Prefix : Below(q, at) => recs[q].type = "FIXED_NODE"
    BY <1>1 DEF Inv, PathFixed
  <2>2. recs[at].type = "FIXED_NODE" =>
            \A q \in Prefix : Below(q, at) => recs[q].type = "FIXED_NODE"
    BY <1>2 DEF Inv, FixedPath, FixedTypes
  <2> QED BY <1>6, <2>1, <2>2
<1>8. /\ recs' \in [Prefix -> Record] /\ FixedPath' /\ Depth'
      /\ recs'[at] = Plain(NodeType)
      /\ \A q \in Prefix : Below(q, at) => recs'[q] = recs[q]
      /\ \A q \in Prefix : recs[q].type \in FixedTypes => recs'[q] = recs[q]
  BY <1>1, <1>2, <1>4, <1>6, <1>7, DescendKeepsFixed DEF Inv
<1>9. /\ at' \in Prefix /\ Len(at') = Len(at) + 1
      /\ \A q \in Prefix : Below(q, at') <=> Covers(q, at)
  BY <1>1, <1>2, <1>4, <1>5, ChildIsPrefix, AboveChild
<1> HIDE DEF b
<1>10. table' \in Table
  <2>1. recs[at].type = "DATA" => recs[at].key \in Key
    BY <1>2, RecordFacts
  <2> QED BY <1>1, <1>2, <2>1, TableFacts DEF CountCopy
<1>11. new' = new /\ net' = net
  BY <1>1 DEF new, net
<1>12. TypeOK'
  BY <1>1, <1>8, <1>9, <1>10 DEF Inv, TypeOK, Table
<1>13. FreedEmpty' /\ QueueOK'
  BY <1>1 DEF Inv, FreedEmpty, QueueOK, Running
<1>14. CursorOK'
  <2>1. ASSUME new.type = "FIXED_NODE" PROVE Len(at) < Len(net)
    <3>1. strategy = "none" /\ Len(at) <= Len(net)
      BY <1>1, <2>1, RunningFacts DEF Inv, CursorOK
    <3>2. ASSUME Len(at) = Len(net) PROVE FALSE
      <4>1. Inside
        BY <1>2, <3>2 DEF Inside
      <4>2. recs[at].type = "FIXED_NODE"
        BY <1>1, <3>1, <4>1 DEF Settles
      <4> QED BY <1>1, <2>1, <3>2, <4>2 DEF Refused
    <3> QED BY <1>2, <3>1, <3>2
  <2>2. new.type = "FIXED_NODE" => Len(at') <= Len(net)
    BY <1>2, <1>9, <2>1
  <2> QED BY <1>1, <1>11, <2>2 DEF CursorOK
<1>15. PathFixed'
  <2> SUFFICES ASSUME new.type \in FixedTypes, NEW q \in Prefix, Below(q, at')
               PROVE  recs'[q].type = "FIXED_NODE"
    BY <1>11 DEF PathFixed
  <2>1. q = at \/ Below(q, at)
    BY <1>2, <1>9, BelowIsCovers
  <2>2. CASE q = at
    BY <1>6, <1>8, <2>2, RecordFacts DEF PlainTypes, FixedTypes
  <2>3. CASE Below(q, at)
    BY <1>1, <1>8, <2>3 DEF Inv, PathFixed
  <2> QED BY <2>1, <2>2, <2>3
<1>16. KeepsFixed
  BY <1>8 DEF KeepsFixed
<1> QED BY <1>8, <1>12, <1>13, <1>14, <1>15, <1>16 DEF Inv

-----------------------------------------------------------------------------
(* The theorems                                                            *)

\* Every step keeps the invariant and everything fixed.
LEMMA NextInv == ASSUME Inv, [Next]_vars PROVE Inv' /\ (KeepsFixed \/ UNCHANGED vars)
<1>1. CASE Step
  <2>1. CASE SetRecord
    BY <2>1, SetRecordInv
  <2>2. CASE MergeRecord
    BY <2>2, MergeRecordInv
  <2>3. CASE MergeCroaks
    BY <2>3, MergeCroaksInv
  <2>4. CASE Ignore
    BY <2>4, IgnoreInv
  <2>5. CASE Refuse
    BY <2>5, EndCallInv DEF Refuse, Down
  <2>6. CASE Descend
    BY <2>6, DescendInv
  <2>7. CASE GoLeft
    BY <2>7, GoLeftInv
  <2>8. CASE Trim
    BY <2>8, TrimInv
  <2>9. CASE NextRecord
    BY <2>9, NextRecordInv
  <2>10. CASE Finish
    BY <2>10, EndCallInv DEF Finish
  <2> QED BY <1>1, <2>1, <2>2, <2>3, <2>4, <2>5, <2>6, <2>7, <2>8, <2>9, <2>10 DEF Step
<1>2. CASE Call
  <2>1. CASE \E c \in Inserts : InsertNetworks(c)
    BY <2>1, InsertNetworksInv
  <2>2. CASE \E n \in Prefix : RemoveNetwork(n)
    BY <2>2, RemoveNetworkInv
  <2>3. CASE FreeTree
    BY <2>3, FreeTreeInv
  <2>4. CASE NewTree
    BY <2>4, NewTreeInv
  <2> QED BY <1>2, <2>1, <2>2, <2>3, <2>4 DEF Call
<1>3. CASE UNCHANGED vars
  <2>1. new' = new /\ net' = net
    BY <1>3 DEF vars, new, net
  <2>2. TypeOK' /\ FreedEmpty' /\ QueueOK' /\ Depth' /\ FixedPath'
    BY <1>3 DEF Inv, vars, TypeOK, FreedEmpty, QueueOK, Depth, FixedPath
  <2>3. CursorOK' /\ PathFixed'
    BY <1>3, <2>1 DEF Inv, vars, CursorOK, PathFixed
  <2> QED BY <1>3, <2>2, <2>3 DEF Inv
<1> QED BY <1>1, <1>2, <1>3 DEF Next

\* The inductive invariant holds in every reachable state of the tree.
THEOREM InvAlways == Spec => []Inv
<1>1. Inv /\ [Next]_vars => Inv'
  BY NextInv
<1> QED BY InitInv, <1>1, PTL DEF Spec

\* Every variable keeps its type: in particular the recursion never leaves the
\* tree, and no count goes out of the integers.
THEOREM TypeCorrect == Spec => []TypeOK
<1>1. Inv => TypeOK
  BY DEF Inv
<1> QED BY InvAlways, <1>1, PTL

\* The nodes above an alias, its target or a reserved network are fixed, so
\* that no insert, removal or trim frees one of them.
THEOREM FixedPathAlways == Spec => []FixedPath
<1>1. Inv => FixedPath
  BY DEF Inv
<1> QED BY InvAlways, <1>1, PTL

\* What is fixed stays as it is until the tree is freed.
THEOREM FixedForeverHolds == Spec => FixedForever
<1>1. Inv /\ [Next]_vars => [KeepsFixed]_vars
  BY NextInv
<1> QED BY InvAlways, <1>1, PTL DEF Spec, FixedForever

-----------------------------------------------------------------------------
(* Shape                                                                   *)

\* Grafting a leaf or a FIXED_NODE over a record leaves a tree.
LEMMA GraftShape ==
    ASSUME recs \in [Prefix -> Record], Shape, op # "freed", op' # "freed",
           NEW p \in Prefix, NEW r \in Record, recs[p].type # "ABSENT",
           r.type \notin {"ABSENT", "NODE"}, recs' = Graft(p, r)
    PROVE  Shape'
<1>1. /\ recs'[p] = r
      /\ \A q \in Prefix : ~Covers(p, q) => recs'[q] = recs[q]
      /\ \A q \in Prefix :
            Below(p, q) =>
                recs'[q] = IF r.type = "FIXED_NODE" /\ Len(q) = Len(p) + 1
                           THEN Plain("EMPTY") ELSE Plain("ABSENT")
  BY GraftFacts
<1>2. Plain("EMPTY").type = "EMPTY" /\ Plain("ABSENT").type = "ABSENT"
  BY RecordFacts DEF PlainTypes
<1> SUFFICES ASSUME NEW q \in Prefix
             PROVE  recs'[q].type # "ABSENT" <=> q = << >> \/ HasNode(recs'[Parent(q)])
  BY DEF Shape
<1>3. CASE q = << >>
  <2>1. CASE p = << >>
    BY <1>1, <1>3, <2>1
  <2>2. CASE p # << >>
    <3>1. ~Covers(p, q)
      BY <1>3, <2>2, CoversOrder
    <3> QED BY <1>1, <1>3, <3>1 DEF Shape
  <2> QED BY <2>1, <2>2
<1>4. CASE q # << >>
  <2>1. /\ Parent(q) \in Prefix /\ Len(Parent(q)) = Len(q) - 1 /\ Len(q) \in Nat
        /\ Len(p) \in Nat
    BY <1>4, ParentIsPrefix, PrefixLength
  <2>2. \A s \in Prefix : Below(s, q) <=> Covers(s, Parent(q))
    BY <1>4, ParentIsPrefix, ChildOfParent, AboveChild
  <2>3. CASE q = p
    <3>1. ~Covers(p, Parent(q))
      BY <2>2, <2>3, BelowIsCovers
    <3> QED BY <1>1, <1>4, <2>1, <2>3, <3>1 DEF Shape
  <2>4. CASE Below(p, q)
    <3>1. Covers(p, Parent(q))
      BY <2>2, <2>4
    <3>2. CASE Parent(q) = p
      <4>1. Len(q) = Len(p) + 1
        BY <2>1, <3>2
      <4> QED BY <1>1, <1>2, <1>4, <2>4, <3>2, <4>1 DEF HasNode
    <3>3. CASE Parent(q) # p
      <4>1. Below(p, Parent(q))
        BY <2>1, <3>1, <3>3, BelowIsCovers
      <4>2. Len(q) # Len(p) + 1
        BY <2>1, <4>1 DEF Below
      <4>3. recs'[Parent(q)].type \in {"EMPTY", "ABSENT"}
        BY <1>1, <1>2, <2>1, <4>1
      <4> QED BY <1>1, <1>2, <1>4, <2>4, <4>2, <4>3 DEF HasNode
    <3> QED BY <3>2, <3>3
  <2>5. CASE ~Covers(p, q)
    <3>1. ~Covers(p, Parent(q))
      BY <2>2, <2>5, BelowIsCovers
    <3> QED BY <1>1, <1>4, <2>1, <2>5, <3>1 DEF Shape
  <2> QED BY <2>3, <2>4, <2>5, BelowIsCovers
<1> QED BY <1>3, <1>4

\* So does going on to the next node.
LEMMA DescendShape ==
    ASSUME recs \in [Prefix -> Record], Shape, op # "freed", op' # "freed",
           NEW p \in Prefix, Len(p) < W,
           recs[p].type \in {"EMPTY", "DATA", "NODE", "FIXED_NODE"},
           NEW t \in {"NODE", "FIXED_NODE"},
           recs' = IF HasNode(recs[p]) THEN [recs EXCEPT ![p] = Plain(t)] ELSE Split(p, t)
    PROVE  Shape'
<1>1. t \in PlainTypes /\ Plain(t).type = t /\ HasNode(Plain(t))
  BY RecordFacts DEF PlainTypes, FixedTypes, HasNode
<1>2. \A b \in Bit : /\ Child(p, b) \in Prefix /\ Child(p, b) # p
                     /\ Child(p, b) # << >> /\ Parent(Child(p, b)) = p
  BY ChildIsPrefix, AboveChild, BelowIsCovers
<1>3. 0 \in Bit /\ 1 \in Bit /\ \A b \in Bit : b = 0 \/ b = 1
  BY DEF Bit
<1> SUFFICES ASSUME NEW q \in Prefix
             PROVE  recs'[q].type # "ABSENT" <=> q = << >> \/ HasNode(recs'[Parent(q)])
  BY DEF Shape
<1>4. q # << >> => Parent(q) \in Prefix
  BY ParentIsPrefix
<1>5. CASE HasNode(recs[p])
  <2>1. recs'[p] = Plain(t) /\ \A s \in Prefix : s # p => recs'[s] = recs[s]
    BY <1>5
  <2>2. recs'[q].type = "ABSENT" <=> recs[q].type = "ABSENT"
    BY <1>1, <1>5, <2>1 DEF HasNode
  <2>3. q # << >> => (HasNode(recs'[Parent(q)]) <=> HasNode(recs[Parent(q)]))
    BY <1>1, <1>4, <1>5, <2>1
  <2> QED BY <2>2, <2>3 DEF Shape
<1>6. CASE ~HasNode(recs[p])
  <2>1. /\ recs'[p] = Plain(t)
        /\ \A b \in Bit : recs'[Child(p, b)] = recs[p]
        /\ \A s \in Prefix :
             s # p /\ s # Child(p, 0) /\ s # Child(p, 1) => recs'[s] = recs[s]
    BY <1>1, <1>6, SplitFacts
  <2>2. \A b \in Bit : recs[Child(p, b)].type = "ABSENT"
    BY <1>2, <1>6 DEF Shape
  <2>3. recs[p].type \in {"EMPTY", "DATA"}
    BY <1>6 DEF HasNode
  <2>4. ASSUME q # << >>, Parent(q) = p PROVE \E b \in Bit : q = Child(p, b)
    BY <2>4, ChildOfParent
  <2>5. CASE \E b \in Bit : q = Child(p, b)
    BY <1>1, <1>2, <2>1, <2>3, <2>5
  <2>6. CASE ~\E b \in Bit : q = Child(p, b)
    <3>1. recs'[q].type = "ABSENT" <=> recs[q].type = "ABSENT"
      BY <1>1, <1>3, <2>1, <2>3, <2>6 DEF HasNode
    <3>2. q # << >> => (HasNode(recs'[Parent(q)]) <=> HasNode(recs[Parent(q)]))
      <4> SUFFICES ASSUME q # << >>
                   PROVE  HasNode(recs'[Parent(q)]) <=> HasNode(recs[Parent(q)])
        OBVIOUS
      <4>1. Parent(q) # p
        BY <2>4, <2>6
      <4>2. ASSUME NEW b \in Bit, Parent(q) = Child(p, b)
            PROVE  ~HasNode(recs'[Parent(q)]) /\ ~HasNode(recs[Parent(q)])
        BY <1>6, <2>1, <2>2, <4>2 DEF HasNode
      <4> QED BY <1>3, <1>4, <2>1, <4>1, <4>2
    <3> QED BY <3>1, <3>2 DEF Shape
  <2> QED BY <2>5, <2>6
<1> QED BY <1>5, <1>6

-----------------------------------------------------------------------------
(* Counting records                                                        *)

\* How many records point to k after a graft at p.
LEMMA GraftReferences ==
    ASSUME recs \in [Prefix -> Record], NEW p \in Prefix, NEW r \in Record,
           recs' = Graft(p, r), NEW k \in Key
    PROVE  References(k)' =
               References(k) - CountBelow(p, k) + (IF r = Data(k) THEN 1 ELSE 0)
<1> DEFINE A == {q \in Prefix : recs[q] = Data(k)}
           B == {q \in Prefix : Covers(p, q) /\ recs[q] = Data(k)}
           C == {q \in Prefix : recs'[q] = Data(k)}
<1>1. /\ recs'[p] = r
      /\ \A q \in Prefix : ~Covers(p, q) => recs'[q] = recs[q]
      /\ \A q \in Prefix :
            Below(p, q) =>
                recs'[q] = IF r.type = "FIXED_NODE" /\ Len(q) = Len(p) + 1
                           THEN Plain("EMPTY") ELSE Plain("ABSENT")
  BY GraftFacts
<1>2. Plain("EMPTY") # Data(k) /\ Plain("ABSENT") # Data(k)
  BY DEF Plain, Data
<1>3. \A q \in Prefix : Covers(p, q) <=> q = p \/ Below(p, q)
  BY BelowIsCovers, CoversOrder
<1>4. IF r = Data(k) THEN C = (A \ B) \cup {p} ELSE C = A \ B
  BY <1>1, <1>2, <1>3
<1>5. /\ IsFiniteSet(A) /\ Cardinality(A) \in Nat
      /\ IsFiniteSet(B) /\ Cardinality(B) \in Nat
  BY PositionsCounted
<1>6. A \cap B = B /\ p \notin A \ B
  BY <1>3
<1>7. IsFiniteSet(A \ B) /\ Cardinality(A \ B) = Cardinality(A) - Cardinality(B)
  BY <1>5, <1>6, FS_Difference
<1>8. Cardinality((A \ B) \cup {p}) = Cardinality(A \ B) + 1
  BY <1>6, <1>7, FS_AddElement
<1>9. /\ References(k) = Cardinality(A) /\ CountBelow(p, k) = Cardinality(B)
      /\ References(k)' = Cardinality(C)
  BY DEF References, CountBelow
<1> HIDE DEF A, B, C
<1>10. Cardinality(C) = Cardinality(A) - Cardinality(B) + (IF r = Data(k) THEN 1 ELSE 0)
  BY <1>4, <1>5, <1>7, <1>8
<1> QED BY <1>9, <1>10

\* How many records point to k once the recursion has gone on from p: one
\* more where the leaf that was split points to k.
LEMMA DescendReferences ==
    ASSUME recs \in [Prefix -> Record], Shape,
           NEW p \in Prefix, Len(p) < W,
           recs[p].type \in {"EMPTY", "DATA", "NODE", "FIXED_NODE"},
           NEW t \in {"NODE", "FIXED_NODE"},
           recs' = IF HasNode(recs[p]) THEN [recs EXCEPT ![p] = Plain(t)] ELSE Split(p, t),
           NEW k \in Key
    PROVE  References(k)' = References(k) + (IF recs[p] = Data(k) THEN 1 ELSE 0)
<1> DEFINE A == {q \in Prefix : recs[q] = Data(k)}
           C == {q \in Prefix : recs'[q] = Data(k)}
           c0 == Child(p, 0)
           c1 == Child(p, 1)
<1>1. Plain(t) # Data(k) /\ Plain(t) \in Record /\ t \in PlainTypes
  BY RecordFacts DEF Plain, Data, PlainTypes, FixedTypes
<1>2. /\ IsFiniteSet(A) /\ Cardinality(A) \in Nat
      /\ IsFiniteSet(C) /\ Cardinality(C) \in Nat
  BY PositionsCounted
<1>3. References(k) = Cardinality(A) /\ References(k)' = Cardinality(C)
  BY DEF References
<1>4. Data(k).type = "DATA"
  BY RecordFacts
<1>5. CASE HasNode(recs[p])
  <2>1. recs[p] # Data(k)
    BY <1>4, <1>5 DEF HasNode
  <2>2. C = A
    BY <1>1, <1>5, <2>1
  <2> HIDE DEF A, C
  <2> QED BY <1>2, <1>3, <2>1, <2>2
<1>6. CASE ~HasNode(recs[p])
  <2>1. 0 \in Bit /\ 1 \in Bit /\ \A b \in Bit : b = 0 \/ b = 1
    BY DEF Bit
  <2>2. /\ c0 \in Prefix /\ c1 \in Prefix /\ c0 # p /\ c1 # p
        /\ c0 # << >> /\ c1 # << >> /\ Parent(c0) = p /\ Parent(c1) = p
    BY <2>1, ChildIsPrefix, AboveChild, BelowIsCovers
  <2>3. c0 # c1
    BY <2>1, ChildIsPrefix
  <2>4. /\ recs'[p] = Plain(t) /\ recs'[c0] = recs[p] /\ recs'[c1] = recs[p]
        /\ \A q \in Prefix : q # p /\ q # c0 /\ q # c1 => recs'[q] = recs[q]
    BY <1>1, <1>6, <2>1, SplitFacts
  <2>5. recs[c0].type = "ABSENT" /\ recs[c1].type = "ABSENT"
    BY <1>6, <2>2 DEF Shape
  <2> HIDE DEF c0, c1
  <2>6. c0 \notin A /\ c1 \notin A
    BY <1>4, <2>5
  <2>7. CASE recs[p] # Data(k)
    <3>1. C = A
      BY <1>1, <2>2, <2>4, <2>6, <2>7
    <3> HIDE DEF A, C
    <3> QED BY <1>2, <1>3, <2>7, <3>1
  <2>8. CASE recs[p] = Data(k)
    <3>1. C = ((A \ {p}) \cup {c0}) \cup {c1}
      BY <1>1, <2>2, <2>4, <2>6, <2>8
    <3>2. p \in A
      BY <2>8
    <3> HIDE DEF A, C
    <3>3. IsFiniteSet(A \ {p}) /\ Cardinality(A \ {p}) = Cardinality(A) - 1
      BY <1>2, <3>2, FS_RemoveElement
    <3>4. c0 \notin A \ {p}
      BY <2>6
    <3>5. /\ IsFiniteSet((A \ {p}) \cup {c0})
          /\ Cardinality((A \ {p}) \cup {c0}) = Cardinality(A \ {p}) + 1
      BY <3>3, <3>4, FS_AddElement
    <3>6. c1 \notin (A \ {p}) \cup {c0}
      BY <2>3, <2>6
    <3>7. Cardinality(C) = Cardinality((A \ {p}) \cup {c0}) + 1
      BY <3>1, <3>5, <3>6, FS_AddElement
    <3> QED BY <1>2, <1>3, <2>8, <3>3, <3>5, <3>7
  <2> QED BY <2>7, <2>8
<1> QED BY <1>5, <1>6

\* References and the records of one subtree, compared.
LEMMA ReferencesFacts ==
    ASSUME NEW k \in Key
    PROVE  /\ References(k) \in Nat
           /\ \A p : CountBelow(p, k) \in Nat /\ CountBelow(p, k) <= References(k)
           /\ CountBelow(<< >>, k) = References(k)
           /\ \A p \in Prefix : recs[p] = Data(k) => References(k) >= 1
<1> DEFINE A == {q \in Prefix : recs[q] = Data(k)}
           B(p) == {q \in Prefix : Covers(p, q) /\ recs[q] = Data(k)}
<1>1. IsFiniteSet(A) /\ Cardinality(A) \in Nat /\ References(k) = Cardinality(A)
  BY PositionsCounted DEF References
<1>2. ASSUME NEW p
      PROVE  CountBelow(p, k) \in Nat /\ CountBelow(p, k) <= References(k)
  <2>1. B(p) \in SUBSET A
    OBVIOUS
  <2>2. Cardinality(B(p)) <= Cardinality(A)
    BY <1>1, <2>1, FS_Subset
  <2>3. Cardinality(B(p)) \in Nat
    BY PositionsCounted
  <2> QED BY <1>1, <2>2, <2>3 DEF CountBelow
<1>3. CountBelow(<< >>, k) = References(k)
  <2>1. B(<< >>) = A
    BY CoversOrder
  <2> QED BY <2>1 DEF CountBelow, References
<1>4. ASSUME NEW p \in Prefix, recs[p] = Data(k) PROVE References(k) >= 1
  <2>1. A # {}
    BY <1>4
  <2> HIDE DEF A
  <2>2. Cardinality(A) # 0
    BY <1>1, <2>1, FS_EmptySet
  <2> QED BY <1>1, <2>2
<1> QED BY <1>1, <1>2, <1>3, <1>4

-----------------------------------------------------------------------------
(* Entries with a positive count have their value                          *)

StoredOK(t) == \A k \in Key : t[k].count > 0 => t[k].sv

\* Every entry keeps its value through each operation of the table, if a reference is added only to an entry in use.
LEMMA StoredKept ==
    ASSUME NEW t \in Table, StoredOK(t)
    PROVE  /\ \A k \in Key : StoredOK(Store(t, k)) /\ StoredOK(Dec(t, k))
           /\ \A k \in Key : t[k].count > 0 => StoredOK(Inc(t, k))
           /\ \A p : StoredOK(Release(t, p))
<1>1. \A j \in Key : /\ t[j] = [count |-> t[j].count, sv |-> t[j].sv]
                     /\ t[j].count \in Int /\ t[j].sv \in BOOLEAN
  BY DEF Table
<1>2. ASSUME NEW n \in [Key -> Nat] PROVE StoredOK(Drop(t, n))
  <2> SUFFICES ASSUME NEW k \in Key, Drop(t, n)[k].count > 0 PROVE Drop(t, n)[k].sv
    BY DEF StoredOK
  <2>1. n[k] \in Nat /\ t[k].count \in Int
    BY <1>1
  <2>2. Drop(t, n)[k] = [count |-> t[k].count - n[k], sv |-> t[k].sv /\ t[k].count # n[k]]
    BY DEF Drop
  <2>3. t[k].count - n[k] > 0
    BY <2>2
  <2>4. t[k].count > 0 /\ t[k].count # n[k]
    BY <2>1, <2>3
  <2>5. t[k].sv
    BY <2>4 DEF StoredOK
  <2>6. Drop(t, n)[k].sv = (t[k].sv /\ t[k].count # n[k])
    BY <2>2
  <2> QED BY <2>4, <2>5, <2>6
<1>3. ASSUME NEW k \in Key PROVE StoredOK(Dec(t, k))
  <2> DEFINE n == [j \in Key |-> IF j = k THEN 1 ELSE 0]
  <2>1. n \in [Key -> Nat]
    OBVIOUS
  <2> HIDE DEF n
  <2>2. StoredOK(Drop(t, n))
    BY <1>2, <2>1
  <2> QED BY <2>2 DEF Dec, n
<1>4. ASSUME NEW p PROVE StoredOK(Release(t, p))
  <2> DEFINE n == [k \in Key |-> CountBelow(p, k)]
  <2>1. n \in [Key -> Nat]
    BY ReleaseFacts
  <2> HIDE DEF n
  <2>2. StoredOK(Drop(t, n))
    BY <1>2, <2>1
  <2> QED BY <2>2 DEF Release, CountBelow, n
<1>5. ASSUME NEW k \in Key PROVE StoredOK(Store(t, k))
  BY <1>1 DEF StoredOK, Store
<1>6. ASSUME NEW k \in Key, t[k].count > 0 PROVE StoredOK(Inc(t, k))
  BY <1>1, <1>6 DEF StoredOK, Inc
<1> QED BY <1>3, <1>4, <1>5, <1>6

-----------------------------------------------------------------------------
(* The invariant                                                           *)

\* No merge fails below the top level of the values: the failures that
\* merge_hashes_for_keys itself finds it also cleans up after.
NoMismatch == \A m \in Strategies \X Key \X Key : Merge[m] # Mismatch

\* A reference is held only during an insert, whose records all point to the
\* key it is held on.  new_tree's inserts point to no data.
HeldOK ==
    /\ op = "insert" =>
          /\ held \in Key
          /\ \A i \in 1..Len(queue) : queue[i].rec = Data(held)
    /\ op # "insert" =>
          /\ held = NoKey
          /\ \A i \in 1..Len(queue) : queue[i].rec.type # "DATA"
    /\ op = "new_tree" => \A p \in Prefix : recs[p].type # "DATA"

Holds(k) == IF held = k THEN 1 ELSE 0

\* A count is never too low, and exact where no merge fails below the top.
CountsOK ==
    \A k \in Key :
        /\ table[k].count >= References(k) + Holds(k)
        /\ NoMismatch => table[k].count = References(k) + Holds(k)

TableInv == Inv /\ Shape /\ HeldOK /\ CountsOK /\ StoredOK(table)

\* What each step is shown to keep, besides Inv.
TableExact == Shape /\ HeldOK /\ CountsOK /\ StoredOK(table)

\* What the invariant says of a call in progress.
LEMMA HeldFacts ==
    ASSUME TableInv, op \in Running
    PROVE  /\ new.type = "DATA" => op = "insert" /\ held \in Key /\ new = Data(held)
           /\ op = "insert" => new = Data(held)
           /\ op # "insert" => held = NoKey
<1>1. /\ queue \in Seq(Item) /\ queue # << >>
  BY RunningFacts DEF TableInv
<1>2. 1 \in 1..Len(queue) /\ new = queue[1].rec
  BY <1>1, QueueFacts
<1> QED BY <1>2 DEF TableInv, HeldOK

-----------------------------------------------------------------------------
(* The steps                                                               *)

\* A graft that takes one reference for the new record and gives back those of
\* the subtree it replaces.
LEMMA GraftCounted ==
    ASSUME TableInv, op \in Running, UNCHANGED <<op, held, queue>>,
           NEW p \in Prefix, NEW r \in Record, recs' = Graft(p, r),
           recs[p].type # "ABSENT", r.type \notin {"ABSENT", "NODE"},
           op = "new_tree" => r.type # "DATA",
           StoredOK(table'),
           \A k \in Key :
               table'[k].count =
                   table[k].count - CountBelow(p, k) + (IF r = Data(k) THEN 1 ELSE 0)
    PROVE  TableExact'
<1>1. recs \in [Prefix -> Record] /\ table \in Table
  BY RunningFacts DEF TableInv
<1>2. Shape'
  BY <1>1, GraftShape DEF TableInv, Running
<1>3. CountsOK'
  <2> SUFFICES ASSUME NEW k \in Key
               PROVE  /\ table'[k].count >= References(k)' + Holds(k)'
                      /\ NoMismatch => table'[k].count = References(k)' + Holds(k)'
    BY DEF CountsOK, NoMismatch
  <2>1. References(k)' =
            References(k) - CountBelow(p, k) + (IF r = Data(k) THEN 1 ELSE 0)
    BY <1>1, GraftReferences
  <2>2. Holds(k)' = Holds(k) /\ Holds(k) \in {0, 1}
    BY DEF Holds
  <2>3. /\ table[k].count \in Int /\ References(k) \in Nat
        /\ CountBelow(p, k) \in Nat
    BY <1>1, ReferencesFacts DEF Table
  <2>4. /\ table[k].count >= References(k) + Holds(k)
        /\ NoMismatch => table[k].count = References(k) + Holds(k)
    BY DEF TableInv, CountsOK
  <2>5. table'[k].count =
            table[k].count - CountBelow(p, k) + (IF r = Data(k) THEN 1 ELSE 0)
    OBVIOUS
  <2> DEFINE d == IF r = Data(k) THEN 1 ELSE 0
  <2>6. d \in {0, 1}
    OBVIOUS
  <2>7. /\ References(k)' = References(k) - CountBelow(p, k) + d
        /\ table'[k].count = table[k].count - CountBelow(p, k) + d
    BY <2>1, <2>5
  <2> HIDE DEF d
  <2> QED BY <2>2, <2>3, <2>4, <2>6, <2>7
<1>4. HeldOK'
  <2>1. op = "new_tree" => \A q \in Prefix : recs'[q].type # "DATA"
    <3> SUFFICES ASSUME op = "new_tree", NEW q \in Prefix PROVE recs'[q].type # "DATA"
      OBVIOUS
    <3>1. recs[q].type # "DATA" /\ r.type # "DATA"
      BY DEF TableInv, HeldOK
    <3>2. Plain("EMPTY").type = "EMPTY" /\ Plain("ABSENT").type = "ABSENT"
      BY RecordFacts DEF PlainTypes
    <3>3. CASE Below(p, q)
      BY <1>1, <3>2, <3>3, GraftFacts
    <3>4. CASE q = p
      BY <1>1, <3>1, <3>4, GraftFacts
    <3>5. CASE ~Covers(p, q)
      BY <1>1, <3>1, <3>5, GraftFacts
    <3> QED BY <3>3, <3>4, <3>5, BelowIsCovers
  <2> QED BY <2>1 DEF TableInv, HeldOK
<1> QED BY <1>2, <1>3, <1>4 DEF TableExact

\* insert_record_into_current_record without a merge keeps the counts exact.
LEMMA SetRecordCounted == ASSUME TableInv, SetRecord PROVE TableExact'
<1>1. /\ op \in Running
      /\ recs[at].type \in {"EMPTY", "DATA", "NODE"}
      /\ recs' = Graft(at, new)
      /\ UNCHANGED <<op, held, queue>>
      /\ table' = IF new.type = "DATA" THEN Inc(Release(table, at), new.key)
                  ELSE Release(table, at)
  BY DEF SetRecord, Settles, Down
<1>2. /\ at \in Prefix /\ new \in Record /\ table \in Table
      /\ new.type \notin {"ABSENT", "NODE"}
  BY <1>1, RunningFacts DEF TableInv
<1>3. op = "new_tree" => new.type # "DATA"
  BY <1>1, HeldFacts
<1> DEFINE t == Release(table, at)
<1>4. /\ t \in Table /\ StoredOK(t)
      /\ \A k \in Key : t[k].count = table[k].count - CountBelow(at, k)
  BY <1>2, ReleaseFacts, StoredKept DEF TableInv
<1> HIDE DEF t
<1>5. CASE new.type = "DATA"
  <2>1. held \in Key /\ new = Data(held) /\ new.key = held
    BY <1>1, <1>5, HeldFacts, RecordFacts
  <2>2. table' = Inc(t, held)
    BY <1>1, <1>5, <2>1 DEF t
  <2>3. t[held].count > 0
    <3>1. /\ table[held].count \in Int
          /\ References(held) \in Nat /\ CountBelow(at, held) \in Nat
          /\ CountBelow(at, held) <= References(held)
      BY <1>2, <2>1, ReferencesFacts DEF Table
    <3>2. table[held].count >= References(held) + 1
      BY <2>1 DEF TableInv, CountsOK, Holds
    <3>3. t[held].count = table[held].count - CountBelow(at, held)
      BY <1>4, <2>1
    <3> QED BY <3>1, <3>2, <3>3
  <2>4. StoredOK(table')
    BY <1>4, <2>1, <2>2, <2>3, StoredKept
  <2>5. \A k \in Key : new = Data(k) <=> k = held
    BY <2>1, RecordFacts
  <2>6. \A k \in Key :
           table'[k].count =
               table[k].count - CountBelow(at, k) + (IF new = Data(k) THEN 1 ELSE 0)
    <3> TAKE k \in Key
    <3>1. table[k].count \in Int /\ CountBelow(at, k) \in Nat
      BY <1>2, ReferencesFacts DEF Table
    <3>2. table'[k].count = t[k].count + (IF k = held THEN 1 ELSE 0)
      BY <1>4, <2>1, <2>2, TableFacts
    <3>3. t[k].count = table[k].count - CountBelow(at, k)
      BY <1>4
    <3>4. CASE k = held
      BY <2>5, <3>1, <3>2, <3>3, <3>4
    <3>5. CASE k # held
      BY <2>5, <3>1, <3>2, <3>3, <3>5
    <3> QED BY <3>4, <3>5
  <2> QED BY <1>1, <1>2, <1>3, <2>4, <2>6, GraftCounted
<1>6. CASE new.type # "DATA"
  <2>1. table' = t
    BY <1>1, <1>6 DEF t
  <2>2. \A k \in Key : new # Data(k)
    BY <1>6, RecordFacts
  <2>3. \A k \in Key : table[k].count - CountBelow(at, k) \in Int
    BY <1>2, ReferencesFacts DEF Table
  <2>4. \A k \in Key :
           table'[k].count =
               table[k].count - CountBelow(at, k) + (IF new = Data(k) THEN 1 ELSE 0)
    BY <1>4, <2>1, <2>2, <2>3
  <2> QED BY <1>1, <1>2, <1>3, <1>4, <2>1, <2>4, GraftCounted
<1> QED BY <1>5, <1>6

\* A merge that succeeds keeps the counts exact.
LEMMA MergeRecordCounted == ASSUME TableInv, MergeRecord PROVE TableExact'
<1> DEFINE s == IF CacheHit THEN Inc(table, Merged) ELSE Store(table, Merged)
           t == Release(s, at)
<1>1. /\ op \in Running /\ Merged \in Key /\ new.type = "DATA"
      /\ recs[at].type \in {"EMPTY", "DATA", "NODE"}
      /\ recs' = Graft(at, Data(Merged))
      /\ UNCHANGED <<op, held, queue>>
      /\ table' = Dec(Inc(t, Merged), Merged)
  BY DEF MergeRecord, Settles, Merges, Down
<1>2. /\ at \in Prefix /\ table \in Table
      /\ Data(Merged) \in Record /\ Data(Merged).type = "DATA"
  BY <1>1, RunningFacts, RecordFacts DEF TableInv
<1>3. CacheHit => table[Merged].count > 0
  BY DEF CacheHit, Merged
<1> DEFINE m == Merged
<1>4. /\ m \in Key /\ table' = Dec(Inc(t, m), m) /\ recs' = Graft(at, Data(m))
      /\ Data(m) \in Record /\ Data(m).type = "DATA"
  BY <1>1, <1>2
<1>5. /\ s \in Table /\ StoredOK(s)
      /\ \A k \in Key : s[k].count = table[k].count + (IF k = m THEN 1 ELSE 0)
  BY <1>2, <1>3, <1>4, TableFacts, StoredKept DEF TableInv
<1> HIDE DEF s, m
<1>6. /\ t \in Table /\ StoredOK(t)
      /\ \A k \in Key : t[k].count = s[k].count - CountBelow(at, k)
  BY <1>5, ReleaseFacts, StoredKept
<1> HIDE DEF t
<1>7. t[m].count > 0
  <2>1. /\ table[m].count \in Int /\ References(m) \in Nat
        /\ CountBelow(at, m) \in Nat /\ CountBelow(at, m) <= References(m)
    BY <1>2, <1>4, ReferencesFacts DEF Table
  <2>2. table[m].count >= References(m) + Holds(m) /\ Holds(m) \in {0, 1}
    BY <1>4 DEF TableInv, CountsOK, Holds
  <2>3. t[m].count = table[m].count + 1 - CountBelow(at, m)
    <3>1. s[m].count = table[m].count + 1
      BY <1>4, <1>5
    <3>2. \A k \in Key : t[k].count = s[k].count - CountBelow(at, k)
      BY <1>6
    <3>3. m \in Key
      BY <1>4
    <3>4. t[m].count = s[m].count - CountBelow(at, m)
      BY <3>2, <3>3
    <3> QED BY <2>1, <3>1, <3>4
  <2> QED BY <2>1, <2>2, <2>3
<1>8. /\ Inc(t, m) \in Table /\ StoredOK(Inc(t, m))
      /\ \A k \in Key : Inc(t, m)[k].count = t[k].count + (IF k = m THEN 1 ELSE 0)
  BY <1>4, <1>6, <1>7, TableFacts, StoredKept
<1>9. /\ StoredOK(table')
      /\ \A k \in Key : table'[k].count = Inc(t, m)[k].count - (IF k = m THEN 1 ELSE 0)
  BY <1>4, <1>8, TableFacts, StoredKept
<1>10. \A k \in Key :
          table'[k].count =
              table[k].count - CountBelow(at, k) + (IF Data(m) = Data(k) THEN 1 ELSE 0)
  <2> TAKE k \in Key
  <2>1. Data(m) = Data(k) <=> k = m
    BY RecordFacts
  <2>2. table[k].count \in Int /\ CountBelow(at, k) \in Nat
    BY <1>2, ReferencesFacts DEF Table
  <2>3. CASE k = m
    BY <1>5, <1>6, <1>8, <1>9, <2>1, <2>2, <2>3
  <2>4. CASE k # m
    BY <1>5, <1>6, <1>8, <1>9, <2>1, <2>2, <2>4
  <2> QED BY <2>3, <2>4
<1>11. op # "new_tree"
  BY <1>1, HeldFacts
<1> QED BY <1>1, <1>2, <1>4, <1>9, <1>10, <1>11, GraftCounted

\* Trimming upwards keeps the counts exact.
LEMMA TrimCounted == ASSUME TableInv, Trim PROVE TableExact'
<1> DEFINE p == Parent(at)
           r == recs[Child(p, 0)]
           s == IF r.type = "DATA" THEN Inc(table, r.key) ELSE table
<1>1. /\ op \in Running /\ at # << >>
      /\ UNCHANGED <<op, held, queue>>
      /\ IF Trimmable(p)
         THEN recs' = Graft(p, r) /\ table' = Release(s, p)
         ELSE recs' = recs /\ table' = table
  BY DEF Trim, Up
<1>2. at \in Prefix /\ recs \in [Prefix -> Record] /\ table \in Table
  BY <1>1, RunningFacts DEF TableInv
<1>3. p \in Prefix /\ Len(p) < W
  BY <1>1, <1>2, ParentIsPrefix, ChildOfParent
<1>4. Child(p, 0) \in Prefix
  BY <1>3, ChildIsPrefix DEF Bit
<1>5. r = recs[Child(p, 0)] /\ r \in Record
  BY <1>2, <1>4
<1> HIDE DEF p, r
<1>6. CASE Trimmable(p)
  <2>1. recs[p].type = "NODE" /\ r.type \in {"EMPTY", "DATA"}
    BY <1>5, <1>6 DEF Trimmable, Identical
  <2>2. r.type = "DATA" => r.key \in Key /\ r = Data(r.key)
    BY <1>5, RecordFacts
  <2>3. op = "new_tree" => r.type # "DATA"
    BY <1>4, <1>5 DEF TableInv, HeldOK
  <2>4. r.type = "DATA" => table[r.key].count > 0
    <3> SUFFICES ASSUME r.type = "DATA" PROVE table[r.key].count > 0
      OBVIOUS
    <3>1. References(r.key) >= 1 /\ References(r.key) \in Nat
      BY <1>4, <1>5, <2>2, ReferencesFacts
    <3>2. table[r.key].count >= References(r.key) + Holds(r.key)
      BY <2>2 DEF TableInv, CountsOK
    <3>3. Holds(r.key) \in {0, 1} /\ table[r.key].count \in Int
      BY <1>2, <2>2 DEF Holds, Table
    <3> QED BY <3>1, <3>2, <3>3
  <2>5. /\ s \in Table /\ StoredOK(s)
        /\ \A k \in Key : s[k].count = table[k].count + (IF r = Data(k) THEN 1 ELSE 0)
    <3>1. CASE r.type = "DATA"
      <4>1. /\ s \in Table /\ StoredOK(s)
            /\ \A k \in Key : s[k].count = table[k].count + (IF k = r.key THEN 1 ELSE 0)
        BY <1>2, <2>2, <2>4, <3>1, TableFacts, StoredKept DEF TableInv
      <4>2. \A k \in Key : r = Data(k) <=> k = r.key
        BY <2>2, <3>1, RecordFacts
      <4> HIDE DEF s
      <4> QED BY <4>1, <4>2
    <3>2. CASE r.type # "DATA"
      <4>1. \A k \in Key : r # Data(k)
        BY <3>2, RecordFacts
      <4> QED BY <1>2, <3>2, <4>1 DEF TableInv, Table
    <3> QED BY <3>1, <3>2
  <2> HIDE DEF s
  <2>6. /\ StoredOK(table')
        /\ \A k \in Key : table'[k].count = s[k].count - CountBelow(p, k)
    BY <1>1, <1>6, <2>5, ReleaseFacts, StoredKept
  <2>7. ASSUME NEW k \in Key
        PROVE  table'[k].count =
                   table[k].count - CountBelow(p, k) + (IF r = Data(k) THEN 1 ELSE 0)
    <3>1. table[k].count \in Int /\ CountBelow(p, k) \in Nat
      BY <1>2, ReferencesFacts DEF Table
    <3>2. /\ table'[k].count = s[k].count - CountBelow(p, k)
          /\ s[k].count = table[k].count + (IF r = Data(k) THEN 1 ELSE 0)
      BY <2>5, <2>6
    <3>3. CASE r = Data(k)
      BY <3>1, <3>2, <3>3
    <3>4. CASE r # Data(k)
      BY <3>1, <3>2, <3>4
    <3> QED BY <3>3, <3>4
  <2>8. recs' = Graft(p, r)
    BY <1>1, <1>6
  <2> QED BY <1>1, <1>3, <1>5, <2>1, <2>3, <2>6, <2>7, <2>8, GraftCounted
<1>7. CASE ~Trimmable(p)
  <2>1. UNCHANGED <<recs, table, op, held, queue>>
    BY <1>1, <1>7
  <2>2. \A k \in Key : References(k)' = References(k) /\ Holds(k)' = Holds(k)
    BY <2>1 DEF References, Holds
  <2> QED BY <2>1, <2>2 DEF TableInv, TableExact, Shape, HeldOK, CountsOK, StoredOK, NoMismatch
<1> QED BY <1>6, <1>7

\* Descending, and splitting a leaf on the way, keeps the counts exact.
LEMMA DescendCounted == ASSUME TableInv, Descend PROVE TableExact'
<1>1. /\ op \in Running
      /\ recs[at].type \in {"EMPTY", "DATA", "NODE", "FIXED_NODE"}
      /\ recs' = IF HasNode(recs[at])
                 THEN [recs EXCEPT ![at] = Plain(NodeType)] ELSE Split(at, NodeType)
      /\ table' = CountCopy
      /\ UNCHANGED <<op, held, queue>>
  BY DEF Descend, Down
<1>2. /\ at \in Prefix /\ recs \in [Prefix -> Record] /\ recs[at] \in Record
      /\ table \in Table
  BY <1>1, RunningFacts DEF TableInv
<1>3. Len(at) < W
  BY DescendRoom DEF TableInv
<1>4. NodeType \in {"NODE", "FIXED_NODE"}
  BY DEF NodeType
<1>5. Shape'
  BY <1>1, <1>2, <1>3, <1>4, DescendShape DEF TableInv, Running
<1>6. \A k \in Key :
         References(k)' = References(k) + (IF recs[at] = Data(k) THEN 1 ELSE 0)
  BY <1>1, <1>2, <1>3, <1>4, DescendReferences DEF TableInv
<1>7. recs[at].type = "DATA" => recs[at].key \in Key /\ recs[at] = Data(recs[at].key)
  BY <1>2, RecordFacts
<1>8. /\ StoredOK(table')
      /\ \A k \in Key :
            table'[k].count = table[k].count + (IF recs[at] = Data(k) THEN 1 ELSE 0)
  <2>1. CASE recs[at].type = "DATA"
    <3> DEFINE j == recs[at].key
    <3>1. j \in Key /\ table' = Inc(table, j) /\ recs[at] = Data(j)
      BY <1>1, <1>7, <2>1 DEF CountCopy
    <3> HIDE DEF j
    <3>2. table[j].count > 0
      <4>1. References(j) >= 1 /\ References(j) \in Nat
        BY <1>2, <3>1, ReferencesFacts
      <4>2. table[j].count >= References(j) + Holds(j)
        BY <3>1 DEF TableInv, CountsOK
      <4>3. Holds(j) \in {0, 1} /\ table[j].count \in Int
        BY <1>2, <3>1 DEF Holds, Table
      <4> QED BY <4>1, <4>2, <4>3
    <3>3. StoredOK(table')
      BY <1>2, <3>1, <3>2, StoredKept DEF TableInv
    <3>4. \A k \in Key : table'[k].count = table[k].count + (IF k = j THEN 1 ELSE 0)
      BY <1>2, <3>1, TableFacts
    <3>5. \A k \in Key : recs[at] = Data(k) <=> k = j
      BY <3>1, RecordFacts
    <3> QED BY <3>3, <3>4, <3>5
  <2>2. CASE recs[at].type # "DATA"
    <3>1. \A k \in Key : recs[at] # Data(k)
      BY <2>2, RecordFacts
    <3>2. table' = table
      BY <1>1, <2>2 DEF CountCopy
    <3>3. \A k \in Key : table[k].count \in Int
      BY <1>2 DEF Table
    <3> QED BY <3>1, <3>2, <3>3 DEF TableInv, StoredOK
  <2> QED BY <2>1, <2>2
<1>9. CountsOK'
  <2> SUFFICES ASSUME NEW k \in Key
               PROVE  /\ table'[k].count >= References(k)' + Holds(k)'
                      /\ NoMismatch => table'[k].count = References(k)' + Holds(k)'
    BY DEF CountsOK, NoMismatch
  <2> DEFINE d == IF recs[at] = Data(k) THEN 1 ELSE 0
  <2>1. /\ References(k)' = References(k) + d /\ table'[k].count = table[k].count + d
        /\ d \in {0, 1}
    BY <1>6, <1>8
  <2> HIDE DEF d
  <2>2. Holds(k)' = Holds(k) /\ Holds(k) \in {0, 1}
    BY <1>1 DEF Holds
  <2>3. table[k].count \in Int /\ References(k) \in Nat
    BY <1>2, ReferencesFacts DEF Table
  <2>4. /\ table[k].count >= References(k) + Holds(k)
        /\ NoMismatch => table[k].count = References(k) + Holds(k)
    BY DEF TableInv, CountsOK
  <2> QED BY <2>1, <2>2, <2>3, <2>4
<1>10. HeldOK'
  <2>1. ASSUME op = "new_tree", NEW q \in Prefix PROVE recs'[q].type # "DATA"
    <3>1. \A s \in Prefix : recs[s].type # "DATA"
      BY <2>1 DEF TableInv, HeldOK
    <3>2. Plain(NodeType).type # "DATA" /\ NodeType \in PlainTypes
      BY <1>4, RecordFacts DEF PlainTypes, FixedTypes
    <3>3. CASE HasNode(recs[at])
      BY <1>1, <1>2, <3>1, <3>2, <3>3
    <3>4. CASE ~HasNode(recs[at])
      <4>1. recs' = Split(at, NodeType)
        BY <1>1, <3>4
      <4>2. 0 \in Bit /\ 1 \in Bit
        BY DEF Bit
      <4>3. /\ recs'[at] = Plain(NodeType)
            /\ recs'[Child(at, 0)] = recs[at] /\ recs'[Child(at, 1)] = recs[at]
            /\ \A s \in Prefix :
                  s # at /\ s # Child(at, 0) /\ s # Child(at, 1) => recs'[s] = recs[s]
        BY <1>2, <1>3, <3>2, <4>1, <4>2, SplitFacts
      <4> QED BY <1>2, <3>1, <3>2, <4>3
    <3> QED BY <3>3, <3>4
  <2> QED BY <1>1, <2>1 DEF TableInv, HeldOK
<1> QED BY <1>5, <1>8, <1>9, <1>10 DEF TableExact

\* A step that only moves the recursion, or goes on to the next record.
LEMMA MoveCounted ==
    ASSUME TableInv, UNCHANGED <<recs, table, held, op>>, op \in Running,
           \/ queue' = queue
           \/ queue' = Tail(queue)
    PROVE  TableExact'
<1>1. \A k \in Key : References(k)' = References(k) /\ Holds(k)' = Holds(k)
  BY DEF References, Holds
<1>2. Shape' /\ CountsOK' /\ StoredOK(table')
  BY <1>1 DEF TableInv, Shape, CountsOK, StoredOK, NoMismatch
<1>3. HeldOK'
  <2>1. CASE queue' = queue
    BY <2>1 DEF TableInv, HeldOK
  <2>2. CASE queue' = Tail(queue)
    <3>1. \A i \in 1..Len(queue') : i + 1 \in 1..Len(queue) /\ queue'[i] = queue[i + 1]
      BY <2>2, RunningFacts, QueueFacts DEF TableInv
    <3> QED BY <3>1 DEF TableInv, HeldOK
  <2> QED BY <2>1, <2>2
<1> QED BY <1>2, <1>3 DEF TableExact

\* A call that returns, giving back the reference it holds if it holds one.
LEMMA ReturnCounted ==
    ASSUME TableInv, op \in Running, op' \in {"idle", "freed"},
           held' = NoKey, queue' = << >>, table' \in Table, StoredOK(table'),
           \/ op' = "idle" /\ recs' = recs
           \/ op = "new_tree" /\ op' = "freed" /\ recs' = NoTree,
           \A k \in Key : /\ table'[k].count >= table[k].count - Holds(k)
                          /\ NoMismatch => table'[k].count = table[k].count - Holds(k)
    PROVE  TableExact'
<1>1. table \in Table
  BY RunningFacts DEF TableInv
<1>2. \A k \in Key : References(k)' = References(k)
  <2> TAKE k \in Key
  <2>1. CASE recs' = recs
    BY <2>1 DEF References
  <2>2. CASE op = "new_tree" /\ recs' = NoTree
    <3>1. \A p \in Prefix : recs[p] # Data(k)
      BY <2>2, RecordFacts DEF TableInv, HeldOK
    <3>2. \A p \in Prefix : recs'[p] # Data(k)
      BY <2>2, EmptyFacts, RecordFacts
    <3>3. {p \in Prefix : recs[p] = Data(k)} = {p \in Prefix : recs'[p] = Data(k)}
      BY <3>1, <3>2
    <3> QED BY <3>3 DEF References
  <2> QED BY <2>1, <2>2
<1>3. Shape'
  <2>1. CASE op' = "idle" /\ recs' = recs
    BY <2>1 DEF TableInv, Shape, Running
  <2>2. CASE op' = "freed" /\ recs' = NoTree
    BY <2>2, EmptyFacts DEF Shape
  <2> QED BY <2>1, <2>2
<1>4. CountsOK'
  <2> SUFFICES ASSUME NEW k \in Key
               PROVE  /\ table'[k].count >= References(k)' + Holds(k)'
                      /\ NoMismatch => table'[k].count = References(k)' + Holds(k)'
    BY DEF CountsOK, NoMismatch
  <2>1. Holds(k)' = 0 /\ Holds(k) \in {0, 1}
    BY KeyAssumption DEF Holds
  <2>2. /\ table[k].count \in Int /\ References(k) \in Nat /\ table'[k].count \in Int
    BY <1>1, ReferencesFacts DEF Table
  <2>3. /\ table[k].count >= References(k) + Holds(k)
        /\ NoMismatch => table[k].count = References(k) + Holds(k)
    BY DEF TableInv, CountsOK
  <2>4. /\ table'[k].count >= table[k].count - Holds(k)
        /\ NoMismatch => table'[k].count = table[k].count - Holds(k)
    OBVIOUS
  <2>5. References(k)' = References(k)
    BY <1>2
  <2> QED BY <2>1, <2>2, <2>3, <2>4, <2>5
<1>5. HeldOK'
  <2>1. Len(queue') = 0
    BY RootIsPrefix
  <2> QED BY <2>1 DEF HeldOK
<1> QED BY <1>3, <1>4, <1>5 DEF TableExact

\* Returning gives back the reference that insert_network held.
LEMMA EndCallCounted ==
    ASSUME TableInv, op \in Running, NEW failed \in BOOLEAN, EndCall(failed) PROVE TableExact'
<1>1. table \in Table /\ held \in Key \cup {NoKey} /\ StoredOK(table)
  BY DEF TableInv, Inv, TypeOK, Table
<1>2. /\ table' \in Table /\ StoredOK(table')
      /\ \A k \in Key : table'[k].count = table[k].count - Holds(k)
  <2>1. CASE held = NoKey
    <3>1. \A k \in Key : Holds(k) = 0 /\ table[k].count \in Int
      BY <1>1, <2>1, KeyAssumption DEF Holds, Table
    <3>2. table' = table
      BY <2>1 DEF EndCall, TableOnReturn
    <3> QED BY <1>1, <3>1, <3>2
  <2>2. CASE held # NoKey
    <3>1. table' = Dec(table, held)
      BY <2>2 DEF EndCall, TableOnReturn
    <3>2. /\ table' \in Table /\ StoredOK(table')
          /\ \A k \in Key : table'[k].count = table[k].count - (IF k = held THEN 1 ELSE 0)
      BY <1>1, <2>2, <3>1, TableFacts, StoredKept
    <3>3. \A k \in Key : Holds(k) = IF k = held THEN 1 ELSE 0
      BY DEF Holds
    <3> QED BY <3>2, <3>3
  <2> QED BY <2>1, <2>2
<1>3. \A k \in Key : table'[k].count \in Int
  BY <1>2 DEF Table
<1>4. \A k \in Key : /\ table'[k].count >= table[k].count - Holds(k)
                     /\ NoMismatch => table'[k].count = table[k].count - Holds(k)
  BY <1>2, <1>3
<1>5. /\ held' = NoKey /\ queue' = << >> /\ op' \in {"idle", "freed"}
      /\ \/ op' = "idle" /\ recs' = recs
         \/ op = "new_tree" /\ op' = "freed" /\ recs' = NoTree
  BY DEF EndCall
<1> QED BY <1>2, <1>4, <1>5, ReturnCounted

\* A merge that croaks gives back the reference the caller holds, or leaves it
\* where the failure is below the top level.
LEMMA MergeCroaksCounted == ASSUME TableInv, MergeCroaks PROVE TableExact'
<1>1. /\ op \in Running /\ new.type = "DATA" /\ recs[at].type = "DATA"
      /\ Merged \notin Key
      /\ table' = IF Merged = NotHashes THEN Dec(table, new.key) ELSE table
      /\ op' = "idle" /\ held' = NoKey /\ queue' = << >> /\ recs' = recs
  BY DEF MergeCroaks, Settles, Merges, Down, Return
<1>2. /\ table \in Table /\ StoredOK(table) /\ at \in Prefix /\ recs[at] \in Record
      /\ strategy \in Strategies
      /\ cache \in [Strategies \X Key \X Key -> Key \cup {NoKey}]
  BY <1>1, RunningFacts DEF TableInv, Inv, TypeOK
<1>3. held \in Key /\ new.key = held
  BY <1>1, HeldFacts, RecordFacts
<1>4. MergeArgs \in Strategies \X Key \X Key
  BY <1>1, <1>2, <1>3, RecordFacts DEF MergeArgs
<1>5. Merged = Merge[MergeArgs] /\ Merged \in {NotHashes, Mismatch}
  <2>1. ~CacheHit
    BY <1>1, <1>2, <1>4 DEF Merged, CacheHit
  <2>2. Merge[MergeArgs] \in Key \cup {NotHashes, Mismatch}
    BY <1>4, MergeAssumption
  <2> QED BY <1>1, <2>1, <2>2 DEF Merged
<1>6. \A k \in Key : Holds(k) = (IF k = held THEN 1 ELSE 0) /\ table[k].count \in Int
  BY <1>2 DEF Holds, Table
<1>7. CASE Merged = NotHashes
  <2>1. /\ table' \in Table /\ StoredOK(table')
        /\ \A k \in Key : table'[k].count = table[k].count - (IF k = held THEN 1 ELSE 0)
    BY <1>1, <1>2, <1>3, <1>7, TableFacts, StoredKept
  <2>2. \A k \in Key : /\ table'[k].count = table[k].count - Holds(k)
                       /\ table'[k].count >= table[k].count - Holds(k)
    BY <1>6, <2>1
  <2> QED BY <1>1, <2>1, <2>2, ReturnCounted
<1>8. CASE Merged # NotHashes
  <2>1. table' = table /\ ~NoMismatch
    BY <1>1, <1>4, <1>5, <1>8 DEF NoMismatch
  <2>2. \A k \in Key : table'[k].count >= table[k].count - Holds(k)
    BY <1>6, <2>1
  <2> QED BY <1>1, <1>2, <2>1, <2>2, ReturnCounted
<1> QED BY <1>7, <1>8

\* An insert call begins by taking one reference to its data.
LEMMA InsertNetworksCounted ==
    ASSUME TableInv, NEW c \in Inserts, InsertNetworks(c) PROVE TableExact'
<1>1. /\ op = "idle" /\ op' = "insert" /\ held' = c.key
      /\ table' = Store(table, c.key) /\ queue' = Items(c.nets, Data(c.key))
      /\ recs' = recs
  BY DEF InsertNetworks
<1>2. c.nets \in Seq(Prefix) /\ c.key \in Key
  BY InsertAssumption
<1>3. table \in Table /\ StoredOK(table) /\ held = NoKey
  BY <1>1 DEF TableInv, Inv, TypeOK, Table, HeldOK
<1>4. /\ StoredOK(table')
      /\ \A k \in Key : table'[k].count = table[k].count + (IF k = c.key THEN 1 ELSE 0)
  BY <1>1, <1>2, <1>3, TableFacts, StoredKept
<1>5. Shape'
  BY <1>1 DEF TableInv, Shape
<1>6. HeldOK'
  <2>1. Data(c.key) \in Record
    BY <1>2, RecordFacts
  <2>2. /\ Len(queue') = Len(c.nets)
        /\ \A i \in 1..Len(c.nets) : queue'[i] = [net |-> c.nets[i], rec |-> Data(c.key)]
    BY <1>1, <1>2, <2>1, ItemsFacts
  <2>3. ASSUME NEW i \in 1..Len(queue') PROVE queue'[i].rec = Data(c.key)
    <3>1. queue'[i] = [net |-> c.nets[i], rec |-> Data(c.key)]
      BY <2>2
    <3> QED BY <3>1
  <2> QED BY <1>1, <1>2, <2>3 DEF HeldOK
<1>7. CountsOK'
  <2> SUFFICES ASSUME NEW k \in Key
               PROVE  /\ table'[k].count >= References(k)' + Holds(k)'
                      /\ NoMismatch => table'[k].count = References(k)' + Holds(k)'
    BY DEF CountsOK, NoMismatch
  <2>1. Holds(k) = 0 /\ Holds(k)' = IF k = c.key THEN 1 ELSE 0
    BY <1>1, <1>3, KeyAssumption DEF Holds
  <2>2. References(k)' = References(k) /\ References(k) \in Nat /\ table[k].count \in Int
    BY <1>1, <1>3, ReferencesFacts DEF References, Table
  <2>3. /\ table[k].count >= References(k) + Holds(k)
        /\ NoMismatch => table[k].count = References(k) + Holds(k)
    BY DEF TableInv, CountsOK
  <2>4. table'[k].count = table[k].count + Holds(k)'
    BY <1>4, <2>1
  <2>5. Holds(k)' \in {0, 1}
    BY <2>1
  <2> QED BY <2>1, <2>2, <2>3, <2>4, <2>5
<1> QED BY <1>4, <1>5, <1>6, <1>7 DEF TableExact

\* A remove call begins without a reference.
LEMMA RemoveNetworkCounted ==
    ASSUME TableInv, NEW n \in Prefix, RemoveNetwork(n) PROVE TableExact'
<1>1. /\ op = "idle" /\ op' = "remove" /\ queue' = Items(<<n>>, Plain("EMPTY"))
      /\ UNCHANGED <<recs, table, held>>
  BY DEF RemoveNetwork
<1>2. Shape' /\ StoredOK(table')
  BY <1>1 DEF TableInv, Shape, StoredOK
<1>3. CountsOK'
  <2>1. \A k \in Key : References(k)' = References(k) /\ Holds(k)' = Holds(k)
    BY <1>1 DEF References, Holds
  <2> QED BY <1>1, <2>1 DEF TableInv, CountsOK, NoMismatch
<1>4. HeldOK'
  <2> DEFINE nets == <<n>>
  <2>1. Plain("EMPTY") \in Record /\ Plain("EMPTY").type = "EMPTY"
    BY RecordFacts DEF PlainTypes
  <2>2. nets \in Seq(Prefix) /\ queue' = Items(nets, Plain("EMPTY"))
    BY <1>1
  <2> HIDE DEF nets
  <2>3. /\ Len(queue') = Len(nets)
        /\ \A i \in 1..Len(nets) : queue'[i] = [net |-> nets[i], rec |-> Plain("EMPTY")]
    BY <2>1, <2>2, ItemsFacts
  <2>4. ASSUME NEW i \in 1..Len(queue') PROVE queue'[i].rec.type # "DATA"
    <3>1. queue'[i] = [net |-> nets[i], rec |-> Plain("EMPTY")]
      BY <2>3
    <3>2. queue'[i].rec = Plain("EMPTY")
      BY <3>1
    <3> QED BY <2>1, <3>2
  <2> QED BY <1>1, <2>4 DEF TableInv, HeldOK
<1> QED BY <1>2, <1>3, <1>4 DEF TableExact

\* A tree without DATA records points to no key.
LEMMA NoTreeReferences ==
    ASSUME \A p \in Prefix : recs[p].type # "DATA", NEW k \in Key
    PROVE  References(k) = 0
<1>1. {p \in Prefix : recs[p] = Data(k)} = {}
  BY RecordFacts
<1> QED BY <1>1, FS_EmptySet DEF References

\* free_tree releases every record: the subtree at the root is the whole tree.
LEMMA FreeTreeCounted == ASSUME TableInv, FreeTree PROVE TableExact'
<1>1. /\ op = "idle" /\ op' = "freed" /\ table' = Release(table, << >>)
      /\ recs' = NoTree /\ UNCHANGED <<held, queue>>
  BY DEF FreeTree
<1>2. table \in Table /\ StoredOK(table) /\ held = NoKey
  BY <1>1 DEF TableInv, Inv, TypeOK, Table, HeldOK
<1>3. /\ StoredOK(table')
      /\ \A k \in Key : table'[k].count = table[k].count - References(k)
  BY <1>1, <1>2, ReleaseFacts, StoredKept, ReferencesFacts
<1>4. Shape'
  BY <1>1, EmptyFacts DEF Shape
<1>5. HeldOK'
  BY <1>1 DEF TableInv, HeldOK
<1>6. CountsOK'
  <2> SUFFICES ASSUME NEW k \in Key
               PROVE  /\ table'[k].count >= References(k)' + Holds(k)'
                      /\ NoMismatch => table'[k].count = References(k)' + Holds(k)'
    BY DEF CountsOK, NoMismatch
  <2>1. Holds(k) = 0 /\ Holds(k)' = 0
    BY <1>1, <1>2, KeyAssumption DEF Holds
  <2>2. References(k)' = 0
    <3>1. {p \in Prefix : recs'[p] = Data(k)} = {}
      BY <1>1, EmptyFacts, RecordFacts
    <3> QED BY <3>1, FS_EmptySet DEF References
  <2>3. References(k) \in Nat /\ table[k].count \in Int
    BY <1>2, ReferencesFacts DEF Table
  <2>4. /\ table[k].count >= References(k) + Holds(k)
        /\ NoMismatch => table[k].count = References(k) + Holds(k)
    BY DEF TableInv, CountsOK
  <2>5. table'[k].count = table[k].count - References(k)
    BY <1>3
  <2> QED BY <2>1, <2>2, <2>3, <2>4, <2>5
<1> QED BY <1>3, <1>4, <1>5, <1>6 DEF TableExact

\* A new tree starts with nothing but the root, and no data.
LEMMA EmptyTreeFacts ==
    /\ \A p \in Prefix : /\ EmptyTree[p].type # "ABSENT" <=> p = << >>
                         /\ ~HasNode(EmptyTree[p])
                         /\ EmptyTree[p].type # "DATA"
    /\ \A k \in Key : /\ EmptyTable[k].count = 0
                      /\ Cardinality({p \in Prefix : EmptyTree[p] = Data(k)}) = 0
    /\ \A o \in Options : \A i \in 1..Len(NewTreeQueue(o)) :
          NewTreeQueue(o)[i].rec.type # "DATA"
<1>1. \A o \in Options : \A i \in 1..Len(NewTreeQueue(o)) :
          NewTreeQueue(o)[i].rec.type # "DATA"
  BY NewTreeQueueFacts
<1>2. \A p \in Prefix : EmptyTree[p] = Plain(IF p = << >> THEN "EMPTY" ELSE "ABSENT")
  BY DEF EmptyTree
<1>3. Plain("EMPTY").type = "EMPTY" /\ Plain("ABSENT").type = "ABSENT"
  BY RecordFacts DEF PlainTypes
<1>4. \A p \in Prefix : /\ EmptyTree[p].type # "ABSENT" <=> p = << >>
                        /\ ~HasNode(EmptyTree[p]) /\ EmptyTree[p].type # "DATA"
  BY <1>2, <1>3 DEF HasNode
<1>5. \A k \in Key : EmptyTable[k].count = 0
  BY DEF EmptyTable
<1>6. \A k \in Key : {p \in Prefix : EmptyTree[p] = Data(k)} = {}
  BY <1>4, RecordFacts
<1>7. \A k \in Key : Cardinality({p \in Prefix : EmptyTree[p] = Data(k)}) = 0
  BY <1>6, FS_EmptySet
<1> QED BY <1>1, <1>4, <1>5, <1>7

\* The first tree has an empty table.
LEMMA InitCounted == Init => TableExact
<1> SUFFICES ASSUME Init PROVE TableExact
  OBVIOUS
<1>1. /\ recs = EmptyTree /\ table = EmptyTable /\ held = NoKey /\ opts \in Options
      /\ queue = NewTreeQueue(opts) /\ op \in {"idle", "new_tree"}
  BY DEF Init
<1>2. Shape
  BY <1>1, EmptyTreeFacts, ParentIsPrefix DEF Shape
<1>3. HeldOK
  BY <1>1, EmptyTreeFacts DEF HeldOK
<1>4. \A k \in Key : References(k) = 0 /\ Holds(k) = 0
  BY <1>1, EmptyTreeFacts, KeyAssumption DEF References, Holds
<1>5. CountsOK /\ StoredOK(table)
  <2>1. \A k \in Key : table[k].count = 0
    BY <1>1, EmptyTreeFacts
  <2> QED BY <1>4, <2>1 DEF CountsOK, StoredOK
<1> QED BY <1>2, <1>3, <1>5 DEF TableExact

\* So has every later one.
LEMMA NewTreeCounted == ASSUME TableInv, NewTree PROVE TableExact'
<1>1. /\ recs' = EmptyTree /\ table' = EmptyTable /\ held' = NoKey /\ opts' \in Options
      /\ queue' = NewTreeQueue(opts') /\ op' \in {"idle", "new_tree"}
  BY DEF NewTree
<1>2. Shape'
  BY <1>1, EmptyTreeFacts, ParentIsPrefix DEF Shape
<1>3. HeldOK'
  BY <1>1, EmptyTreeFacts DEF HeldOK
<1>4. \A k \in Key : References(k)' = 0 /\ Holds(k)' = 0
  BY <1>1, EmptyTreeFacts, KeyAssumption DEF References, Holds
<1>5. CountsOK' /\ StoredOK(table')
  <2>1. \A k \in Key : table'[k].count = 0
    BY <1>1, EmptyTreeFacts
  <2> QED BY <1>4, <2>1 DEF CountsOK, StoredOK
<1> QED BY <1>2, <1>3, <1>5 DEF TableExact

-----------------------------------------------------------------------------
(* The theorems                                                            *)

\* Every step keeps the counts exact.
LEMMA NextCounted == ASSUME TableInv, [Next]_vars PROVE TableInv'
<1>1. Inv'
  BY NextInv DEF TableInv
<1> SUFFICES TableExact'
  BY <1>1 DEF TableInv, TableExact
<1>2. CASE Step
  <2>1. CASE SetRecord
    BY <2>1, SetRecordCounted
  <2>2. CASE MergeRecord
    BY <2>2, MergeRecordCounted
  <2>3. CASE MergeCroaks
    BY <2>3, MergeCroaksCounted
  <2>4. CASE Ignore
    BY <2>4, MoveCounted DEF Ignore, Down
  <2>5. CASE Refuse
    BY <2>5, EndCallCounted DEF Refuse, Down
  <2>6. CASE Descend
    BY <2>6, DescendCounted
  <2>7. CASE GoLeft
    BY <2>7, MoveCounted DEF GoLeft, Up
  <2>8. CASE Trim
    BY <2>8, TrimCounted
  <2>9. CASE NextRecord
    BY <2>9, MoveCounted DEF NextRecord
  <2>10. CASE Finish
    BY <2>10, EndCallCounted DEF Finish
  <2> QED BY <1>2, <2>1, <2>2, <2>3, <2>4, <2>5, <2>6, <2>7, <2>8, <2>9, <2>10 DEF Step
<1>3. CASE Call
  <2>1. CASE \E c \in Inserts : InsertNetworks(c)
    BY <2>1, InsertNetworksCounted
  <2>2. CASE \E n \in Prefix : RemoveNetwork(n)
    BY <2>2, RemoveNetworkCounted
  <2>3. CASE FreeTree
    BY <2>3, FreeTreeCounted
  <2>4. CASE NewTree
    BY <2>4, NewTreeCounted
  <2> QED BY <1>3, <2>1, <2>2, <2>3, <2>4 DEF Call
<1>4. CASE UNCHANGED vars
  <2>1. \A k \in Key : References(k)' = References(k) /\ Holds(k)' = Holds(k)
    BY <1>4 DEF vars, References, Holds
  <2> QED BY <1>4, <2>1
      DEF vars, TableInv, TableExact, Shape, HeldOK, CountsOK, StoredOK, NoMismatch
<1> QED BY <1>2, <1>3, <1>4 DEF Next

\* The counts are exact in every reachable state, if no merge croaks below the top level.
LEMMA TableInvAlways == Spec => []TableInv
<1>1. Init => TableInv
  BY InitInv, InitCounted DEF TableInv, TableExact
<1>2. TableInv /\ [Next]_vars => TableInv'
  BY NextCounted
<1> QED BY <1>1, <1>2, PTL DEF Spec

\* The records form one tree at every moment: no record outlives its node and
\* no node is without its records.
THEOREM ShapeAlways == Spec => []Shape
<1>1. TableInv => Shape
  BY DEF TableInv
<1> QED BY TableInvAlways, <1>1, PTL

\* The value of every DATA record is in the table, whatever merges fail: no
\* entry is deleted while a record points to it, and none is made anew without
\* its value.
THEOREM DataStoredAlways == Spec => []DataStored
<1>1. TableInv => DataStored
  <2> SUFFICES ASSUME TableInv, NEW p \in Prefix, recs[p].type = "DATA"
               PROVE  table[recs[p].key].sv
    BY DEF DataStored
  <2> DEFINE k == recs[p].key
  <2>1. k \in Key /\ recs[p] = Data(k) /\ table \in Table
    BY RecordFacts DEF TableInv, Inv, TypeOK, Table
  <2> HIDE DEF k
  <2>2. References(k) >= 1 /\ References(k) \in Nat
    BY <2>1, ReferencesFacts
  <2>3. table[k].count >= References(k) + Holds(k)
    BY <2>1 DEF TableInv, CountsOK
  <2>4. Holds(k) \in {0, 1} /\ table[k].count \in Int
    BY <2>1 DEF Holds, Table
  <2>5. table[k].count > 0
    BY <2>2, <2>3, <2>4
  <2>6. table[k].sv
    BY <2>1, <2>5 DEF TableInv, StoredOK
  <2> QED BY <2>6 DEF k
<1> QED BY TableInvAlways, <1>1, PTL

\* Where no merge fails below the top level of the values, the reference count
\* of every key is the number of records that point to it, plus one for the
\* call that inserts it.
THEOREM CountsExactAlways == ASSUME NoMismatch PROVE Spec => []CountsExact
<1>1. TableInv => CountsExact
  BY DEF TableInv, CountsOK, CountsExact, Holds
<1> QED BY TableInvAlways, <1>1, PTL

\* ... and a tree that has been freed leaves nothing in the table.
THEOREM NothingLeftAlways == ASSUME NoMismatch PROVE Spec => []NothingLeft
<1>1. TableInv => NothingLeft
  <2> SUFFICES ASSUME TableInv, op = "freed", NEW k \in Key PROVE table[k].count = 0
    BY DEF NothingLeft
  <2>1. recs = NoTree /\ held = NoKey
    BY DEF TableInv, Inv, FreedEmpty, HeldOK
  <2>2. References(k) = 0
    BY <2>1, EmptyFacts, NoTreeReferences
  <2>3. Holds(k) = 0
    BY <2>1, KeyAssumption DEF Holds
  <2>4. table[k].count = References(k) + Holds(k)
    BY DEF TableInv, CountsOK
  <2> QED BY <2>2, <2>3, <2>4
<1> QED BY TableInvAlways, <1>1, PTL

-----------------------------------------------------------------------------
(* Trimming.  Trimmed speaks of the states between calls only.  In the     *)
(* middle of one there are nodes whose two records say the same, which a   *)
(* leaf that is split makes and the return from the recursion replaces;    *)
(* PathUntrimmed says that they are all above the record the recursion is  *)
(* at.                                                                     *)

\* Every merge has a result.
NoCroak == \A m \in Strategies \X Key \X Key : Merge[m] \in Key

\* The nodes to be trimmed are those the recursion has yet to return to.
PathUntrimmed ==
    \A p \in Prefix :
        Len(p) < W /\ Trimmable(p) => op \in Running /\ Below(p, at)

-----------------------------------------------------------------------------
(* What reshaping the tree makes trimmable                                 *)

\* Grafting a leaf or a FIXED_NODE at p makes at most the nodes above p
\* trimmable.
LEMMA GraftTrimmable ==
    ASSUME recs \in [Prefix -> Record], NEW p \in Prefix, NEW r \in Record,
           r.type # "NODE", recs' = Graft(p, r),
           NEW q \in Prefix, Len(q) < W, Trimmable(q)'
    PROVE  Below(q, p) \/ Trimmable(q)
<1>1. /\ recs'[p] = r
      /\ \A s \in Prefix : ~Covers(p, s) => recs'[s] = recs[s]
      /\ \A s \in Prefix : Below(p, s) => recs'[s].type # "NODE"
  <2>1. Plain("EMPTY").type = "EMPTY" /\ Plain("ABSENT").type = "ABSENT"
    BY RecordFacts DEF PlainTypes
  <2>2. /\ recs'[p] = r
        /\ \A s \in Prefix : ~Covers(p, s) => recs'[s] = recs[s]
        /\ \A s \in Prefix :
             Below(p, s) => recs'[s] = IF r.type = "FIXED_NODE" /\ Len(s) = Len(p) + 1
                                       THEN Plain("EMPTY") ELSE Plain("ABSENT")
    BY GraftFacts
  <2> QED BY <2>1, <2>2
<1>2. /\ recs'[q].type = "NODE"
      /\ recs'[Child(q, 0)] = recs'[Child(q, 1)]
      /\ recs'[Child(q, 0)].type \in {"EMPTY", "DATA"}
  BY DEF Trimmable, Identical
<1>3. ~Covers(p, q)
  BY <1>1, <1>2, BelowIsCovers
<1>4. \A b \in Bit : /\ Child(q, b) \in Prefix
                     /\ Below(p, Child(q, b)) <=> Covers(p, q)
                     /\ Below(q, Child(q, b))
  BY ChildIsPrefix, AboveChild
<1>5. CASE \E b \in Bit : Covers(p, Child(q, b))
  BY <1>3, <1>4, <1>5, BelowIsCovers
<1>6. CASE \A b \in Bit : ~Covers(p, Child(q, b))
  <2>1. \A b \in Bit : recs'[Child(q, b)] = recs[Child(q, b)]
    BY <1>1, <1>4, <1>6
  <2>2. recs'[q] = recs[q]
    BY <1>1, <1>3
  <2> QED BY <1>2, <2>1, <2>2 DEF Trimmable, Identical, Bit
<1> QED BY <1>5, <1>6

\* Going on from p makes at most p and the nodes above it trimmable.
LEMMA DescendTrimmable ==
    ASSUME recs \in [Prefix -> Record], NEW p \in Prefix, Len(p) < W,
           recs[p].type \in {"EMPTY", "DATA", "NODE", "FIXED_NODE"},
           NEW t \in {"NODE", "FIXED_NODE"},
           recs' = IF HasNode(recs[p]) THEN [recs EXCEPT ![p] = Plain(t)] ELSE Split(p, t),
           NEW q \in Prefix, Len(q) < W, Trimmable(q)'
    PROVE  Covers(q, p) \/ Trimmable(q)
<1> SUFFICES ASSUME ~Covers(q, p) PROVE Trimmable(q)
  OBVIOUS
<1>1. \A b \in Bit : /\ Child(q, b) \in Prefix /\ Child(p, b) \in Prefix
                     /\ Below(q, Child(q, b)) /\ Below(p, Child(p, b))
                     /\ Parent(Child(q, b)) = q /\ Parent(Child(p, b)) = p
  BY ChildIsPrefix, AboveChild
<1>2. q # p /\ \A b \in Bit : Child(q, b) # p
  BY <1>1, CoversOrder, BelowIsCovers
<1>3. \A b \in Bit : \A c \in Bit : Child(q, b) # Child(p, c)
  BY <1>1, <1>2
<1>4. /\ recs'[q].type = "NODE"
      /\ recs'[Child(q, 0)] = recs'[Child(q, 1)]
      /\ recs'[Child(q, 0)].type \in {"EMPTY", "DATA"}
  BY DEF Trimmable, Identical
<1>5. 0 \in Bit /\ 1 \in Bit /\ \A b \in Bit : b = 0 \/ b = 1
  BY DEF Bit
<1>6. t \in PlainTypes
  BY DEF PlainTypes, FixedTypes
<1>7. CASE HasNode(recs[p])
  <2>1. \A s \in Prefix : s # p => recs'[s] = recs[s]
    BY <1>7
  <2>2. recs'[q] = recs[q] /\ \A b \in Bit : recs'[Child(q, b)] = recs[Child(q, b)]
    BY <1>1, <1>2, <2>1
  <2> QED BY <1>4, <1>5, <2>2 DEF Trimmable, Identical
<1>8. CASE ~HasNode(recs[p])
  <2>1. /\ \A b \in Bit : recs'[Child(p, b)] = recs[p]
        /\ \A s \in Prefix :
             s # p /\ s # Child(p, 0) /\ s # Child(p, 1) => recs'[s] = recs[s]
    BY <1>6, <1>8, SplitFacts
  <2>2. q # Child(p, 0) /\ q # Child(p, 1)
    BY <1>4, <1>5, <1>8, <2>1 DEF HasNode
  <2>3. recs'[q] = recs[q] /\ \A b \in Bit : recs'[Child(q, b)] = recs[Child(q, b)]
    BY <1>1, <1>2, <1>3, <1>5, <2>1, <2>2
  <2> QED BY <1>4, <1>5, <2>3 DEF Trimmable, Identical
<1> QED BY <1>7, <1>8

-----------------------------------------------------------------------------
(* The steps                                                               *)

\* No node is trimmable in a tree of leaves, empty or freed.
LEMMA EmptyTrimmed ==
    ASSUME recs \in {EmptyTree, NoTree}
    PROVE  PathUntrimmed
<1>1. \A p \in Prefix : recs[p].type # "NODE"
  BY EmptyFacts
<1> QED BY <1>1 DEF PathUntrimmed, Trimmable

\* A step that keeps the records and the nodes above the current one.
LEMMA MoveTrimmed ==
    ASSUME PathUntrimmed, UNCHANGED recs, op' \in Running,
           \A p \in Prefix : Len(p) < W /\ Trimmable(p) /\ Below(p, at) => Below(p, at')
    PROVE  PathUntrimmed'
BY DEF PathUntrimmed, Trimmable, Identical

\* A call that ends with the records as they are, where nothing above the
\* current one is to be trimmed.
LEMMA ReturnTrimmed ==
    ASSUME PathUntrimmed, UNCHANGED recs,
           \A p \in Prefix : Below(p, at) => recs[p].type # "NODE"
    PROVE  PathUntrimmed'
BY DEF PathUntrimmed, Trimmable, Identical

\* Every step keeps the nodes to be trimmed on the path of the recursion.
LEMMA StepTrimmed ==
    ASSUME NoCroak \/ ~MergeCroaks, Inv, PathUntrimmed, Step
    PROVE  PathUntrimmed'
<1>1. op \in Running
  BY DEF Step, SetRecord, MergeRecord, MergeCroaks, Ignore, Refuse, Descend, Settles,
         Down, GoLeft, Trim, Up, NextRecord, Finish
<1>2. /\ recs \in [Prefix -> Record] /\ at \in Prefix /\ recs[at] \in Record
      /\ new \in Record /\ net \in Prefix
      /\ new.type # "NODE"
  BY <1>1, RunningFacts
<1>3. at = << >> => \A p \in Prefix : ~Below(p, at)
  BY <1>2, RootIsPrefix, BelowIsCovers, CoversOrder
<1>4. CASE SetRecord
  <2>1. recs' = Graft(at, new) /\ UNCHANGED <<op, at>>
    BY <1>4 DEF SetRecord
  <2> QED BY <1>1, <1>2, <2>1, GraftTrimmable DEF PathUntrimmed
<1>5. CASE MergeRecord
  <2>1. recs' = Graft(at, Data(Merged)) /\ UNCHANGED <<op, at>> /\ Merged \in Key
    BY <1>5 DEF MergeRecord
  <2>2. Data(Merged) \in Record /\ Data(Merged).type # "NODE"
    BY <2>1, RecordFacts
  <2> QED BY <1>1, <1>2, <2>1, <2>2, GraftTrimmable DEF PathUntrimmed
<1>6. CASE MergeCroaks
  <2>1. /\ Merged \notin Key /\ new.type = "DATA" /\ recs[at].type = "DATA"
    BY <1>6 DEF MergeCroaks, Merges
  <2>2. MergeArgs \in Strategies \X Key \X Key
    BY <1>2, <2>1, RecordFacts DEF MergeArgs, Inv, TypeOK
  <2>3. Merge[MergeArgs] \in Key /\ cache[MergeArgs] \in Key \cup {NoKey}
    BY <1>6, <2>2 DEF NoCroak, Inv, TypeOK
  <2> QED BY <2>1, <2>3 DEF Merged, CacheHit
<1>7. CASE Ignore
  BY <1>1, <1>7, MoveTrimmed DEF Ignore
<1>8. CASE Refuse
  <2>1. recs[at].type \in FixedTypes
    BY <1>8 DEF Refuse, Refused, FixedTypes
  <2>2. \A p \in Prefix : Below(p, at) => recs[p].type # "NODE"
    BY <1>2, <2>1 DEF Inv, FixedPath
  <2>3. recs' = NoTree \/ recs' = recs
    BY <1>8 DEF Refuse, EndCall
  <2>4. CASE recs' = NoTree
    <3>1. \A p \in Prefix : recs'[p].type # "NODE"
      BY <2>4, EmptyFacts
    <3> QED BY <3>1 DEF PathUntrimmed, Trimmable
  <2> QED BY <2>2, <2>3, <2>4, ReturnTrimmed
<1>9. CASE Descend
  <2> DEFINE b == IF Inside THEN 1 ELSE net[Len(at) + 1]
  <2>1. /\ recs[at].type \in {"EMPTY", "DATA", "NODE", "FIXED_NODE"}
        /\ recs' = IF HasNode(recs[at])
                   THEN [recs EXCEPT ![at] = Plain(NodeType)] ELSE Split(at, NodeType)
        /\ at' = Child(at, b) /\ op' = op
    BY <1>9 DEF Descend
  <2>2. NodeType \in {"NODE", "FIXED_NODE"}
    BY DEF NodeType
  <2>3. Len(at) < W
    BY <1>9, DescendRoom
  <2>4. b \in Bit
    <3>1. Len(at) \in Nat /\ Len(net) \in Nat /\ net \in [1..Len(net) -> Bit]
      BY <1>2, PrefixIsSeq, LenProperties
    <3>2. ~Inside => Len(at) + 1 \in 1..Len(net)
      BY <3>1 DEF Inside
    <3> QED BY <3>1, <3>2 DEF Bit
  <2>5. \A q \in Prefix : Below(q, at') <=> Covers(q, at)
    BY <1>2, <2>1, <2>3, <2>4, AboveChild
  <2> HIDE DEF b
  <2>6. ASSUME NEW q \in Prefix, Len(q) < W, Trimmable(q)' PROVE Below(q, at')
    <3>1. Covers(q, at) \/ Trimmable(q)
      BY <1>2, <2>1, <2>2, <2>3, <2>6, DescendTrimmable
    <3> QED BY <1>2, <2>5, <2>6, <3>1, BelowIsCovers DEF PathUntrimmed
  <2> QED BY <1>1, <2>1, <2>6 DEF PathUntrimmed
<1>10. CASE GoLeft
  <2>1. /\ at # << >> /\ at' = Child(Parent(at), 0) /\ UNCHANGED <<recs, op>>
    BY <1>10 DEF GoLeft, Up
  <2>2. /\ Parent(at) \in Prefix /\ Len(Parent(at)) < W
        /\ at[Len(at)] \in Bit /\ at = Child(Parent(at), at[Len(at)])
    BY <1>2, <2>1, ParentIsPrefix, ChildOfParent
  <2>3. \A q \in Prefix, c \in Bit : Below(q, Child(Parent(at), c)) <=> Covers(q, Parent(at))
    BY <2>2, AboveChild
  <2>4. \A q \in Prefix : Below(q, at) => Below(q, at')
    BY <2>1, <2>2, <2>3 DEF Bit
  <2> QED BY <1>1, <2>1, <2>4, MoveTrimmed
<1>11. CASE Trim
  <2> DEFINE p == Parent(at)
             r == recs[Child(p, 0)]
  <2>1. /\ at # << >> /\ at' = p /\ op' = op
        /\ recs' = IF Trimmable(p) THEN Graft(p, r) ELSE recs
    BY <1>11 DEF Trim, Up
  <2>2. /\ p \in Prefix /\ Len(p) < W
        /\ at[Len(at)] \in Bit /\ at = Child(p, at[Len(at)])
    BY <1>2, <2>1, ParentIsPrefix, ChildOfParent
  <2>3. Child(p, 0) \in Prefix
    BY <2>2, ChildIsPrefix DEF Bit
  <2>4. \A q \in Prefix : Below(q, at) <=> Covers(q, p)
    BY <2>2, AboveChild
  <2>5. r \in Record /\ (Trimmable(p) => r.type # "NODE")
    BY <1>2, <2>3 DEF Trimmable, Identical
  <2> HIDE DEF p, r
  <2>6. CASE Trimmable(p)
    <3>1. ASSUME NEW q \in Prefix, Len(q) < W, Trimmable(q)' PROVE Below(q, p)
      <4>1. Below(q, p) \/ Trimmable(q)
        BY <1>2, <2>1, <2>2, <2>5, <2>6, <3>1, GraftTrimmable
      <4>2. Trimmable(q) => Covers(q, p)
        BY <2>4, <3>1 DEF PathUntrimmed
      <4>3. q # p
        <5>1. recs'[p] = r
          BY <1>2, <2>1, <2>2, <2>5, <2>6, GraftFacts
        <5> QED BY <2>5, <2>6, <3>1, <5>1 DEF Trimmable
      <4> QED BY <2>2, <4>1, <4>2, <4>3, BelowIsCovers
    <3> QED BY <1>1, <2>1, <3>1 DEF PathUntrimmed
  <2>7. CASE ~Trimmable(p)
    <3>1. \A q \in Prefix : Trimmable(q) /\ Below(q, at) => Below(q, at')
      BY <2>1, <2>2, <2>4, <2>7, BelowIsCovers
    <3> QED BY <1>1, <2>1, <2>7, <3>1, MoveTrimmed
  <2> QED BY <2>6, <2>7
<1>12. CASE NextRecord
  BY <1>1, <1>12, MoveTrimmed DEF NextRecord
<1>13. CASE Finish
  <2>1. at = << >> /\ recs' = recs
    BY <1>13 DEF Finish, EndCall
  <2> QED BY <1>3, <2>1, ReturnTrimmed
<1> QED BY <1>4, <1>5, <1>6, <1>7, <1>8, <1>9, <1>10, <1>11, <1>12, <1>13 DEF Step

\* So do the calls, which find nothing to be trimmed and leave nothing.
LEMMA CallTrimmed == ASSUME Inv, PathUntrimmed, Call PROVE PathUntrimmed'
<1>1. CASE \E c \in Inserts : InsertNetworks(c)
  <2>1. op = "idle" /\ recs' = recs
    BY <1>1 DEF InsertNetworks
  <2> QED BY <2>1 DEF PathUntrimmed, Running, Trimmable, Identical
<1>2. CASE \E n \in Prefix : RemoveNetwork(n)
  <2>1. op = "idle" /\ recs' = recs
    BY <1>2 DEF RemoveNetwork
  <2> QED BY <2>1 DEF PathUntrimmed, Running, Trimmable, Identical
<1>3. CASE FreeTree \/ NewTree
  <2>1. recs' \in {EmptyTree, NoTree}
    BY <1>3 DEF FreeTree, NewTree
  <2>2. \A p \in Prefix : recs'[p].type # "NODE"
    BY <2>1, EmptyFacts
  <2> QED BY <2>2 DEF PathUntrimmed, Trimmable
<1> QED BY <1>1, <1>2, <1>3 DEF Call

-----------------------------------------------------------------------------
(* The theorem                                                             *)

\* Every call that is not croaked out of trims all the nodes it passes: between
\* calls none is left whose two records are both empty or hold the same data,
\* whatever networks were inserted, split, refused or removed before.
THEOREM TrimmedAlways == ASSUME NoCroak PROVE Spec => []Trimmed
<1>1. Init => PathUntrimmed
  BY EmptyTrimmed DEF Init
<1>2. Inv /\ PathUntrimmed /\ [Next]_vars => PathUntrimmed'
  <2>1. CASE UNCHANGED vars
    BY <2>1 DEF vars, PathUntrimmed, Trimmable, Identical
  <2> QED BY <2>1, StepTrimmed, CallTrimmed DEF Next
<1>3. TableInv /\ PathUntrimmed => Trimmed
  <2> SUFFICES ASSUME TableInv, PathUntrimmed, op = "idle", NEW p \in Prefix,
                      recs[p].type = "NODE", recs[Child(p, 0)] = recs[Child(p, 1)]
               PROVE  HasNode(recs[Child(p, 0)])
    BY DEF Trimmed
  <2> DEFINE c == Child(p, 0)
  <2>1. Len(p) < W
    BY DEF TableInv, Inv, Depth, HasNode
  <2>2. c \in Prefix /\ c # << >> /\ Parent(c) = p /\ Below(p, c)
    BY <2>1, ChildIsPrefix, AboveChild DEF Bit
  <2>3. recs[c].type \notin {"EMPTY", "DATA"}
    BY <2>1 DEF PathUntrimmed, Running, Trimmable, Identical
  <2> HIDE DEF c
  <2>4. recs[c].type # "ABSENT"
    BY <2>2 DEF TableInv, Shape, HasNode
  <2>5. recs[c].type \notin FixedTypes
    BY <2>2 DEF TableInv, Inv, FixedPath
  <2>6. recs[c] \in Record
    BY <2>2 DEF TableInv, Inv, TypeOK
  <2>7. recs[c].type = "NODE"
    BY <2>3, <2>4, <2>5, <2>6, RecordFacts DEF PlainTypes
  <2> QED BY <2>7 DEF HasNode, c
<1> QED BY InvAlways, TableInvAlways, <1>1, <1>2, <1>3, PTL DEF Spec

=============================================================================
