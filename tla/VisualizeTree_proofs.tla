------------------------- MODULE VisualizeTree_proofs -------------------------
(***************************************************************************)
(* iterate reports the networks in order, and from what it reports the     *)
(* tree can be drawn.                                                      *)
(*                                                                         *)
(* The frames left on the stack stand for the nodes whose turn is still to *)
(* come, which is between their halves, so that any two of them are in     *)
(* order.  What was reported comes before what remains, and each report is *)
(* that of its record, whatever the callbacks did in between: of this      *)
(* iteration and of those whose callbacks made the call in progress.       *)
(***************************************************************************)
EXTENDS VisualizeTree, WriteTree_proofs

\* What is reported of the record at q, and the record a report is of.
LeadsToNumber(q) ==
    CASE HasNode(recs[q]) -> Rank(q)
      [] recs[q].type = "ALIAS" -> Rank(V4Root)
      [] OTHER -> None
ReportOf(p, b) ==
    LET q == Child(p, b)
    IN  [node |-> Rank(p), is_right |-> b,
         node_network |-> Padded(p), node_prefix_length |-> Len(p),
         network |-> Padded(q), prefix_length |-> Len(q),
         record |-> recs[q], leads_to |-> LeadsToNumber(q)]
NodeOfReport(r) == [i \in 1..r.node_prefix_length |-> r.node_network[i]]

\* Between the halves: p's turn comes after that of the nodes in its left half
\* and before that of those in its right one.
InTurn(q, p) == LeftOf(q, p) \/ Covers(Child(p, 0), q) \/ Covers(Child(q, 1), p)

TurnsInOrder(s) ==
    /\ IsSeq(s)
    /\ \A i \in 1..Len(s) :
          s[i].at \in Nodes /\ s[i].due \in BOOLEAN /\ s[i].network = Padded(s[i].at)
    /\ \A i, j \in 1..Len(s) : i < j =>
          \A q, p \in Nodes : Stands(s[i], q) /\ Stands(s[j], p) => InTurn(q, p)

\* A record that is still to be reported, and a report that comes before it.
Remains(it, p, b) == Waits(it.stack, p) /\ ~(b < it.calls /\ p = Head(it.stack).at)
ComesBefore(r, p, b) ==
    InTurn(NodeOfReport(r), p) \/ (NodeOfReport(r) = p /\ r.is_right < b)

IterationOK(it) ==
    /\ TurnsInOrder(it.stack)
    /\ it.calls \in 0..2 /\ (it.calls > 0 => it.stack # << >> /\ Head(it.stack).due)
    /\ IsSeq(it.seen)
    /\ \A i \in 1..Len(it.seen) :
          LET p == NodeOfReport(it.seen[i])
          IN  p \in Nodes /\ it.seen[i].is_right \in Bit
                /\ it.seen[i] = ReportOf(p, it.seen[i].is_right)
    /\ \A p \in Nodes, b \in Bit :
          IF Remains(it, p, b) THEN \A i \in 1..Len(it.seen) : ComesBefore(it.seen[i], p, b)
          ELSE \E i \in 1..Len(it.seen) : it.seen[i] = ReportOf(p, b)
    /\ \A i, j \in 1..Len(it.seen) : i < j =>
          ComesBefore(it.seen[i], NodeOfReport(it.seen[j]), it.seen[j].is_right)

ThisIteration == [stack |-> stack, seen |-> seen, calls |-> calls]

IterationInv ==
    /\ IF task = "iterate" THEN IterationOK(ThisIteration) ELSE seen = << >> /\ calls = 0
    /\ IsSeq(outer) /\ \A i \in 1..Len(outer) : IterationOK(outer[i])
    /\ task = "none" => outer = << >>
    /\ task \in {"write", "written", "iterate"} => \A p \in Nodes : number[p] = Rank(p)
-----------------------------------------------------------------------------
(* The turns of the nodes on the stack                                     *)

\* The halves of a node and its turn.
LEMMA HalvesInTurn ==
    ASSUME NEW p \in Prefix, Len(p) < W, NEW q \in Prefix, NEW r \in Prefix
    PROVE  /\ Covers(Child(p, 0), q) => InTurn(q, p)
           /\ Covers(Child(p, 1), r) => InTurn(p, r)
           /\ Covers(Child(p, 0), q) /\ Covers(Child(p, 1), r) => InTurn(q, r)
           /\ ~InTurn(p, p)
<1> DEFINE left == Child(p, 0)
           right == Child(p, 1)
<1>1. left \in Prefix /\ right \in Prefix
  BY ChildIsPrefix DEF Bit
<1>2. LeftOf(left, right) /\ ~Covers(left, p) /\ ~Covers(right, p)
  BY HalvesInOrder
<1>3. ~LeftOf(p, p)
  BY CoversOrder, OrderOfNodes
<1>4. ASSUME Covers(left, q), Covers(right, r) PROVE LeftOf(q, r)
  <2> HIDE DEF left, right
  <2>1. LeftOf(q, right)
    BY <1>1, <1>2, <1>4, LeftOfAll
  <2>2. Before(q, r)
    <3>1. right = r \/ Below(right, r)
      BY <1>1, <1>4, BelowIsCovers
    <3> QED BY <1>1, <2>1, <3>1, OrderOfNodes DEF Before
  <2>3. ~Below(q, r)
    <3> SUFFICES ASSUME Below(q, r) PROVE FALSE
      OBVIOUS
    <3>1. Covers(left, r)
      BY <1>1, <1>4, CoversOrder, BelowIsCovers
    <3>2. LeftOf(r, right)
      BY <1>1, <1>2, <3>1, LeftOfAll
    <3> QED BY <1>1, <1>4, <3>2, OrderOfNodes
  <2> QED BY <2>2, <2>3 DEF Before
<1> QED BY <1>2, <1>3, <1>4 DEF InTurn

\* A frame put on the stack.
LEMMA PushTurn ==
    ASSUME NEW f, f.at \in Nodes, f.due \in BOOLEAN, f.network = Padded(f.at),
           NEW s, TurnsInOrder(s),
           \A q, p \in Nodes : Stands(f, q) /\ Waits(s, p) => InTurn(q, p)
    PROVE  /\ TurnsInOrder(<<f>> \o s)
           /\ \A q \in Nodes : Waits(<<f>> \o s, q) <=> Stands(f, q) \/ Waits(s, q)
<1> DEFINE t == <<f>> \o s
<1>1. /\ IsSeq(t) /\ Len(t) = Len(s) + 1 /\ Len(s) \in Nat /\ t[1] = f
      /\ \A i \in 1..Len(s) : t[i + 1] = s[i]
  BY PutFirst DEF TurnsInOrder
<1> HIDE DEF t
<1>2. ASSUME NEW i \in 1..Len(t), i # 1 PROVE i - 1 \in 1..Len(s) /\ t[i] = s[i - 1]
  <2> DEFINE k == i - 1
  <2>1. k \in 1..Len(s) /\ k + 1 = i
    BY <1>1, <1>2
  <2> HIDE DEF k
  <2> QED BY <1>1, <2>1 DEF k
<1>3. 1 \in 1..Len(t) /\ \A i \in 1..Len(s) : i + 1 \in 1..Len(t)
  BY <1>1
<1>4. ASSUME NEW q \in Nodes PROVE Waits(t, q) <=> Stands(f, q) \/ Waits(s, q)
  BY <1>1, <1>2, <1>3 DEF Waits
<1>5. \A i \in 1..Len(t) :
        t[i].at \in Nodes /\ t[i].due \in BOOLEAN /\ t[i].network = Padded(t[i].at)
  BY <1>1, <1>2 DEF TurnsInOrder
<1>6. ASSUME NEW i \in 1..Len(t), NEW j \in 1..Len(t), i < j,
             NEW q \in Nodes, NEW p \in Nodes, Stands(t[i], q), Stands(t[j], p)
      PROVE  InTurn(q, p)
  <2>1. j # 1 /\ j - 1 \in 1..Len(s) /\ t[j] = s[j - 1]
    BY <1>2, <1>6
  <2>2. CASE i = 1
    BY <1>1, <1>6, <2>1, <2>2 DEF Waits
  <2>3. CASE i # 1
    <3>1. i - 1 \in 1..Len(s) /\ t[i] = s[i - 1] /\ i - 1 < j - 1
      BY <1>2, <1>6, <2>3
    <3> QED BY <1>6, <2>1, <3>1 DEF TurnsInOrder
  <2> QED BY <2>2, <2>3
<1>7. TurnsInOrder(t)
  BY <1>1, <1>5, <1>6 DEF TurnsInOrder
<1> QED BY <1>4, <1>7 DEF t

\* The first frame taken off the stack.
LEMMA PopTurn ==
    ASSUME NEW s, TurnsInOrder(s), s # << >>
    PROVE  /\ TurnsInOrder(Tail(s))
           /\ Head(s).at \in Nodes /\ Head(s).due \in BOOLEAN
           /\ Head(s).network = Padded(Head(s).at)
           /\ \A q \in Nodes : Waits(s, q) <=> Stands(Head(s), q) \/ Waits(Tail(s), q)
           /\ \A q, p \in Nodes : Stands(Head(s), q) /\ Waits(Tail(s), p) => InTurn(q, p)
<1> DEFINE S == {s[i] : i \in 1..Len(s)}
           t == Tail(s)
<1>1. s \in Seq(S)
  BY DEF TurnsInOrder, IsSeq
<1> HIDE DEF S
<1>2. /\ t \in Seq(S) /\ Len(t) = Len(s) - 1
      /\ \A i \in 1..Len(t) : t[i] = s[i + 1]
  BY <1>1, HeadTailProperties
<1> HIDE DEF t
<1>3. /\ Len(s) \in Nat /\ Len(s) > 0 /\ Head(s) = s[1] /\ IsSeq(t) /\ 1 \in 1..Len(s)
      /\ \A i \in 1..Len(t) : i + 1 \in 1..Len(s) /\ i \in Int
      /\ \A i \in 1..Len(s) : i = 1 \/ (i - 1 \in 1..Len(t) /\ (i - 1) + 1 = i)
  <2>1. Len(s) \in Nat /\ Len(s) > 0 /\ Head(s) = s[1] /\ IsSeq(t)
    BY <1>1, <1>2, SequenceFacts
  <2> QED BY <1>2, <2>1
<1>4. ASSUME NEW q \in Nodes PROVE Waits(s, q) <=> Stands(Head(s), q) \/ Waits(t, q)
  <2>1. ASSUME Waits(s, q) PROVE Stands(Head(s), q) \/ Waits(t, q)
    <3>1. PICK j \in 1..Len(s) : Stands(s[j], q)
      BY <2>1 DEF Waits
    <3>2. j = 1 \/ (j - 1 \in 1..Len(t) /\ t[j - 1] = s[j])
      BY <1>2, <1>3
    <3> QED BY <1>3, <3>1, <3>2 DEF Waits
  <2>2. ASSUME Waits(t, q) PROVE Waits(s, q)
    <3>1. PICK j \in 1..Len(t) : Stands(t[j], q)
      BY <2>2 DEF Waits
    <3>2. j + 1 \in 1..Len(s) /\ t[j] = s[j + 1]
      BY <1>2, <1>3
    <3> QED BY <3>1, <3>2 DEF Waits
  <2>3. ASSUME Stands(Head(s), q) PROVE Waits(s, q)
    BY <1>3, <2>3 DEF Waits
  <2> QED BY <2>1, <2>2, <2>3
<1>5. TurnsInOrder(t)
  <2>1. \A i \in 1..Len(t) :
          t[i].at \in Nodes /\ t[i].due \in BOOLEAN /\ t[i].network = Padded(t[i].at)
    BY <1>2, <1>3 DEF TurnsInOrder
  <2>2. ASSUME NEW i \in 1..Len(t), NEW j \in 1..Len(t), i < j,
               NEW q \in Nodes, NEW p \in Nodes, Stands(t[i], q), Stands(t[j], p)
        PROVE  InTurn(q, p)
    <3>1. i + 1 \in 1..Len(s) /\ j + 1 \in 1..Len(s) /\ i + 1 < j + 1
          /\ t[i] = s[i + 1] /\ t[j] = s[j + 1]
      BY <1>2, <1>3, <2>2
    <3> QED BY <2>2, <3>1 DEF TurnsInOrder
  <2> QED BY <1>3, <2>1, <2>2 DEF TurnsInOrder
<1>6. Head(s).at \in Nodes /\ Head(s).due \in BOOLEAN /\ Head(s).network = Padded(Head(s).at)
  BY <1>3 DEF TurnsInOrder
<1>7. ASSUME NEW q \in Nodes, NEW p \in Nodes, Stands(Head(s), q), Waits(t, p)
      PROVE  InTurn(q, p)
  <2>1. PICK j \in 1..Len(t) : Stands(t[j], p)
    BY <1>7 DEF Waits
  <2>2. j + 1 \in 1..Len(s) /\ 1 < j + 1 /\ t[j] = s[j + 1]
    BY <1>2, <1>3
  <2> QED BY <1>3, <1>7, <2>1, <2>2 DEF TurnsInOrder
<1> QED BY <1>4, <1>5, <1>6, <1>7 DEF t

\* A half that is a node is put on the stack, one that is not stands for none.
LEMMA PushHalfTurn ==
    ASSUME IsTree(recs), NEW h, h.at \in Prefix, h.due \in BOOLEAN, h.network = Padded(h.at),
           h.due => h.at \in Nodes,
           NEW s, TurnsInOrder(s),
           \A q, p \in Nodes : Stands(h, q) /\ Waits(s, p) => InTurn(q, p)
    PROVE  /\ TurnsInOrder(IfNode(h) \o s)
           /\ \A q \in Nodes : Waits(IfNode(h) \o s, q) <=> Stands(h, q) \/ Waits(s, q)
<1>1. CASE h.at \in Nodes
  <2>1. IfNode(h) = <<h>>
    BY <1>1 DEF IfNode, Nodes
  <2> QED BY <1>1, <2>1, PushTurn
<1>2. CASE h.at \notin Nodes
  <2>1. IfNode(h) = << >>
    BY <1>2 DEF IfNode, Nodes
  <2>2. << >> \o s = s
    <3>1. s \in Seq({s[i] : i \in 1..Len(s)})
      BY DEF TurnsInOrder, IsSeq
    <3> QED BY <3>1, ConcatEmptySeq
  <2>3. \A q \in Nodes : ~Stands(h, q)
    <3> SUFFICES ASSUME NEW q \in Nodes, Covers(h.at, q) PROVE FALSE
      BY <1>2 DEF Stands
    <3>1. q \in Prefix /\ HasNode(recs[q]) /\ q # h.at
      BY <1>2 DEF Nodes
    <3>2. recs[q].type # "ABSENT" /\ Below(h.at, q)
      BY <3>1, BelowIsCovers DEF HasNode
    <3>3. HasNode(recs[h.at])
      BY <3>1, <3>2, NodesAbove
    <3> QED BY <1>2, <3>3 DEF Nodes
  <2> QED BY <2>1, <2>2, <2>3
<1> QED BY <1>1, <1>2

\* A node entered for its turn: its left half goes on top, itself below, and its
\* right half below that.
LEMMA EnteredInOrder ==
    ASSUME NEW f, NEW s, IsSeq(s)
    PROVE  Enter(f, TRUE) \o s
             = IfNode(Half(f, 0)) \o (IfNode(Due(f)) \o (IfNode(Half(f, 1)) \o s))
<1> DEFINE a == Half(f, 0)
           b == Due(f)
           c == Half(f, 1)
<1>1. Enter(f, TRUE) = (IfNode(a) \o IfNode(b)) \o IfNode(c)
  BY DEF Enter
<1> HIDE DEF a, b, c
<1>2. OneByOne(a, b, c, s)
  BY FramesInOneSequence
<1>3. Enter(f, TRUE) \o s = IfNode(a) \o (IfNode(b) \o (IfNode(c) \o s))
  BY <1>1, <1>2 DEF OneByOne
<1> QED BY <1>3 DEF a, b, c

\* A node entered, its own turn between its halves, stands for the same nodes
\* as before.
LEMMA EnterTurn ==
    ASSUME IsTree(recs), NEW s, TurnsInOrder(s), s # << >>, ~Head(s).due
    PROVE  /\ TurnsInOrder(Enter(Head(s), TRUE) \o Tail(s))
           /\ \A q \in Nodes : Waits(Enter(Head(s), TRUE) \o Tail(s), q) <=> Waits(s, q)
<1> DEFINE f == Head(s)
           t == Tail(s)
           p == f.at
           l == Half(f, 0)
           r == Half(f, 1)
           d == Due(f)
<1>1. /\ TurnsInOrder(t) /\ p \in Nodes /\ p \in Prefix /\ Len(p) < W
      /\ f.network = Padded(p)
      /\ \A q \in Nodes : Waits(s, q) <=> Covers(p, q) \/ Waits(t, q)
      /\ \A q, u \in Nodes : Covers(p, q) /\ Waits(t, u) => InTurn(q, u)
  BY PopTurn DEF Stands, Nodes, IsTree
<1>2. /\ l.at = Child(p, 0) /\ l.due = FALSE /\ l.network = Padded(l.at)
      /\ r.at = Child(p, 1) /\ r.due = FALSE /\ r.network = Padded(r.at)
      /\ d.at = p /\ d.due = TRUE /\ d.network = Padded(d.at)
      /\ l.at \in Prefix /\ r.at \in Prefix
  <2>1. f.at = p
    OBVIOUS
  <2> HIDE DEF f, p
  <2>2. \A b \in Bit : Child(p, b) \in Prefix
    BY <1>1, ChildIsPrefix
  <2>3. \A b \in Bit :
          /\ Half(f, b).at = Child(p, b) /\ Half(f, b).due = FALSE
          /\ Half(f, b).network = Padded(Child(p, b))
          /\ Due(f).at = p /\ Due(f).due = TRUE /\ Due(f).network = f.network
    <3>1. f.at \in Prefix /\ Len(f.at) < W /\ f.network = Padded(f.at)
      BY <1>1, <2>1
    <3>2. ASSUME NEW b \in Bit
          PROVE  /\ Half(f, b).at = Child(f.at, b) /\ Half(f, b).due = FALSE
                 /\ Half(f, b).network = Padded(Child(f.at, b))
                 /\ Due(f).at = f.at /\ Due(f).due = TRUE /\ Due(f).network = f.network
      BY <3>1, FramesOfHalves
    <3> QED BY <2>1, <3>2
  <2> QED BY <1>1, <2>2, <2>3 DEF Bit
<1> HIDE DEF l, r, d, t, p
<1>3. \A q \in Nodes : q \in Prefix
  BY DEF Nodes
<1>4. ASSUME NEW q \in Nodes
      PROVE  /\ Stands(l, q) <=> Covers(l.at, q)
             /\ Stands(r, q) <=> Covers(r.at, q)
             /\ Stands(d, q) <=> q = p
             /\ Covers(p, q) <=> q = p \/ Covers(l.at, q) \/ Covers(r.at, q)
  BY <1>1, <1>2, <1>3, HalvesInOrder DEF Stands
<1>5. ASSUME NEW q \in Nodes, NEW u \in Nodes
      PROVE  /\ Covers(l.at, q) => InTurn(q, p)
             /\ Covers(r.at, u) => InTurn(p, u)
             /\ Covers(l.at, q) /\ Covers(r.at, u) => InTurn(q, u)
  BY <1>1, <1>2, <1>3, HalvesInTurn
<1> DEFINE w == IfNode(r) \o t
           v == IfNode(d) \o w
           x == IfNode(l) \o v
<1>6. /\ TurnsInOrder(w)
      /\ \A q \in Nodes : Waits(w, q) <=> Covers(r.at, q) \/ Waits(t, q)
  <2>1. \A q, u \in Nodes : Stands(r, q) /\ Waits(t, u) => InTurn(q, u)
    BY <1>1, <1>4
  <2> QED BY <1>1, <1>2, <1>4, <2>1, PushHalfTurn
<1> HIDE DEF w
<1>7. /\ TurnsInOrder(v)
      /\ \A q \in Nodes : Waits(v, q) <=> q = p \/ Waits(w, q)
  <2>1. \A q, u \in Nodes : Stands(d, q) /\ Waits(w, u) => InTurn(q, u)
    BY <1>1, <1>4, <1>5, <1>6
  <2> QED BY <1>1, <1>2, <1>4, <1>6, <2>1, PushHalfTurn
<1> HIDE DEF v
<1>8. /\ TurnsInOrder(x)
      /\ \A q \in Nodes : Waits(x, q) <=> Covers(l.at, q) \/ Waits(v, q)
  <2>1. \A q, u \in Nodes : Stands(l, q) /\ Waits(v, u) => InTurn(q, u)
    BY <1>1, <1>4, <1>5, <1>6, <1>7
  <2> QED BY <1>2, <1>4, <1>7, <2>1, PushHalfTurn
<1>9. Enter(f, TRUE) \o t = x
  <2>1. IsSeq(t)
    BY <1>1 DEF TurnsInOrder
  <2> HIDE DEF f, x
  <2>2. Enter(f, TRUE) \o t
          = IfNode(Half(f, 0)) \o (IfNode(Due(f)) \o (IfNode(Half(f, 1)) \o t))
    BY <2>1, EnteredInOrder
  <2> QED BY <2>2 DEF w, v, x, l, r, d
<1>10. \A q \in Nodes : Waits(x, q) <=> Waits(s, q)
  BY <1>1, <1>4, <1>6, <1>7, <1>8
<1> HIDE DEF x
<1> QED BY <1>8, <1>9, <1>10 DEF t

\* An iteration begins with all nodes waiting.
LEMMA BeginTurn ==
    ASSUME HasNode(recs[<< >>])
    PROVE  TurnsInOrder(<<RootFrame>>) /\ \A q \in Nodes : Waits(<<RootFrame>>, q)
<1> DEFINE f == RootFrame
           e == << >>
<1>1. /\ f.at = << >> /\ f.due = FALSE /\ f.at \in Nodes
      /\ \A q \in Nodes : q \in Prefix /\ Covers(<< >>, q)
  BY RootIsPrefix, CoversOrder DEF RootFrame, Nodes
<1>2. f.network = Padded(f.at)
  BY <1>1, RootIsPrefix, WidthAssumption DEF RootFrame, Padded
<1>3. TurnsInOrder(e) /\ \A q \in Nodes : ~Waits(e, q)
  BY SequenceFacts DEF TurnsInOrder, Waits
<1>4. <<f>> \o e = <<f>>
  <2>1. <<f>> \in Seq({f})
    OBVIOUS
  <2> QED BY <2>1, ConcatEmptySeq
<1> HIDE DEF f
<1>5. \A q \in Nodes : Stands(f, q)
  BY <1>1 DEF Stands
<1>6. e = << >>
  OBVIOUS
<1> HIDE DEF e
<1>7. /\ TurnsInOrder(<<f>> \o e)
      /\ \A q \in Nodes : Waits(<<f>> \o e, q) <=> Stands(f, q) \/ Waits(e, q)
  BY <1>1, <1>2, <1>3, PushTurn
<1> QED BY <1>4, <1>5, <1>7 DEF f

-----------------------------------------------------------------------------
(* Reports                                                                 *)

\* A report names its node and its side.
LEMMA ReportFields ==
    ASSUME NEW p \in Nodes, NEW b
    PROVE  NodeOfReport(ReportOf(p, b)) = p /\ ReportOf(p, b).is_right = b
<1>1. p \in Prefix
  BY DEF Nodes
<1>2. /\ ReportOf(p, b).node_prefix_length = Len(p) /\ ReportOf(p, b).node_network = Padded(p)
      /\ ReportOf(p, b).is_right = b
  BY DEF ReportOf
<1> QED BY <1>1, <1>2, FirstAddress DEF NodeOfReport

\* What is appended comes last.
LEMMA AppendLast ==
    ASSUME NEW s, IsSeq(s), NEW x
    PROVE  /\ IsSeq(Append(s, x)) /\ Len(s) \in Nat /\ Len(Append(s, x)) = Len(s) + 1
           /\ Append(s, x)[Len(s) + 1] = x
           /\ \A i \in 1..Len(s) : Append(s, x)[i] = s[i]
<1>1. PICK S : s \in Seq(S) /\ <<x>> \in Seq(S)
  BY SequenceFacts
<1>2. x \in S
  <2> DEFINE y == <<x>>
  <2>1. y \in Seq(S) /\ Len(y) = 1 /\ y[1] = x
    BY <1>1
  <2> HIDE DEF y
  <2>2. y \in [1..Len(y) -> S] /\ 1 \in 1..Len(y)
    BY <2>1, LenProperties
  <2> QED BY <2>1, <2>2
<1> QED BY <1>1, <1>2, AppendProperties, SequenceFacts

\* While the tree does not change, neither does what an iteration has to do.
LEMMA SameIteration ==
    ASSUME recs' = recs
    PROVE  \A it : IterationOK(it)' <=> IterationOK(it)
<1>1. Nodes' = Nodes /\ \A p : Rank(p)' = Rank(p)
  BY SameOrder
<1>2. \A p, b : ReportOf(p, b)' = ReportOf(p, b)
  BY <1>1 DEF ReportOf, LeadsToNumber
<1>3. \A s : TurnsInOrder(s)' <=> TurnsInOrder(s)
  BY <1>1 DEF TurnsInOrder
<1> QED BY <1>1, <1>2, <1>3 DEF IterationOK

\* An iteration begins.
LEMMA BeginIteration ==
    ASSUME HasNode(recs[<< >>])
    PROVE  IterationOK([stack |-> <<RootFrame>>, seen |-> << >>, calls |-> 0])
<1> DEFINE it == [stack |-> <<RootFrame>>, seen |-> << >>, calls |-> 0]
<1>1. it.stack = <<RootFrame>> /\ it.seen = << >> /\ it.calls = 0
  OBVIOUS
<1> HIDE DEF it
<1>2. IsSeq(it.seen) /\ Len(it.seen) = 0
  BY <1>1, SequenceFacts
<1>3. TurnsInOrder(it.stack) /\ \A q \in Nodes : Waits(it.stack, q)
  BY <1>1, BeginTurn
<1>4. \A p \in Nodes, b \in Bit : Remains(it, p, b)
  BY <1>1, <1>3 DEF Remains, Bit
<1>5. IterationOK(it)
  BY <1>1, <1>2, <1>3, <1>4 DEF IterationOK
<1> QED BY <1>5 DEF it

\* A node is entered.
LEMMA EnterIteration ==
    ASSUME IsTree(recs), NEW it, IterationOK(it), it.stack # << >>, ~Head(it.stack).due,
           NEW after, after.stack = Enter(Head(it.stack), TRUE) \o Tail(it.stack),
           after.seen = it.seen, after.calls = it.calls
    PROVE  IterationOK(after)
<1>1. TurnsInOrder(it.stack) /\ it.calls = 0
  BY DEF IterationOK
<1> DEFINE s == Enter(Head(it.stack), TRUE) \o Tail(it.stack)
<1>2. TurnsInOrder(s) /\ \A q \in Nodes : Waits(s, q) <=> Waits(it.stack, q)
  BY <1>1, EnterTurn
<1>3. after.stack = s
  OBVIOUS
<1> HIDE DEF s
<1>4. ASSUME NEW p \in Nodes, NEW b \in Bit
      PROVE  Remains(after, p, b) <=> Remains(it, p, b)
  <2>1. ~(b < it.calls) /\ ~(b < after.calls)
    BY <1>1 DEF Bit
  <2>2. Waits(after.stack, p) <=> Waits(it.stack, p)
    BY <1>2, <1>3
  <2> QED BY <2>1, <2>2 DEF Remains
<1>5. TurnsInOrder(after.stack) /\ after.calls = 0
  BY <1>1, <1>2, <1>3
<1>6. after.seen = it.seen
  OBVIOUS
<1> HIDE DEF s
<1> QED BY ONLY IterationOK(it), <1>4, <1>5, <1>6 DEF IterationOK

\* A record of the node due is reported.
LEMMA ReportIteration ==
    ASSUME NEW it, IterationOK(it), it.stack # << >>, Head(it.stack).due, it.calls < 2,
           NEW after, after.stack = it.stack, after.calls = it.calls + 1,
           after.seen = Append(it.seen, ReportOf(Head(it.stack).at, it.calls))
    PROVE  IterationOK(after)
<1> DEFINE h == Head(it.stack).at
           c == it.calls
           r == ReportOf(h, c)
           n == Len(it.seen) + 1
<1>1. /\ TurnsInOrder(it.stack) /\ c \in Bit /\ h \in Nodes /\ IsSeq(it.seen)
      /\ \A q \in Nodes : Waits(it.stack, q) <=> q = h \/ Waits(Tail(it.stack), q)
      /\ \A p \in Nodes : Waits(Tail(it.stack), p) => InTurn(h, p)
  <2>1. TurnsInOrder(it.stack) /\ IsSeq(it.seen) /\ c \in 0..2
    BY DEF IterationOK
  <2>2. c \in Bit
    BY <2>1 DEF Bit
  <2> QED BY <2>1, <2>2, PopTurn DEF Stands
<1> HIDE DEF h
<1>2. NodeOfReport(r) = h /\ r.is_right = c
  BY <1>1, ReportFields
<1> HIDE DEF r
<1>3. /\ IsSeq(after.seen) /\ Len(after.seen) = n /\ after.seen[n] = r /\ n \in Nat \ {0}
      /\ \A i \in 1..Len(it.seen) : after.seen[i] = it.seen[i] /\ i \in 1..n
      /\ \A i \in 1..n : i = n \/ i \in 1..Len(it.seen)
  <2>1. after.seen = Append(it.seen, r)
    BY DEF r, h
  <2>2. /\ IsSeq(after.seen) /\ Len(it.seen) \in Nat /\ Len(after.seen) = Len(it.seen) + 1
        /\ after.seen[Len(it.seen) + 1] = r
        /\ \A i \in 1..Len(it.seen) : after.seen[i] = it.seen[i]
    BY <1>1, <2>1, AppendLast
  <2> QED BY <2>2
<1> HIDE DEF n
<1>4. Remains(it, h, c)
  BY <1>1 DEF Remains, Bit, h
<1>5. /\ after.calls \in 0..2 /\ TurnsInOrder(after.stack)
      /\ after.calls > 0 => after.stack # << >> /\ Head(after.stack).due
  BY <1>1 DEF Bit
<1>6. ASSUME NEW i \in 1..n
      PROVE  LET p == NodeOfReport(after.seen[i])
             IN  p \in Nodes /\ after.seen[i].is_right \in Bit
                   /\ after.seen[i] = ReportOf(p, after.seen[i].is_right)
  <2>1. CASE i = n
    BY <1>1, <1>2, <1>3, <2>1 DEF r
  <2>2. CASE i \in 1..Len(it.seen)
    BY <1>3, <2>2 DEF IterationOK
  <2> QED BY <1>3, <2>1, <2>2
<1>7. ASSUME NEW p \in Nodes, NEW b \in Bit, Remains(after, p, b), NEW i \in 1..n
      PROVE  ComesBefore(after.seen[i], p, b)
  <2>1. Waits(it.stack, p) /\ ~(b < c + 1 /\ p = h)
    BY <1>7 DEF Remains, h
  <2>2. CASE i = n
    <3>1. p = h => c < b
      BY <1>1, <2>1 DEF Bit
    <3> QED BY <1>1, <1>2, <1>3, <2>1, <2>2, <3>1 DEF ComesBefore
  <2>3. CASE i \in 1..Len(it.seen)
    <3>1. Remains(it, p, b)
      BY <1>1, <2>1 DEF Remains, Bit, h
    <3> QED BY <1>3, <2>3, <3>1 DEF IterationOK
  <2> QED BY <1>3, <2>2, <2>3
<1>8. ASSUME NEW p \in Nodes, NEW b \in Bit, ~Remains(after, p, b)
      PROVE  \E i \in 1..n : after.seen[i] = ReportOf(p, b)
  <2>1. CASE p = h /\ b = c
    <3>1. r = ReportOf(p, b)
      BY <2>1 DEF r
    <3>2. n \in 1..n
      BY <1>3
    <3> QED BY <1>3, <3>1, <3>2
  <2>2. CASE ~(p = h /\ b = c)
    <3>1. ~Remains(it, p, b)
      BY <1>1, <1>8, <2>2 DEF Remains, Bit, h
    <3>2. PICK i \in 1..Len(it.seen) : it.seen[i] = ReportOf(p, b)
      BY <3>1 DEF IterationOK
    <3> QED BY <1>3, <3>2
  <2> QED BY <2>1, <2>2
<1>9. ASSUME NEW i \in 1..n, NEW j \in 1..n, i < j
      PROVE  ComesBefore(after.seen[i], NodeOfReport(after.seen[j]), after.seen[j].is_right)
  <2>1. i \in 1..Len(it.seen) /\ after.seen[i] = it.seen[i]
    BY <1>3, <1>9
  <2>2. CASE j = n
    BY <1>1, <1>2, <1>3, <1>4, <2>1, <2>2 DEF IterationOK
  <2>3. CASE j \in 1..Len(it.seen)
    BY <1>3, <1>9, <2>1, <2>3 DEF IterationOK
  <2> QED BY <1>3, <2>2, <2>3
<1> QED BY <1>3, <1>5, <1>6, <1>7, <1>8, <1>9 DEF IterationOK

\* Both records of a node have been reported.
LEMMA LeaveIteration ==
    ASSUME IsTree(recs), NEW it, IterationOK(it), it.stack # << >>, Head(it.stack).due,
           it.calls = 2,
           NEW after, after.stack = Tail(it.stack), after.calls = 0, after.seen = it.seen
    PROVE  IterationOK(after)
<1> DEFINE h == Head(it.stack).at
<1>1. /\ TurnsInOrder(it.stack) /\ TurnsInOrder(Tail(it.stack)) /\ h \in Nodes
      /\ \A q \in Nodes : Waits(it.stack, q) <=> q = h \/ Waits(Tail(it.stack), q)
      /\ \A p \in Nodes : Waits(Tail(it.stack), p) => InTurn(h, p)
  BY PopTurn DEF IterationOK, Stands
<1>2. ~InTurn(h, h)
  <2>1. h \in Prefix /\ Len(h) < W
    BY <1>1 DEF Nodes, IsTree
  <2> QED BY <2>1, HalvesInTurn
<1> HIDE DEF h
<1>3. \A p \in Nodes, b \in Bit : Remains(after, p, b) <=> Remains(it, p, b)
  BY <1>1, <1>2 DEF Remains, Bit, h
<1> QED BY <1>1, <1>3 DEF IterationOK

\* What call_perl_object reports is the record's report.
LEMMA ReportIs ==
    ASSUME LookupInv, op = "idle", IsTree(recs), AtNodeOfIterate, NEW b \in Bit,
           Top.at \in Nodes, Top.network = Padded(Top.at),
           \A p \in Nodes : number[p] = Rank(p)
    PROVE  Report(b) = ReportOf(Top.at, b)
<1> DEFINE p == Top.at
           h == Half(Top, b)
<1>1. p \in Prefix /\ Len(p) < W
  BY DEF Nodes, IsTree
<1>2. h.at = Child(p, b) /\ h.network = Padded(Child(p, b)) /\ Child(p, b) \in Prefix
  <2>1. Top.at \in Prefix /\ Len(Top.at) < W
    BY <1>1
  <2> HIDE DEF p
  <2>2. Half(Top, b).at = Child(Top.at, b) /\ Half(Top, b).network = Padded(Child(Top.at, b))
    BY <2>1, FramesOfHalves
  <2>3. Child(Top.at, b) \in Prefix
    BY <2>1, ChildIsPrefix
  <2> QED BY <2>2, <2>3 DEF p
<1>3. NumberOfNode(Child(p, b)) = LeadsToNumber(Child(p, b))
  <2> DEFINE q == Child(p, b)
  <2>1. HasNode(recs[q]) => q \in Nodes
    BY <1>2 DEF Nodes
  <2>2. recs[q].type = "ALIAS" => V4Root \in Nodes
    BY <1>2, AliasLeadsToNode
  <2> HIDE DEF q, p
  <2>3. HasNode(recs[q]) => NumberOfNode(q) = LeadsToNumber(q)
    BY <2>1 DEF NumberOfNode, LeadsToNumber, HasNode
  <2>4. recs[q].type = "ALIAS" /\ ~HasNode(recs[q]) => NumberOfNode(q) = LeadsToNumber(q)
    BY <2>2 DEF NumberOfNode, LeadsToNumber, HasNode
  <2>5. recs[q].type # "ALIAS" /\ ~HasNode(recs[q]) => NumberOfNode(q) = LeadsToNumber(q)
    BY DEF NumberOfNode, LeadsToNumber, HasNode
  <2>6. NumberOfNode(q) = LeadsToNumber(q)
    BY <2>3, <2>4, <2>5 DEF HasNode
  <2> QED BY <2>6 DEF q
<1>4. Report(b) = [node |-> number[p], is_right |-> b,
         node_network |-> Top.network, node_prefix_length |-> Len(p),
         network |-> h.network, prefix_length |-> Len(h.at),
         record |-> recs[h.at], leads_to |-> NumberOfNode(h.at)]
  BY DEF Report
<1>5. number[p] = Rank(p) /\ Top.network = Padded(p)
  OBVIOUS
<1> HIDE DEF p, h
<1> QED BY <1>2, <1>3, <1>4, <1>5 DEF ReportOf, p

\* What is left when the first is taken.
LEMMA TailFacts ==
    ASSUME NEW s, IsSeq(s), s # << >>
    PROVE  /\ IsSeq(Tail(s)) /\ Head(s) = s[1] /\ 1 \in 1..Len(s)
           /\ \A i \in 1..Len(Tail(s)) : i + 1 \in 1..Len(s) /\ Tail(s)[i] = s[i + 1]
<1> DEFINE S == {s[i] : i \in 1..Len(s)}
           t == Tail(s)
<1>1. s \in Seq(S)
  BY DEF IsSeq
<1> HIDE DEF S
<1>2. /\ t \in Seq(S) /\ Len(t) = Len(s) - 1
      /\ \A i \in 1..Len(t) : t[i] = s[i + 1]
  BY <1>1, HeadTailProperties
<1>3. Len(s) \in Nat /\ Len(s) > 0 /\ Head(s) = s[1] /\ IsSeq(t)
  BY <1>1, <1>2, SequenceFacts
<1> QED BY <1>2, <1>3

\* A call begins, an iteration waiting or none.
LEMMA BeginsIteration ==
    ASSUME IterationInv, recs' = recs, IsSeq(outer'),
           \A i \in 1..Len(outer') : IterationOK(outer'[i]),
           task' \in {"number"}, seen' = << >>, calls' = 0
    PROVE  IterationInv'
<1>1. \A it : IterationOK(it)' <=> IterationOK(it)
  BY SameIteration
<1> QED BY <1>1 DEF IterationInv

\* The end of a call, and the return to the iteration it was made in.
LEMMA EndsIteration ==
    ASSUME IterationInv, recs' = recs, Ends \/ Croaks,
           \A p \in Nodes : number[p] = Rank(p)
    PROVE  IterationInv'
<1>1. \A it : IterationOK(it)' <=> IterationOK(it)
  BY SameIteration
<1>2. IsSeq(<< >>) /\ Len(<< >>) = 0
  BY SequenceFacts
<1>3. CASE Rest
  <2>1. /\ task' = "none" /\ seen' = << >> /\ calls' = 0 /\ outer' = << >>
    BY <1>3 DEF Rest
  <2> QED BY <1>2, <2>1 DEF IterationInv
<1>4. CASE Resume /\ outer # << >>
  <2>1. /\ task' = "iterate" /\ stack' = Head(outer).stack /\ seen' = Head(outer).seen
        /\ calls' = Head(outer).calls /\ outer' = Tail(outer) /\ number' = number
    BY <1>4 DEF Resume
  <2>2. /\ IsSeq(Tail(outer)) /\ Head(outer) = outer[1] /\ 1 \in 1..Len(outer)
        /\ \A i \in 1..Len(Tail(outer)) : i + 1 \in 1..Len(outer) /\ Tail(outer)[i] = outer[i + 1]
    BY <1>4, TailFacts DEF IterationInv
  <2>3. IterationOK(Head(outer)) /\ \A i \in 1..Len(Tail(outer)) : IterationOK(Tail(outer)[i])
    BY <2>2 DEF IterationInv
  <2>4. IterationOK(ThisIteration')
    <3> DEFINE it == Head(outer)
               this == [stack |-> it.stack, seen |-> it.seen, calls |-> it.calls]
    <3>1. this.stack = it.stack /\ this.seen = it.seen /\ this.calls = it.calls
      OBVIOUS
    <3>2. ThisIteration' = this
      BY <2>1 DEF ThisIteration
    <3>3. IterationOK(it)
      BY <2>3
    <3> HIDE DEF this, it
    <3>4. \A p \in Nodes, b \in Bit : Remains(this, p, b) <=> Remains(it, p, b)
      BY <3>1 DEF Remains
    <3>5. IterationOK(this)
      BY <3>1, <3>3, <3>4 DEF IterationOK
    <3> QED BY <3>2, <3>5
  <2>5. Nodes' = Nodes /\ \A p : Rank(p)' = Rank(p)
    BY SameOrder
  <2> QED BY <1>1, <2>1, <2>2, <2>3, <2>4, <2>5 DEF IterationInv
<1> QED BY <1>3, <1>4 DEF Ends, Croaks

\* Every step keeps what iterations have reported and have left to report.
LEMMA NextIteration ==
    ASSUME TableInv, LookupInv, OrderInv, IterationInv, [WriteNext]_<<vars, wvars>>
    PROVE  IterationInv'
<1>1. CanIterate => IsTree(recs)
  BY TreeOfRecs DEF CanIterate
<1>2. ASSUME recs' = recs
      PROVE  /\ \A it : IterationOK(it)' <=> IterationOK(it)
             /\ Nodes' = Nodes /\ \A p : Rank(p)' = Rank(p)
  BY <1>2, SameIteration, SameOrder
<1>3. ASSUME recs' = recs, UNCHANGED <<task, number, outer, seen, calls>>,
             task = "iterate" => stack' = stack
      PROVE  IterationInv'
  <2>1. task = "iterate" => ThisIteration' = ThisIteration
    BY <1>3 DEF ThisIteration
  <2> QED BY <1>2, <1>3, <2>1 DEF IterationInv
<1>4. ASSUME recs' = recs, UNCHANGED <<task, number, outer>>, task = "iterate",
             IterationOK(ThisIteration')
      PROVE  IterationInv'
  BY <1>2, <1>4 DEF IterationInv
<1>5. CASE UNCHANGED <<vars, wvars>>
  BY <1>3, <1>5 DEF vars, wvars, tvars, ivars
<1>6. CASE TreeStep
  <2>1. /\ task = "none" /\ task' = "none" /\ UNCHANGED <<outer, seen, calls>>
    BY <1>6 DEF TreeStep, tvars, ivars
  <2>2. IsSeq(<< >>) /\ Len(<< >>) = 0
    BY SequenceFacts
  <2> QED BY <2>1, <2>2 DEF IterationInv
<1>7. ASSUME NEW for \in {"count", "write", "iterate"}, Begin(for)
      PROVE  IterationInv'
  <2>1. /\ task = "none" /\ task' = "number" /\ recs' = recs /\ UNCHANGED <<outer, seen, calls>>
    BY <1>7 DEF Begin, Numbering, vars, ivars
  <2> QED BY <2>1, BeginsIteration DEF IterationInv
<1>8. ASSUME NEW for \in {"count", "write", "iterate"}, BeginWithin(for)
      PROVE  IterationInv'
  <2>1. /\ task = "iterate" /\ task' = "number" /\ recs' = recs /\ seen' = << >> /\ calls' = 0
        /\ outer' = <<ThisIteration>> \o outer
    BY <1>8 DEF BeginWithin, Numbering, vars, ThisIteration
  <2>2. /\ IterationOK(ThisIteration) /\ IsSeq(outer)
        /\ \A i \in 1..Len(outer) : IterationOK(outer[i])
    BY <2>1 DEF IterationInv
  <2> DEFINE o == <<ThisIteration>> \o outer
  <2>3. /\ IsSeq(o) /\ Len(o) = Len(outer) + 1 /\ Len(outer) \in Nat
        /\ o[1] = ThisIteration /\ \A i \in 1..Len(outer) : o[i + 1] = outer[i]
    BY <2>2, PutFirst
  <2>4. outer' = o
    BY <2>1
  <2> HIDE DEF o
  <2>5. ASSUME NEW i \in 1..Len(o) PROVE IterationOK(o[i])
    <3>1. CASE i = 1
      BY <2>2, <2>3, <3>1
    <3>2. CASE i # 1
      <4>1. i - 1 \in 1..Len(outer) /\ (i - 1) + 1 = i
        BY <2>3, <3>2
      <4>2. o[i] = outer[i - 1]
        BY <2>3, <4>1
      <4> QED BY <2>2, <4>1, <4>2
    <3> QED BY <3>1, <3>2
  <2> QED BY <2>1, <2>3, <2>4, <2>5, BeginsIteration
<1>9. CASE EnterNode
  <2>1. /\ stack # << >> /\ ~Head(stack).due
        /\ stack' = Enter(Head(stack), task = "iterate") \o Tail(stack)
        /\ recs' = recs /\ UNCHANGED <<task, number, outer, seen, calls>>
    BY <1>9 DEF EnterNode, vars, ivars, Top
  <2>2. CASE task = "iterate"
    <3>1. IterationOK(ThisIteration) /\ IsTree(recs)
      BY <1>1, <2>2 DEF IterationInv, OrderInv
    <3>2. /\ ThisIteration.stack = stack /\ ThisIteration'.stack = stack'
          /\ ThisIteration.seen = seen /\ ThisIteration'.seen = seen
          /\ ThisIteration.calls = calls /\ ThisIteration'.calls = calls
      BY <2>1 DEF ThisIteration
    <3>3. stack' = Enter(Head(stack), TRUE) \o Tail(stack)
      BY <2>1, <2>2
    <3>4. IterationOK(ThisIteration')
      BY <2>1, <3>1, <3>2, <3>3, EnterIteration
    <3> QED BY <1>4, <2>1, <2>2, <3>4
  <2>3. CASE task # "iterate"
    BY <1>3, <2>1, <2>3
  <2> QED BY <2>2, <2>3
<1>10. CASE Number
  <2>1. task = "number" /\ recs' = recs /\ UNCHANGED <<task, outer, seen, calls>>
    BY <1>10 DEF Number, vars, ivars
  <2> QED BY <1>2, <2>1 DEF IterationInv
<1>11. CASE Numbered
  <2>1. /\ task = "number" /\ stack = << >> /\ task' = purpose /\ stack' = <<RootFrame>>
        /\ recs' = recs /\ UNCHANGED <<number, outer, seen, calls>> /\ purpose # "count"
    BY <1>11 DEF Numbered, vars, ivars
  <2>2. /\ task' \in {"write", "iterate"} /\ HasNode(recs[<< >>])
        /\ \A p \in Nodes : number[p] = Rank(p)
    BY <2>1, DoneAtEnds DEF OrderInv, CanIterate
  <2>3. seen = << >> /\ calls = 0
    BY <2>1 DEF IterationInv
  <2>4. IterationOK(ThisIteration')
    <3>1. ThisIteration' = [stack |-> <<RootFrame>>, seen |-> << >>, calls |-> 0]
      BY <2>1, <2>3 DEF ThisIteration
    <3> QED BY <2>2, <3>1, BeginIteration
  <2> QED BY <1>2, <2>1, <2>2, <2>3, <2>4 DEF IterationInv
<1>12. CASE WriteNode \/ Written
  <2>1. /\ task = "write" /\ task' \in {"write", "written"} /\ recs' = recs
        /\ UNCHANGED <<number, outer, seen, calls>>
    BY <1>12 DEF WriteNode, Written, AtNode, vars, ivars
  <2> QED BY <1>2, <2>1 DEF IterationInv
<1>13. CASE Counted \/ WriteCroaks \/ Close \/ CallbackDies \/ Iterated
  <2>1. recs' = recs /\ (Ends \/ Croaks)
    BY <1>13 DEF Counted, WriteCroaks, AtNode, Close, CallbackDies, Iterated, vars
  <2>2. \A p \in Nodes : number[p] = Rank(p)
    <3>1. CASE Counted
      BY <3>1, DoneAtEnds DEF Counted, OrderInv
    <3>2. CASE WriteCroaks \/ Close \/ CallbackDies \/ Iterated
      BY <3>2 DEF WriteCroaks, AtNode, Close, CallbackDies, Iterated, IterationInv
    <3> QED BY <1>13, <3>1, <3>2
  <2> QED BY <2>1, <2>2, EndsIteration
<1>14. CASE ReportRecord \/ NodeReported
  <2>1. /\ task = "iterate" /\ AtNodeOfIterate /\ stack # << >> /\ Head(stack).due
        /\ recs' = recs /\ UNCHANGED <<task, number, outer>>
    BY <1>14 DEF ReportRecord, NodeReported, AtNodeOfIterate, vars, tvars, Top
  <2>2. /\ IterationOK(ThisIteration) /\ IsTree(recs) /\ op = "idle"
        /\ \A p \in Nodes : number[p] = Rank(p)
    BY <1>1, <2>1 DEF IterationInv, OrderInv, CanIterate
  <2>3. /\ ThisIteration.stack = stack /\ ThisIteration'.stack = stack'
        /\ ThisIteration.seen = seen /\ ThisIteration'.seen = seen'
        /\ ThisIteration.calls = calls /\ ThisIteration'.calls = calls'
    BY DEF ThisIteration
  <2>4. CASE ReportRecord
    <3>1. /\ calls < 2 /\ seen' = Append(seen, Report(calls)) /\ calls' = calls + 1
          /\ stack' = stack
      BY <2>4 DEF ReportRecord, tvars
    <3>2. calls \in Bit /\ Top.at \in Nodes /\ Top.network = Padded(Top.at)
      <4>1. calls \in 0..2 /\ TurnsInOrder(stack)
        BY <2>2, <2>3 DEF IterationOK
      <4>2. calls \in Bit
        BY <3>1, <4>1 DEF Bit
      <4> QED BY <2>1, <4>1, <4>2, PopTurn DEF Top
    <3>3. seen' = Append(seen, ReportOf(Head(stack).at, calls))
      BY <2>1, <2>2, <3>1, <3>2, ReportIs DEF Top
    <3>4. IterationOK(ThisIteration')
      BY <2>1, <2>2, <2>3, <3>1, <3>3, ReportIteration
    <3> QED BY <1>4, <2>1, <3>4
  <2>5. CASE NodeReported
    <3>1. calls = 2 /\ stack' = Tail(stack) /\ calls' = 0 /\ seen' = seen
      BY <2>5 DEF NodeReported
    <3>2. IterationOK(ThisIteration')
      BY <2>1, <2>2, <2>3, <3>1, LeaveIteration
    <3> QED BY <1>4, <2>1, <3>2
  <2> QED BY <1>14, <2>4, <2>5
<1> QED BY <1>5, <1>6, <1>7, <1>8, <1>9, <1>10, <1>11, <1>12, <1>13, <1>14 DEF WriteNext

\* The invariants of the tree, of its writing and of the iterations hold in every
\* reachable state.
LEMMA IterationInvAlways == WriteSpec => [](TableInv /\ LookupInv /\ OrderInv /\ IterationInv)
<1>1. WriteInit => IterationInv
  BY SequenceFacts DEF WriteInit, IterationInv
<1>2. TableInv /\ LookupInv /\ OrderInv /\ IterationInv /\ [WriteNext]_<<vars, wvars>>
        => IterationInv'
  BY NextIteration
<1> QED BY <1>1, <1>2, OrderInvAlways, PTL DEF WriteSpec

-----------------------------------------------------------------------------
(* What an iteration that is done has reported                             *)

\* The record that a report is of.
PlaceOf(r) == Child(NodeOfReport(r), r.is_right)

\* Every record of a node was reported as it is, and no report is in the wrong
\* place.
LEMMA AllReported ==
    ASSUME TableInv, OrderInv, IterationInv, IterationEnds
    PROVE  /\ op = "idle" /\ IsTree(recs) /\ DOMAIN seen = 1..Len(seen) /\ Len(seen) \in Nat
           /\ \A i \in DOMAIN seen :
                /\ NodeOfReport(seen[i]) \in Nodes /\ seen[i].is_right \in Bit
                /\ seen[i] = ReportOf(NodeOfReport(seen[i]), seen[i].is_right)
           /\ \A p \in Nodes, b \in Bit : \E i \in DOMAIN seen : seen[i] = ReportOf(p, b)
           /\ \A i, j \in DOMAIN seen : i < j =>
                ComesBefore(seen[i], NodeOfReport(seen[j]), seen[j].is_right)
<1>1. op = "idle" /\ IsTree(recs)
  BY TreeOfRecs DEF IterationEnds, OrderInv, CanIterate
<1> DEFINE it == ThisIteration
<1>2. IterationOK(it) /\ it.stack = << >> /\ it.seen = seen
  BY DEF IterationEnds, IterationInv, ThisIteration
<1> HIDE DEF it
<1>3. IsSeq(seen)
  BY <1>2 DEF IterationOK
<1>4. DOMAIN seen = 1..Len(seen) /\ Len(seen) \in Nat
  BY <1>3, LenProperties DEF IsSeq
<1>5. \A p, b : ~Remains(it, p, b)
  BY <1>2, SequenceFacts DEF Remains, Waits
<1> QED BY <1>1, <1>2, <1>4, <1>5 DEF IterationOK

\* A report that is that of a record tells its place.
LEMMA PlaceOfReport ==
    ASSUME IsTree(recs), NEW p \in Nodes, NEW b \in Bit, NEW r, r = ReportOf(p, b)
    PROVE  /\ PlaceOf(r) = Child(p, b) /\ NodeOfReport(r) = p /\ r.is_right = b
           /\ p \in Prefix /\ Len(p) < W
           /\ Child(p, b) \in Prefix /\ recs[Child(p, b)].type # "ABSENT"
           /\ r.network = Padded(Child(p, b)) /\ r.prefix_length = Len(Child(p, b))
           /\ r.record = recs[Child(p, b)]
<1>1. NodeOfReport(r) = p /\ r.is_right = b
  BY ReportFields
<1>2. p \in Prefix /\ HasNode(recs[p]) /\ Len(p) < W
  BY DEF Nodes, IsTree
<1>3. Child(p, b) \in Prefix /\ Child(p, b) # << >> /\ Parent(Child(p, b)) = p
  BY <1>2, ChildIsPrefix, AboveChild
<1>4. recs[Child(p, b)].type # "ABSENT"
  BY <1>2, <1>3 DEF IsTree
<1>5. /\ r.network = Padded(Child(p, b)) /\ r.prefix_length = Len(Child(p, b))
      /\ r.record = recs[Child(p, b)]
  BY DEF ReportOf
<1> QED BY <1>1, <1>2, <1>3, <1>4, <1>5 DEF PlaceOf

\* What lies left of a position is left of everything below it.
LEMMA LeftOfBelow ==
    ASSUME NEW p \in Prefix, NEW q \in Prefix, NEW r \in Prefix, LeftOf(p, q), Covers(q, r)
    PROVE  LeftOf(p, r)
<1>1. PICK i \in 1..Len(p) :
        i <= Len(q) /\ p[i] = 0 /\ q[i] = 1 /\ \A j \in 1..(i - 1) : p[j] = q[j]
  BY DEF LeftOf
<1>2. Len(p) \in Nat /\ Len(q) \in Nat /\ Len(r) \in Nat /\ Len(q) <= Len(r)
  BY PrefixLength DEF Covers
<1>3. i <= Len(r) /\ i \in 1..Len(q) /\ \A j \in 1..(i - 1) : j \in 1..Len(q)
  BY <1>1, <1>2
<1>4. r[i] = 1 /\ \A j \in 1..(i - 1) : p[j] = r[j]
  BY <1>1, <1>3 DEF Covers
<1> QED BY <1>1, <1>3, <1>4 DEF LeftOf

\* Records that are no nodes lie in the order of their reports.
LEMMA LeavesInOrder ==
    ASSUME IsTree(recs), NEW p \in Nodes, NEW b \in Bit, NEW q \in Nodes, NEW c \in Bit,
           ~HasNode(recs[Child(p, b)]), ~HasNode(recs[Child(q, c)]),
           InTurn(p, q) \/ (p = q /\ b < c)
    PROVE  LeftOf(Child(p, b), Child(q, c))
<1>1. /\ p \in Prefix /\ Len(p) < W /\ q \in Prefix /\ Len(q) < W
      /\ HasNode(recs[p]) /\ HasNode(recs[q])
  BY DEF Nodes, IsTree
<1>2. \A d \in Bit : /\ Child(p, d) \in Prefix /\ Child(q, d) \in Prefix
                     /\ Covers(p, Child(p, d)) /\ Covers(q, Child(q, d))
  <2>1. ASSUME NEW d \in Bit
        PROVE  /\ Child(p, d) \in Prefix /\ Child(q, d) \in Prefix
               /\ Covers(p, Child(p, d)) /\ Covers(q, Child(q, d))
    BY <1>1, ChildIsPrefix, AboveChild, BelowIsCovers
  <2> QED BY <2>1
<1>3. ASSUME NEW n \in Prefix, NEW m \in Nodes, Covers(n, m) PROVE HasNode(recs[n])
  <2>1. m \in Prefix /\ HasNode(recs[m]) /\ recs[m].type # "ABSENT"
    BY DEF Nodes, HasNode
  <2>2. CASE n = m
    BY <2>1, <2>2
  <2>3. CASE n # m
    BY <1>3, <2>1, <2>3, BelowIsCovers, NodesAbove
  <2> QED BY <2>2, <2>3
<1>4. ASSUME NEW n \in Prefix, Len(n) < W PROVE LeftOf(Child(n, 0), Child(n, 1))
  <2>1. Child(n, 0) \in Prefix
    BY <1>4, ChildIsPrefix DEF Bit
  <2> QED BY <1>4, <2>1, HalvesInOrder, CoversOrder
<1> DEFINE l == Child(p, b)
           r == Child(q, c)
<1>5. CASE LeftOf(p, q)
  <2>1. LeftOf(l, q)
    BY <1>1, <1>2, <1>5, LeftOfAll
  <2> QED BY <1>1, <1>2, <2>1, LeftOfBelow
<1>6. CASE Covers(Child(q, 0), p)
  <2>1. Child(q, 0) \in Prefix /\ Child(q, 1) \in Prefix
    BY <1>2 DEF Bit
  <2>2. c = 1
    BY <1>3, <1>6, <2>1 DEF Bit
  <2>3. LeftOf(p, Child(q, 1))
    BY <1>1, <1>4, <1>6, <2>1, LeftOfAll
  <2> QED BY <1>1, <1>2, <2>1, <2>2, <2>3, LeftOfAll
<1>7. CASE Covers(Child(p, 1), q)
  <2>1. Child(p, 0) \in Prefix /\ Child(p, 1) \in Prefix
    BY <1>2 DEF Bit
  <2>2. b = 0
    BY <1>3, <1>7, <2>1 DEF Bit
  <2>3. LeftOf(Child(p, 0), q)
    BY <1>1, <1>4, <1>7, <2>1, LeftOfBelow
  <2> QED BY <1>1, <1>2, <2>1, <2>2, <2>3, LeftOfBelow
<1>8. CASE p = q /\ b < c
  <2>1. b = 0 /\ c = 1
    BY <1>8 DEF Bit
  <2> QED BY <1>1, <1>4, <1>8, <2>1
<1> QED BY <1>5, <1>6, <1>7, <1>8 DEF InTurn

\* What lies left begins before.
LEMMA LeftIsLess ==
    ASSUME NEW p \in Prefix, NEW q \in Prefix, LeftOf(p, q)
    PROVE  Less(Padded(p), Padded(q))
<1>1. PICK i \in 1..Len(p) :
        i <= Len(q) /\ p[i] = 0 /\ q[i] = 1 /\ \A j \in 1..(i - 1) : p[j] = q[j]
  BY DEF LeftOf
<1>2. Len(p) \in Nat /\ Len(q) \in Nat /\ Len(p) <= W /\ Len(q) <= W /\ W \in Nat
  BY PrefixLength, WidthAssumption
<1>3. i \in 1..W /\ \A j \in 1..i : j \in 1..W /\ j <= Len(p) /\ j <= Len(q)
  BY <1>1, <1>2
<1>4. Padded(p)[i] = 0 /\ Padded(q)[i] = 1
  BY <1>1, <1>2, <1>3 DEF Padded
<1>5. \A j \in 1..(i - 1) : Padded(p)[j] = Padded(q)[j]
  BY <1>1, <1>2, <1>3 DEF Padded
<1> QED BY <1>3, <1>4, <1>5 DEF Less

\* The networks iterate reports, nodes left out, begin on their boundaries, follow
\* each other in the order of their addresses and have every address once, with
\* the record a lookup finds there, also when callbacks number, write or iterate
\* over the tree in between.
THEOREM NetworksInOrderAlways == WriteSpec => []NetworksInOrder
<1>1. TableInv /\ LookupInv /\ OrderInv /\ IterationInv => NetworksInOrder
  <2> SUFFICES ASSUME TableInv, LookupInv, OrderInv, IterationInv, IterationEnds
               PROVE  NetworksInOrder
    BY DEF NetworksInOrder
  <2>1. /\ op = "idle" /\ IsTree(recs) /\ DOMAIN seen = 1..Len(seen) /\ Len(seen) \in Nat
        /\ \A i \in DOMAIN seen :
                /\ NodeOfReport(seen[i]) \in Nodes /\ seen[i].is_right \in Bit
                /\ seen[i] = ReportOf(NodeOfReport(seen[i]), seen[i].is_right)
        /\ \A p \in Nodes, b \in Bit : \E i \in DOMAIN seen : seen[i] = ReportOf(p, b)
        /\ \A i, j \in DOMAIN seen : i < j =>
                ComesBefore(seen[i], NodeOfReport(seen[j]), seen[j].is_right)
    BY AllReported
  <2>2. ASSUME NEW i \in Leaves
        PROVE  /\ i \in DOMAIN seen
               /\ PlaceOf(seen[i]) \in Prefix /\ IsLeaf(recs[PlaceOf(seen[i])])
               /\ seen[i].network = Padded(PlaceOf(seen[i]))
               /\ seen[i].prefix_length = Len(PlaceOf(seen[i]))
               /\ seen[i].record = recs[PlaceOf(seen[i])]
    <3>1. i \in DOMAIN seen /\ ~HasNode(seen[i].record)
      BY <2>2 DEF Leaves
    <3> DEFINE p == NodeOfReport(seen[i])
               b == seen[i].is_right
    <3>2. p \in Nodes /\ b \in Bit /\ seen[i] = ReportOf(p, b)
      BY <2>1, <3>1
    <3> HIDE DEF p, b
    <3> QED BY <2>1, <3>1, <3>2, PlaceOfReport DEF IsLeaf
  <2>3. ASSUME NEW i \in Leaves, NEW j \in Leaves, i < j
        PROVE  LeftOf(PlaceOf(seen[i]), PlaceOf(seen[j]))
    <3> DEFINE p == NodeOfReport(seen[i])
               b == seen[i].is_right
               q == NodeOfReport(seen[j])
               c == seen[j].is_right
    <3>1. /\ p \in Nodes /\ b \in Bit /\ q \in Nodes /\ c \in Bit
          /\ InTurn(p, q) \/ (p = q /\ b < c)
      BY <2>1, <2>2, <2>3 DEF ComesBefore
    <3>2. ~HasNode(recs[Child(p, b)]) /\ ~HasNode(recs[Child(q, c)])
      BY <2>2 DEF PlaceOf, IsLeaf
    <3> HIDE DEF p, b, q, c
    <3>3. LeftOf(Child(p, b), Child(q, c))
      BY <2>1, <3>1, <3>2, LeavesInOrder
    <3> QED BY <3>3 DEF p, b, q, c, PlaceOf
  <2>4. ASSUME NEW i \in Leaves, NEW j \in (seen[i].prefix_length + 1)..W
        PROVE  seen[i].network[j] = 0
    <3> DEFINE p == PlaceOf(seen[i])
    <3>1. p \in Prefix /\ seen[i].network = Padded(p) /\ seen[i].prefix_length = Len(p)
      BY <2>2
    <3> HIDE DEF p
    <3>2. j \in 1..W /\ ~(j <= Len(p))
      BY <2>4, <3>1, PrefixLength, WidthAssumption
    <3> QED BY <3>1, <3>2 DEF Padded
  <2>5. ASSUME NEW i \in Leaves, NEW j \in Leaves, i < j
        PROVE  Less(seen[i].network, seen[j].network)
    BY <2>2, <2>3, <2>5, LeftIsLess
  <2>6. ASSUME NEW a \in Address, NEW i \in Leaves
        PROVE  InNetwork(a, seen[i]) <=> Covers(PlaceOf(seen[i]), a)
    <3> DEFINE p == PlaceOf(seen[i])
    <3>1. p \in Prefix /\ seen[i].network = Padded(p) /\ seen[i].prefix_length = Len(p)
      BY <2>2
    <3> HIDE DEF p
    <3>2. Len(p) \in Nat /\ Len(p) <= W /\ W \in Nat /\ Len(a) = W
      BY <3>1, PrefixLength, WidthAssumption, AddressIsPrefix
    <3>3. \A k \in 1..Len(p) : Padded(p)[k] = p[k]
      BY <3>2 DEF Padded
    <3>4. InNetwork(a, seen[i]) <=> \A k \in 1..Len(p) : a[k] = p[k]
      BY <3>1, <3>3 DEF InNetwork
    <3>5. Covers(p, a) <=> \A k \in 1..Len(p) : a[k] = p[k]
      BY <3>2 DEF Covers
    <3> QED BY <3>4, <3>5 DEF p
  <2>7. ASSUME NEW a \in Address
        PROVE  \E i \in Leaves :
                  /\ \A j \in Leaves : InNetwork(a, seen[j]) <=> j = i
                  /\ seen[i].record.type # "ALIAS" => FoundRecord(a) = seen[i].record
    <3>1. PICK q \in Prefix : Covers(q, a) /\ IsLeaf(recs[q])
      BY <2>1, OneLeaf
    <3> DEFINE p == Parent(q)
               b == q[Len(q)]
    <3>2. q # << >>
      BY <3>1 DEF IsLeaf, IterationEnds, OrderInv, CanIterate
    <3>3. p \in Nodes /\ b \in Bit /\ q = Child(p, b)
      <4>1. p \in Prefix /\ b \in Bit /\ q = Child(p, b)
        BY <3>2, ParentIsPrefix, ChildOfParent
      <4>2. HasNode(recs[p])
        BY <2>1, <3>1, <3>2 DEF IsTree, IsLeaf
      <4> QED BY <4>1, <4>2 DEF Nodes
    <3> HIDE DEF p, b
    <3>4. PICK i \in DOMAIN seen : seen[i] = ReportOf(p, b)
      BY <2>1, <3>3
    <3>5. PlaceOf(seen[i]) = q /\ seen[i].record = recs[q]
      BY <2>1, <3>3, <3>4, PlaceOfReport
    <3>6. i \in Leaves
      BY <3>1, <3>5 DEF Leaves, IsLeaf
    <3>7. ASSUME NEW j \in Leaves, InNetwork(a, seen[j]) PROVE j = i
      <4>1. PlaceOf(seen[j]) = q
        BY <2>1, <2>2, <2>6, <3>1, <3>7, OneLeaf
      <4>2. ~LeftOf(q, q)
        BY CoversOrder, OrderOfNodes
      <4> QED BY <2>1, <2>2, <2>3, <3>5, <3>6, <4>1, <4>2
    <3>8. InNetwork(a, seen[i])
      BY <2>6, <3>1, <3>5, <3>6
    <3>9. seen[i].record.type # "ALIAS" => FoundRecord(a) = seen[i].record
      BY <2>1, <3>1, <3>5, WalkToLeaf
    <3> QED BY <3>6, <3>7, <3>8, <3>9
  <2> QED BY <2>4, <2>5, <2>7 DEF NetworksInOrder
<1> QED BY <1>1, IterationInvAlways, PTL

-----------------------------------------------------------------------------
(* The drawing                                                             *)

\* Of two nodes one comes before the other, so that no two have one number.
LEMMA OneNodePerNumber ==
    ASSUME NEW p \in Nodes, NEW q \in Nodes, Rank(p) = Rank(q)
    PROVE  p = q
<1> SUFFICES ASSUME p # q PROVE FALSE
  OBVIOUS
<1>1. p \in Prefix /\ q \in Prefix
  BY DEF Nodes
<1>2. ~Before(p, q) /\ ~Before(q, p)
  BY RanksRise, NodesCounted
<1>3. ~Covers(p, q) /\ ~Covers(q, p) /\ ~LeftOf(p, q) /\ ~LeftOf(q, p)
  BY <1>1, <1>2, BelowIsCovers DEF Before
<1>4. /\ Len(p) \in Nat /\ Len(q) \in Nat
      /\ p \in [1..Len(p) -> Bit] /\ q \in [1..Len(q) -> Bit]
  BY <1>1, PrefixLength, PrefixIsSeq, LenProperties
<1> DEFINE N == IF Len(p) <= Len(q) THEN Len(p) ELSE Len(q)
           S == {k \in 0..N : \A j \in 1..k : p[j] = q[j]}
<1>5. N \in Nat /\ N <= Len(p) /\ N <= Len(q) /\ (N = Len(p) \/ N = Len(q))
  BY <1>4
<1> HIDE DEF N
<1>6. 0 \in S
  BY <1>5
<1>7. \A k \in 0..(N - 1) : k \in S => k + 1 \in S
  <2> SUFFICES ASSUME NEW k \in 0..(N - 1), k \in S PROVE k + 1 \in S
    OBVIOUS
  <2>2. \A j \in 1..k : p[j] = q[j] /\ q[j] = p[j]
    OBVIOUS
  <2> HIDE DEF S
  <2> DEFINE i == k + 1
  <2>1. /\ i \in 1..Len(p) /\ i \in 1..Len(q) /\ i <= Len(p) /\ i <= Len(q) /\ i \in 0..N
        /\ i - 1 = k /\ \A j \in 1..i : j = i \/ j \in 1..k
    <3> DEFINE a == Len(p)
               c == Len(q)
    <3>1. a \in Nat /\ c \in Nat /\ N \in Nat /\ N <= a /\ N <= c /\ k \in 0..(N - 1)
      BY <1>4, <1>5
    <3> HIDE DEF a, c
    <3>2. /\ i \in 1..a /\ i \in 1..c /\ i <= a /\ i <= c /\ i \in 0..N
          /\ i - 1 = k /\ \A j \in 1..i : j = i \/ j \in 1..k
      BY ONLY <3>1
    <3> QED BY <3>2 DEF a, c
  <2> HIDE DEF i
  <2>3. ~(p[i] = 0 /\ q[i] = 1) /\ ~(q[i] = 0 /\ p[i] = 1)
    BY <1>3, <2>1, <2>2 DEF LeftOf
  <2>4. p[i] = q[i]
    BY <1>4, <2>1, <2>3 DEF Bit
  <2>5. i \in S
    BY <2>1, <2>2, <2>4 DEF S
  <2> QED BY <2>5 DEF i
<1> HIDE DEF S
<1>8. N \in S
  BY <1>5, <1>6, <1>7, CountUp
<1>9. \A j \in 1..N : p[j] = q[j]
  BY <1>8 DEF S
<1> QED BY <1>3, <1>5, <1>9 DEF Covers

\* Of some mentions one is the first.
LEMMA FirstMention ==
    ASSUME NEW M, M # {}, DOMAIN seen \subseteq Nat, M \subseteq (DOMAIN seen) \X {1, 2}
    PROVE  FirstOf(M) \in M /\ \A l \in M \ {FirstOf(M)} : Earlier(FirstOf(M), l)
<1> DEFINE I == {m[1] : m \in M}
<1>1. I \in SUBSET Nat /\ I # {}
  OBVIOUS
<1>2. PICK i \in I : \A j \in I : i <= j
  <2> DEFINE R == {ss \in Nat \X Nat : ss[1] < ss[2]}
  <2>1. IsWellFoundedOn(R, Nat)
    BY NatLessThanWellFounded DEF OpToRel
  <2> HIDE DEF I, R
  <2>2. PICK i \in I : \A j \in I : <<j, i>> \notin R
    BY <1>1, <2>1, WFMin
  <2>3. \A j \in I : i <= j
    <3> SUFFICES ASSUME NEW j \in I PROVE i <= j
      OBVIOUS
    <3>1. i \in Nat /\ j \in Nat /\ <<j, i>> \notin R
      BY <1>1, <2>2
    <3> QED BY <3>1 DEF R
  <2> QED BY <2>3
<1>3. PICK m \in M : m[1] = i /\ (m[2] = 1 \/ <<i, 1>> \notin M)
  <2>1. CASE <<i, 1>> \in M
    <3>1. <<i, 1>>[1] = i /\ <<i, 1>>[2] = 1
      OBVIOUS
    <3> QED BY <2>1, <3>1
  <2>2. CASE <<i, 1>> \notin M
    BY <2>2
  <2> QED BY <2>1, <2>2
<1>4. ASSUME NEW l \in M \ {m} PROVE Earlier(m, l)
  <2>1. /\ m \in Nat \X {1, 2} /\ l \in Nat \X {1, 2} /\ l # m /\ l[1] \in I
        /\ m = <<m[1], m[2]>> /\ l = <<l[1], l[2]>> /\ m[1] \in Nat /\ l[1] \in Nat
        /\ m[2] \in {1, 2} /\ l[2] \in {1, 2}
    OBVIOUS
  <2>2. m[1] <= l[1]
    BY <1>2, <1>3, <2>1
  <2>3. m[1] = l[1] => m[2] < l[2]
    BY <1>3, <2>1
  <2> QED BY <2>1, <2>2, <2>3 DEF Earlier
<1> DEFINE IsFirst(x) == \A l \in M \ {x} : Earlier(x, l)
<1>5. m \in M /\ IsFirst(m)
  BY <1>4
<1>6. FirstOf(M) = CHOOSE x \in M : IsFirst(x)
  BY DEF FirstOf
<1> HIDE DEF IsFirst
<1>7. FirstOf(M) \in M /\ IsFirst(FirstOf(M))
  BY <1>5, <1>6
<1> QED BY <1>7 DEF IsFirst

\* A record that aliases the IPv4 root is reported after the one that leads to it.
LEMMA RootBeforeAliases ==
    ASSUME LookupInv, op = "idle", IsTree(recs),
           NEW p \in Nodes, NEW b \in Bit, recs[Child(p, b)].type = "ALIAS"
    PROVE  /\ Parent(V4Root) \in Nodes /\ V4Root = Child(Parent(V4Root), 0)
           /\ Child(p, b) # V4Root
           /\ ~InTurn(p, Parent(V4Root)) /\ ~(b < 0)
<1> DEFINE q == Child(p, b)
           v == Parent(V4Root)
           n == Len(V4Root)
<1>1. p \in Prefix /\ Len(p) < W /\ q \in Prefix /\ Len(q) = Len(p) + 1 /\ Len(p) \in Nat
  BY ChildIsPrefix, PrefixLength DEF Nodes, IsTree
<1>2. V4Root \in Nodes /\ recs[V4Root].type = "FIXED_NODE" /\ V4Root \in Prefix /\ V4Root # << >>
  BY <1>1, AliasLeadsToNode, AliasAssumption DEF Nodes
<1>3. Len(q) <= n
  <2>1. PICK j \in 1..Len(Aliases) : q = Aliases[j]
    BY <1>1 DEF LookupInv, AliasesOnly
  <2> QED BY <2>1, AliasAssumption
<1>4. /\ v \in Prefix /\ Len(v) = n - 1 /\ n \in 1..W /\ n \in Nat
      /\ \A i \in 1..(n - 1) : v[i] = V4Root[i]
  BY <1>2, ParentIsPrefix, WidthAssumption
<1>5. V4Root[n] = 0 /\ \A i \in 1..Len(v) : v[i] = 0
  BY <1>4, AliasAssumption
<1>6. V4Root = Child(v, 0)
  BY <1>2, <1>5, ChildOfParent
<1>7. v \in Nodes
  BY <1>2, <1>4 DEF Nodes, IsTree, HasNode
<1>8. q # V4Root
  BY <1>2
<1>9. ~LeftOf(p, v)
  <2> SUFFICES ASSUME NEW i \in 1..Len(p), i <= Len(v), v[i] = 1 PROVE FALSE
    BY DEF LeftOf
  <2> QED BY <1>1, <1>4, <1>5
<1>10. ~Covers(Child(v, 0), p)
  <2>1. Covers(V4Root, p) => n <= Len(p)
    BY DEF Covers
  <2> HIDE DEF v
  <2> QED BY <1>1, <1>3, <1>4, <1>6, <2>1
<1>11. ~Covers(Child(p, 1), v)
  <2> DEFINE c == Child(p, 1)
  <2>1. Len(c) = Len(p) + 1 /\ c[Len(p) + 1] = 1
    BY <1>1, ChildIsPrefix DEF Bit
  <2> HIDE DEF c, v
  <2> SUFFICES ASSUME Covers(c, v) PROVE FALSE
    BY DEF c
  <2>2. Len(p) + 1 \in 1..Len(v) /\ v[Len(p) + 1] = 1
    BY <1>1, <1>4, <2>1 DEF Covers
  <2> QED BY <1>5, <2>2
<1> QED BY <1>6, <1>7, <1>8, <1>9, <1>10, <1>11 DEF InTurn, Bit

\* What the two labels of a report are, and when it has them.
LEMMA LabelsOfReport ==
    ASSUME IsTree(recs), NEW p \in Nodes, NEW b \in Bit, NEW r, r = ReportOf(p, b)
    PROVE  /\ FromLabel(r).node = Rank(p) /\ FromLabel(r).network = NetworkOf(p)
           /\ ToLabel(r).node = LeadsToNumber(Child(p, b))
           /\ ToLabel(r).network = NetworkOf(Child(p, b))
           /\ Drawn(r) <=> recs[Child(p, b)].type \notin {"EMPTY", "FIXED_EMPTY"}
           /\ LeadsToNode(r) <=> HasNode(recs[Child(p, b)]) \/ recs[Child(p, b)].type = "ALIAS"
<1>1. /\ r.node = Rank(p) /\ r.node_network = Padded(p) /\ r.node_prefix_length = Len(p)
      /\ r.network = Padded(Child(p, b)) /\ r.prefix_length = Len(Child(p, b))
      /\ r.record = recs[Child(p, b)] /\ r.leads_to = LeadsToNumber(Child(p, b))
  BY DEF ReportOf
<1>2. \A q : NetworkOf(q) = Network(Padded(q), Len(q))
  BY DEF NetworkOf, Padded
<1> QED BY <1>1, <1>2 DEF FromLabel, ToLabel, Drawn, LeadsToNode

\* The node a record leads to, itself or through an alias, has its number.
LEMMA NumberLedTo ==
    ASSUME LookupInv, op = "idle", NEW q \in Prefix
    PROVE  /\ HasNode(recs[q]) => q \in Nodes /\ LeadsToNumber(q) = Rank(q)
           /\ recs[q].type = "ALIAS" => /\ V4Root \in Nodes /\ ~HasNode(recs[q])
                                        /\ LeadsToNumber(q) = Rank(V4Root)
<1>1. HasNode(recs[q]) => q \in Nodes /\ LeadsToNumber(q) = Rank(q)
  BY DEF Nodes, LeadsToNumber, HasNode
<1>2. recs[q].type = "ALIAS" => ~HasNode(recs[q]) /\ LeadsToNumber(q) = Rank(V4Root)
  BY DEF LeadsToNumber, HasNode
<1> QED BY <1>1, <1>2, AliasLeadsToNode

\* A node's number is first mentioned with its own network.
LEMMA NumberNamesNode ==
    ASSUME TableInv, LookupInv, OrderInv, IterationInv, IterationEnds,
           NEW n \in Nodes, NEW m0 \in Mentions, Label(m0).node = Rank(n)
    PROVE  Labels[Rank(n)] = NetworkOf(n)
<1> DEFINE M == MentionsOf(Rank(n))
           m == FirstOf(M)
<1>1. /\ op = "idle" /\ IsTree(recs) /\ DOMAIN seen = 1..Len(seen) /\ Len(seen) \in Nat
      /\ \A i \in DOMAIN seen :
            /\ NodeOfReport(seen[i]) \in Nodes /\ seen[i].is_right \in Bit
            /\ seen[i] = ReportOf(NodeOfReport(seen[i]), seen[i].is_right)
      /\ \A p \in Nodes, b \in Bit : \E i \in DOMAIN seen : seen[i] = ReportOf(p, b)
      /\ \A i, j \in DOMAIN seen : i < j =>
            ComesBefore(seen[i], NodeOfReport(seen[j]), seen[j].is_right)
  BY AllReported
<1>2. DOMAIN seen \subseteq Nat /\ M # {} /\ M \subseteq (DOMAIN seen) \X {1, 2}
  BY <1>1 DEF MentionsOf, Mentions
<1>3. m \in M /\ \A l \in M \ {m} : Earlier(m, l)
  <2> HIDE DEF M
  <2> QED BY <1>2, FirstMention
<1>4. Labels[Rank(n)] = Label(m).network
  <2>1. Rank(n) \in {Label(l).node : l \in Mentions}
    OBVIOUS
  <2> QED BY <2>1 DEF Labels
<1>5. m \in Mentions /\ Label(m).node = Rank(n) /\ m[1] \in DOMAIN seen /\ m[2] \in {1, 2}
  BY <1>3 DEF MentionsOf, Mentions
<1> DEFINE i == m[1]
           p == NodeOfReport(seen[i])
           b == seen[i].is_right
           q == Child(p, b)
<1>6. i \in DOMAIN seen /\ p \in Nodes /\ b \in Bit /\ seen[i] = ReportOf(p, b)
  BY <1>1, <1>5
<1>7. m[2] = 1 => Label(m) = FromLabel(seen[i])
  BY DEF Label
<1>8. m[2] = 2 => Label(m) = ToLabel(seen[i]) /\ LeadsToNode(seen[i])
  BY <1>5 DEF Label, Mentions
<1> HIDE DEF m
<1>9. CASE m[2] = 1
  <2>1. Rank(p) = Rank(n) /\ Label(m).network = NetworkOf(p)
    BY <1>1, <1>5, <1>6, <1>7, <1>9, LabelsOfReport
  <2> QED BY <1>4, <1>6, <2>1, OneNodePerNumber
<1>10. CASE m[2] = 2
  <2>1. /\ LeadsToNumber(q) = Rank(n) /\ Label(m).network = NetworkOf(q)
        /\ HasNode(recs[q]) \/ recs[q].type = "ALIAS"
    BY <1>1, <1>5, <1>6, <1>8, <1>10, LabelsOfReport
  <2>2. q \in Prefix
    BY <1>1, <1>6, PlaceOfReport
  <2>3. CASE HasNode(recs[q])
    <3>1. q \in Nodes /\ Rank(q) = Rank(n)
      BY <1>1, <2>1, <2>2, <2>3, NumberLedTo
    <3>2. q = n
      BY <3>1, OneNodePerNumber
    <3> QED BY <1>4, <2>1, <3>2
  <2>4. CASE recs[q].type = "ALIAS"
    <3> DEFINE v == Parent(V4Root)
    <3>1. /\ v \in Nodes /\ V4Root = Child(v, 0) /\ q # V4Root /\ ~InTurn(p, v) /\ ~(b < 0)
      BY <1>1, <1>6, <2>4, RootBeforeAliases
    <3>2. V4Root \in Nodes /\ Rank(V4Root) = Rank(n)
      BY <1>1, <2>1, <2>2, <2>4, NumberLedTo
    <3> HIDE DEF v
    <3>3. V4Root \in Prefix /\ HasNode(recs[V4Root]) /\ 0 \in Bit
      BY <3>2 DEF Nodes, Bit
    <3>4. PICK j \in DOMAIN seen : seen[j] = ReportOf(v, 0)
      BY <1>1, <3>1, <3>3
    <3> DEFINE l == <<j, 2>>
    <3>5. l[1] = j /\ l[2] = 2 /\ l \in (DOMAIN seen) \X {1, 2}
      OBVIOUS
    <3>6. /\ ToLabel(seen[j]).node = LeadsToNumber(V4Root) /\ LeadsToNode(seen[j])
          /\ NodeOfReport(seen[j]) = v /\ seen[j].is_right = 0
      BY <1>1, <3>1, <3>3, <3>4, LabelsOfReport, PlaceOfReport
    <3>7. ToLabel(seen[j]).node = Rank(n)
      BY <1>1, <3>2, <3>3, <3>6, NumberLedTo
    <3> HIDE DEF l
    <3>8. l \in M
      BY <3>5, <3>6, <3>7 DEF MentionsOf, Mentions, Label
    <3>9. i # j
      BY <1>1, <1>6, <3>1, <3>3, <3>4, PlaceOfReport
    <3>10. i < j
      BY <1>3, <1>10, <3>5, <3>8, <3>9 DEF Earlier
    <3>11. ComesBefore(seen[i], v, 0)
      BY <1>1, <1>6, <3>4, <3>6, <3>10
    <3> QED BY <1>6, <3>1, <3>11 DEF ComesBefore
  <2> QED BY <2>1, <2>3, <2>4
<1> QED BY <1>5, <1>9, <1>10

\* A report becomes the edge of its record.
LEMMA EdgeOfReport ==
    ASSUME TableInv, LookupInv, OrderInv, IterationInv, IterationEnds,
           NEW i \in DOMAIN seen, Drawn(seen[i]),
           NEW p \in Nodes, NEW b \in Bit, seen[i] = ReportOf(p, b)
    PROVE  Edge(seen[i], Labels) = EdgeOf(p, b)
<1> DEFINE r == seen[i]
           q == Child(p, b)
           L == Labels
<1>1. op = "idle" /\ IsTree(recs)
  BY AllReported
<1>2. q \in Prefix /\ r.network = Padded(q) /\ r.prefix_length = Len(q) /\ r.record = recs[q]
      /\ r.is_right = b /\ r.node = Rank(p) /\ r.leads_to = LeadsToNumber(q)
  <2>1. r.node = Rank(p) /\ r.leads_to = LeadsToNumber(q)
    BY DEF ReportOf
  <2> QED BY <1>1, <2>1, PlaceOfReport
<1>3. L[Rank(p)] = NetworkOf(p)
  <2> DEFINE m == <<i, 1>>
  <2>1. m \in Mentions /\ Label(m) = FromLabel(r)
    BY DEF Mentions, Label
  <2> HIDE DEF m
  <2>2. Label(m).node = Rank(p)
    BY <1>1, <2>1, LabelsOfReport
  <2> QED BY <2>1, <2>2, NumberNamesNode
<1>4. ASSUME LeadsToNode(r), NEW n \in Nodes, LeadsToNumber(q) = Rank(n)
      PROVE  L[LeadsToNumber(q)] = NetworkOf(n)
  <2> DEFINE m == <<i, 2>>
  <2>1. m \in Mentions /\ Label(m) = ToLabel(r)
    BY <1>4 DEF Mentions, Label
  <2> HIDE DEF m
  <2>2. Label(m).node = Rank(n)
    BY <1>1, <1>4, <2>1, LabelsOfReport
  <2> QED BY <1>4, <2>1, <2>2, NumberNamesNode
<1>5. LeadsToNode(r) <=> HasNode(recs[q]) \/ recs[q].type = "ALIAS"
  BY <1>1, LabelsOfReport
<1>6. /\ HasNode(recs[q]) => q \in Nodes /\ LeadsToNumber(q) = Rank(q)
      /\ recs[q].type = "ALIAS" => /\ V4Root \in Nodes /\ ~HasNode(recs[q])
                                   /\ LeadsToNumber(q) = Rank(V4Root)
  BY <1>1, <1>2, NumberLedTo
<1> DEFINE to == IF recs[q].type = "ALIAS" THEN V4Root ELSE q
<1>7. ASSUME LeadsToNode(r) PROVE L[LeadsToNumber(q)] = NetworkOf(to)
  <2>1. CASE recs[q].type = "ALIAS"
    BY <1>4, <1>6, <1>7, <2>1
  <2>2. CASE recs[q].type # "ALIAS"
    BY <1>4, <1>5, <1>6, <1>7, <2>2
  <2> QED BY <2>1, <2>2
<1>8. ASSUME ~LeadsToNode(r) PROVE Network(r.network, r.prefix_length) = NetworkOf(to)
  <2>1. to = q
    BY <1>5, <1>8
  <2>2. NetworkOf(q) = Network(Padded(q), Len(q))
    BY DEF NetworkOf, Padded
  <2> QED BY <1>2, <2>1, <2>2
<1>9. Edge(r, L) = [from |-> L[r.node], label |-> r.is_right,
                    to |-> IF LeadsToNode(r) THEN L[r.leads_to]
                           ELSE Network(r.network, r.prefix_length),
                    data |-> r.record.key]
  BY DEF Edge
<1>10. EdgeOf(p, b) = [from |-> NetworkOf(p), label |-> b, to |-> NetworkOf(to),
                       data |-> recs[q].key]
  BY DEF EdgeOf
<1> HIDE DEF r, q, L, to
<1>11. Edge(r, L) = EdgeOf(p, b)
  BY <1>2, <1>3, <1>7, <1>8, <1>9, <1>10
<1> QED BY <1>11 DEF r, L

\* From the numbers and networks that iterate reports the processor draws every
\* record of the tree, each from its node to the node it leads to, although
\* records that alias the IPv4 root report its number with another network.
THEOREM DrawsTheTreeAlways == WriteSpec => []DrawsTheTree
<1>1. TableInv /\ LookupInv /\ OrderInv /\ IterationInv => DrawsTheTree
  <2> SUFFICES ASSUME TableInv, LookupInv, OrderInv, IterationInv, IterationEnds
               PROVE  Edges = TrueEdges
    BY DEF DrawsTheTree
  <2>1. /\ op = "idle" /\ IsTree(recs)
        /\ \A i \in DOMAIN seen :
              /\ NodeOfReport(seen[i]) \in Nodes /\ seen[i].is_right \in Bit
              /\ seen[i] = ReportOf(NodeOfReport(seen[i]), seen[i].is_right)
        /\ \A p \in Nodes, b \in Bit : \E i \in DOMAIN seen : seen[i] = ReportOf(p, b)
    BY AllReported
  <2>2. Edges = {Edge(seen[i], Labels) : i \in {j \in DOMAIN seen : Drawn(seen[j])}}
    BY DEF Edges
  <2>3. ASSUME NEW e \in Edges PROVE e \in TrueEdges
    <3>1. PICK i \in DOMAIN seen : Drawn(seen[i]) /\ e = Edge(seen[i], Labels)
      BY <2>2
    <3> DEFINE p == NodeOfReport(seen[i])
               b == seen[i].is_right
    <3>2. p \in Nodes /\ b \in Bit /\ seen[i] = ReportOf(p, b)
      BY <2>1
    <3> HIDE DEF p, b
    <3>3. e = EdgeOf(p, b) /\ recs[Child(p, b)].type \notin {"EMPTY", "FIXED_EMPTY"}
      BY <2>1, <3>1, <3>2, EdgeOfReport, LabelsOfReport
    <3>4. p \in Prefix /\ HasNode(recs[p]) /\ b \in {0, 1}
      BY <3>2 DEF Nodes, Bit
    <3> DEFINE x == <<p, b>>
    <3>5. x \in Prefix \X {0, 1} /\ x[1] = p /\ x[2] = b
      BY <3>4
    <3> HIDE DEF x
    <3> QED BY <3>3, <3>4, <3>5 DEF TrueEdges
  <2>4. ASSUME NEW e \in TrueEdges PROVE e \in Edges
    <3>1. PICK x \in Prefix \X {0, 1} :
            /\ HasNode(recs[x[1]])
            /\ recs[Child(x[1], x[2])].type \notin {"EMPTY", "FIXED_EMPTY"}
            /\ e = EdgeOf(x[1], x[2])
      BY DEF TrueEdges
    <3> DEFINE p == x[1]
               b == x[2]
    <3>2. p \in Nodes /\ b \in Bit
      BY <3>1 DEF Nodes, Bit
    <3> HIDE DEF p, b
    <3>3. PICK i \in DOMAIN seen : seen[i] = ReportOf(p, b)
      BY <2>1, <3>2
    <3>4. Drawn(seen[i])
      BY <2>1, <3>1, <3>2, <3>3, LabelsOfReport DEF p, b
    <3>5. Edge(seen[i], Labels) = EdgeOf(p, b)
      BY <3>2, <3>3, <3>4, EdgeOfReport
    <3> QED BY <2>2, <3>1, <3>4, <3>5 DEF p, b
  <2> QED BY <2>3, <2>4
<1> QED BY <1>1, IterationInvAlways, PTL

=============================================================================
