---------------------------- MODULE VisualizeTree ----------------------------
(***************************************************************************)
(* Tree/Processor/VisualizeTree.pm, which draws a tree from what iterate   *)
(* reports: a label for every node number, an edge for every record.  The  *)
(* processor sees numbers and networks only, never the tree.               *)
(***************************************************************************)
EXTENDS WriteTree

\* process_empty_record draws nothing.
Drawn(r) == r.record.type \notin {"EMPTY", "FIXED_EMPTY"}
LeadsToNode(r) == HasNode(r.record) \/ r.record.type = "ALIAS"

Network(network, prefix_length) == <<network, prefix_length>>

\* The calls of _label_for_node that a report makes.
FromLabel(r) == [node |-> r.node, network |-> Network(r.node_network, r.node_prefix_length)]
ToLabel(r) == [node |-> r.leads_to, network |-> Network(r.network, r.prefix_length)]

\* All of them: by a report and, of its two, for the node it is of or the one it
\* leads to.
Mentions ==
    {m \in (DOMAIN seen) \X {1, 2} :
        IF m[2] = 1 THEN Drawn(seen[m[1]]) ELSE LeadsToNode(seen[m[1]])}
Label(m) == IF m[2] = 1 THEN FromLabel(seen[m[1]]) ELSE ToLabel(seen[m[1]])
MentionsOf(n) == {m \in Mentions : Label(m).node = n}

Earlier(l, m) == l[1] < m[1] \/ (l[1] = m[1] /\ l[2] < m[2])
LastOf(M) == CHOOSE m \in M : \A l \in M \ {m} : Earlier(l, m)
FirstOf(M) == CHOOSE m \in M : \A l \in M \ {m} : Earlier(m, l)

\* _label_for_node: the first network a number comes with is its label.
Labels == [n \in {Label(m).node : m \in Mentions} |-> Label(FirstOf(MentionsOf(n))).network]

\* process_node_record, process_data_record
Edge(r, labels) ==
    [from |-> labels[r.node], label |-> r.is_right,
     to   |-> IF LeadsToNode(r) THEN labels[r.leads_to] ELSE Network(r.network, r.prefix_length),
     data |-> r.record.key]
Edges ==
    LET labels == Labels
    IN  {Edge(seen[i], labels) : i \in {j \in DOMAIN seen : Drawn(seen[j])}}

-----------------------------------------------------------------------------
(* Property *)

NetworkOf(p) == Network([i \in 1..W |-> IF i <= Len(p) THEN p[i] ELSE 0], Len(p))
EdgeOf(p, b) ==
    LET c == Child(p, b)
    IN  [from |-> NetworkOf(p), label |-> b,
         to   |-> NetworkOf(IF recs[c].type = "ALIAS" THEN V4Root ELSE c),
         data |-> recs[c].key]
TrueEdges ==
    {EdgeOf(x[1], x[2]) :
        x \in {y \in Prefix \X {0, 1} :
                  /\ HasNode(recs[y[1]])
                  /\ recs[Child(y[1], y[2])].type \notin {"EMPTY", "FIXED_EMPTY"}}}

\* "For node (and alias) records, the final argument will be the number of the
\* node that this record points to" (Tree.pm:833-834): from numbers and networks
\* alone the tree can be drawn.  Every number a node is reported under, by the
\* records that lead to it before and after its own, is the same, also when a
\* callback has had the nodes numbered in between, and the network a number is
\* first seen with is the node's, although aliases report it with another.
DrawsTheTree == IterationEnds => Edges = TrueEdges

=============================================================================
