--------------------------- MODULE TreeIteration ---------------------------
(***************************************************************************)
(* start_iteration and iterate_tree of c/tree.c, which numbering, writing, *)
(* freezing and iterate share: what is left of the recursion is a sequence *)
(* of frames, the next one first.                                          *)
(***************************************************************************)
EXTENDS SearchTree

\* A node to go into, or one whose callback is due; network is the first
\* address of its network.
Frame == [at : Prefix, network : Address, due : BOOLEAN]

\* flip_network_bit: the right half of a network of that depth begins here.
FlipBitAbove(network, depth) == [i \in 1..W |-> IF i = depth THEN 1 ELSE network[i]]
FlipBit(network, depth) == [network EXCEPT ![depth + 1] = 1]

RootFrame == [at |-> << >>, network |-> [i \in 1..W |-> 0], due |-> FALSE]
Due(f) == [at |-> f.at, network |-> f.network, due |-> TRUE]
Half(f, b) ==
    [at      |-> Child(f.at, b),
     network |-> IF b = 1 THEN FlipBit(f.network, Len(f.at)) ELSE f.network,
     due     |-> FALSE]

\* A record that is no node is left at once.
IfNode(f) == IF HasNode(recs[f.at]) THEN <<f>> ELSE << >>

\* One activation of iterate_tree: the callback comes before the halves, or
\* depth first between them.
Enter(f, depth_first) ==
    (IF depth_first THEN IfNode(Half(f, 0)) \o IfNode(Due(f))
     ELSE IfNode(Due(f)) \o IfNode(Half(f, 0))) \o IfNode(Half(f, 1))

\* "Iteration is not currently allowed in trees with no nodes".
CanIterate == op = "idle" /\ HasNode(recs[<< >>])

=============================================================================
