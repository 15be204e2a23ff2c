---------------------------- MODULE MCMergeRecord ----------------------------
EXTENDS MergeRecord

Leaf == {Scalar(1), Scalar(2)}
SmallHash == {Hash(f) : f \in UNION {[d -> Leaf] : d \in SUBSET {"p"}}}
Element == {Scalar(1)} \cup {Hash([p \in {"p"} |-> Scalar(1)])}
SmallArray == {Array(s) : s \in UNION {[1..n -> Element] : n \in 0..2}}
X == {Scalar(1)} \cup SmallHash \cup SmallArray
Y == {Scalar(2), Hash([p \in {"p"} |-> Scalar(1)])}

\* Hashes with the keys x and y or fewer, and one value that is no hash.
MCValues ==
    {Hash(f) : f \in {g \in UNION {[d -> X \cup Y] : d \in SUBSET {"x", "y"}} :
                        /\ "x" \in DOMAIN g => g["x"] \in X
                        /\ "y" \in DOMAIN g => g["y"] \in Y}}
    \cup {Scalar(1)}
MCStrategy == {"none", "toplevel", "recurse", "add_only"}
=============================================================================
