---------------------------- MODULE InsertRange ----------------------------
(***************************************************************************)
(* insert_range of c/tree.c: how a range of addresses is broken up into    *)
(* networks, one insert_record_for_network for each.  Addresses are        *)
(* integers of a word of M bits (uint128_t in the code), all of which an   *)
(* IPv6 tree uses and an IPv4 tree only the low W4 of.                     *)
(***************************************************************************)
EXTENDS Integers, Sequences, FiniteSets

CONSTANTS M, W4

ASSUME WidthAssumption == M \in Nat /\ W4 \in 1..(M - 1)

VARIABLES
    ip_version,     \* of the tree
    first,          \* start_ip and end_ip as the caller gave them
    end_ip,
    start_ip,       \* where the part of the range left begins
    prefix_length,  \* of the network being sized
    reverse_mask,   \* its host bits, one more than fit once sizing is over
    nets,           \* the networks inserted, in order
    pc              \* "size", "insert", "done" or "croaked"

vars == <<ip_version, first, end_ip, start_ip, prefix_length, reverse_mask, nets, pc>>

\* The powers of two as far as a word goes.
Pow2[k \in 0..M] == IF k = 0 THEN 1 ELSE 2 * Pow2[k - 1]

\* The bit operations on a mask 2^k - 1, in a word of M bits.
Without(x, mask) == x - (x % (mask + 1))            \* x & ~mask
With(x, mask) == Without(x, mask) + mask            \* x | mask
Widen(mask) == (2 * mask + 1) % Pow2[M]                 \* (mask << 1) | 1
NotNarrowed(mask) == mask
Narrow(mask) == mask \div 2                         \* mask >> 1

W == IF ip_version = 6 THEN M ELSE W4
IP == 0..(Pow2[W] - 1)

Init ==
    /\ ip_version \in {4, 6}
    /\ first \in IP /\ end_ip \in IP
    /\ start_ip = first
    /\ prefix_length = W /\ reverse_mask = 1
    /\ nets = << >>
    /\ pc = IF end_ip < first THEN "croaked" ELSE "size"

FitsBeforeEnd ==
    /\ Without(start_ip, reverse_mask) = start_ip
    /\ With(start_ip, reverse_mask) < end_ip
    /\ prefix_length > 0

\* The loop of prefix_length_for_largest_subnet.
Fits ==
    /\ Without(start_ip, reverse_mask) = start_ip
    /\ With(start_ip, reverse_mask) <= end_ip
    /\ prefix_length > 0

Grow ==
    /\ pc = "size" /\ Fits
    /\ prefix_length' = prefix_length - 1
    /\ reverse_mask' = Widen(reverse_mask)
    /\ UNCHANGED <<ip_version, first, end_ip, start_ip, nets, pc>>

Sized ==
    /\ pc = "size" /\ ~Fits
    /\ reverse_mask' = Narrow(reverse_mask)
    /\ pc' = "insert"
    /\ UNCHANGED <<ip_version, first, end_ip, start_ip, prefix_length, nets>>

NextStart == (With(start_ip, reverse_mask) + 1) % Pow2[M]

AtEndUnlessWrapped == NextStart > end_ip
AtEnd == NextStart = 0 \/ NextStart > end_ip

\* The network goes into the tree and the range left starts after it; at the
\* end of the word there is none.
Insert ==
    /\ pc = "insert"
    /\ nets' = Append(nets, [ip |-> start_ip, prefix_length |-> prefix_length])
    /\ start_ip' = NextStart
    /\ pc' = IF AtEnd THEN "done" ELSE "size"
    /\ prefix_length' = W /\ reverse_mask' = 1
    /\ UNCHANGED <<ip_version, first, end_ip>>

\* insert_record_for_network refuses the network: the loop stops.
InsertFails ==
    /\ pc = "insert"
    /\ pc' = "croaked"
    /\ UNCHANGED <<ip_version, first, end_ip, start_ip, prefix_length, reverse_mask, nets>>

Next == Grow \/ Sized \/ Insert \/ InsertFails

Spec == Init /\ [][Next]_vars

-----------------------------------------------------------------------------
(* Properties *)

Size(n) == Pow2[W - n.prefix_length]
Network == [ip : IP, prefix_length : 0..W]
Aligned(n) == n.ip % Size(n) = 0
Addresses(n) == n.ip..(n.ip + Size(n) - 1)
Covered == UNION {Addresses(nets[i]) : i \in DOMAIN nets}

\* Every network inserted begins on its own boundary, so that the bits after
\* its prefix are zero; together they are the range up to where the loop is,
\* never an address before or after it, and the whole of it at the end.
CoversTheRange ==
    /\ \A i \in DOMAIN nets : nets[i] \in Network /\ Aligned(nets[i])
    /\ pc = "done" => Covered = first..end_ip
    /\ pc # "done" /\ nets # << >> =>
          /\ start_ip \in first + 1..end_ip
          /\ first..(start_ip - 1) \subseteq Covered /\ Covered \subseteq first..end_ip

\* The networks that lie in the range and in no larger one that does.
InRange(n) == Aligned(n) /\ n.ip >= first /\ n.ip + Size(n) - 1 <= end_ip
Largest ==
    {n \in Network :
        /\ InRange(n)
        /\ n.prefix_length > 0 =>
              ~InRange([ip |-> n.ip - (n.ip % (2 * Size(n))),
                        prefix_length |-> n.prefix_length - 1])}

WholeIPv6 == ip_version = 6 /\ first = 0 /\ end_ip = Pow2[M] - 1

\* The range is covered by the fewest networks: exactly the largest ones in
\* it, each once (prefix_length_for_largest_subnet).  The one exception is the
\* whole of IPv6: there the mask has filled the word when it is widened once
\* more, the shift that undoes it leaves one bit too few, and the upper half is
\* inserted a second time.
LargestNetworksOnce ==
    pc = "done" /\ ~WholeIPv6 =>
        /\ {nets[i] : i \in DOMAIN nets} = Largest
        /\ Len(nets) = Cardinality(Largest)

\* The loop ends: at most two networks per bit of an address are inserted,
\* also when end_ip is the last address of the word and the next start wraps
\* to zero.
AtMostTwoPerBit == Len(nets) <= 2 * W

=============================================================================
