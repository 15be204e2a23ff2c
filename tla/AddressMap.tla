----------------------------- MODULE AddressMap -----------------------------
(***************************************************************************)
(* What the search tree promises its callers: a map from addresses to      *)
(* data.  A call combines its record with the present value of every       *)
(* address of its networks, once each and in an order of its own, except   *)
(* for the locked addresses (reserved or aliased), which it passes over.   *)
(* A call stops early only where a merge fails or where its network lies   *)
(* within an alias, and what it did up to there stays.                     *)
(***************************************************************************)
EXTENDS Naturals, Sequences

CONSTANTS W, Key, NoKey, Merge

Address == [1..W -> {0, 1}]
Network == UNION {[1..n -> {0, 1}] : n \in 0..W}
Within(n) == {a \in Address : \A i \in DOMAIN n : a[i] = n[i]}

NoJob == [kind |-> "none"]
InsertJob(k, s) == [kind |-> "insert", key |-> k, strategy |-> s]
RemoveJob == [kind |-> "remove"]

VARIABLES
    amap,       \* the data of every address
    locked,     \* the addresses no call changes
    closed,     \* the networks at or within an alias
    status,     \* "absent", "idle" or "busy"
    job,        \* what the call in progress does
    nets,       \* the networks it has left, the current one first
    todo        \* the addresses of the current one still to be combined

vars == <<amap, locked, closed, status, job, nets, todo>>

Writable(n) == Within(n) \ locked

\* The value an address with value v has after the job; outside Key and NoKey
\* when the two cannot be merged.
Combine(j, v) ==
    CASE j.kind = "remove" -> NoKey
      [] j.kind = "insert" /\ v = NoKey ->
            IF j.strategy = "add_only" THEN NoKey ELSE j.key
      [] j.kind = "insert" /\ v # NoKey ->
            IF j.strategy = "none" \/ v = j.key THEN j.key
            ELSE Merge[<<j.strategy, j.key, v>>]

Fails(a) == Combine(job, amap[a]) \notin Key \cup {NoKey}

Nothing == [a \in Address |-> NoKey]
Rest == job' = NoJob /\ nets' = << >> /\ todo' = {}

Init ==
    /\ amap = Nothing /\ job = NoJob /\ nets = << >> /\ todo = {}
    /\ status \in {"absent", "idle"}
    /\ locked \subseteq Address /\ closed \subseteq Network

\* A tree is made, with its locked addresses, or is freed.
Make ==
    /\ status = "absent" /\ status' = "idle"
    /\ locked' \subseteq Address /\ closed' \subseteq Network
    /\ UNCHANGED amap /\ Rest

Free ==
    /\ status = "idle" /\ status' = "absent"
    /\ amap' = Nothing /\ locked' = {} /\ closed' = {} /\ Rest

Begin ==
    /\ status = "idle" /\ status' = "busy"
    /\ job'.kind \in {"insert", "remove"}
    /\ nets' # << >> /\ todo' = Writable(Head(nets'))
    /\ UNCHANGED <<amap, locked, closed>>

\* Some of the addresses left get their new value.
Apply ==
    /\ status = "busy"
    /\ LET done == todo \ todo'
       IN  /\ done # {} /\ todo' \subseteq todo
           /\ \A a \in done : ~Fails(a)
           /\ amap' = [a \in Address |-> IF a \in done THEN Combine(job, amap[a]) ELSE amap[a]]
    /\ UNCHANGED <<locked, closed, status, job, nets>>

NextNetwork ==
    /\ status = "busy" /\ todo = {} /\ Head(nets) \notin closed /\ Len(nets) > 1
    /\ nets' = Tail(nets) /\ todo' = Writable(Head(nets'))
    /\ UNCHANGED <<amap, locked, closed, status, job>>

Finish ==
    /\ status = "busy" /\ todo = {} /\ Head(nets) \notin closed /\ Len(nets) = 1
    /\ status' = "idle" /\ Rest
    /\ UNCHANGED <<amap, locked, closed>>

Fail ==
    /\ status = "busy"
    /\ Head(nets) \in closed \/ \E a \in todo : Fails(a)
    /\ status' = "idle" /\ Rest
    /\ UNCHANGED <<amap, locked, closed>>

Next == Make \/ Free \/ Begin \/ Apply \/ NextNetwork \/ Finish \/ Fail

\* That a call in progress ends is CallsReturn of SearchTree.
Spec == Init /\ [][Next]_vars

=============================================================================
