----------------------------- MODULE FreezeThaw -----------------------------
(***************************************************************************)
(* freeze_tree and thaw_tree of c/tree.c.  A thawed tree is made anew and  *)
(* shares nothing with the one that was frozen, so the variables of        *)
(* SearchTree are first the one and then the other.                        *)
(*                                                                         *)
(* Freezing may stop anywhere: a write fails, the process dies, or there   *)
(* is no node to begin with.  What is left is a beginning of the file,     *)
(* opening having removed what was there, and it may be thawed too: past   *)
(* its end thaw_tree reads zeros, to the end of the page, where the        *)
(* process dies.  A file cut before its parameters end does not get as far *)
(* as thaw_tree.  A network cut in the middle is read as some network,     *)
(* into a tree that nobody will get to see.  A data hash cut in the middle *)
(* has the length that was written (zeros stand for what is missing): it   *)
(* may decode, to less than was frozen, or to something else.              *)
(***************************************************************************)
EXTENDS TreeIteration

CONSTANT CountLimit     \* bound: no insert once a key has so many references

VARIABLES
    task,       \* "none", "freeze", "frozen" or "thaw"
    stack,      \* the frames of iterate_tree
    file,       \* options, networks with keys, keys of the data hash, its end
    was,        \* the frozen tree: its records, what lookups find, if it leaks
    lost        \* keys of a thawed tree with no value, or not the frozen one

fvars == <<task, stack, file, was, lost>>

\* ends is the last thing in the file: its networks, "not an SHA1 key", a part
\* of the data, or the data.
NoFile == [opts |-> {}, nets |-> << >>, hash |-> {}, ends |-> "networks"]
Nothing == [recs |-> << >>, found |-> << >>, leaks |-> FALSE]

FreezeInit ==
    /\ Init
    /\ task = "none" /\ stack = << >> /\ file = NoFile /\ was = Nothing /\ lost = {}

\* A bound: a tree that has lost values is only freed.
TreeStep ==
    /\ task = "none"
    /\ Next
    /\ op = "idle" /\ op' = "insert" => \A k \in Key : table[k].count < CountLimit
    /\ lost # {} => FreeTree
    /\ lost' = {}
    /\ UNCHANGED <<task, stack, file, was>>

-----------------------------------------------------------------------------
(* Freezing *)

Freeze ==
    /\ task = "none" /\ CanIterate /\ lost = {}
    /\ task' = "freeze" /\ stack' = <<RootFrame>>
    /\ file' = [NoFile EXCEPT !.opts = opts]
    /\ was' = [recs  |-> recs,
               found |-> [a \in Address |-> FoundRecord(a)],
               leaks |-> \E k \in Key : table[k].count # References(k)]
    /\ UNCHANGED <<vars, lost>>

\* freeze_search_tree croaks when the parameters are in the file.
FreezeWithoutNodes ==
    /\ task = "none" /\ op = "idle" /\ ~HasNode(recs[<< >>]) /\ lost = {}
    /\ task' = "frozen" /\ stack' = << >>
    /\ file' = [NoFile EXCEPT !.opts = opts]
    /\ was' = Nothing
    /\ UNCHANGED <<vars, lost>>

Top == Head(stack)

EnterNode ==
    /\ stack # << >> /\ ~Top.due
    /\ stack' = Enter(Top, FALSE) \o Tail(stack)
    /\ UNCHANGED <<vars, task, file, was, lost>>

DepthOfNode(f, b) ==
    [network |-> Half(f, b).network, prefix_length |-> Len(f.at), key |-> recs[Child(f.at, b)].key]

\* freeze_data_record
Network(f, b) ==
    [network |-> Half(f, b).network, prefix_length |-> Len(f.at) + 1,
     key |-> recs[Child(f.at, b)].key]

FreezeRight(f) == IF recs[Child(f.at, 1)].type = "DATA" THEN <<Network(f, 1)>> ELSE << >>

\* freeze_node
DataOf(f) ==
    (IF recs[Child(f.at, 0)].type = "DATA" THEN <<Network(f, 0)>> ELSE << >>)
        \o (IF recs[Child(f.at, 1)].type = "DATA" THEN <<Network(f, 1)>> ELSE << >>)

FreezeNode ==
    /\ task = "freeze" /\ stack # << >> /\ Top.due
    /\ file' = [file EXCEPT !.nets = @ \o DataOf(Top)]
    /\ stack' = Tail(stack)
    /\ UNCHANGED <<vars, task, was, lost>>

FreezeSeparator ==
    /\ task = "freeze" /\ stack = << >> /\ file.ends = "networks"
    /\ file' = [file EXCEPT !.ends = "separator"]
    /\ UNCHANGED <<vars, task, stack, was, lost>>

\* freeze_data_to_file: everything in the data table.
FreezeData ==
    /\ task = "freeze" /\ file.ends = "separator"
    /\ file' = [file EXCEPT !.hash = {k \in Key : table[k].count > 0}, !.ends = "data"]
    /\ task' = "frozen"
    /\ UNCHANGED <<vars, stack, was, lost>>

\* Of what was written stdio may still have held a part.
Beginnings(f) ==
    {[f EXCEPT !.ends = "networks", !.nets = SubSeq(f.nets, 1, n)] : n \in 0..Len(f.nets)}

\* The data hash was cut: hash is what will be found in it, if it decodes.
DataBegun(f) ==
    {[f EXCEPT !.ends = "part of the data", !.hash = keys] :
        keys \in SUBSET {k \in Key : table[k].count > 0}}

\* A write fails (checked_fwrite) or the process dies: somebody thaws what is
\* there, or nobody does.
FreezeStops ==
    /\ task = "freeze"
    /\ \/ task' = "frozen" /\ file' \in {file} \cup Beginnings(file) /\ was' = Nothing
       \/ /\ file.ends = "separator"
          /\ task' = "frozen" /\ file' \in DataBegun(file) /\ was' = was
       \/ task' = "none" /\ file' = NoFile /\ was' = Nothing
    /\ stack' = << >>
    /\ UNCHANGED <<vars, lost>>

-----------------------------------------------------------------------------
(* Thawing: a tree with the options of the file is made, and its networks  *)
(* inserted, without merging and without a reference held.                 *)

\* thaw_network
Thawed(n) ==
    [net |-> [i \in 1..n.prefix_length |-> n.network[i]],
     rec |-> Data(n.key)]

Thaw ==
    /\ task = "frozen" /\ task' = "thaw"
    /\ opts' = file.opts
    /\ recs' = EmptyTree /\ table' = EmptyTable /\ cache' = EmptyCache
    /\ queue' = NewTreeQueue(file.opts) \o [i \in DOMAIN file.nets |-> Thawed(file.nets[i])]
    /\ op' = IF queue' = << >> THEN "idle" ELSE "new_tree"
    /\ strategy' = "none" /\ held' = NoKey /\ at' = << >> /\ dir' = "down"
    /\ UNCHANGED <<stack, file, was, lost>>

ThawNetwork == task = "thaw" /\ Step /\ UNCHANGED fvars

StoreAgain(k) == [count |-> table[k].count + 1, sv |-> TRUE]

\* set_stored_data_in_tree
SetStored(k) == [table[k] EXCEPT !.sv = TRUE]

\* thaw_network: after the networks zeros are read, which are the end of them
\* if the separator follows.
HasSeparator(f) == f.ends # "networks"

\* decode_sereal dies of a document that is only zeros.
MayDecode(f) == f.ends # "separator"

\* set_stored_data_in_tree: "Attempt to set unknown data record in tree".
Expected(f) == \A k \in f.hash : table[k].count > 0

MayThaw(f) == HasSeparator(f) /\ MayDecode(f) /\ Expected(f)

\* Of a hash that was cut a value may be another one, or may not be there.
ThawData ==
    /\ task = "thaw" /\ op = "idle" /\ MayThaw(file)
    /\ table' = [k \in Key |-> IF k \in file.hash THEN SetStored(k) ELSE table[k]]
    /\ \E wrong \in SUBSET file.hash :
          /\ file.ends = "data" => wrong = {}
          /\ lost' = wrong \cup {k \in Key : table[k].count > 0 /\ ~table'[k].sv}
    /\ task' = "none" /\ file' = NoFile /\ was' = Nothing
    /\ UNCHANGED <<recs, cache, opts, op, strategy, held, queue, at, dir, stack>>

\* A croak, or the process dies reading beyond the file: there is no tree.
ThawCroaks ==
    /\ task = "thaw" /\ op = "idle"
    /\ ~MayThaw(file) \/ file.ends = "part of the data"
    /\ op' = "freed" /\ recs' = NoTree /\ table' = EmptyTable
    /\ task' = "none" /\ file' = NoFile /\ was' = Nothing
    /\ UNCHANGED <<cache, opts, strategy, held, queue, at, dir, stack, lost>>

FreezeNext ==
    \/ TreeStep
    \/ Freeze \/ FreezeWithoutNodes \/ EnterNode \/ FreezeNode
    \/ FreezeSeparator \/ FreezeData \/ FreezeStops
    \/ Thaw \/ ThawNetwork \/ ThawData \/ ThawCroaks

FreezeSpec == FreezeInit /\ [][FreezeNext]_<<vars, fvars>>

-----------------------------------------------------------------------------
(* Properties *)

\* The data thawing code once "incorrectly incremented" what it thawed
\* (Changes:224): a tree is thawed only from a file that has all the networks
\* of a frozen one; it answers every lookup with the key that the frozen one
\* did, is the same record for record if that was trimmed, and counts what its
\* records have.  If freezing got to its end every key has its value, and no
\* other key has one; if it stopped in the data, nothing is said of values.
WasTrimmed ==
    \A p \in Prefix :
        was.recs[p].type = "NODE" /\ was.recs[Child(p, 0)] = was.recs[Child(p, 1)] =>
            HasNode(was.recs[Child(p, 0)])
ThawedTreeIsFrozenTree ==
    [][ThawData =>
        /\ was # Nothing
        /\ \A a \in Address : FoundRecord(a)' = was.found[a]
        /\ WasTrimmed => recs' = was.recs
        /\ \A k \in Key : table'[k].count = References(k)'
        /\ file.ends = "data" =>
              lost' = {} /\ \A k \in Key : table'[k].sv <=> References(k)' > 0
      ]_<<vars, fvars>>

\* "We should never need to merge when thawing a tree" (tree.c:1600): the
\* frozen networks do not overlap, so none replaces the data of another, and
\* none meets what new_tree has fixed.
NeverReplacesOnThaw ==
    task = "thaw" /\ op = "new_tree" /\ dir = "down" /\ new.type = "DATA" =>
        IF Len(at) >= Len(net) THEN recs[at].type = "EMPTY"
        ELSE recs[at].type \in {"EMPTY", "NODE", "FIXED_NODE"}

\* Thawing fails only where freezing had not finished, or the frozen tree had
\* already lost count: the key that no record has was left in its table by a
\* merge that croaked.
ThawFailsOnlyAfterLeak ==
    [][ThawCroaks => file.ends # "data" \/ was.leaks]_<<vars, fvars>>

=============================================================================
