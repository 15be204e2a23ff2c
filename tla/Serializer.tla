----------------------------- MODULE Serializer -----------------------------
(***************************************************************************)
(* store_data of Serializer.pm and the recursion of its encoders: values   *)
(* are appended to one buffer as control bytes and payload, a value that   *)
(* is there already as a pointer.  Of a payload only the length counts;    *)
(* positions and control bytes are the real numbers.  The reader's decoder *)
(* is recursive, so this module is model-checked only.                     *)
(***************************************************************************)
EXTENDS Integers, Sequences, FiniteSets, TLC

CONSTANTS
    Data,           \* the values stored
    CallLimit       \* bound: calls of store_data from outside

\* A value: its text, which its key is made of, with so many characters
\* (leading zeros of a 64 or 128 bit integer do not count); the size that its
\* control bytes tell; what a map or array consists of, keys and values in
\* turn; whether the encoder or map_key_type_callback refuses it.
\* [text, type, chars, size, parts, refused]

\* MaxMind::DB::Common.
TypeNameToNum ==
    [pointer |-> 1, utf8_string |-> 2, double |-> 3, bytes |-> 4, uint16 |-> 5,
     uint32 |-> 6, map |-> 7, int32 |-> 8, uint64 |-> 9, uint128 |-> 10,
     array |-> 11, boolean |-> 14, float |-> 15]

VARIABLES
    buffer,     \* the values encoded: where, control bytes or pointer, of what
    cache,      \* _cache: text -> position
    todo,       \* the recursion: values to store and positions to save
    call,       \* the call from outside and the position it will return
    returned,   \* what the calls have returned
    calls

svars == <<buffer, cache, todo, call, returned, calls>>

NoCall == [at |-> -1]
NoText == [text |-> ""]

Length == IF buffer = << >> THEN 0 ELSE buffer[Len(buffer)].next

-----------------------------------------------------------------------------
(* _control_bytes *)

ThresholdSize == <<29, 29 + 256, 29 + 256 + 2^16, 29 + 256 + 2^16 + 2^24>>

\* pack 'C', 'n' and 'N': the last bytes of a number, first the highest.
Pack(n, v) == [i \in 1..n |-> (v \div 2^(8 * (n - i))) % 256]

\* The code of a size in the low bits of the first byte, and the rest of it.
Coded(code, rest) == [code |-> code, rest |-> rest]

SizeBytes(size) ==
    CASE size < ThresholdSize[1] -> Coded(size, << >>)
      [] size >= ThresholdSize[1] /\ size <= ThresholdSize[2] ->
            Coded(29, Pack(1, size - ThresholdSize[1]))
      [] size > ThresholdSize[2] /\ size <= ThresholdSize[3] ->
            Coded(30, Pack(2, size - ThresholdSize[2]))
      [] size > ThresholdSize[3] ->
            Coded(31, Pack(3, size - ThresholdSize[3]))

ControlBytes(type, size) ==
    LET s == SizeBytes(size)
    IN  (IF TypeNameToNum[type] < 8 THEN <<TypeNameToNum[type] * 32 + s.code>>
         ELSE <<s.code, TypeNameToNum[type] - 7>>) \o s.rest

\* _encode_pointer; the fourth cutoff, 2^32, is past any position reached here.
Cutoff == <<2^11, 2^19 + 2^11, 2^27 + 2^19 + 2^11>>
Offset == <<0, 2^11, 2^19 + 2^11>>

PointerWidthAtMost(v) == 1 + Cardinality({n \in 1..3 : v > Cutoff[n]})
PointerWidth(v) == 1 + Cardinality({n \in 1..3 : v >= Cutoff[n]})

PointerBytes(v) ==
    LET n == PointerWidth(v)
        b == Pack(n + 1, v - Offset[n])
    IN  IF n = 4 THEN <<32 + 3 * 8>> \o Pack(4, v)
        ELSE <<32 + (n - 1) * 8 + b[1]>> \o Tail(b)

-----------------------------------------------------------------------------
(* store_data *)

Containers == {"map", "array"}
NeverCache == {"int32", "uint16", "uint32"}

LongInteger == {"uint64", "uint128"}
LongText(d) == d.chars >= (IF d.type \in LongInteger THEN 16 ELSE 4)

CacheLong(d) == d.type \notin NeverCache /\ LongText(d)
CacheNumbers(d) == d.type \in Containers \/ LongText(d)

\* _should_cache_value
ShouldCache(d) ==
    /\ d.type \notin NeverCache
    /\ d.type \in Containers \/ LongText(d)

\* The bytes that follow the control bytes at once.
Payload(d) == IF d.type \in Containers \cup {"boolean"} THEN 0 ELSE d.size

Dies(d) == d.refused \/ d.size >= ThresholdSize[4]

Store(d) == [do |-> "store", datum |-> d]
Save(d, at) == [do |-> "save", text |-> d.text, at |-> at]

StoreData(d) ==
    /\ todo = << >> /\ call = NoCall /\ calls < CallLimit
    /\ todo' = <<Store(d)>>
    /\ call' = [at |-> Length, datum |-> d]
    /\ calls' = calls + 1
    /\ UNCHANGED <<buffer, cache, returned>>

Storing == todo # << >> /\ Head(todo).do = "store"
datum == Head(todo).datum
Known == ShouldCache(datum) /\ datum.text \in DOMAIN cache

Write(head, body, d) ==
    buffer' = Append(buffer, [at |-> Length, next |-> Length + Len(head) + body,
                              head |-> head, datum |-> d])

StorePointer ==
    /\ Storing /\ Known
    /\ Write(PointerBytes(cache[datum.text]), 0, NoText)
    /\ todo' = Tail(todo)
    /\ UNCHANGED <<cache, call, returned, calls>>

Rest(d, at) == IF ShouldCache(d) THEN <<Save(d, at)>> ELSE << >>
Parts(d) == [i \in DOMAIN d.parts |-> Store(d.parts[i])]

SaveFirst(d, at) == Rest(d, at) \o Parts(d)

\* What is left to do once the control bytes of d are written: its parts, and
\* only then is its position saved.
After(d, at) == Parts(d) \o Rest(d, at)

Encode ==
    /\ Storing /\ ~Known /\ ~Dies(datum)
    /\ Write(ControlBytes(datum.type, datum.size), Payload(datum), datum)
    /\ todo' = After(datum, Length) \o Tail(todo)
    /\ UNCHANGED <<cache, call, returned, calls>>

\* The encoder dies: what it has written of the values around this one stays
\* in the buffer.
Die ==
    /\ Storing /\ ~Known /\ Dies(datum)
    /\ todo' = << >> /\ call' = NoCall
    /\ UNCHANGED <<buffer, cache, returned, calls>>

SavePosition ==
    /\ todo # << >> /\ Head(todo).do = "save"
    /\ cache' = (Head(todo).text :> Head(todo).at) @@ cache
    /\ todo' = Tail(todo)
    /\ UNCHANGED <<buffer, call, returned, calls>>

Return ==
    /\ todo = << >> /\ call # NoCall
    /\ returned' = returned \cup {call}
    /\ call' = NoCall
    /\ UNCHANGED <<buffer, cache, todo, calls>>

SerializerInit ==
    /\ buffer = << >> /\ cache = << >> /\ todo = << >> /\ call = NoCall
    /\ returned = {} /\ calls = 0

SerializerNext ==
    \/ \E d \in Data : StoreData(d)
    \/ StorePointer \/ Encode \/ Die \/ SavePosition \/ Return

SerializerSpec == SerializerInit /\ [][SerializerNext]_svars

-----------------------------------------------------------------------------
(* The reader's decoder, by the MaxMind DB format *)

Begins(pos) == \E i \in DOMAIN buffer : buffer[i].at = pos
At(pos) == buffer[CHOOSE i \in DOMAIN buffer : buffer[i].at = pos]

Number(bytes) ==
    LET v[i \in 0..Len(bytes)] == IF i = 0 THEN 0 ELSE 256 * v[i - 1] + bytes[i]
    IN  v[Len(bytes)]

\* The type, the size and the number of control bytes at the head of a value.
Control(h) ==
    LET extended == h[1] \div 32 = 0
        first    == IF extended THEN 3 ELSE 2
        code     == h[1] % 32
        more     == IF code < 29 THEN 0 ELSE code - 28
        bytes    == SubSeq(h, first, first + more - 1)
    IN  [type |-> IF extended THEN h[2] + 7 ELSE h[1] \div 32,
         size |-> IF more = 0 THEN code ELSE <<29, 285, 65821>>[more] + Number(bytes),
         len  |-> first + more - 1]

IsPointer(h) == h[1] \div 32 = 1
PointedAt(h) ==
    LET n == (h[1] \div 8) % 4
    IN  IF n = 3 THEN Number(Tail(h))
        ELSE <<0, 2048, 526336>>[n + 1] + Number(<<h[1] % 8>> \o Tail(h))

RECURSIVE EndOf(_, _)
\* Where the n values from pos on end; -1 if there are none.
EndOf(pos, n) ==
    IF n = 0 THEN pos
    ELSE IF ~Begins(pos) THEN -1
    ELSE LET h == At(pos).head
             c == Control(h)
             end == IF IsPointer(h) THEN pos + Len(h)
                    ELSE IF c.type = TypeNameToNum.map THEN EndOf(pos + c.len, 2 * c.size)
                    ELSE IF c.type = TypeNameToNum.array THEN EndOf(pos + c.len, c.size)
                    ELSE IF c.type = TypeNameToNum.boolean THEN pos + c.len
                    ELSE pos + c.len + c.size
         IN  EndOf(end, n - 1)

RECURSIVE Decodes(_, _)
\* What the decoder makes of the bytes at pos is d.
Decodes(pos, d) ==
    /\ Begins(pos)
    /\ LET x == At(pos)
           c == Control(x.head)
       IN  IF IsPointer(x.head)
           THEN PointedAt(x.head) < pos /\ Decodes(PointedAt(x.head), d)
           ELSE /\ x.datum.text = d.text
                /\ c.type = TypeNameToNum[x.datum.type] /\ c.size = x.datum.size
                /\ \A i \in DOMAIN d.parts : Decodes(EndOf(pos + c.len, i - 1), d.parts[i])

RECURSIVE Misread(_, _)
\* What there is in the value d, stored at pos, that the decoder finds with
\* another type than it was stored with.
Misread(pos, d) ==
    LET x == At(pos)
        Part(i) == Misread(EndOf(pos + Control(x.head).len, i - 1), d.parts[i])
    IN  IF IsPointer(x.head) THEN Misread(PointedAt(x.head), d)
        ELSE (IF x.datum.type = d.type THEN {} ELSE {d})
             \cup UNION {Part(i) : i \in DOMAIN d.parts}

-----------------------------------------------------------------------------
(* Properties *)

\* "Data we just stored does not decode to value we expected"
\* (Serializer.pm:146, checked under MAXMIND_DB_SERIALIZER_VERIFY): a reader
\* that starts at a position store_data has returned finds the value, with all
\* that it consists of, through pointers of every length.
StoredDataDecodes == \A r \in returned : Decodes(r.at, r.datum)

\* Every position the cache has is that of a complete value, also after a call
\* that died in the middle of one: a later pointer never leads to a fragment.
CacheHasCompleteValues ==
    \A t \in DOMAIN cache :
        /\ Begins(cache[t]) /\ At(cache[t]).datum.text = t
        /\ Decodes(cache[t], At(cache[t]).datum)

\* "keys, values, and whole maps are all deduplicated" (the test
\* t/MaxMind/DB/Writer/Serializer-deduplication.t:90): no second complete copy
\* is ever written of a map, an array or a string of four bytes or more.
Deduplicated ==
    {i \in DOMAIN buffer :
        /\ buffer[i].datum # NoText
        /\ \/ buffer[i].datum.type \in {"map", "array"}
           \/ buffer[i].datum.type = "utf8_string" /\ buffer[i].datum.size >= 4
        /\ Decodes(buffer[i].at, buffer[i].datum)}
CompleteValuesStoredOnce ==
    \A i, j \in Deduplicated : buffer[i].datum.text = buffer[j].datum.text => i = j

\* "The MaxMind DB file format is strongly typed" (Tree.pm:945), and the key of
\* the cache is of the text alone: a value may come out with the type of an
\* earlier one of the same text, but never a map or an array, a number of at
\* most 32 bits, a text of three characters or less, or a longer integer
\* that takes less than 16 digits.
MisreadIsALongText ==
    \A r \in returned : \A d \in Misread(r.at, r.datum) :
        /\ d.parts = << >> /\ d.type \notin {"uint16", "uint32", "int32"}
        /\ d.chars >= (IF d.type = "uint64" THEN 16 ELSE 4)

=============================================================================
