---------------------------- MODULE MCSerializer ----------------------------
(***************************************************************************)
(* Values of every size that control bytes tell apart, save the two that   *)
(* _control_bytes gets wrong; padding that puts the value stored next at   *)
(* the last position of one pointer length or the first of the next; maps  *)
(* that share parts, and one that dies after its first pair.               *)
(***************************************************************************)
EXTENDS Serializer

Leaf(type, text, size) ==
    [text |-> text, type |-> type, chars |-> size, size |-> size, parts |-> << >>,
     refused |-> FALSE]
String(text, size) == Leaf("utf8_string", text, size)
Array(text, parts) ==
    [text |-> text, type |-> "array", chars |-> 1, size |-> Len(parts), parts |-> parts,
     refused |-> FALSE]
Map(text, parts) ==
    [text |-> text, type |-> "map", chars |-> 1, size |-> Len(parts) \div 2,
     parts |-> parts, refused |-> FALSE]

Longest == ThresholdSize[4] - 1

Word == String("word", 28)
Country == String("country", 7)
Code == String("code", 3)
Id == [Leaf("uint64", "id", 7) EXCEPT !.chars = 16]
Place == Map("place", <<Code, Word, Country, Id>>)
Unknown == [String("unknown", 5) EXCEPT !.refused = TRUE]
Half == Map("half", <<Country, Place, Word, Unknown>>)
\* The same text as the string's: a double that the callback declares.
Double == [Leaf("double", "word", 8) EXCEPT !.chars = 28]
\* A year as text, as a short and as a long integer.
Year == String("2024", 4)
Years == Array("years", <<Year, [Leaf("uint16", "2024", 2) EXCEPT !.chars = 4],
                          [Leaf("uint64", "2024", 2) EXCEPT !.chars = 4]>>)
Flags == Array("flags", <<Leaf("boolean", "1", 1), Leaf("int32", "-1", 4)>>)
Sizes == Array("sizes", <<String("s29", 29), String("s284", 284), String("s286", 286),
                          String("s65820", 65820), String("s65822", 65822),
                          String("longest", Longest)>>)
TooLong == String("too long", Longest + 1)

Fill(size) ==
    <<String("f1", Longest), String("f2", Longest), String("f3", Longest), String("f4", Longest),
      String("f5", Longest), String("f6", Longest), String("f7", Longest), String("f8", size)>>
\* With its control bytes each takes all but the last byte, or the last one,
\* that pointers of a length can reach.
Pad == {String("below 1", Cutoff[1] - 1 - 3), String("to 1", Cutoff[1] - 3),
        String("below 2", Cutoff[2] - 1 - 4), String("to 2", Cutoff[2] - 4),
        Array("below 3", Fill(Cutoff[3] - 1 - 2 - 7 * (Longest + 4) - 4)),
        Array("to 3", Fill(Cutoff[3] - 2 - 7 * (Longest + 4) - 4))}

MCData == Pad \cup {Word, Place, Half, Double, Year, Years, Flags, Sizes, TooLong}
MCThresholdData == {String("s285", ThresholdSize[2])}

=============================================================================
