---------------------------------- MODULE Json ----------------------------------
(***************************************************************************)
(* The JSON text of the server's responses: the encoder                      *)
(* (src/utils/json_encoder.cpp) that prints it, and the decoder of the test  *)
(* tools (extras/test_tools/json_decoder.cpp) that reads it.                 *)
(*                                                                           *)
(* Text is a sequence of units.  A unit is one character, or a run of        *)
(* characters that matters only as a whole (a name, a numeral, a sentence)   *)
(* and then counts as one.  A value to encode is a record with one field:    *)
(*   [bool |-> TRUE]  [int |-> 3]  [double |-> "NaN"]  [string |-> units]    *)
(*   [array |-> values]                                                      *)
(*   [object |-> <<[name |-> units, value |-> value], ...>>]                 *)
(* A decoded value has the numeral itself under number, and under object the *)
(* function from names to values.                                            *)
(***************************************************************************)
EXTENDS Naturals, Sequences, SequencesExt, TLC

\* Control characters with an escape letter, and one that has none.
EscapeLetter == [BS |-> "b", FF |-> "f", LF |-> "n", CR |-> "r", HT |-> "t"]
Control == DOMAIN EscapeLetter \union {"NUL"}
Whitespace == {" ", "HT", "CR", "LF"}
Punctuation == {"{", "}", "[", "]", ",", ":"}
-----------------------------------------------------------------------------
(* The encoder *)

PrintCharJsonEscaped(c) ==
    IF c \notin Control
      THEN IF c \in {"\"", "\\"} THEN <<"\\", c>> ELSE <<c>>
      ELSE IF c \in DOMAIN EscapeLetter THEN <<"\\", EscapeLetter[c]>> ELSE << >>

PrintJsonEscapedStringTo(string) ==
    <<"\"">> \o FlattenSeq([i \in DOMAIN string |-> PrintCharJsonEscaped(string[i])])
             \o <<"\"">>

PrintBoolean(bool) == IF bool THEN <<"true">> ELSE <<"false">>

\* A number that is not finite is printed as a string.
PrintFloatingPoint(double) ==
    IF double \in {"NaN", "Inf", "-Inf"} THEN PrintJsonEscapedStringTo(<<double>>)
                                         ELSE <<double>>

\* StartItem: ", " before every item but the first.
Items(printed) ==
    FlattenSeq([i \in DOMAIN printed |->
                   IF i = 1 THEN printed[i] ELSE <<",", " ">> \o printed[i]])

RECURSIVE Encode(_)
Encode(value) ==
    CASE "bool" \in DOMAIN value   -> PrintBoolean(value.bool)
      [] "int" \in DOMAIN value    -> <<ToString(value.int)>>
      [] "double" \in DOMAIN value -> PrintFloatingPoint(value.double)
      [] "string" \in DOMAIN value -> PrintJsonEscapedStringTo(value.string)
      [] "array" \in DOMAIN value  ->
             <<"[">> \o Items([i \in DOMAIN value.array |-> Encode(value.array[i])])
                     \o <<"]">>
      [] "object" \in DOMAIN value ->
             <<"{">> \o Items([i \in DOMAIN value.object |->
                            PrintJsonEscapedStringTo(value.object[i].name)
                            \o <<":", " ">> \o Encode(value.object[i].value)])
                     \o <<"}">>
-----------------------------------------------------------------------------
(* The decoder.  A parser returns the set of its results: one, or none if the *)
(* text is not what it expects.                                               *)

RECURSIVE SkipLeadingWhitespace(_)
SkipLeadingWhitespace(str) ==
    IF str # << >> /\ Head(str) \in Whitespace THEN SkipLeadingWhitespace(Tail(str)) ELSE str

At(str, c) == SkipLeadingWhitespace(str) # << >> /\ SkipLeadingWhitespace(str)[1] = c

\* What follows the delimiter.
SkipRequiredDelimiter(str, delimiter) ==
    IF At(str, delimiter) THEN {Tail(SkipLeadingWhitespace(str))} ELSE {}

\* An escape that JSON does not have disappears.
Unescaped(c) ==
    IF c \in {"\"", "\\", "/"} THEN <<c>>
    ELSE SetToSeq({k \in DOMAIN EscapeLetter : EscapeLetter[k] = c})

RECURSIVE ParseChars(_, _)
ParseChars(str, result) ==
    IF str = << >> \/ Head(str) \in Control THEN {}
    ELSE IF Head(str) = "\"" THEN {[value |-> [string |-> result], rest |-> Tail(str)]}
    ELSE IF Head(str) # "\\" THEN ParseChars(Tail(str), Append(result, Head(str)))
    ELSE IF Len(str) = 1 THEN {}
    ELSE ParseChars(SubSeq(str, 3, Len(str)), result \o Unescaped(str[2]))

ParseString(str) ==
    UNION {ParseChars(rest, << >>) : rest \in SkipRequiredDelimiter(str, "\"")}

\* true, false and numerals; the encoder has no null.
ParseWord(str) ==
    LET s == SkipLeadingWhitespace(str)
    IN  IF s = << >> \/ s[1] \in Punctuation THEN {}
        ELSE {[rest  |-> Tail(s),
               value |-> IF s[1] \in {"true", "false"} THEN [bool |-> s[1] = "true"]
                                                       ELSE [number |-> s[1]]]}

RECURSIVE ParseValue(_), ParseElements(_, _), ParseProperties(_, _)

\* The elements from str on, and the closing bracket.
ParseElements(str, array) ==
    UNION {LET longer == Append(array, v.value)
           IN  IF At(v.rest, "]")
                 THEN {[value |-> [array |-> longer], rest |-> rest] :
                           rest \in SkipRequiredDelimiter(v.rest, "]")}
                 ELSE UNION {ParseElements(rest, longer) :
                           rest \in SkipRequiredDelimiter(v.rest, ",")}
           : v \in ParseValue(str)}
ParseArray(str) ==
    UNION {IF At(rest, "]")
             THEN {[value |-> [array |-> << >>], rest |-> Tail(SkipLeadingWhitespace(rest))]}
             ELSE ParseElements(rest, << >>)
           : rest \in SkipRequiredDelimiter(str, "[")}

\* The same for properties; a name that comes twice has its last value.
ParseProperties(str, object) ==
    UNION {UNION {UNION {
           LET longer == (name.value.string :> v.value) @@ object
           IN  IF At(v.rest, "}")
                 THEN {[value |-> [object |-> longer], rest |-> rest] :
                           rest \in SkipRequiredDelimiter(v.rest, "}")}
                 ELSE UNION {ParseProperties(rest, longer) :
                           rest \in SkipRequiredDelimiter(v.rest, ",")}
           : v \in ParseValue(after)}
           : after \in SkipRequiredDelimiter(name.rest, ":")}
           : name \in ParseString(str)}
ParseObject(str) ==
    UNION {IF At(rest, "}")
             THEN {[value |-> [object |-> << >>], rest |-> Tail(SkipLeadingWhitespace(rest))]}
             ELSE ParseProperties(rest, << >>)
           : rest \in SkipRequiredDelimiter(str, "{")}

ParseValue(str) ==
    CASE At(str, "[")  -> ParseArray(str)
      [] At(str, "{")  -> ParseObject(str)
      [] At(str, "\"") -> ParseString(str)
      [] OTHER         -> ParseWord(str)

\* JsonValue::Parse: only whitespace may follow the value.
Parse(str) ==
    {r.value : r \in {p \in ParseValue(str) : SkipLeadingWhitespace(p.rest) = << >>}}
-----------------------------------------------------------------------------
\* What a reader of the JSON text of value is to find: characters that the
\* encoder cannot express are gone and numbers that are not finite are strings;
\* nothing else is lost.
RECURSIVE Meaning(_)
Meaning(value) ==
    CASE "bool" \in DOMAIN value   -> value
      [] "int" \in DOMAIN value    -> [number |-> ToString(value.int)]
      [] "double" \in DOMAIN value -> IF value.double \in {"NaN", "Inf", "-Inf"}
                                        THEN [string |-> <<value.double>>]
                                        ELSE [number |-> value.double]
      [] "string" \in DOMAIN value ->
             [string |-> SelectSeq(value.string, LAMBDA c : c # "NUL")]
      [] "array" \in DOMAIN value  ->
             [array |-> [i \in DOMAIN value.array |-> Meaning(value.array[i])]]
      [] "object" \in DOMAIN value ->
             [object |->
                [n \in {value.object[i].name : i \in DOMAIN value.object} |->
                    Meaning(value.object[CHOOSE i \in DOMAIN value.object :
                        /\ value.object[i].name = n
                        /\ \A j \in DOMAIN value.object :
                               value.object[j].name = n => j <= i].value)]]
=============================================================================
