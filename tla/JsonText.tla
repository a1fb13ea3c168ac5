------------------------------ MODULE JsonText ------------------------------
(***************************************************************************)
(* Documents in parson.c: values as trees and their text as tokens.  A     *)
(* value is a pair of its type and its content; an object is the sequence  *)
(* of its members, a pair of name and value each.  A token stands for the  *)
(* characters of one bracket, separator, string, number or word, with the  *)
(* white space around it (which JsonString.tla's strings are free of).     *)
(* A program makes a value, saves it to a file and loads the file; the     *)
(* write may be cut short, and somebody may edit the file.                 *)
(*                                                                         *)
(* A function of parson.c that calls itself is an operator that is given   *)
(* the recursive function it calls, and the function, below it.            *)
(***************************************************************************)
EXTENDS Integers, Sequences, SequencesExt

CONSTANTS
  MaxNesting,   \* MAX_NESTING
  Epsilon,      \* two numbers closer than this are equal
  Documents,    \* the values the program saves
  Samples,      \* the values it compares, and validates as one another's schema
  Scalar,       \* the tokens of strings, numbers and words, with their values
  Height        \* a bound on how deep the program's values are nested

VARIABLES
  value,    \* the value in memory
  other,    \* a second one
  file,     \* the text on disk
  step      \* "made", "saved", "edited", "loaded", or "compared"

docVars == <<value, other, file, step>>

NoValue == << "error", "" >>    \* a NULL pointer, whose type is JSONError

Type(v) == v[1]
Content(v) == v[2]
NamesOf(members) == {members[i][1] : i \in DOMAIN members}

\* json_object_get_value: the first member of the name, or NULL
GetValue(members, name) ==
    LET slots == {i \in DOMAIN members : members[i][1] = name}
    IN  IF slots = {} THEN NoValue ELSE members[Min(slots)][2]

Separators == {"{", "}", "[", "]", ":", ","}
Strings == {Content(v) : v \in {w \in Range(Scalar) : Type(w) = "string"}}

\* json_object_add refuses a second member of a name
DistinctNames(members) ==
    \A i, j \in DOMAIN members : members[i][1] = members[j][1] => i = j

\* the values whose parts are among the given ones
Made(parts) ==
    Range(Scalar)
    \cup ({"array"} \X Seq(parts))
    \cup ({"object"} \X {members \in Seq(Strings \X parts) : DistinctNames(members)})

\* the values in which no value is in more than n containers
Nested[n \in Nat] == Made(IF n = 0 THEN {} ELSE Nested[n - 1])

Trees == Nested[Height]

ASSUME DocumentAssumption ==
  /\ MaxNesting \in Nat /\ Height \in Nat /\ Epsilon \in Nat
  /\ \A token \in DOMAIN Scalar :
        Scalar[token] \in ({"null"} \X {""}) \cup ({"boolean"} \X BOOLEAN)
                           \cup ({"number"} \X Int) \cup ({"string"} \X STRING)
  /\ (Separators \cup {"NUL"}) \cap DOMAIN Scalar = {}
  /\ Documents \cup Samples \subseteq Trees

-----------------------------------------------------------------------------
(* json_parse_string: the value at position i and the position behind it *)

TokenAt(t, i) == IF i <= Len(t) THEN t[i] ELSE "NUL"

IsString(token) == token \in DOMAIN Scalar /\ Type(Scalar[token]) = "string"

Failed == [value |-> NoValue, next |-> 0]
Fails(result) == result.next = 0

\* parse_string_value, parse_boolean_value, parse_number_value, parse_null_value
ParseScalar(t, i) == [value |-> Scalar[t[i]], next |-> i + 1]

\* from its opening bracket on; the loop over what is inside is one of the two below
ParseContainer(t, parse, type, close, i, nesting) ==
    LET inside == parse[<< type, i + 1, nesting + 1 >>]
    IN  IF TokenAt(t, i + 1) = close THEN [value |-> << type, << >> >>, next |-> i + 2]
        ELSE IF Fails(inside) THEN Failed
        ELSE [value |-> << type, inside.value >>, next |-> inside.next]

ParseValue(t, parse, i, nesting) ==
    IF nesting > MaxNesting THEN Failed
    ELSE IF TokenAt(t, i) \in DOMAIN Scalar THEN ParseScalar(t, i)
    ELSE IF TokenAt(t, i) = "{" THEN ParseContainer(t, parse, "object", "}", i, nesting)
    ELSE IF TokenAt(t, i) = "[" THEN ParseContainer(t, parse, "array", "]", i, nesting)
    ELSE Failed

\* the loop of parse_object_value; json_object_add refuses a second member of a name
ParseMembers(t, parse, i, nesting) ==
    LET name == Content(Scalar[TokenAt(t, i)])
        new == parse[<< "value", i + 2, nesting >>]
        behind == parse[<< "object", new.next + 1, nesting >>]
    IN  IF ~IsString(TokenAt(t, i)) \/ TokenAt(t, i + 1) # ":" \/ Fails(new) THEN Failed
        ELSE IF TokenAt(t, new.next) = "}"
        THEN [value |-> << << name, new.value >> >>, next |-> new.next + 1]
        ELSE IF TokenAt(t, new.next) # "," \/ Fails(behind) \/ name \in NamesOf(behind.value)
        THEN Failed
        ELSE [value |-> << << name, new.value >> >> \o behind.value, next |-> behind.next]

\* Slip: the loop goes on while there is text, and a comma may end it
ParseItems_TrailingComma(t, parse, i, nesting) ==
    LET new == parse[<< "value", i, nesting >>]
        behind == parse[<< "array", new.next + 1, nesting >>]
    IN  IF TokenAt(t, i) = "]" THEN [value |-> << >>, next |-> i + 1]
        ELSE IF Fails(new) THEN Failed
        ELSE IF TokenAt(t, new.next) = "]"
        THEN [value |-> << new.value >>, next |-> new.next + 1]
        ELSE IF TokenAt(t, new.next) # "," \/ Fails(behind) THEN Failed
        ELSE [value |-> << new.value >> \o behind.value, next |-> behind.next]

\* Slip: the closing bracket is skipped unseen
ParseItems_Unclosed(t, parse, i, nesting) ==
    LET new == parse[<< "value", i, nesting >>]
        behind == parse[<< "array", new.next + 1, nesting >>]
    IN  IF Fails(new) THEN Failed
        ELSE IF TokenAt(t, new.next) # ","
        THEN [value |-> << new.value >>, next |-> new.next + 1]
        ELSE IF Fails(behind) THEN Failed
        ELSE [value |-> << new.value >> \o behind.value, next |-> behind.next]

\* the loop of parse_array_value
ParseItems(t, parse, i, nesting) ==
    LET new == parse[<< "value", i, nesting >>]
        behind == parse[<< "array", new.next + 1, nesting >>]
    IN  IF Fails(new) THEN Failed
        ELSE IF TokenAt(t, new.next) = "]"
        THEN [value |-> << new.value >>, next |-> new.next + 1]
        ELSE IF TokenAt(t, new.next) # "," \/ Fails(behind) THEN Failed
        ELSE [value |-> << new.value >> \o behind.value, next |-> behind.next]

\* where a function of the parser is called: which one, the position and the nesting
Calls == {"value", "array", "object"} \X Nat \X Nat

ParseCall(t, parse, call) ==
    CASE call[1] = "value"  -> ParseValue(t, parse, call[2], call[3])
      [] call[1] = "array"  -> ParseItems(t, parse, call[2], call[3])
      [] call[1] = "object" -> ParseMembers(t, parse, call[2], call[3])

Parser(t) == LET parse[call \in Calls] == ParseCall(t, parse, call) IN parse

\* what follows the first value is not looked at
Parse(t) == Parser(t)[<< "value", 1, 0 >>].value

\* json_parse_file: read_file gives no text for an empty file
ParseFile(content) == IF content = << >> THEN NoValue ELSE Parse(content)

-----------------------------------------------------------------------------
(* json_serialize_to_buffer_r, json_value_deep_copy *)

CommaSeparated(text) ==
    FlattenSeq([i \in DOMAIN text |-> IF i = 1 THEN text[i] ELSE << "," >> \o text[i]])

TokenOf(type, content) ==
    CHOOSE token \in DOMAIN Scalar : Scalar[token] = << type, content >>

SerializeValue(serialize, v) ==
    LET c == Content(v) IN
    CASE Type(v) = "array" ->
            << "[" >> \o CommaSeparated([i \in DOMAIN c |-> serialize[c[i]]]) \o << "]" >>
      [] Type(v) = "object" ->
            << "{" >>
              \o CommaSeparated([i \in DOMAIN c |->
                     << TokenOf("string", c[i][1]), ":" >> \o serialize[GetValue(c, c[i][1])]])
              \o << "}" >>
      [] OTHER -> << TokenOf(Type(v), c) >>

Serialize[v \in Trees] == SerializeValue(Serialize, v)

\* no copy of a part, no copy of the whole; json_object_add refuses a name it has
CopyValue(copy, v) ==
    LET c == Content(v)
        part == [i \in DOMAIN c |-> copy[IF Type(v) = "array" THEN c[i] ELSE GetValue(c, c[i][1])]]
    IN  IF Type(v) \notin {"array", "object"} THEN v
        ELSE IF NoValue \in Range(part) THEN NoValue
        ELSE IF Type(v) = "array" THEN << "array", part >>
        ELSE IF ~DistinctNames(c) THEN NoValue
        ELSE << "object", [i \in DOMAIN c |-> << c[i][1], part[i] >>] >>

DeepCopy[v \in Trees] == CopyValue(DeepCopy, v)

-----------------------------------------------------------------------------
(* json_value_equals, json_validate *)

Pairs == (Trees \cup {NoValue}) \X (Trees \cup {NoValue})

\* Slip: the number of members is not compared
EqualValues_Subset(equals, a, b) ==
    LET c == Content(a)  d == Content(b) IN
    /\ Type(a) = Type(b)
    /\ CASE Type(a) = "array"  -> /\ Len(c) = Len(d)
                                  /\ \A i \in DOMAIN c : equals[<< c[i], d[i] >>]
         [] Type(a) = "object" ->
               \A n \in NamesOf(c) : equals[<< GetValue(c, n), GetValue(d, n) >>]
         [] Type(a) = "number" -> c - d < Epsilon /\ d - c < Epsilon
         [] OTHER -> c = d

EqualValues(equals, a, b) ==
    LET c == Content(a)  d == Content(b) IN
    /\ Type(a) = Type(b)
    /\ CASE Type(a) = "array"  -> /\ Len(c) = Len(d)
                                  /\ \A i \in DOMAIN c : equals[<< c[i], d[i] >>]
         [] Type(a) = "object" ->
               /\ Len(c) = Len(d)
               /\ \A n \in NamesOf(c) : equals[<< GetValue(c, n), GetValue(d, n) >>]
         [] Type(a) = "number" -> c - d < Epsilon /\ d - c < Epsilon
         [] OTHER -> c = d

ValueEquals[pair \in Pairs] == EqualValues(ValueEquals, pair[1], pair[2])

\* Slip: as many members as the schema are one too few
ValidateValue_OneMore(validate, schema, v) ==
    LET c == Content(schema)  d == Content(v) IN
    /\ schema # NoValue /\ v # NoValue
    /\ Type(schema) = Type(v) \/ Type(schema) = "null"
    /\ CASE Type(schema) = "array"  ->
              c # << >> => \A i \in DOMAIN d : validate[<< c[1], d[i] >>]
         [] Type(schema) = "object" ->
              c # << >> => /\ Len(d) > Len(c)
                           /\ \A n \in NamesOf(c) : validate[<< GetValue(c, n), GetValue(d, n) >>]
         [] OTHER -> TRUE

ValidateValue(validate, schema, v) ==
    LET c == Content(schema)  d == Content(v) IN
    /\ schema # NoValue /\ v # NoValue
    /\ Type(schema) = Type(v) \/ Type(schema) = "null"
    /\ CASE Type(schema) = "array"  ->
              c # << >> => \A i \in DOMAIN d : validate[<< c[1], d[i] >>]
         [] Type(schema) = "object" ->
              /\ Len(d) >= Len(c)
              /\ \A n \in NamesOf(c) : validate[<< GetValue(c, n), GetValue(d, n) >>]
         [] OTHER -> TRUE

Validate[pair \in Pairs] == ValidateValue(Validate, pair[1], pair[2])

-----------------------------------------------------------------------------
(* The program *)

DocInit ==
    /\ value \in Documents \cup Samples
    /\ other = NoValue
    /\ file = << >>
    /\ step = "made"

\* json_serialize_to_file serializes before it opens the file, which empties it;
\* the write may then stop anywhere
Save ==
    /\ step = "made" /\ value \in Documents
    /\ step' = "saved"
    /\ \E n \in 0 .. Len(Serialize[value]) : file' = SubSeq(Serialize[value], 1, n)
    /\ UNCHANGED <<value, other>>

Tokens == DOMAIN Scalar \cup Separators \cup {"garbage"}

\* somebody changes, removes or inserts one token
Edit ==
    /\ step = "saved"
    /\ step' = "edited"
    /\ file = Serialize[value]
    /\ \E i \in DOMAIN file :
          \/ file' = RemoveAt(file, i)
          \/ \E token \in Tokens : \/ file' = ReplaceAt(file, i, token)
                                   \/ file' = InsertAt(file, i, token)
    /\ UNCHANGED <<value, other>>

Load ==
    /\ step \in {"saved", "edited"}
    /\ step' = "loaded"
    /\ value' = ParseFile(file)
    /\ UNCHANGED <<other, file>>

Compare ==
    /\ step = "made" /\ value \in Samples
    /\ step' = "compared"
    /\ other' \in Samples
    /\ UNCHANGED <<value, file>>

DocNext == Save \/ Edit \/ Load \/ Compare

DocSpec == DocInit /\ [][DocNext]_docVars

-----------------------------------------------------------------------------
(* What a text denotes, from the outside in: a container is the list of what   *)
(* stands between the commas that are in no deeper bracket                     *)

\* how many brackets are open behind each position of a text
Level(t) ==
    LET level[i \in 0 .. Len(t)] ==
            IF i = 0 THEN 0
            ELSE IF t[i] \in {"{", "["} THEN level[i - 1] + 1
            ELSE IF t[i] \in {"}", "]"} THEN level[i - 1] - 1
            ELSE level[i - 1]
    IN  level

\* the parts of a text, by their first and their last position
Segments(t) == (1 .. Len(t) + 1) \X (0 .. Len(t))

\* the segments between the commas of a segment
EntriesOf(t) ==
    LET level == Level(t)
        entries[s \in Segments(t)] ==
            LET commas == {j \in s[1] .. s[2] : t[j] = "," /\ level[j] = level[s[1] - 1]}
            IN  IF commas = {} THEN << s >>
                ELSE << << s[1], Min(commas) - 1 >> >> \o entries[<< Min(commas) + 1, s[2] >>]
    IN  entries

DenotedBy(t, entries, denoted, first, last) ==
    LET parts == IF last = first + 1 THEN << >> ELSE entries[<< first + 1, last - 1 >>]
        items == [k \in DOMAIN parts |-> denoted[parts[k]]]
        members == [k \in DOMAIN parts |->
                       << Content(Scalar[t[parts[k][1]]]), denoted[<< parts[k][1] + 2, parts[k][2] >>] >>]
    IN  IF first = last /\ t[first] \in DOMAIN Scalar THEN Scalar[t[first]]
        ELSE IF last <= first THEN NoValue
        ELSE IF /\ t[first] = "[" /\ t[last] = "]"
                /\ \A k \in DOMAIN parts : items[k] # NoValue
        THEN << "array", items >>
        ELSE IF /\ t[first] = "{" /\ t[last] = "}"
                /\ \A k \in DOMAIN parts : /\ parts[k][1] + 2 <= parts[k][2]
                                           /\ IsString(t[parts[k][1]]) /\ t[parts[k][1] + 1] = ":"
                                           /\ members[k][2] # NoValue
                /\ DistinctNames(members)
        THEN << "object", members >>
        ELSE NoValue

Denoted(t) ==
    LET entries == EntriesOf(t)
        denoted[s \in Segments(t)] == DenotedBy(t, entries, denoted, s[1], s[2])
    IN  denoted

\* the parser goes so deep
Legal(v) == v \in Nested[MaxNesting]

\* the values that v consists of, each with its key
KeyedParts(v) ==
    CASE Type(v) = "array"  -> {<< << "item", i >>, Content(v)[i] >> : i \in DOMAIN Content(v)}
      [] Type(v) = "object" -> {<< << "name", m[1] >>, m[2] >> : m \in Range(Content(v))}
      [] OTHER -> {}

\* the values in v with their paths
Below(key, nodes) == {[path |-> << key >> \o n.path, node |-> n.node] : n \in nodes}

Nodes[v \in Trees \cup {NoValue}] ==
    {[path |-> << >>, node |-> v]} \cup UNION {Below(part[1], Nodes[part[2]]) : part \in KeyedParts(v)}

Paths(nodes) == {n.path : n \in nodes}

\* a path with every item taken for the first
Shape(path) == [k \in DOMAIN path |-> IF path[k][1] = "item" THEN << "item", 1 >> ELSE path[k]]

\* two values are the same but for their parts, numbers within Epsilon
Near(a, b) ==
    /\ Type(a) = Type(b)
    /\ CASE Type(a) \in {"array", "object"} -> TRUE
         [] Type(a) = "number" -> Content(a) - Content(b) \in 1 - Epsilon .. Epsilon - 1
         [] OTHER -> Content(a) = Content(b)

\* what a schema says about a value in its place (null: nothing)
Conforms(schema, v) ==
    Type(schema) # "null" =>
        /\ Type(v) = Type(schema)
        /\ Type(v) = "object" => NamesOf(Content(schema)) \subseteq NamesOf(Content(v))

-----------------------------------------------------------------------------
(* Properties *)

\* json_parse_string() gives the value that the text begins with: the one whose
\* text is a prefix of it, if its names are distinct and it is not nested deeper
\* than MAX_NESTING; a text without such a prefix gives NULL, with a missing or
\* spare bracket, comma, colon or name anywhere.
ParsesTheGrammar ==
    step \in {"saved", "edited"} =>
        LET values == {Denoted(file)[<< 1, n >>] : n \in 0 .. Len(file)} \ {NoValue}
        IN  IF \E v \in values : Legal(v) THEN Legal(Parse(file)) /\ Parse(file) \in values
            ELSE Parse(file) = NoValue

\* A document that was saved whole is loaded as the value it was, unless that is
\* nested deeper than the parser goes, which the serializer does not mind; of a
\* container whose write was cut short nothing is loaded, never another value.
SavedOrNothing ==
    step = "saved" =>
        LET whole == Serialize[value] IN
        /\ Parse(whole) = IF Legal(value) THEN value ELSE NoValue
        /\ Type(value) \in {"object", "array"} /\ file # whole => Parse(file) = NoValue

\* json_value_equals() says that two values have the same values under the same
\* paths, whatever the order of an object's members, numbers within Epsilon; a
\* deep copy is the value again.
EqualsByPath ==
    step = "compared" =>
        /\ ValueEquals[<< value, other >>] =
              (/\ Paths(Nodes[value]) = Paths(Nodes[other])
               /\ \A m \in Nodes[value], n \in Nodes[other] : m.path = n.path => Near(m.node, n.node))
        /\ DeepCopy[value] = value

\* json_validate() as parson.h describes it: at every place the schema speaks of,
\* the value has the schema's type (null: any), and an object has at least the
\* schema's names; of a schema's array the first item speaks of all items, an
\* empty one of none.
ValidatesByPath ==
    step = "compared" =>
        Validate[<< value, other >>] =
            \A s \in Nodes[value], n \in Nodes[other] :
               s.path = Shape(s.path) /\ s.path = Shape(n.path) => Conforms(s.node, n.node)
=============================================================================
