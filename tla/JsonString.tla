----------------------------- MODULE JsonString -----------------------------
(***************************************************************************)
(* The characters of JSON text in parson.c: how the parser reads a quoted  *)
(* string, how the serializer writes one, and how comments are blanked     *)
(* before parsing.  A character is a byte; the four hexadecimal digits of  *)
(* an escape \uXXXX are taken as one character, Hex(n).                    *)
(***************************************************************************)
EXTENDS Utf8, FiniteSets, FiniteSetsExt, SequencesExt

Quote     == 34
Backslash == 92
Slash     == 47
Star      == 42
Newline   == 10
Space     == 32
LetterU   == 117
LetterN   == 110

Hex(n) == 256 + n
IsHex(c) == c >= 256

NoString == << -1 >>    \* NULL

\* what a backslash may stand before, and the byte it then means: of the letters
\* b, f, n, r and t a control character, and of the others themselves
Escapes ==
    [c \in {Quote, Backslash, Slash, 98, 102, LetterN, 114, 116} |->
        CASE c = 98 -> 8 [] c = 102 -> 12 [] c = LetterN -> Newline
          [] c = 114 -> 13 [] c = 116 -> 9 [] OTHER -> c]

-----------------------------------------------------------------------------
(* What string literals are made of: each piece has its characters, the    *)
(* bytes they mean, or NoString, and the unit of an escape \uXXXX, or 0.   *)

Plain  == {c \in Byte : c >= 32 /\ c \notin {Quote, Backslash}}
Digits == (48 .. 57) \cup (65 .. 70) \cup (97 .. 102)

IsRaw(p) ==
    p.chars \in Seq(Plain) /\ p.chars # << >> /\ p.means = p.chars /\ p.unit = 0

IsEscape(p) ==
    \E c \in DOMAIN Escapes :
        p.chars = << Backslash, c >> /\ p.means = << Escapes[c] >> /\ p.unit = 0

IsUnit(p) ==
    /\ p.unit \in Nat /\ p.unit <= 65535
    /\ p.chars = << Backslash, LetterU, Hex(p.unit) >>
    /\ p.means = IF p.unit \in CodePoint THEN Encode(p.unit) ELSE NoString

IsMalformed(p) ==
    /\ p.means = NoString /\ p.unit = 0
    /\ \/ \E c \in 1 .. 31 : p.chars = << c >>
       \/ \E c \in (1 .. 255) \ (DOMAIN Escapes \cup {LetterU}) : p.chars = << Backslash, c >>
       \/ \E c \in (1 .. 255) \ (Digits \cup {Quote, Backslash}) :
              p.chars = << Backslash, LetterU, c >>

IsPiece(p) == IsRaw(p) \/ IsEscape(p) \/ IsUnit(p) \/ IsMalformed(p)

-----------------------------------------------------------------------------
(* What commented texts are made of: each bit has its characters, and what *)
(* the parser is to see in their place.                                    *)

Spaces(n) == [k \in 1 .. n |-> Space]

IsKept(b) ==
    /\ \E c \in (1 .. 255) \ {Quote, Backslash, Slash} : b.chars = << c >>
    /\ b.means = b.chars

\* a string literal: no quote in it but behind a backslash that is not itself
\* behind one that counts
IsLiteral(b) ==
    LET n == Len(b.chars) IN
    /\ b.chars \in Seq(1 .. 255) /\ n >= 2 /\ b.chars[1] = Quote /\ b.chars[n] = Quote
    /\ \E escaped \in SUBSET (3 .. n - 1) : \A j \in 2 .. n :
           /\ j \in escaped <=> b.chars[j - 1] = Backslash /\ j - 1 \notin escaped
           /\ b.chars[j] = Quote /\ j < n => j \in escaped
    /\ b.means = b.chars

\* from slash and star to the first star and slash
IsBlockComment(b) ==
    LET n == Len(b.chars) IN
    /\ b.chars \in Seq(1 .. 255) /\ n >= 4
    /\ b.chars[1] = Slash /\ b.chars[2] = Star /\ b.chars[n - 1] = Star /\ b.chars[n] = Slash
    /\ \A j \in 3 .. n - 2 : ~(b.chars[j] = Star /\ b.chars[j + 1] = Slash)
    /\ b.means = Spaces(n)

\* from two slashes to the end of the line; a quote or the beginning of a block
\* comment in it would upset the pass over block comments, which comes first
IsLineComment(b) ==
    LET n == Len(b.chars) IN
    /\ b.chars \in Seq(1 .. 255) /\ n >= 3
    /\ b.chars[1] = Slash /\ b.chars[2] = Slash /\ b.chars[n] = Newline
    /\ \A j \in 3 .. n - 1 : b.chars[j] \notin {Newline, Quote}
    /\ \A j \in 2 .. n - 1 : ~(b.chars[j] = Slash /\ b.chars[j + 1] = Star)
    /\ b.means = Spaces(n)

CONSTANTS
  Pieces,     \* of string literals: their characters, and the bytes they mean
  Bits,       \* of commented text: their characters, and what they become
  MaxPieces   \* bound on a text

\* of raw characters each piece is one sequence of UTF-8
ASSUME PiecesAssumption ==
    \A p \in Pieces :
        /\ IsPiece(p)
        /\ IsRaw(p) => Verified(p.chars, 1) /\ Announced(p.chars[1]) = Len(p.chars)

ASSUME BitsAssumption ==
    \A b \in Bits : IsKept(b) \/ IsLiteral(b) \/ IsBlockComment(b) \/ IsLineComment(b)

VARIABLES
  pieces,   \* a string literal being written, piece by piece
  bits      \* a commented text being written, bit by bit

texts == <<pieces, bits>>

\* the character at i, the NUL behind the end of t
CharAt(t, i) == IF i <= Len(t) THEN t[i] ELSE 0

Quoted(s) == << Quote >> \o s \o << Quote >>

\* a string ends at its first NUL for everyone who reads it
CString(s) == IF Contains(s, 0) THEN SubSeq(s, 1, Min({i \in DOMAIN s : s[i] = 0}) - 1) ELSE s

-----------------------------------------------------------------------------
(* Reading *)

\* skip_quotes from behind the opening quote, at i: the position behind the
\* closing one, or 0

\* Slip: the character behind a backslash is looked at again
SkipQuotes_EscapeSeen(t, i) ==
    LET skip[j \in Nat] ==
            IF CharAt(t, j) = 0 THEN 0 ELSE IF t[j] = Quote THEN j + 1 ELSE skip[j + 1]
    IN  skip[i]

SkipQuotes(t, i) ==
    LET skip[j \in Nat] ==
            IF CharAt(t, j) = 0 THEN 0
            ELSE IF t[j] = Quote THEN j + 1
            ELSE IF t[j] # Backslash THEN skip[j + 1]
            ELSE IF CharAt(t, j + 1) = 0 THEN 0 ELSE skip[j + 2]
    IN  skip[i]

\* parse_utf16 at the u of an escape: its bytes and the position behind it
Utf16(t, i) ==
    LET Unit(j) == CharAt(t, j) - 256
        pair == /\ IsLead(Unit(i + 1))
                /\ CharAt(t, i + 2) = Backslash /\ CharAt(t, i + 3) = LetterU
                /\ IsTrail(Unit(i + 4))
    IN  IF pair
        THEN [bytes |-> Encode(Combine(Unit(i + 1), Unit(i + 4))), next |-> i + 5]
        ELSE IF Unit(i + 1) \in CodePoint
        THEN [bytes |-> Encode(Unit(i + 1)), next |-> i + 2]
        ELSE [bytes |-> NoString, next |-> i]

\* one turn of the loop of process_string, at i: the bytes it writes, none of
\* which is its error exit, and where it goes on
Turn(t, i) ==
    IF t[i] # Backslash
    THEN [bytes |-> IF t[i] < 32 THEN NoString ELSE << t[i] >>, next |-> i + 1]
    ELSE IF CharAt(t, i + 1) \in DOMAIN Escapes
    THEN [bytes |-> << Escapes[t[i + 1]] >>, next |-> i + 2]
    ELSE IF CharAt(t, i + 1) = LetterU
    THEN Utf16(t, i + 1)
    ELSE [bytes |-> NoString, next |-> i + 1]

Joined(first, second) ==
    IF NoString \in {first, second} THEN NoString ELSE first \o second

\* process_string from i up to the closing quote at end
ProcessString(t, i, end) ==
    LET process[j \in Nat \ {0}] ==
            IF j >= end THEN << >> ELSE Joined(Turn(t, j).bytes, process[Turn(t, j).next])
    IN  process[i]

\* get_quoted_string at the start of t: the string and the position behind it
GetQuotedString(t) ==
    LET behind == IF CharAt(t, 1) = Quote THEN SkipQuotes(t, 2) ELSE 0
        s == ProcessString(t, 2, behind - 1)
    IN  IF behind = 0 \/ s = NoString
        THEN [string |-> NoString, next |-> behind]
        ELSE [string |-> CString(s), next |-> behind]

-----------------------------------------------------------------------------
(* Writing *)

\* Slip: control characters without a short escape go out as they are
Escaped_RawControl(b) ==
    IF \E c \in DOMAIN Escapes : Escapes[c] = b
    THEN << Backslash, CHOOSE c \in DOMAIN Escapes : Escapes[c] = b >> ELSE << b >>

\* json_serialize_string, one byte
Escaped(b) ==
    IF \E c \in DOMAIN Escapes : Escapes[c] = b
    THEN << Backslash, CHOOSE c \in DOMAIN Escapes : Escapes[c] = b >>
    ELSE IF b < 32 THEN << Backslash, LetterU, Hex(b) >>
    ELSE << b >>

SerializeString(s) == Quoted(FlattenSeq([i \in DOMAIN s |-> Escaped(s[i])]))

-----------------------------------------------------------------------------
(* Comments *)

IsAt(t, i, token) ==
    i + Len(token) - 1 <= Len(t) /\ SubSeq(t, i, i + Len(token) - 1) = token

\* the loop of remove_comments at i, in a string or not, behind a backslash or
\* not: the rest of the text it leaves

\* Slip: a backslash before a quote inside a string is not counted
RemoveComments_EscapeUnseen(t, open, close) ==
    LET ends(i) == {j \in i + Len(open) .. Len(t) : IsAt(t, j, close)}
        rest[at \in (Nat \ {0}) \X BOOLEAN \X BOOLEAN] ==
            LET i == at[1]
                inString == at[2]
                next == Min(ends(i)) + Len(close)
            IN  IF i > Len(t) THEN << >>
                ELSE IF t[i] = Quote THEN << t[i] >> \o rest[<< i + 1, ~inString, FALSE >>]
                ELSE IF inString \/ ~IsAt(t, i, open)
                THEN << t[i] >> \o rest[<< i + 1, inString, FALSE >>]
                ELSE IF ends(i) = {} THEN Spaces(Len(open)) \o SubSeq(t, i + Len(open), Len(t))
                ELSE Spaces(next - i) \o rest[<< next, FALSE, FALSE >>]
    IN  rest[<< 1, FALSE, FALSE >>]

RemoveComments(t, open, close) ==
    LET ends(i) == {j \in i + Len(open) .. Len(t) : IsAt(t, j, close)}
        rest[at \in (Nat \ {0}) \X BOOLEAN \X BOOLEAN] ==
            LET i == at[1]
                inString == at[2]
                escaped == at[3]
                next == Min(ends(i)) + Len(close)
            IN  IF i > Len(t) THEN << >>
                ELSE IF t[i] = Backslash /\ ~escaped
                THEN << t[i] >> \o rest[<< i + 1, inString, TRUE >>]
                ELSE IF t[i] = Quote /\ ~escaped
                THEN << t[i] >> \o rest[<< i + 1, ~inString, FALSE >>]
                ELSE IF inString \/ ~IsAt(t, i, open)
                THEN << t[i] >> \o rest[<< i + 1, inString, FALSE >>]
                ELSE IF ends(i) = {} THEN Spaces(Len(open)) \o SubSeq(t, i + Len(open), Len(t))
                ELSE Spaces(next - i) \o rest[<< next, FALSE, FALSE >>]
    IN  rest[<< 1, FALSE, FALSE >>]

\* json_parse_string_with_comments before it parses
WithoutComments(t) ==
    RemoveComments(RemoveComments(t, << Slash, Star >>, << Star, Slash >>),
                   << Slash, Slash >>, << Newline >>)
-----------------------------------------------------------------------------
(* The texts: any sequence of pieces, or of bits, up to a length *)

StringInit == pieces = << >> /\ bits = << >>

TypePiece(p) ==
    /\ Len(pieces) < MaxPieces
    /\ bits = << >>
    /\ pieces' = Append(pieces, p)
    /\ UNCHANGED bits

TypeBit(b) ==
    /\ Len(bits) < MaxPieces
    /\ pieces = << >>
    /\ bits' = Append(bits, b)
    /\ UNCHANGED pieces

StringNext == (\E p \in Pieces : TypePiece(p)) \/ (\E b \in Bits : TypeBit(b))

StringSpec == StringInit /\ [][StringNext]_texts

Chars(s) == FlattenSeq([i \in DOMAIN s |-> s[i].chars])

\* a piece is half of a pair of surrogates when its unit is one; the lead means
\* the code point of the pair, and the trail nothing more
Paired(ps, i) ==
    \/ IsLead(ps[i].unit) /\ i < Len(ps) /\ IsTrail(ps[i + 1].unit)
    \/ IsTrail(ps[i].unit) /\ i > 1 /\ IsLead(ps[i - 1].unit)

Wellformed(ps) == \A i \in DOMAIN ps : ps[i].means # NoString \/ Paired(ps, i)

MeaningOf(ps, i) ==
    IF IsLead(ps[i].unit) THEN Encode(Combine(ps[i].unit, ps[i + 1].unit))
    ELSE IF IsTrail(ps[i].unit) THEN << >> ELSE ps[i].means

Meaning(ps) == CString(FlattenSeq([i \in DOMAIN ps |-> MeaningOf(ps, i)]))

\* What the parser makes of a literal of these pieces with anything behind it.
ReadAs(ps, rest) ==
    GetQuotedString(Quoted(Chars(ps)) \o rest) =
        [string |-> IF Wellformed(ps) THEN Meaning(ps) ELSE NoString,
         next   |-> Len(Quoted(Chars(ps))) + 1]

\* A quoted string is read as the bytes its pieces mean, up to the first NUL, and
\* the parser goes on right behind the closing quote, whatever follows; it is
\* refused exactly when a piece is malformed: a control character, an unknown
\* escape, an escape without digits, or half of a pair of surrogates.
\* (skip_quotes() and process_string() scan it independently.)
QuotedStringRead ==
    \A rest \in {<< >>, << Quote >>, << Backslash, LetterU, Hex(0) >>} : ReadAs(pieces, rest)

\* What the serializer writes for a string the parser reads back as that string;
\* and a string read from escapes and valid UTF-8 is valid UTF-8, so that
\* json_value_init_string() takes it.
StringRoundTrip ==
    LET string == Meaning(pieces) IN
    Wellformed(pieces) =>
        /\ ValidUtf8(string)
        /\ GetQuotedString(SerializeString(string)) =
               [string |-> string, next |-> Len(SerializeString(string)) + 1]

\* json_parse_string_with_comments() sees blanks for each comment, of the same
\* length, and every other character as it was, inside strings too.
CommentsBlanked == WithoutComments(Chars(bits)) = FlattenSeq([i \in DOMAIN bits |-> bits[i].means])
=============================================================================
