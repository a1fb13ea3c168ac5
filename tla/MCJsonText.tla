------------------------------ MODULE MCJsonText ------------------------------
(* Small documents, string literals and commented texts for parson's text.      *)
EXTENDS JsonText, JsonString

vars == <<docVars, texts>>

Init == DocInit /\ StringInit

Next ==
    \/ DocNext /\ texts = << << >>, << >> >> /\ UNCHANGED texts
    \/ step = "made" /\ value = << "null", "" >> /\ StringNext /\ UNCHANGED docVars

Spec == Init /\ [][Next]_vars

-----------------------------------------------------------------------------
(* Tokens and documents *)

MCScalar == [null |-> << "null", "" >>, true |-> << "boolean", TRUE >>,
             n0 |-> << "number", 0 >>, n1 |-> << "number", 1 >>, n2 |-> << "number", 2 >>,
             a |-> << "string", "a" >>, b |-> << "string", "b" >>]

Arr(s) == << "array", s >>
Obj(s) == << "object", s >>
Null == << "null", "" >>
Zero == << "number", 0 >>

Words(leaves, parts) ==
    {Arr(<< x >>) : x \in parts} \cup {Arr(<< x, y >>) : x \in leaves, y \in parts}
    \cup {Obj(<< << "a", x >> >>) : x \in parts}
    \cup {Obj(<< << "b", x >>, << "a", y >> >>) : x \in leaves, y \in parts}

Empty == {Arr(<< >>), Obj(<< >>)}
Level0 == {Null, Zero, << "string", "b" >>}
Level1 == Words(Level0, Level0) \cup Empty
Level2 == Words({Zero}, Level1)
Level3 == Words({}, Level2)

MCDocuments == Level0 \cup Level1 \cup Level2 \cup Level3

SmallLeaves == {Null} \cup {<< "number", n >> : n \in 0 .. 2} \cup {<< "string", "b" >>}
Small1 == Words(SmallLeaves, SmallLeaves)
          \cup {Obj(<< << "a", x >>, << "b", y >> >>) : x, y \in SmallLeaves}
MCSamples == SmallLeaves \cup Empty \cup Small1
             \cup Words({Zero}, {Arr(<< Zero, Null >>), Arr(<< >>), Obj(<< << "a", Zero >> >>),
                                 Obj(<< << "a", Zero >>, << "b", Null >> >>)})

-----------------------------------------------------------------------------
(* Pieces of string literals and bits of commented texts *)

Piece(chars, means, unit) == [chars |-> chars, means |-> means, unit |-> unit]
Raw(s) == Piece(s, s, 0)
Unit(n) == Piece(<< Backslash, LetterU, Hex(n) >>,
                 IF n \in CodePoint THEN Encode(n) ELSE NoString, n)

MCPieces ==
    {Raw(<< LetterU >>), Raw(<< LetterN >>), Raw(<< 195, 169 >>),
     Piece(<< Backslash, Quote >>, << Quote >>, 0),
     Piece(<< Backslash, Backslash >>, << Backslash >>, 0),
     Piece(<< Backslash, LetterN >>, << Newline >>, 0),
     Piece(<< Newline >>, NoString, 0),
     Piece(<< Backslash, Space >>, NoString, 0),
     Piece(<< Backslash, LetterU, Space >>, NoString, 0)}
    \cup {Unit(n) : n \in {0, 31, 127, 128, 2047, 2048, 55295, 55296, 56319, 56320, 57343, 57344, 65535}}

Bit(chars, means) == [chars |-> chars, means |-> means]
Kept(s) == Bit(s, s)
Comment(s) == Bit(s, [i \in DOMAIN s |-> Space])
X == 120

MCBits ==
    {Kept(<< X >>), Kept(<< Newline >>),
     Kept(<< Quote, X, Quote >>), Kept(<< Quote, Slash, Slash, Quote >>),
     Kept(<< Quote, Backslash, Quote, Slash, Star, Quote >>),
     Kept(<< Quote, Backslash, Backslash, Quote >>),
     Comment(<< Slash, Star, Star, Slash >>),
     Comment(<< Slash, Star, Newline, Slash, Slash, Quote, Star, Slash >>),
     Comment(<< Slash, Slash, X, Newline >>),
     Comment(<< Slash, Slash, X, Star, Slash, Newline >>)}
=============================================================================
