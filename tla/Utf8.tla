-------------------------------- MODULE Utf8 --------------------------------
(***************************************************************************)
(* UTF-8 in parson.c.  parse_utf16() turns the escape \uXXXX, or a pair of *)
(* surrogates \uD8XX\uDCXX, into the bytes of one code point;              *)
(* verify_utf8_sequence() decides whether bytes form one.  Bytes are       *)
(* numbers below 256, strings are sequences of bytes.  The shifts and      *)
(* masks of the code are divisions and remainders here.                    *)
(***************************************************************************)
EXTENDS Integers, Sequences

Byte == 0 .. 255

\* IS_CONT: a byte 10xxxxxx
IsCont(b) == 128 <= b /\ b <= 191

IsLead(u)  == 55296 <= u /\ u <= 56319    \* D800 to DBFF
IsTrail(u) == 56320 <= u /\ u <= 57343    \* DC00 to DFFF

\* the code points that exist: up to 10FFFF, without the surrogates
CodePoint == { cp \in Nat : cp <= 1114111 /\ ~IsLead(cp) /\ ~IsTrail(cp) }

\* what a pair of surrogates stands for
Combine(lead, trail) == 65536 + 1024 * ((lead - 55296) % 1024) + ((trail - 56320) % 1024)

\* the bytes parse_utf16() writes for a code point that is no surrogate
Encode(cp) ==
    IF cp < 128 THEN << cp >>
    ELSE IF cp < 2048 THEN << 192 + ((cp \div 64) % 32), 128 + (cp % 64) >>
    ELSE IF cp < 65536
    THEN << 224 + ((cp \div 4096) % 16), 128 + ((cp \div 64) % 64), 128 + (cp % 64) >>
    ELSE << 240 + ((cp \div 262144) % 8), 128 + ((cp \div 4096) % 64),
            128 + ((cp \div 64) % 64), 128 + (cp % 64) >>

\* num_bytes_in_utf8_sequence: the length the first byte announces, or 0
Announced(b) ==
    IF b < 128 THEN 1
    ELSE IF b < 194 \/ b > 244 THEN 0
    ELSE IF b < 224 THEN 2
    ELSE IF b < 240 THEN 3 ELSE 4

\* the code point of the n bytes of s from i on
Decode(s, i, n) ==
    IF n = 1 THEN s[i]
    ELSE IF n = 2 THEN 64 * (s[i] % 32) + (s[i+1] % 64)
    ELSE IF n = 3 THEN 4096 * (s[i] % 16) + 64 * (s[i+1] % 64) + (s[i+2] % 64)
    ELSE 262144 * (s[i] % 8) + 4096 * (s[i+1] % 64) + 64 * (s[i+2] % 64) + (s[i+3] % 64)

\* verify_utf8_sequence at position i of s: the end of s is a NUL, which is no
\* continuation byte
Verified(s, i) ==
    LET n == Announced(s[i])
        cp == Decode(s, i, n)
    IN  /\ n # 0
        /\ \A k \in 1 .. n - 1 : i + k <= Len(s) /\ IsCont(s[i+k])
        /\ (n > 1 => cp >= 128) /\ (n > 2 => cp >= 2048) /\ (n > 3 => cp >= 65536)
        /\ cp <= 1114111
        /\ ~IsLead(cp) /\ ~IsTrail(cp)

\* is_valid_utf8: the loop passes verified sequences and stops at the end of s
ValidUtf8(s) ==
    LET stop[i \in Nat] ==
            IF i <= Len(s) /\ Verified(s, i) THEN stop[i + Announced(s[i])] ELSE i
    IN  stop[1] = Len(s) + 1
=============================================================================
