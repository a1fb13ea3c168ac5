------------------------------ MODULE Tokenizer -----------------------------
(***************************************************************************)
(* parse_sv(), parse_ccli() and parse_appcli(): one text, three times.     *)
(* The text in a buffer is cut into arguments in place: every blank        *)
(* becomes the end of a string, and args[] points into the buffer.         *)
(* A text is a sequence of characters, without its final NUL.              *)
(***************************************************************************)
EXTENDS Naturals, Sequences, FiniteSets, SequencesExt

(* What isspace() is true of. *)
Blanks == {" ", "\n"}

(***************************************************************************)
(* Where args[] points to.  Blanks are skipped before it is looked whether *)
(* the text has ended: blanks at the end make one more argument, an empty  *)
(* one.                                                                    *)
(***************************************************************************)
ArgStarts(text) ==
  {p \in 1..Len(text) + 1 :
     /\ text # <<>>
     /\ p = 1 \/ text[p - 1] \in Blanks
     /\ p = Len(text) + 1 \/ text[p] \notin Blanks}

(* The string that begins at p, once the blanks are NULs. *)
StringAt(text, p) ==
  CHOOSE w \in {SubSeq(text, p, q) : q \in p - 1..Len(text)} :
    /\ \A i \in 1..Len(w) : w[i] \notin Blanks
    /\ p + Len(w) > Len(text) \/ text[p + Len(w)] \in Blanks

(* The k-th of a set of positions. *)
Nth(at, k) == CHOOSE p \in at : Cardinality({q \in at : q <= p}) = k

(* The arguments; the value returned is their number. *)
Args(text) ==
  LET at == ArgStarts(text)
  IN  [k \in 1..Cardinality(at) |-> StringAt(text, Nth(at, k))]

(* Slip: of several blanks in a row only the first is overwritten. *)
Ended_FirstBlankOnly(text, i) ==
  text[i] \in Blanks /\ (i = 1 \/ text[i - 1] \notin Blanks)

(* Does the i-th character of the buffer become a NUL? *)
Ended(text, i) == text[i] \in Blanks
=============================================================================
