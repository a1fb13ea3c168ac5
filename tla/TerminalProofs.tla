---------------------------- MODULE TerminalProofs --------------------------
(***************************************************************************)
(* Proofs about the sessions and agents on one terminal, for any number of *)
(* them and any lines: what the tokenizer makes of a text that runs on     *)
(* into the residue of others, what is executed again at the end of input, *)
(* and why a session is returned from.                                     *)
(***************************************************************************)
EXTENDS SharedTerminal, WellFoundedInduction, FiniteSetTheorems, TLAPS

Text == Seq(STRING)

BlankFree(text) == \A i \in 1..Len(text) : text[i] \notin Blanks

LessThan == {pair \in Nat \X Nat : pair[1] < pair[2]}

(* A set of natural numbers has a least element. *)
LEMMA LeastNumber ==
  ASSUME NEW T \in SUBSET Nat, T # {}
  PROVE  \E n \in T : \A m \in T : n <= m
<1>1. IsWellFoundedOn(LessThan, Nat)
  BY NatLessThanWellFounded DEF OpToRel, LessThan
<1>2. PICK n \in T : \A m \in T : <<m, n>> \notin LessThan
  BY <1>1, WFMin
<1>3. ASSUME NEW m \in T PROVE n <= m
  <2>1. ~(m < n)
    BY <1>2 DEF LessThan
  <2>2. QED
    BY <2>1
<1>4. QED
  BY <1>3

-----------------------------------------------------------------------------
(* The tokenizer *)

(* The string at p ends before the first blank, or with the text. *)
EndsAt(text, p, q) ==
  /\ q \in p - 1..Len(text)
  /\ \A i \in p..q : text[i] \notin Blanks
  /\ q = Len(text) \/ text[q + 1] \in Blanks

LEMMA StringsEnd ==
  ASSUME NEW text \in Text, NEW p \in 1..Len(text) + 1
  PROVE  \E q \in p - 1..Len(text) : EndsAt(text, p, q)
<1> DEFINE Stops == {j \in p..Len(text) + 1 : j = Len(text) + 1 \/ text[j] \in Blanks}
<1>1. Len(text) \in Nat /\ Stops \in SUBSET Nat /\ Len(text) + 1 \in Stops
  BY DEF Text
<1>2. PICK j \in Stops : \A i \in Stops : j <= i
  BY <1>1, LeastNumber
<1>3. j - 1 \in p - 1..Len(text)
  BY <1>1, <1>2
<1>4. ASSUME NEW i \in p..j - 1 PROVE text[i] \notin Blanks
  BY <1>1, <1>2
<1>5. j - 1 = Len(text) \/ text[(j - 1) + 1] \in Blanks
  BY <1>1, <1>2
<1>6. QED
  BY <1>3, <1>4, <1>5 DEF EndsAt

LEMMA SubSeqIs ==
  ASSUME NEW text \in Text, NEW p \in 1..Len(text) + 1, NEW q \in p - 1..Len(text)
  PROVE  /\ SubSeq(text, p, q) \in Text
         /\ Len(SubSeq(text, p, q)) = (q + 1) - p
         /\ \A i \in 1..(q + 1) - p : SubSeq(text, p, q)[i] = text[p + i - 1]
BY DEF Text

LEMMA StringAtIs ==
  ASSUME NEW text \in Text, NEW p \in 1..Len(text) + 1, NEW q, EndsAt(text, p, q)
  PROVE  StringAt(text, p) = SubSeq(text, p, q)
<1> DEFINE Strings == {SubSeq(text, p, j) : j \in p - 1..Len(text)}
           Ends(w) == /\ \A i \in 1..Len(w) : w[i] \notin Blanks
                      /\ p + Len(w) > Len(text) \/ text[p + Len(w)] \in Blanks
<1>1. Len(text) \in Nat /\ q \in p - 1..Len(text)
  BY DEF Text, EndsAt
<1>2. Ends(SubSeq(text, p, q))
  BY <1>1, SubSeqIs DEF EndsAt
<1>3. ASSUME NEW w \in Strings, Ends(w) PROVE w = SubSeq(text, p, q)
  <2>1. PICK j \in p - 1..Len(text) : w = SubSeq(text, p, j)
    BY <1>3
  <2>2. /\ Len(w) = (j + 1) - p
        /\ \A i \in 1..(j + 1) - p : w[i] = text[p + i - 1]
    BY <2>1, SubSeqIs
  <2>3. ~(q < j)
    <3>1. ASSUME q < j PROVE FALSE
      <4>1. text[q + 1] \in Blanks
        BY <1>1, <2>1, <3>1 DEF EndsAt
      <4>2. (q + 2) - p \in 1..Len(w) /\ w[(q + 2) - p] = text[q + 1]
        BY <1>1, <2>1, <2>2, <3>1, SMTT(40)
      <4>3. QED
        BY <1>3, <4>1, <4>2
    <3>2. QED
      BY <3>1
  <2>4. ~(j < q)
    <3>1. ASSUME j < q PROVE FALSE
      <4>1. text[j + 1] \in Blanks
        BY <1>1, <1>3, <2>1, <2>2, <3>1
      <4>2. j + 1 \in p..q
        BY <1>1, <2>1, <3>1
      <4>3. QED
        BY <4>1, <4>2 DEF EndsAt
    <3>2. QED
      BY <3>1
  <2>5. j = q
    BY <1>1, <2>1, <2>3, <2>4
  <2>6. QED
    BY <2>1, <2>5
<1>4. StringAt(text, p) = CHOOSE w \in Strings : Ends(w)
  BY DEF StringAt
<1>5. SubSeq(text, p, q) \in Strings
  BY <1>1
<1> HIDE DEF Ends, Strings
<1>6. QED
  BY <1>2, <1>3, <1>4, <1>5

(* The positions up to n. *)
Upto(at, n) == {q \in at : q <= n}

LEMMA UptoGrows ==
  ASSUME NEW at, IsFiniteSet(at), at \subseteq Nat, NEW n \in Nat
  PROVE  /\ Cardinality(Upto(at, n)) \in Nat
         /\ n \notin at => Upto(at, n) = Upto(at, n - 1)
         /\ n \in at => Cardinality(Upto(at, n)) = Cardinality(Upto(at, n - 1)) + 1
<1>1. ASSUME NEW m PROVE IsFiniteSet(Upto(at, m)) /\ Cardinality(Upto(at, m)) \in Nat
  <2>1. Upto(at, m) \in SUBSET at
    BY DEF Upto
  <2>2. QED
    BY <2>1, FS_Subset, FS_CardinalityType
<1>2. ASSUME NEW q
      PROVE  q \in Upto(at, n) <=> q \in Upto(at, n - 1) \/ (q = n /\ n \in at)
  <2>1. q \in at => (q <= n <=> q <= n - 1 \/ q = n)
    <3>1. q \in at => q \in Nat
      OBVIOUS
    <3>2. QED
      BY <3>1
  <2>2. n <= n
    OBVIOUS
  <2>3. QED
    BY <2>1, <2>2, Zenon DEF Upto
<1>n. n \notin Upto(at, n - 1)
  BY DEF Upto
<1>3. ASSUME n \in at PROVE Cardinality(Upto(at, n)) = Cardinality(Upto(at, n - 1)) + 1
  <2>1. Upto(at, n) = Upto(at, n - 1) \cup {n}
    BY <1>2, <1>3
  <2>2. QED
    BY <2>1, <1>n, <1>1, FS_AddElement
<1>4. n \notin at => Upto(at, n) = Upto(at, n - 1)
  BY <1>2
<1>5. QED
  BY <1>1, <1>3, <1>4

(* The k-th position is one of the positions, and so many are up to it. *)
LEMMA NthIs ==
  ASSUME NEW at, NEW bound \in Nat, at \subseteq 0..bound, NEW k \in 1..Cardinality(at)
  PROVE  Nth(at, k) \in at /\ Cardinality(Upto(at, Nth(at, k))) = k
<1> DEFINE Enough == {n \in Nat : Cardinality(Upto(at, n)) >= k}
<1>1. IsFiniteSet(at) /\ Cardinality(at) \in Nat /\ at \subseteq Nat
  <2>1. IsFiniteSet(0..bound) /\ at \in SUBSET (0..bound)
    BY FS_Interval
  <2>2. IsFiniteSet(at)
    BY <2>1, FS_Subset
  <2>3. QED
    BY <2>2, FS_CardinalityType
<1>2. bound \in Enough
  <2>1. at = Upto(at, bound)
    <3>1. \A q : q \in at <=> q \in Upto(at, bound)
      <4>1. \A q \in at : q <= bound
        OBVIOUS
      <4>2. QED
        BY <4>1 DEF Upto
    <3>2. QED
      BY <3>1
  <2>2. QED
    BY <2>1, <1>1
<1>3. PICK n \in Enough : \A m \in Enough : n <= m
  <2>1. Enough \in SUBSET Nat
    OBVIOUS
  <2> HIDE DEF Enough
  <2>2. QED
    BY <1>2, <2>1, LeastNumber
<1>4. n \in Nat /\ Cardinality(Upto(at, n)) >= k
  BY <1>3
<1>5. Cardinality(Upto(at, n - 1)) < k /\ Cardinality(Upto(at, n - 1)) \in Nat
  <2>1. CASE n = 0
    <3>1. Upto(at, n - 1) = {}
      <4>1. \A q : q \notin Upto(at, n - 1)
        <5>1. \A q \in at : ~(q <= n - 1)
          BY <2>1
        <5>2. QED
          BY <5>1 DEF Upto
      <4>2. QED
        BY <4>1
    <3>2. Cardinality(Upto(at, n - 1)) = 0
      BY <3>1, FS_EmptySet
    <3>3. QED
      BY <3>2
  <2>2. CASE n # 0
    <3>1. n - 1 \in Nat /\ n - 1 \notin Enough
      BY <1>3, <2>2
    <3>2. ~(Cardinality(Upto(at, n - 1)) >= k) /\ Cardinality(Upto(at, n - 1)) \in Nat
      BY <3>1, <1>1, UptoGrows
    <3>3. QED
      BY <3>2
  <2>3. QED
    BY <2>1, <2>2
<1>6. n \in at /\ Cardinality(Upto(at, n)) = k
  <2>1. /\ Cardinality(Upto(at, n)) \in Nat
        /\ n \notin at => Upto(at, n) = Upto(at, n - 1)
        /\ n \in at => Cardinality(Upto(at, n)) = Cardinality(Upto(at, n - 1)) + 1
    BY <1>1, <1>4, UptoGrows
  <2>2. QED
    BY <2>1, <1>4, <1>5
<1>7. Nth(at, k) = CHOOSE p \in at : Cardinality(Upto(at, p)) = k
  BY DEF Nth, Upto
<1>8. QED
  BY <1>6, <1>7

LEMMA StartsAreFew ==
  ASSUME NEW text \in Text
  PROVE  /\ ArgStarts(text) \subseteq 0..Len(text) + 1
         /\ IsFiniteSet(ArgStarts(text)) /\ Cardinality(ArgStarts(text)) \in Nat
         /\ Len(Args(text)) = Cardinality(ArgStarts(text))
         /\ \A k \in 1..Len(Args(text)) :
              Args(text)[k] = StringAt(text, Nth(ArgStarts(text), k))
<1>1. Len(text) \in Nat
  BY DEF Text
<1>2. ArgStarts(text) \in SUBSET (0..Len(text) + 1)
  BY <1>1 DEF ArgStarts
<1>3. IsFiniteSet(0..Len(text) + 1)
  BY <1>1, FS_Interval
<1>4. IsFiniteSet(ArgStarts(text))
  BY <1>2, <1>3, FS_Subset
<1>5. Cardinality(ArgStarts(text)) \in Nat
  BY <1>4, FS_CardinalityType
<1>6. QED
  BY <1>2, <1>4, <1>5 DEF Args

(* A text without blanks is its own and only argument. *)
LEMMA OneArgument ==
  ASSUME NEW text \in Text, text # <<>>, BlankFree(text)
  PROVE  Len(Args(text)) = 1 /\ Args(text)[1] = text
<1>1. Len(text) \in Nat /\ Len(text) > 0
  BY DEF Text
<1>2. ArgStarts(text) = {1}
  <2>1. ASSUME NEW p \in 1..Len(text) + 1, p = 1 \/ text[p - 1] \in Blanks PROVE p = 1
    BY <1>1, <2>1 DEF BlankFree
  <2>2. 1 \in ArgStarts(text)
    BY <1>1 DEF ArgStarts, BlankFree
  <2>3. QED
    BY <2>1, <2>2 DEF ArgStarts
<1>3. Cardinality({1}) = 1
  BY FS_Singleton
<1>4. Nth({1}, 1) = 1
  <2>1. 1 \in 1..Cardinality({1}) /\ {1} \subseteq 0..1
    BY <1>3
  <2>2. Nth({1}, 1) \in {1}
    BY <2>1, NthIs
  <2>3. QED
    BY <2>2
<1>5. EndsAt(text, 1, Len(text))
  BY <1>1 DEF EndsAt, BlankFree
<1>6. StringAt(text, 1) = SubSeq(text, 1, Len(text))
  BY <1>1, <1>5, StringAtIs
<1>7. SubSeq(text, 1, Len(text)) = text
  BY <1>1 DEF Text
<1>8. Len(Args(text)) = 1
  BY <1>2, <1>3, StartsAreFew
<1>9. Args(text)[1] = StringAt(text, Nth(ArgStarts(text), 1))
  BY <1>8, StartsAreFew
<1>10. QED
  BY <1>2, <1>4, <1>6, <1>7, <1>8, <1>9

(* A text without blanks has at most one argument. *)
LEMMA BlankFreeIsShort ==
  ASSUME NEW text \in Text, BlankFree(text)
  PROVE  Len(Args(text)) \in 0..1
<1>1. CASE text = <<>>
  <2>1. ArgStarts(text) = {}
    BY <1>1 DEF ArgStarts
  <2>2. QED
    BY <2>1, StartsAreFew, FS_EmptySet
<1>2. QED
  BY <1>1, OneArgument
-----------------------------------------------------------------------------
(* A text that runs on into what was behind it in the buffer *)

RunsOn(own, text) ==
  /\ Len(own) <= Len(text)
  /\ \A i \in 1..Len(own) : text[i] = own[i]
  /\ \A i \in Len(own) + 1..Len(text) : text[i] \notin Blanks

LEMMA SameStarts ==
  ASSUME NEW own \in Text, own # <<>>, NEW text \in Text, RunsOn(own, text)
  PROVE  ArgStarts(text) = ArgStarts(own)
<1>1. Len(own) \in Nat /\ Len(own) > 0 /\ Len(text) \in Nat /\ Len(own) <= Len(text)
  BY DEF Text, RunsOn
<1>2. ASSUME NEW p \in 1..Len(own) + 1 PROVE p \in ArgStarts(text) <=> p \in ArgStarts(own)
  <2>1. p \in 1..Len(text) + 1 /\ text # <<>>
    BY <1>1
  <2>2. (p = 1 \/ text[p - 1] \in Blanks) <=> (p = 1 \/ own[p - 1] \in Blanks)
    BY <1>1 DEF RunsOn
  <2>3. (p = Len(text) + 1 \/ text[p] \notin Blanks)
          <=> (p = Len(own) + 1 \/ own[p] \notin Blanks)
    BY <1>1 DEF RunsOn
  <2>4. QED
    BY <2>1, <2>2, <2>3 DEF ArgStarts
<1>3. ASSUME NEW p \in ArgStarts(text) PROVE p \in 1..Len(own) + 1
  BY <1>1 DEF ArgStarts, RunsOn
<1>4. ASSUME NEW p \in ArgStarts(own) PROVE p \in 1..Len(own) + 1
  BY DEF ArgStarts
<1>5. \A p : p \in ArgStarts(text) <=> p \in ArgStarts(own)
  BY <1>2, <1>3, <1>4
<1>6. QED
  BY <1>5

(* An argument with another one behind it is the same in both; the last one *)
(* may have got longer.                                                     *)
LEMMA TailRunsOn ==
  ASSUME NEW own \in Text, own # <<>>, NEW text \in Text, RunsOn(own, text)
  PROVE  /\ Len(Args(text)) = Len(Args(own))
         /\ \A k \in 1..Len(Args(own)) - 1 : Args(text)[k] = Args(own)[k]
         /\ Len(Args(own)) > 0 =>
              IsPrefix(Args(own)[Len(Args(own))], Args(text)[Len(Args(own))])
<1> DEFINE at == ArgStarts(own)
           n == Cardinality(at)
<1>1. Len(own) \in Nat /\ Len(text) \in Nat /\ Len(own) <= Len(text)
  BY DEF Text, RunsOn
<1>2. /\ ArgStarts(text) = at /\ n \in Nat /\ Len(Args(own)) = n /\ Len(Args(text)) = n
      /\ at \subseteq 0..Len(own) + 1
  BY SameStarts, StartsAreFew
<1>3. ASSUME NEW k \in 1..n
      PROVE  /\ Nth(at, k) \in at /\ Cardinality(Upto(at, Nth(at, k))) = k
             /\ Nth(at, k) \in 1..Len(own) + 1
  <2>1. Nth(at, k) \in at /\ Cardinality(Upto(at, Nth(at, k))) = k
    BY <1>1, <1>2, NthIs
  <2>2. QED
    BY <2>1 DEF ArgStarts
<1>4. ASSUME NEW k \in 1..n, NEW q \in Nat, EndsAt(own, Nth(at, k), q), q < Len(own)
      PROVE  Args(text)[k] = Args(own)[k]
  <2> DEFINE p == Nth(at, k)
  <2>1. p \in 1..Len(own) + 1 /\ p \in 1..Len(text) + 1
    BY <1>1, <1>3
  <2> HIDE DEF p
  <2>s. q + 1 \in 1..Len(own) /\ p - 1 <= q
    BY <1>1, <1>4, <2>1 DEF EndsAt, p
  <2>i. \A i \in p..q + 1 : text[i] = own[i]
    BY <1>1, <2>1, <2>s DEF RunsOn
  <2>2. EndsAt(text, p, q)
    <3>1. /\ q \in p - 1..Len(text) /\ q # Len(own) /\ q + 1 \in p..q + 1
          /\ \A i \in p..q : i \in p..q + 1
      BY <1>1, <1>4, <2>1, <2>s
    <3>2. (\A i \in p..q : own[i] \notin Blanks) /\ own[q + 1] \in Blanks
      BY <1>4, <3>1 DEF EndsAt, p
    <3>3. QED
      BY <2>i, <3>1, <3>2 DEF EndsAt
  <2>3. SubSeq(text, p, q) = SubSeq(own, p, q)
    <3> DEFINE v == SubSeq(own, p, q)
               w == SubSeq(text, p, q)
    <3>1. /\ v \in Text /\ Len(v) = (q + 1) - p
          /\ \A i \in 1..(q + 1) - p : v[i] = own[p + i - 1]
      BY <1>1, <2>1, <2>s, SubSeqIs
    <3>2. /\ w \in Text /\ Len(w) = (q + 1) - p
          /\ \A i \in 1..(q + 1) - p : w[i] = text[p + i - 1]
      BY <1>1, <2>1, <2>s, SubSeqIs
    <3>3. \A i \in 1..(q + 1) - p : p + i - 1 \in p..q + 1
      BY <1>1, <2>1, <2>s
    <3> HIDE DEF v, w
    <3>4. \A i \in 1..(q + 1) - p : v[i] = w[i]
      BY <2>i, <3>1, <3>2, <3>3
    <3>5. v = w
      BY <3>1, <3>2, <3>4 DEF Text
    <3>6. QED
      BY <3>5 DEF v, w
  <2>4. Args(text)[k] = StringAt(text, p) /\ Args(own)[k] = StringAt(own, p)
    BY <1>2, StartsAreFew DEF p
  <2>5. QED
    BY <1>4, <2>1, <2>2, <2>3, <2>4, StringAtIs DEF p
<1>5. ASSUME NEW k \in 1..n - 1 PROVE Args(text)[k] = Args(own)[k]
  <2> DEFINE p == Nth(at, k)
             r == Nth(at, k + 1)
  <2>1. k \in 1..n /\ k + 1 \in 1..n
    BY <1>2
  <2>2. /\ p \in at /\ Cardinality(Upto(at, p)) = k /\ p \in 1..Len(own) + 1
        /\ r \in at /\ Cardinality(Upto(at, r)) = k + 1 /\ r \in 1..Len(own) + 1
    BY <1>3, <2>1
  <2> HIDE DEF p, r
  <2>3. p < r
    <3>1. ASSUME r <= p PROVE FALSE
      <4>1. Upto(at, r) \in SUBSET Upto(at, p)
        BY <1>2, <2>2, <3>1 DEF Upto
      <4>2. IsFiniteSet(Upto(at, p))
        BY FS_Subset, StartsAreFew DEF Upto
      <4>3. Cardinality(Upto(at, r)) <= Cardinality(Upto(at, p))
        BY <4>1, <4>2, FS_Subset
      <4>4. QED
        BY <4>3, <2>2
    <3>2. QED
      BY <2>2, <3>1
  <2>4. own[r - 1] \in Blanks /\ r - 1 \in p..Len(own)
    BY <1>1, <2>2, <2>3 DEF ArgStarts
  <2>5. PICK q \in p - 1..Len(own) : EndsAt(own, p, q)
    BY <2>2, StringsEnd
  <2>6. q # Len(own)
    BY <2>4, <2>5 DEF EndsAt
  <2>7. q \in Nat /\ q < Len(own)
    BY <1>1, <2>2, <2>5, <2>6
  <2>8. QED
    BY <1>4, <2>1, <2>5, <2>7 DEF p
<1>6. ASSUME n > 0 PROVE IsPrefix(Args(own)[n], Args(text)[n])
  <2> DEFINE p == Nth(at, n)
  <2>1. n \in 1..n /\ p \in 1..Len(own) + 1 /\ p \in 1..Len(text) + 1
    BY <1>1, <1>2, <1>3, <1>6
  <2>2. PICK q \in p - 1..Len(own) : EndsAt(own, p, q)
    BY <2>1, StringsEnd
  <2>3. Args(text)[n] = StringAt(text, p) /\ Args(own)[n] = StringAt(own, p)
    BY <1>2, <2>1, StartsAreFew
  <2>4. Args(own)[n] = SubSeq(own, p, q)
    BY <2>1, <2>2, <2>3, StringAtIs
  <2>5. CASE q < Len(own)
    <3>1. Args(text)[n] = Args(own)[n]
      BY <1>1, <1>4, <2>1, <2>2, <2>5
    <3>2. QED
      BY <3>1, <2>1, <2>2, <2>4, SubSeqIs DEF IsPrefix
  <2>6. CASE q = Len(own)
    <3>1. EndsAt(text, p, Len(text))
      BY <1>1, <2>1, <2>2, <2>6 DEF EndsAt, RunsOn
    <3>2. Args(text)[n] = SubSeq(text, p, Len(text))
      BY <2>1, <2>3, <3>1, StringAtIs
    <3> DEFINE v == SubSeq(own, p, q)
               w == SubSeq(text, p, Len(text))
    <3>3. /\ v \in Text /\ Len(v) = (Len(own) + 1) - p
          /\ \A i \in 1..Len(v) : v[i] = own[p + i - 1]
      BY <1>1, <2>1, <2>6, SubSeqIs, SMTT(40)
    <3>4. /\ w \in Text /\ Len(w) = (Len(text) + 1) - p
          /\ \A i \in 1..Len(w) : w[i] = text[p + i - 1]
      BY <1>1, <2>1, SubSeqIs
    <3>5. ASSUME NEW i \in 1..Len(v) PROVE v[i] = w[i]
      <4>1. p + i - 1 \in 1..Len(own) /\ i \in 1..Len(w)
        <5>1. i \in 1..(Len(own) + 1) - p
          BY <3>3
        <5> HIDE DEF v, w, p
        <5>2. QED
          BY <1>1, <2>1, <3>4, <5>1
      <4>2. text[p + i - 1] = own[p + i - 1]
        BY <4>1 DEF RunsOn
      <4>3. QED
        BY <3>3, <3>4, <4>1, <4>2
    <3> HIDE DEF v, w
    <3>6. IsPrefix(v, w)
      BY <1>1, <2>1, <3>3, <3>4, <3>5, SMTT(40) DEF IsPrefix, Text
    <3>7. QED
      BY <2>4, <3>2, <3>6 DEF v, w
  <2>7. QED
    BY <1>1, <2>1, <2>2, <2>5, <2>6
<1>7. QED
  BY <1>2, <1>5, <1>6
-----------------------------------------------------------------------------
(* Why a session is returned from *)

Kinds == {"junk", "other", "object"}

(* What the proof has to know of the types. *)
DownloadTypes ==
  /\ pc \in [Sessions -> {"start", "prompt", "execute", "shell", "curl", "parse",
                          "returned", "crashed"}]
  /\ cmd \in [Sessions -> Downloads]
  /\ answer \in [Sessions -> Kinds \cup {"none", "nodir"}]
  /\ disturbed \in [Sessions -> BOOLEAN]
  /\ file \in [Downloads -> Kinds \cup {"none"}]

(* Left alone, a session is about to parse what the network answered. *)
ParsesItsAnswer ==
  \A c \in Sessions :
    pc[c] = "parse" /\ ~disturbed[c] => answer[c] \in {"junk", file[cmd[c]]} \cap Kinds

DownloadInv == DownloadTypes /\ ParsesItsAnswer /\ EndsForAReason

LEMMA DownloadInit == CBotInit => DownloadInv
  BY DEF CBotInit, DownloadInv, DownloadTypes, ParsesItsAnswer, EndsForAReason, Downloads, Kinds

LEMMA DownloadsAreCommands ==
  ASSUME NEW text, IsDownload(text) PROVE Command(text) \in Downloads
  BY DEF IsDownload, Downloads

LEMMA DownloadTypeStep == DownloadTypes /\ [CBotNext]_cbotVars => DownloadTypes'
<1> SUFFICES ASSUME DownloadTypes, [CBotNext]_cbotVars PROVE DownloadTypes'
  OBVIOUS
<1> USE DEF DownloadTypes, Kinds, CGoTo
<1>1. ASSUME NEW c \in Sessions, MakeDataDir(c) \/ ReadLine(c) \/ ReadEnd(c) \/ Ignore(c) \/ Crash(c)
      PROVE  DownloadTypes'
  BY <1>1 DEF MakeDataDir, ReadLine, ReadEnd, Ignore, Crash
<1>2. ASSUME NEW c \in Sessions, Execute(c) PROVE DownloadTypes'
  BY <1>2, DownloadsAreCommands DEF Execute
<1>3. ASSUME NEW c \in Sessions, Truncate(c) \/ NoShell(c) PROVE DownloadTypes'
  BY <1>3, ZenonT(40) DEF Truncate, NoShell
<1>4. ASSUME NEW c \in Sessions, Deliver(c) PROVE DownloadTypes'
  BY <1>4 DEF Deliver, Disturb
<1>5. ASSUME NEW c \in Sessions, Parse(c) PROVE DownloadTypes'
  BY <1>5 DEF Parse
<1>6. CASE UNCHANGED cbotVars
  BY <1>6 DEF cbotVars
<1>7. QED
  BY <1>1, <1>2, <1>3, <1>4, <1>5, <1>6 DEF CBotNext, CBotStep

LEMMA DownloadStep == DownloadInv /\ [CBotNext]_cbotVars => DownloadInv'
<1> SUFFICES ASSUME DownloadInv, [CBotNext]_cbotVars PROVE DownloadInv'
  OBVIOUS
<1>t. DownloadTypes /\ DownloadTypes'
  BY DownloadTypeStep DEF DownloadInv
<1> USE DEF DownloadInv, ParsesItsAnswer, EndsForAReason, CGoTo
<1>a. /\ pc \in [Sessions -> {"start", "prompt", "execute", "shell", "curl", "parse",
                              "returned", "crashed"}]
      /\ cmd \in [Sessions -> Downloads]
      /\ answer \in [Sessions -> Kinds \cup {"none", "nodir"}]
      /\ disturbed \in [Sessions -> BOOLEAN]
      /\ file \in [Downloads -> Kinds \cup {"none"}]
  BY <1>t DEF DownloadTypes
<1>1. ASSUME NEW c \in Sessions, MakeDataDir(c) \/ ReadLine(c) \/ ReadEnd(c) \/ Ignore(c) \/ Crash(c)
      PROVE  DownloadInv'
  BY <1>1, <1>a, <1>t DEF MakeDataDir, ReadLine, ReadEnd, Ignore, Crash
<1>2. ASSUME NEW c \in Sessions, Execute(c) PROVE DownloadInv'
  BY <1>2, <1>a, <1>t DEF Execute
<1>3. ASSUME NEW c \in Sessions, Truncate(c) PROVE DownloadInv'
  BY <1>3, <1>a, <1>t DEF Truncate, Sharing
<1>4. ASSUME NEW c \in Sessions, NoShell(c) PROVE DownloadInv'
  BY <1>4, <1>a, <1>t DEF NoShell, Kinds
<1>5. ASSUME NEW c \in Sessions, Deliver(c) PROVE DownloadInv'
  <2> DEFINE a == answer'[c]
  <2>1. /\ pc[c] = "curl" /\ pc' = [pc EXCEPT ![c] = "parse"]
        /\ answer' = [answer EXCEPT ![c] = a] /\ a \in Kinds /\ cmd' = cmd
        /\ disturbed' = [d \in Sessions |-> disturbed[d] \/ d \in Sharing(c)]
    BY <1>5, <1>a DEF Deliver, Disturb, Kinds
  <2>2. \E left \in Kinds : /\ file' = [file EXCEPT ![cmd[c]] = left]
                            /\ ~disturbed[c] => left = a
    BY <1>5, <1>a DEF Deliver, Kinds
  <2>3. ASSUME NEW d \in Sessions, pc'[d] = "parse", ~disturbed'[d]
        PROVE  answer'[d] \in {"junk", file'[cmd'[d]]} \cap Kinds
    <3>1. CASE d = c
      BY <2>1, <2>2, <2>3, <3>1, <1>a
    <3>2. CASE d # c
      <4>1. pc[d] = "parse" /\ ~disturbed[d] /\ cmd[d] # cmd[c]
        BY <2>1, <2>3, <3>2, <1>a DEF Sharing
      <4>2. file'[cmd[d]] = file[cmd[d]] /\ answer'[d] = answer[d]
        BY <2>1, <2>2, <3>2, <4>1, <1>a
      <4>3. QED
        BY <2>1, <4>1, <4>2
    <3>3. QED
      BY <3>1, <3>2
  <2>4. EndsForAReason'
    BY <2>1, <1>a
  <2>5. QED
    BY <2>3, <2>4, <1>t
<1>6. ASSUME NEW c \in Sessions, Parse(c) PROVE DownloadInv'
  <2>1. /\ pc[c] = "parse" /\ UNCHANGED <<cmd, answer, disturbed, file>>
        /\ pc' = [pc EXCEPT ![c] = IF Accepted(cmd[c], file[cmd[c]]) THEN "prompt" ELSE "returned"]
    BY <1>6 DEF Parse
  <2>2. ParsesItsAnswer'
    BY <2>1, <1>a
  <2>3. ASSUME ~Accepted(cmd[c], file[cmd[c]]), ~disturbed[c], answer[c] # "junk"
        PROVE  answer[c] = "other" /\ cmd[c] = Listings
    <3>1. answer[c] = file[cmd[c]] /\ answer[c] \in Kinds
      BY <2>1, <2>3
    <3>2. answer[c] # "object" /\ (answer[c] = "other" => cmd[c] = Listings)
      BY <2>3, <3>1 DEF Accepted
    <3>3. QED
      BY <2>3, <3>1, <3>2 DEF Kinds
  <2>4. QED
    BY <2>1, <2>2, <2>3, <1>a, <1>t
<1>7. CASE UNCHANGED cbotVars
  BY <1>7, <1>t DEF cbotVars
<1>8. QED
  BY <1>1, <1>2, <1>3, <1>4, <1>5, <1>6, <1>7 DEF CBotNext, CBotStep

(* However many sessions share the directory: one that is returned from had *)
(* no data directory, no usable answer, or another session in its file.     *)
THEOREM SessionsEndForAReason == CBotSpec => []EndsForAReason
<1>1. DownloadInv => EndsForAReason
  BY DEF DownloadInv
<1>2. QED
  BY <1>1, DownloadInit, DownloadStep, PTL DEF CBotSpec
-----------------------------------------------------------------------------
(* What is executed again *)

LEMMA FirstStringIs ==
  ASSUME NEW text \in Text
  PROVE  FirstString(text) \in Text /\ BlankFree(FirstString(text))
<1> DEFINE EndsIn(n) == /\ \A i \in 1..n : ~Ended(text, i)
                        /\ n = Len(text) \/ Ended(text, n + 1)
           m == CHOOSE n \in 0..Len(text) : EndsIn(n)
<1>1. Len(text) \in Nat
  BY DEF Text
<1>2. \E n \in 0..Len(text) : EndsIn(n)
  <2>1. PICK q \in 1 - 1..Len(text) : EndsAt(text, 1, q)
    BY <1>1, StringsEnd
  <2>2. QED
    BY <1>1, <2>1 DEF EndsAt, Ended
<1>3. m \in 0..Len(text) /\ EndsIn(m)
  BY <1>2
<1>4. FirstString(text) = SubSeq(text, 1, m)
  BY DEF FirstString
<1> HIDE DEF m
<1>5. /\ SubSeq(text, 1, m) \in Text /\ Len(SubSeq(text, 1, m)) = m
      /\ \A i \in 1..m : SubSeq(text, 1, m)[i] = text[i]
  BY <1>1, <1>3, SubSeqIs
<1>6. QED
  BY <1>3, <1>4, <1>5 DEF BlankFree, Ended

LEMMA StrippedIs ==
  ASSUME NEW text \in Text, Len(text) > 3
  PROVE  /\ Stripped(text) \in Text
         /\ BlankFree(text) => Stripped(text) = text
<1>1. Len(text) \in Nat
  BY DEF Text
<1>2. Front(text) \in Text
  BY <1>1, SubSeqIs DEF Front
<1>3. BlankFree(text) => Last(text) # "\n"
  <2>1. Len(text) \in 1..Len(text)
    BY <1>1
  <2>2. QED
    BY <2>1 DEF BlankFree, Last, Blanks
<1>4. QED
  BY <1>2, <1>3 DEF Stripped

(* What a session has left in its buffer once it was executed, or not. *)
Spent(text) == BlankFree(text) \/ TooShort(text) \/ text = Garbage

Leftover ==
  \A c \in Sessions :
    /\ line[c] \in Text
    /\ pc[c] \in {"start", "prompt"} => Spent(line[c])
    /\ pc[c] = "execute" /\ ~fresh[c] => Spent(line[c])
    /\ pc[c] \in {"shell", "curl", "parse"} => BlankFree(line[c])

StaleTypes ==
  /\ line \in [Sessions -> Text]
  /\ fresh \in [Sessions -> BOOLEAN]

StaleInv == DownloadTypes /\ StaleTypes /\ Leftover /\ StaleCommand

LEMMA StaleInit == CBotInit => StaleInv
<1> SUFFICES ASSUME CBotInit PROVE StaleInv
  OBVIOUS
<1>1. DownloadTypes
  BY DownloadInit DEF DownloadInv
<1>2. <<>> \in Text /\ Garbage \in Text /\ BlankFree(<<>>)
  BY WordsAssumption DEF Text, BlankFree
<1>3. line \in [Sessions -> Text] /\ \A c \in Sessions : line[c] \in {<<>>, Garbage}
  BY <1>2 DEF CBotInit
<1>4. StaleTypes /\ Leftover
  BY <1>2, <1>3 DEF CBotInit, StaleTypes, Leftover, Spent
<1>5. StaleCommand
  BY DEF CBotInit, StaleCommand
<1>6. QED
  BY <1>1, <1>4, <1>5 DEF StaleInv

(* Executed once more, a spent text is one word. *)
LEMMA SpentIsOneWord ==
  ASSUME NEW text \in Text, Spent(text), ~TooShort(text), text # Garbage
  PROVE  /\ Stripped(text) = text
         /\ Len(Args(text)) = 1 /\ Command(text) = text
         /\ IsDownload(text) => text = Listings
         /\ ~TooMany(text)
         /\ LoneGlobal(text) => text = Global
<1>1. Len(text) \in Nat /\ Len(text) > 3 /\ text # <<>> /\ BlankFree(text)
  BY DEF Text, TooShort, Spent
<1>2. Stripped(text) = text
  BY <1>1, StrippedIs
<1>3. Len(Args(text)) = 1 /\ Command(text) = text
  BY <1>1, OneArgument DEF Command
<1>4. text # Top
  <2>1. Len(Top) = 3
    BY WordsAssumption
  <2>2. ASSUME NEW n \in Nat, n > 3 PROVE n # 3
    BY <2>2
  <2>3. QED
    BY <1>1, <2>1, <2>2
<1>5. IsDownload(text) => text = Listings
  BY <1>3, <1>4 DEF IsDownload
<1>6. ~TooMany(text) /\ (LoneGlobal(text) => text = Global)
  BY <1>3, WordsAssumption DEF TooMany, LoneGlobal
<1>7. QED
  BY <1>2, <1>3, <1>5, <1>6

LEMMA StaleStep == StaleInv /\ [CBotNext]_cbotVars => StaleInv'
<1> SUFFICES ASSUME StaleInv, [CBotNext]_cbotVars PROVE StaleInv'
  OBVIOUS
<1>t. DownloadTypes /\ DownloadTypes'
  BY DownloadTypeStep DEF StaleInv
<1>a. /\ pc \in [Sessions -> {"start", "prompt", "execute", "shell", "curl", "parse",
                              "returned", "crashed"}]
      /\ cmd \in [Sessions -> Downloads]
      /\ line \in [Sessions -> Text] /\ fresh \in [Sessions -> BOOLEAN]
  BY <1>t DEF StaleInv, StaleTypes, DownloadTypes
<1> USE DEF StaleInv, StaleTypes, Leftover, StaleCommand, CGoTo
<1>1. ASSUME NEW c \in Sessions, MakeDataDir(c) PROVE StaleInv'
  BY <1>1, <1>a, <1>t DEF MakeDataDir
<1>2. ASSUME NEW c \in Sessions, ReadLine(c) PROVE StaleInv'
  <2>1. PICK l \in InputLines : line' = [line EXCEPT ![c] = l]
    BY <1>2 DEF ReadLine
  <2>2. l \in Text
    BY InputAssumption DEF Text
  <2>3. QED
    BY <1>2, <2>1, <2>2, <1>a, <1>t DEF ReadLine
<1>3. ASSUME NEW c \in Sessions, ReadEnd(c) PROVE StaleInv'
  BY <1>3, <1>a, <1>t DEF ReadEnd
<1>4. ASSUME NEW c \in Sessions, Ignore(c) PROVE StaleInv'
  BY <1>4, <1>a, <1>t DEF Ignore, Spent
<1>5. ASSUME NEW c \in Sessions, Execute(c) PROVE StaleInv'
  <2> DEFINE text == Stripped(line[c])
  <2>1. /\ pc[c] = "execute" /\ ~TooShort(line[c]) /\ ~LoneGlobal(text)
        /\ line' = [line EXCEPT ![c] = FirstString(text)] /\ fresh' = fresh
        /\ \/ IsDownload(text) /\ pc' = [pc EXCEPT ![c] = "shell"]
                               /\ cmd' = [cmd EXCEPT ![c] = Command(text)]
           \/ pc' = [pc EXCEPT ![c] = "prompt"] /\ cmd' = cmd
    BY <1>5 DEF Execute
  <2>2. Len(line[c]) \in Nat /\ Len(line[c]) > 3 /\ line[c] \in Text
    BY <2>1, <1>a DEF TooShort, Text
  <2>3. text \in Text
    BY <2>2, StrippedIs
  <2>4. FirstString(text) \in Text /\ BlankFree(FirstString(text))
    BY <2>3, FirstStringIs
  <2>5. StaleTypes'
    BY <2>1, <2>4, <1>a
  <2>6. Leftover'
    BY <2>1, <2>4, <1>a DEF Spent
  <2>7. ASSUME ~fresh[c], IsDownload(text)
        PROVE  Command(text) \in {Listings, Command(Stripped(Garbage))}
    <3>1. Spent(line[c])
      BY <2>1, <2>7
    <3>2. CASE line[c] = Garbage
      BY <3>2
    <3>3. CASE line[c] # Garbage
      <4>1. text = line[c] /\ Command(text) = text /\ text = Listings
        BY <2>1, <2>2, <2>7, <3>1, <3>3, SpentIsOneWord
      <4>2. QED
        BY <4>1
    <3>4. QED
      BY <3>2, <3>3
  <2> HIDE DEF text
  <2>8. StaleCommand'
    BY <2>1, <2>7, <1>a
  <2>9. QED
    BY <1>t, <2>5, <2>6, <2>8
<1>6. ASSUME NEW c \in Sessions, Crash(c) PROVE StaleInv'
  <2> DEFINE text == Stripped(line[c])
  <2>1. /\ pc[c] = "execute" /\ ~TooShort(line[c]) /\ (LoneGlobal(text) \/ TooMany(text))
        /\ pc' = [pc EXCEPT ![c] = "crashed"] /\ UNCHANGED <<line, fresh, cmd>>
    BY <1>6 DEF Crash
  <2>2. ASSUME ~fresh[c] PROVE line[c] \in {Global, Garbage}
    <3>1. Spent(line[c])
      BY <2>1, <2>2
    <3>2. CASE line[c] # Garbage
      BY <2>1, <3>1, <3>2, <1>a, SpentIsOneWord
    <3>3. QED
      BY <3>2
  <2> HIDE DEF text
  <2>3. QED
    BY <2>1, <2>2, <1>a, <1>t
<1>7. ASSUME NEW c \in Sessions, Truncate(c) \/ NoShell(c) \/ Deliver(c) PROVE StaleInv'
  <2>1. /\ UNCHANGED <<line, fresh, cmd>>
        /\ \/ pc[c] = "shell" /\ pc' = [pc EXCEPT ![c] = "curl"]
           \/ pc[c] = "shell" /\ pc' = [pc EXCEPT ![c] = "parse"]
           \/ pc[c] = "curl" /\ pc' = [pc EXCEPT ![c] = "parse"]
    BY <1>7 DEF Truncate, NoShell, Deliver
  <2>2. QED
    BY <2>1, <1>a, <1>t
<1>8. ASSUME NEW c \in Sessions, Parse(c) PROVE StaleInv'
  <2>1. /\ UNCHANGED <<line, fresh, cmd>> /\ pc[c] = "parse"
        /\ \/ pc' = [pc EXCEPT ![c] = "prompt"]
           \/ pc' = [pc EXCEPT ![c] = "returned"]
    BY <1>8 DEF Parse
  <2>2. QED
    BY <2>1, <1>a, <1>t DEF Spent
<1>9. CASE UNCHANGED cbotVars
  BY <1>9, <1>t DEF cbotVars
<1>10. QED
  BY <1>1, <1>2, <1>3, <1>4, <1>5, <1>6, <1>7, <1>8, <1>9 DEF CBotNext, CBotStep

(* For any number of sessions and any lines: what the end of input makes a *)
(* session execute again is one word, and of the downloads "listings".     *)
THEOREM OnlyListingsRepeats == CBotSpec => []StaleCommand
<1>1. StaleInv => StaleCommand
  BY DEF StaleInv
<1>2. QED
  BY <1>1, StaleInit, StaleStep, PTL DEF CBotSpec
-----------------------------------------------------------------------------
(* What an agent makes of its uncleared buffer *)

Buffer == [1..Size -> STRING]

(* No blank outlives the cutting of the text it was read with. *)
NoBlank(buf) == \A i \in 1..Size : buf[i] \notin Blanks

LEMMA TextInIs ==
  ASSUME NEW buf \in Buffer
  PROVE  /\ TextIn(buf) \in Text /\ Len(TextIn(buf)) \in 0..Size
         /\ \A i \in 1..Len(TextIn(buf)) : TextIn(buf)[i] = buf[i] /\ buf[i] # NUL
         /\ Len(TextIn(buf)) = Size \/ buf[Len(TextIn(buf)) + 1] = NUL
<1> DEFINE Ends(n) == /\ \A i \in 1..n : buf[i] # NUL
                      /\ n = Size \/ buf[n + 1] = NUL
           Stops == {j \in 1..Size + 1 : j = Size + 1 \/ buf[j] = NUL}
           m == CHOOSE n \in 0..Size : Ends(n)
<1>1. Size \in Nat
  BY SizeAssumption
<1>2. \E n \in 0..Size : Ends(n)
  <2>1. Stops \in SUBSET Nat /\ Size + 1 \in Stops
    BY <1>1
  <2>2. PICK j \in Stops : \A i \in Stops : j <= i
    BY <2>1, LeastNumber
  <2>3. j - 1 \in 0..Size /\ (j - 1) + 1 = j
    BY <1>1, <2>2
  <2>4. ASSUME NEW i \in 1..j - 1 PROVE buf[i] # NUL
    BY <1>1, <2>2
  <2>5. j - 1 = Size \/ buf[(j - 1) + 1] = NUL
    BY <1>1, <2>2
  <2>6. QED
    BY <2>3, <2>4, <2>5
<1>3. m \in 0..Size /\ Ends(m)
  BY <1>2
<1>4. TextIn(buf) = SubSeq(buf, 1, m)
  BY DEF TextIn
<1> HIDE DEF m
<1>5. /\ SubSeq(buf, 1, m) \in Seq(STRING) /\ Len(SubSeq(buf, 1, m)) = m
      /\ \A i \in 1..m : SubSeq(buf, 1, m)[i] = buf[i]
  <2>1. buf \in Seq(STRING) /\ Len(buf) = Size
    BY <1>1 DEF Buffer
  <2>2. QED
    BY <1>1, <1>3, <2>1
<1>6. QED
  BY <1>3, <1>4, <1>5 DEF Text

LEMMA NULIs == NUL \in STRING /\ NUL \notin Blanks
<1>1. NUL # " " /\ NUL # "\n"
  BY DEF NUL
<1>2. NUL \in STRING
  BY SizeAssumption
<1>3. QED
  BY <1>1, <1>2 DEF Blanks

LEMMA CutIs ==
  ASSUME NEW buf \in Buffer,
         \A i \in 1..Size : i > Len(TextIn(buf)) => buf[i] \notin Blanks
  PROVE  Cut(buf) \in Buffer /\ NoBlank(Cut(buf))
<1>1. Size \in Nat /\ NUL \in STRING /\ NUL \notin Blanks
  BY SizeAssumption, NULIs
<1>2. Len(TextIn(buf)) \in Nat
  BY <1>1, TextInIs
<1>3. ASSUME NEW i \in 1..Size PROVE Cut(buf)[i] \in STRING /\ Cut(buf)[i] \notin Blanks
  <2>1. Cut(buf)[i] = IF i <= Len(TextIn(buf)) /\ Ended(TextIn(buf), i) THEN NUL ELSE buf[i]
    BY DEF Cut
  <2>2. buf[i] \in STRING
    BY DEF Buffer
  <2>3. CASE i <= Len(TextIn(buf))
    <3>0. i \in 1..Len(TextIn(buf))
      BY <1>1, <1>2, <2>3
    <3>1. TextIn(buf)[i] = buf[i]
      BY <3>0, TextInIs
    <3>2. QED
      BY <1>1, <2>1, <2>2, <2>3, <3>1 DEF Ended
  <2>4. CASE ~(i <= Len(TextIn(buf)))
    <3>1. buf[i] \notin Blanks
      BY <1>1, <1>2, <2>4
    <3>2. QED
      BY <2>1, <2>2, <2>4, <3>1
  <2>5. QED
    BY <2>3, <2>4
<1>4. QED
  BY <1>3 DEF Cut, Buffer, NoBlank

(* The text of a request in the buffer runs on into blank-free residue. *)
LEMMA RequestRunsOn ==
  ASSUME NEW buf \in Buffer, NoBlank(buf), NEW own \in InputLines
  PROVE  /\ Overwritten(buf, own) \in Buffer
         /\ RunsOn(own, TextIn(Overwritten(buf, own)))
         /\ \A i \in 1..Size : i > Len(TextIn(Overwritten(buf, own))) =>
              Overwritten(buf, own)[i] \notin Blanks
<1> DEFINE new == Overwritten(buf, own)
           text == TextIn(new)
<1>1. own \in Text /\ own # <<>> /\ Len(own) \in Nat /\ Len(own) < Size /\ Size \in Nat
  <2>1. own \in Text /\ own # <<>>
    BY InputAssumption DEF Text
  <2>2. Len(own) < Size /\ Size \in Nat
    BY SizeAssumption
  <2>3. QED
    BY <2>1, <2>2 DEF Text
<1>2. ASSUME NEW i \in 1..Size
      PROVE  /\ new[i] \in STRING
             /\ i <= Len(own) => new[i] = own[i] /\ new[i] # NUL
             /\ i > Len(own) => new[i] = buf[i] /\ new[i] \notin Blanks
  <2>1. new[i] = IF i <= Len(own) THEN own[i] ELSE buf[i]
    BY DEF Overwritten
  <2>2. buf[i] \in STRING /\ buf[i] \notin Blanks
    BY DEF Buffer, NoBlank
  <2>3. CASE i <= Len(own)
    <3>1. i \in 1..Len(own)
      BY <1>1, <2>3
    <3>2. own[i] \in STRING
      BY <1>1, <3>1 DEF Text
    <3>3. own[i] # NUL
      BY <3>1, SizeAssumption
    <3>4. QED
      BY <1>1, <2>1, <2>3, <3>2, <3>3
  <2>4. CASE ~(i <= Len(own))
    BY <1>1, <2>1, <2>2, <2>4
  <2>5. QED
    BY <2>3, <2>4
<1>3. new \in Buffer
  BY <1>2 DEF Overwritten, Buffer
<1> HIDE DEF new
<1>4. /\ text \in Text /\ Len(text) \in 0..Size
      /\ \A i \in 1..Len(text) : text[i] = new[i]
      /\ Len(text) = Size \/ new[Len(text) + 1] = NUL
  BY <1>3, TextInIs
<1> HIDE DEF text
<1>5. Len(own) <= Len(text)
  <2>1. CASE Len(text) = Size
    BY <1>1, <2>1
  <2>2. CASE Len(text) # Size
    <3>1. Len(text) + 1 \in 1..Size /\ new[Len(text) + 1] = NUL
      BY <1>1, <1>4, <2>2
    <3>2. ~(Len(text) + 1 <= Len(own))
      BY <1>2, <3>1
    <3>3. QED
      BY <1>1, <1>4, <3>2
  <2>3. QED
    BY <2>1, <2>2
<1>6. RunsOn(own, text)
  <2>1. ASSUME NEW i \in 1..Len(own) PROVE text[i] = own[i]
    <3>1. i \in 1..Len(text) /\ i \in 1..Size /\ i <= Len(own)
      BY <1>1, <1>4, <1>5
    <3>2. QED
      BY <1>2, <1>4, <3>1
  <2>2. ASSUME NEW i \in Len(own) + 1..Len(text) PROVE text[i] \notin Blanks
    <3>1. i \in 1..Len(text) /\ i \in 1..Size /\ i > Len(own)
      BY <1>1, <1>4
    <3>2. QED
      BY <1>2, <1>4, <3>1
  <2>3. QED
    BY <1>5, <2>1, <2>2 DEF RunsOn
<1>7. ASSUME NEW i \in 1..Size, i > Len(text) PROVE new[i] \notin Blanks
  <2>1. i > Len(own)
    BY <1>1, <1>4, <1>5, <1>7
  <2>2. QED
    BY <1>2, <2>1
<1>8. QED
  BY <1>3, <1>6, <1>7 DEF new, text

AgentsTypes ==
  /\ buffer \in [Readers -> Buffer]
  /\ \A a \in Readers : NoBlank(buffer[a])
  /\ DOMAIN request = Readers /\ DOMAIN args = Readers /\ DOMAIN told = Readers
  /\ request = [a \in Readers |-> request[a]]
  /\ args = [a \in Readers |-> args[a]]
  /\ told = [a \in Readers |-> told[a]]

TailOf(a) ==
  LET own == Args(request[a])
      n == Len(args[a])
  IN  \/ /\ n = Len(own)
         /\ \A k \in 1..n - 1 : args[a][k] = own[k]
         /\ n > 0 => IsPrefix(own[n], args[a][n])
      \/ /\ closed /\ n <= 1
         /\ told[a] <=> a = "AUTH"

LEMMA TailOfAll == StaleTailOnly <=> \A a \in Readers : TailOf(a)
  BY DEF StaleTailOnly, TailOf

AgentsInv == closed \in BOOLEAN /\ AgentsTypes /\ StaleTailOnly

LEMMA AgentsStart == Init => AgentsInv
<1> SUFFICES ASSUME Init PROVE AgentsInv
  OBVIOUS
<1>1. NUL \in STRING /\ NUL \notin Blanks
  BY NULIs
<1>2. AgentsTypes
  BY <1>1 DEF Init, AgentsInit, AgentsTypes, Buffer, NoBlank
<1>3. Len(Args(<<>>)) = 0
  <2>1. ArgStarts(<<>>) = {}
    BY DEF ArgStarts
  <2>2. <<>> \in Text
    BY DEF Text
  <2>3. QED
    BY <2>1, <2>2, StartsAreFew, FS_EmptySet
<1>4. ASSUME NEW a \in Readers PROVE TailOf(a)
  <2>1. request[a] = <<>> /\ args[a] = <<>>
    BY DEF Init, AgentsInit
  <2>2. QED
    BY <1>3, <2>1 DEF TailOf
<1>5. QED
  BY <1>2, <1>4, TailOfAll DEF AgentsInv, Init

LEMMA AgentsStep == AgentsInv /\ [Next]_allVars => AgentsInv'
<1> SUFFICES ASSUME AgentsInv, [Next]_allVars PROVE AgentsInv'
  OBVIOUS
<1>a. /\ buffer \in [Readers -> Buffer] /\ \A a \in Readers : NoBlank(buffer[a])
      /\ request = [a \in Readers |-> request[a]]
      /\ args = [a \in Readers |-> args[a]]
      /\ told = [a \in Readers |-> told[a]]
  BY DEF AgentsInv, AgentsTypes
<1>b. closed \in BOOLEAN /\ \A a \in Readers : TailOf(a)
  BY TailOfAll DEF AgentsInv
<1>1. ASSUME NEW a \in Readers, ReadRequest(a) PROVE AgentsInv'
  <2>1. PICK own \in InputLines, end \in BOOLEAN :
          /\ Typed(own, end)
          /\ request' = [request EXCEPT ![a] = own]
          /\ ParseRequest(a, Overwritten(buffer[a], own))
    BY <1>1 DEF ReadRequest
  <2> DEFINE new == Overwritten(buffer[a], own)
             text == TextIn(new)
  <2>2. buffer[a] \in Buffer /\ NoBlank(buffer[a])
    BY <1>a
  <2>3. /\ new \in Buffer /\ RunsOn(own, text)
        /\ \A i \in 1..Size : i > Len(text) => new[i] \notin Blanks
    BY <2>2, RequestRunsOn
  <2>4. Cut(new) \in Buffer /\ NoBlank(Cut(new))
    BY <2>3, CutIs
  <2>5. text \in Text /\ own \in Text /\ own # <<>>
    BY <2>3, TextInIs, InputAssumption DEF Text
  <2>6. /\ Len(Args(text)) = Len(Args(own))
        /\ \A k \in 1..Len(Args(own)) - 1 : Args(text)[k] = Args(own)[k]
        /\ Len(Args(own)) > 0 =>
             IsPrefix(Args(own)[Len(Args(own))], Args(text)[Len(Args(own))])
    BY <2>3, <2>5, TailRunsOn
  <2>7. /\ buffer' = [buffer EXCEPT ![a] = Cut(new)]
        /\ args' = [args EXCEPT ![a] = Args(text)]
        /\ told' = [told EXCEPT ![a] = a = "AUTH" /\ Len(Args(text)) < 3]
    BY <2>1 DEF ParseRequest
  <2>8. closed' \in BOOLEAN /\ ~closed
    BY <2>1 DEF Typed
  <2> HIDE DEF new, text
  <2>9. AgentsTypes'
    BY <2>1, <2>4, <2>7, <1>a DEF AgentsTypes
  <2>10. ASSUME NEW d \in Readers PROVE TailOf(d)'
    <3>1. CASE d = a
      <4>1. request'[d] = own /\ args'[d] = Args(text)
        BY <1>a, <2>1, <2>7, <3>1
      <4>2. QED
        BY <2>6, <4>1 DEF TailOf
    <3>2. CASE d # a
      <4>1. request'[d] = request[d] /\ args'[d] = args[d] /\ told'[d] = told[d]
        BY <1>a, <2>1, <2>7, <3>2
      <4>2. QED
        BY <1>b, <2>8, <4>1 DEF TailOf
    <3>3. QED
      BY <3>1, <3>2
  <2>11. QED
    BY <2>8, <2>9, <2>10, TailOfAll DEF AgentsInv, StaleTailOnly, TailOf
<1>2. ASSUME NEW a \in Readers, ReadNothing(a) PROVE AgentsInv'
  <2> DEFINE text == TextIn(buffer[a])
  <2>1. buffer[a] \in Buffer /\ NoBlank(buffer[a])
    BY <1>a
  <2>2. Cut(buffer[a]) \in Buffer /\ NoBlank(Cut(buffer[a]))
    BY <2>1, CutIs DEF NoBlank
  <2>3. text \in Text /\ BlankFree(text)
    <3>1. /\ text \in Text /\ Len(text) \in 0..Size
          /\ \A i \in 1..Len(text) : text[i] = buffer[a][i]
      BY <2>1, TextInIs
    <3> HIDE DEF text
    <3>2. \A i \in 1..Len(text) : i \in 1..Size
      BY <3>1, SizeAssumption
    <3>3. QED
      BY <2>1, <3>1, <3>2 DEF BlankFree, NoBlank
  <2>4. Len(Args(text)) \in 0..1
    BY <2>3, BlankFreeIsShort
  <2>5. /\ buffer' = [buffer EXCEPT ![a] = Cut(buffer[a])]
        /\ args' = [args EXCEPT ![a] = Args(text)]
        /\ told' = [told EXCEPT ![a] = a = "AUTH" /\ Len(Args(text)) < 3]
        /\ closed /\ closed' = closed /\ request' = request
    BY <1>2 DEF ReadNothing, ParseRequest, terminalVars
  <2> HIDE DEF text
  <2>6. AgentsTypes'
    BY <2>2, <2>5, <1>a DEF AgentsTypes
  <2>7. ASSUME NEW d \in Readers PROVE TailOf(d)'
    <3>1. CASE d = a
      <4>1. args'[d] = Args(text) /\ (told'[d] <=> a = "AUTH" /\ Len(Args(text)) < 3)
        BY <1>a, <2>5, <3>1
      <4>0. Len(Args(text)) <= 1 /\ Len(Args(text)) < 3
        BY <2>4
      <4>2. Len(args'[d]) <= 1 /\ (told'[d] <=> d = "AUTH")
        BY <3>1, <4>0, <4>1, Zenon
      <4>3. QED
        BY <2>5, <4>2 DEF TailOf
    <3>2. CASE d # a
      <4>1. request'[d] = request[d] /\ args'[d] = args[d] /\ told'[d] = told[d]
        BY <1>a, <2>5, <3>2
      <4>2. QED
        BY <1>b, <2>5, <4>1 DEF TailOf
    <3>3. QED
      BY <3>1, <3>2
  <2>8. QED
    BY <1>b, <2>5, <2>6, <2>7 DEF AgentsInv, StaleTailOnly, TailOf
<1>3. ASSUME UNCHANGED agentVars, closed' \in BOOLEAN, closed => closed' PROVE AgentsInv'
  <2>1. AgentsTypes'
    BY <1>3 DEF AgentsInv, AgentsTypes, agentVars
  <2>2. ASSUME NEW d \in Readers PROVE TailOf(d)'
    BY <1>3, <1>b DEF TailOf, agentVars
  <2>3. QED
    BY <1>3, <2>1, <2>2 DEF AgentsInv, StaleTailOnly, TailOf
<1>4. ASSUME CBotNext PROVE closed' \in BOOLEAN /\ (closed => closed')
  <2>1. PICK c \in Sessions : CBotStep(c)
    BY <1>4 DEF CBotNext
  <2>2. CASE ReadLine(c)
    BY <2>2, <1>b DEF ReadLine, Typed
  <2>3. CASE ~ReadLine(c)
    <3>1. UNCHANGED terminalVars
      BY <2>1, <2>3 DEF CBotStep, MakeDataDir, ReadEnd, Ignore, Execute, Crash,
                        Truncate, NoShell, Deliver, Parse
    <3>2. QED
      BY <3>1, <1>b DEF terminalVars
  <2>4. QED
    BY <2>2, <2>3
<1>5. CASE CBotNext /\ UNCHANGED agentVars
  BY <1>3, <1>4, <1>5
<1>6. CASE AgentsNext
  BY <1>1, <1>2, <1>6 DEF AgentsNext
<1>7. CASE HangUp /\ UNCHANGED agentVars
  BY <1>3, <1>7 DEF HangUp
<1>8. CASE UNCHANGED allVars
  BY <1>3, <1>8, <1>b DEF allVars, terminalVars, agentVars
<1>9. QED
  BY <1>5, <1>6, <1>7, <1>8 DEF Next, agentVars

(* For any agents, any buffer, and any requests that fit it: a request never *)
(* gains or loses an argument by what earlier ones left in the buffer, which *)
(* its last argument alone runs on into; read again at the end of the input, *)
(* it is down to one word at most.                                           *)
THEOREM OnlyTheTailIsStale == Spec => []StaleTailOnly
<1>1. AgentsInv => StaleTailOnly
  BY DEF AgentsInv
<1>2. QED
  BY <1>1, AgentsStart, AgentsStep, PTL DEF Spec

(* The c-bots and the agents share a terminal and nothing else: what holds of *)
(* the sessions by themselves holds of them beside the agents.                *)
THEOREM SessionsBesideAgents == Spec => CBotSpec /\ [](EndsForAReason /\ StaleCommand)
<1>1. Init => CBotInit
  BY DEF Init
<1>2. [Next]_allVars => [CBotNext]_cbotVars
  BY DEF Next, allVars
<1>3. Spec => CBotSpec
  BY <1>1, <1>2, PTL DEF Spec, CBotSpec
<1>4. QED
  BY <1>3, SessionsEndForAReason, OnlyListingsRepeats, PTL
=============================================================================
