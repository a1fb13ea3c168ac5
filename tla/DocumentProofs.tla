---------------------------- MODULE DocumentProofs --------------------------
(***************************************************************************)
(* Proofs about the documents of parson, of any height: saving, editing    *)
(* and loading them, comparing, copying and validating them.               *)
(***************************************************************************)
EXTENDS JsonText, ParsonProofs

(* Values by how deep they are nested: the recursive definition of Nested. *)

\* Nested[0], ..., Nested[n], as far as g gives them.
NestedUpTo(g, n) ==
  /\ g = [i \in 0 .. n |-> g[i]]
  /\ g[0] = Made({})
  /\ \A i \in 0 .. n - 1 : g[i + 1] = Made(g[i])

LEMMA NestedUpToExists ==
  ASSUME NEW n \in Nat
  PROVE  \E g : NestedUpTo(g, n)
<1> DEFINE T == {k \in Nat : \E g : NestedUpTo(g, k)}
<1>1. 0 \in T
  <2> DEFINE g == [i \in 0 .. 0 |-> Made({})]
  <2>1. g = [i \in 0 .. 0 |-> g[i]] /\ g[0] = Made({}) /\ 0 .. 0 - 1 = {}
    OBVIOUS
  <2> HIDE DEF g
  <2>2. NestedUpTo(g, 0)
    BY <2>1 DEF NestedUpTo
  <2>3. QED
    BY <2>2
<1>2. ASSUME NEW k \in Nat, k \in T PROVE k + 1 \in T
  <2>1. PICK g : NestedUpTo(g, k)
    BY <1>2
  <2> DEFINE h == [i \in 0 .. k + 1 |-> IF i = k + 1 THEN Made(g[k]) ELSE g[i]]
  <2>2. /\ h = [i \in 0 .. k + 1 |-> h[i]]
        /\ \A i \in 0 .. k : h[i] = g[i]
        /\ h[k + 1] = Made(g[k])
    OBVIOUS
  <2> HIDE DEF h
  <2>3. h[0] = Made({})
    BY <2>1, <2>2 DEF NestedUpTo
  <2>4. ASSUME NEW i \in 0 .. (k + 1) - 1 PROVE h[i + 1] = Made(h[i])
    <3>1. CASE i = k
      <4>1. k \in 0 .. k
        OBVIOUS
      <4>2. QED
        BY <2>2, <3>1, <4>1
    <3>2. CASE i # k
      <4>1. i \in 0 .. k - 1 /\ i \in 0 .. k /\ i + 1 \in 0 .. k
        BY <3>2
      <4>2. QED
        BY <2>1, <2>2, <4>1 DEF NestedUpTo
    <3>3. QED
      BY <3>1, <3>2
  <2>5. NestedUpTo(h, k + 1)
    BY <2>2, <2>3, <2>4 DEF NestedUpTo
  <2>6. QED
    BY <2>5
<1> HIDE DEF T
<1>3. n \in T
  BY <1>1, <1>2, AllNumbers
<1>4. QED
  BY <1>3 DEF T

LEMMA NestedUpToSame ==
  ASSUME NEW k \in Nat, NEW l \in Nat, NEW g, NEW h, NestedUpTo(g, k), NestedUpTo(h, l),
         NEW n \in Nat, n <= k, n <= l
  PROVE  g[n] = h[n]
<1> DEFINE T == {m \in Nat : m <= k /\ m <= l => g[m] = h[m]}
<1>1. 0 \in T
  BY DEF NestedUpTo
<1>2. ASSUME NEW m \in Nat, m \in T PROVE m + 1 \in T
  <2>1. SUFFICES ASSUME m + 1 <= k, m + 1 <= l PROVE g[m + 1] = h[m + 1]
    OBVIOUS
  <2>2. m \in 0 .. k - 1 /\ m \in 0 .. l - 1 /\ m <= k /\ m <= l
    BY <2>1
  <2>3. g[m + 1] = Made(g[m]) /\ h[m + 1] = Made(h[m])
    BY <2>2 DEF NestedUpTo
  <2>4. g[m] = h[m]
    BY <1>2, <2>2
  <2>5. QED
    BY <2>3, <2>4
<1> HIDE DEF T
<1>3. n \in T
  BY <1>1, <1>2, AllNumbers
<1>4. QED
  BY <1>3 DEF T

\* The recursive definition of Nested is one.
LEMMA NestedIs ==
  ASSUME NEW n \in Nat
  PROVE  Nested[n] = Made(IF n = 0 THEN {} ELSE Nested[n - 1])
<1> DEFINE pick(k) == CHOOSE g : NestedUpTo(g, k)
           f == [k \in Nat |-> pick(k)[k]]
           Body(g) == [k \in Nat |-> Made(IF k = 0 THEN {} ELSE g[k - 1])]
           N == CHOOSE g : g = Body(g)
<1>1. ASSUME NEW k \in Nat PROVE NestedUpTo(pick(k), k)
  BY NestedUpToExists
<1> HIDE DEF pick
<1>2. ASSUME NEW k \in Nat
      PROVE  f[k] = Made(IF k = 0 THEN {} ELSE f[k - 1])
  <2>1. f[k] = pick(k)[k] /\ NestedUpTo(pick(k), k)
    BY <1>1
  <2>2. CASE k = 0
    BY <2>1, <2>2 DEF NestedUpTo
  <2>3. CASE k # 0
    <3>1. k - 1 \in Nat /\ k - 1 \in 0 .. k - 1 /\ (k - 1) + 1 = k /\ k - 1 <= k
      BY <2>3
    <3>2. pick(k)[k] = Made(pick(k)[k - 1])
      BY <2>1, <3>1 DEF NestedUpTo
    <3>3. NestedUpTo(pick(k - 1), k - 1) /\ f[k - 1] = pick(k - 1)[k - 1]
      BY <1>1, <3>1
    <3>4. pick(k)[k - 1] = pick(k - 1)[k - 1]
      BY <2>1, <3>1, <3>3, NestedUpToSame
    <3>5. QED
      BY <2>1, <2>3, <3>2, <3>3, <3>4
  <2>4. QED
    BY <2>2, <2>3
<1>3. f = Body(f)
  BY <1>2
<1> HIDE DEF f
<1>4. N = Body(N)
  <2> HIDE DEF Body
  <2>1. QED
    BY <1>3
<1>5. Nested = N
  BY DEF Nested
<1> HIDE DEF N
<1>6. QED
  BY <1>4, <1>5

ScalarTypes == {"null", "boolean", "number", "string"}

\* What a value of each type is, its parts being among the given ones.
BuiltFrom(v, A) ==
  \/ v \in Range(Scalar)
  \/ \E c \in Seq(A) : v = << "array", c >>
  \/ \E c \in Seq(Strings \X A) : DistinctNames(c) /\ v = << "object", c >>

LEMMA MadeIs ==
  ASSUME NEW A, NEW v
  PROVE  v \in Made(A) <=> BuiltFrom(v, A)
BY DEF Made, BuiltFrom

LEMMA OnlyPair ==
  ASSUME NEW x, NEW y, NEW v \in {x} \X {y}
  PROVE  v = << x, y >>
OBVIOUS

LEMMA ScalarIs ==
  ASSUME NEW v \in Range(Scalar)
  PROVE  /\ v = << Type(v), Content(v) >> /\ Type(v) \in ScalarTypes
         /\ Type(v) = "number" => Content(v) \in Int
         /\ TokenOf(Type(v), Content(v)) \in DOMAIN Scalar
         /\ Scalar[TokenOf(Type(v), Content(v))] = v
<1>1. PICK token \in DOMAIN Scalar : v = Scalar[token]
  BY DEF Range
<1>2. /\ v = << Type(v), Content(v) >> /\ Type(v) \in ScalarTypes
      /\ Type(v) = "number" => Content(v) \in Int
  <2>1. v \in ({"null"} \X {""}) \cup ({"boolean"} \X BOOLEAN)
                \cup ({"number"} \X Int) \cup ({"string"} \X STRING)
    BY <1>1, DocumentAssumption
  <2>2. CASE v \in {"number"} \X Int
    BY <2>2 DEF ScalarTypes, Type, Content
  <2>3. CASE v \in {"null"} \X {""}
    <3>1. v = << "null", "" >>
      BY <2>3, OnlyPair, Zenon
    <3>2. Type(v) = "null" /\ Content(v) = ""
      BY <3>1, Zenon DEF Type, Content
    <3>3. QED
      BY <3>1, <3>2, Zenon DEF ScalarTypes
  <2>4. CASE v \in {"boolean"} \X BOOLEAN
    BY <2>4 DEF ScalarTypes, Type, Content
  <2>5. CASE v \in {"string"} \X STRING
    BY <2>5 DEF ScalarTypes, Type, Content
  <2>6. QED
    BY <2>1, <2>2, <2>3, <2>4, <2>5
<1>3. \E k \in DOMAIN Scalar : Scalar[k] = << Type(v), Content(v) >>
  BY <1>1, <1>2
<1>4. QED
  BY <1>2, <1>3 DEF TokenOf

LEMMA TypeOfPair == \A x, y : Type(<< x, y >>) = x /\ Content(<< x, y >>) = y
BY DEF Type, Content

LEMMA NoParts == KeyedParts(NoValue) = {} /\ Type(NoValue) = "error" /\ Content(NoValue) = ""
BY DEF KeyedParts, NoValue, Type, Content

\* What is known of a value from its type.
IsMade(v, A) ==
  \/ /\ v \in Range(Scalar) /\ Type(v) \in ScalarTypes /\ Type(v) # "array" /\ Type(v) # "object"
  \/ /\ v = << "array", Content(v) >> /\ Type(v) = "array" /\ Content(v) \in Seq(A)
  \/ /\ v = << "object", Content(v) >> /\ Type(v) = "object" /\ Content(v) \in Seq(Strings \X A)
     /\ DistinctNames(Content(v))

LEMMA MadeType ==
  ASSUME NEW A, NEW v \in Made(A)
  PROVE  IsMade(v, A) /\ v # NoValue
<1>1. CASE v \in Range(Scalar)
  <2>1. v = << Type(v), Content(v) >> /\ Type(v) \in ScalarTypes
    BY <1>1, ScalarIs
  <2>2. Type(v) # "array" /\ Type(v) # "object" /\ Type(v) # "error"
    BY <2>1 DEF ScalarTypes
  <2>3. v # NoValue
    BY <2>2, NoParts
  <2>4. QED
    BY <1>1, <2>1, <2>2, <2>3 DEF IsMade
<1>2. ASSUME NEW c \in Seq(A), v = << "array", c >> PROVE IsMade(v, A) /\ v # NoValue
  <2>1. Type(v) = "array" /\ Content(v) = c
    BY <1>2, TypeOfPair
  <2>2. v # NoValue
    BY <2>1, NoParts
  <2>3. QED
    BY <1>2, <2>1, <2>2 DEF IsMade
<1>3. ASSUME NEW c \in Seq(Strings \X A), DistinctNames(c), v = << "object", c >>
      PROVE IsMade(v, A) /\ v # NoValue
  <2>1. Type(v) = "object" /\ Content(v) = c
    BY <1>3, TypeOfPair
  <2>2. v # NoValue
    BY <2>1, NoParts
  <2>3. QED
    BY <1>3, <2>1, <2>2 DEF IsMade
<1>4. QED
  BY <1>1, <1>2, <1>3, MadeIs DEF BuiltFrom

LEMMA MadeMonotonic ==
  ASSUME NEW A, NEW B, A \subseteq B
  PROVE  Made(A) \subseteq Made(B)
<1>1. Seq(A) \subseteq Seq(B) /\ Seq(Strings \X A) \subseteq Seq(Strings \X B)
  <2>1. Strings \X A \subseteq Strings \X B
    OBVIOUS
  <2>2. \A X, Y : X \subseteq Y => Seq(X) \subseteq Seq(Y)
    OBVIOUS
  <2>3. QED
    BY <2>1, <2>2
<1>2. ASSUME NEW v, BuiltFrom(v, A) PROVE BuiltFrom(v, B)
  BY <1>1, <1>2 DEF BuiltFrom
<1>3. QED
  BY <1>2, MadeIs


LEMMA NestedGrows ==
  ASSUME NEW n \in Nat
  PROVE  /\ Nested[n] \subseteq Nested[n + 1] /\ Nested[n + 1] = Made(Nested[n])
         /\ Nested[0] = Made({})
<1> DEFINE T == {m \in Nat : Nested[m] \subseteq Nested[m + 1]}
<1>1. Nested[0] = Made({})
  BY NestedIs
<1>2. ASSUME NEW m \in Nat PROVE Nested[m + 1] = Made(Nested[m])
  <2>1. m + 1 \in Nat /\ m + 1 # 0 /\ (m + 1) - 1 = m
    OBVIOUS
  <2>2. QED
    BY <2>1, NestedIs
<1>3. 0 \in T
  <2>1. Nested[0 + 1] = Made(Nested[0])
    BY <1>2
  <2>2. QED
    BY <1>1, <2>1, MadeMonotonic
<1>4. ASSUME NEW m \in Nat, m \in T PROVE m + 1 \in T
  <2>1. Made(Nested[m]) \subseteq Made(Nested[m + 1])
    BY <1>4, MadeMonotonic
  <2>2. m + 1 \in Nat /\ Nested[m + 1] = Made(Nested[m]) /\ Nested[(m + 1) + 1] = Made(Nested[m + 1])
    BY <1>2
  <2>3. QED
    BY <2>1, <2>2
<1> HIDE DEF T
<1>5. n \in T
  BY <1>3, <1>4, AllNumbers
<1>6. QED
  BY <1>1, <1>2, <1>5 DEF T

LEMMA NestedMonotonic ==
  ASSUME NEW m \in Nat, NEW n \in Nat, m <= n
  PROVE  Nested[m] \subseteq Nested[n]
<1> DEFINE T == {d \in Nat : Nested[m] \subseteq Nested[m + d]}
<1>1. 0 \in T
  OBVIOUS
<1>2. ASSUME NEW d \in Nat, d \in T PROVE d + 1 \in T
  <2>1. m + d \in Nat /\ m + (d + 1) = (m + d) + 1
    OBVIOUS
  <2>2. Nested[m + d] \subseteq Nested[(m + d) + 1]
    BY <2>1, NestedGrows
  <2>3. QED
    BY <1>2, <2>1, <2>2
<1> HIDE DEF T
<1>3. n - m \in Nat /\ m + (n - m) = n
  OBVIOUS
<1>4. n - m \in T
  BY <1>1, <1>2, <1>3, AllNumbers
<1>5. QED
  BY <1>3, <1>4 DEF T

\* The parts of values.
PartsAmong(v, A) == \A part \in KeyedParts(v) : part = << part[1], part[2] >> /\ part[2] \in A

LEMMA PartsOfMade ==
  ASSUME NEW A, NEW v \in Made(A)
  PROVE  PartsAmong(v, A)
<1> DEFINE c == Content(v)
<1>0. IsMade(v, A)
  BY MadeType
<1>1. CASE Type(v) = "array" /\ c \in Seq(A)
  <2>1. KeyedParts(v) = {<< << "item", i >>, c[i] >> : i \in DOMAIN c}
    BY <1>1 DEF KeyedParts
  <2>2. \A i \in DOMAIN c : c[i] \in A
    BY <1>1
  <2>3. QED
    BY <2>1, <2>2 DEF PartsAmong
<1>2. CASE Type(v) = "object" /\ c \in Seq(Strings \X A)
  <2>1. KeyedParts(v) = {<< << "name", m[1] >>, m[2] >> : m \in Range(c)}
    BY <1>2 DEF KeyedParts
  <2>2. \A m \in Range(c) : m[2] \in A
    <3>1. \A i \in DOMAIN c : c[i] \in Strings \X A
      BY <1>2
    <3>2. QED
      BY <3>1 DEF Range
  <2>3. QED
    BY <2>1, <2>2 DEF PartsAmong
<1>3. CASE Type(v) # "array" /\ Type(v) # "object"
  BY <1>3 DEF PartsAmong, KeyedParts
<1>4. QED
  BY <1>0, <1>1, <1>2, <1>3 DEF IsMade

-----------------------------------------------------------------------------
(* What a value of the program is: its rank, and its parts of smaller rank. *)

TreesOrNone == Trees \cup {NoValue}

\* How deep a value of the program is nested.
Levels(v) == {n \in Nat : v \in Nested[n]}
Rank == [v \in TreesOrNone |->
           IF v \in Trees THEN CHOOSE n \in Levels(v) : \A m \in Levels(v) : n <= m ELSE 0]

LEMMA RankIs ==
  ASSUME NEW v \in Trees
  PROVE  /\ Rank[v] \in Nat /\ v \in Nested[Rank[v]] /\ Rank[v] <= Height
         /\ \A n \in Nat : v \in Nested[n] => Rank[v] <= n
<1>1. Height \in Levels(v) /\ Levels(v) \in SUBSET Nat
  BY DocumentAssumption DEF Levels, Trees
<1>2. \E n \in Levels(v) : \A m \in Levels(v) : n <= m
  BY <1>1, LeastNumber
<1>3. Rank[v] = CHOOSE n \in Levels(v) : \A m \in Levels(v) : n <= m
  BY DEF Rank, TreesOrNone
<1>4. Rank[v] \in Levels(v) /\ \A m \in Levels(v) : Rank[v] <= m
  BY <1>2, <1>3
<1>5. QED
  BY <1>1, <1>4 DEF Levels

LEMMA NoRank == Rank[NoValue] = 0 /\ NoValue \notin Trees
<1>1. NoValue \notin Trees
  <2>1. Trees = Made(IF Height = 0 THEN {} ELSE Nested[Height - 1])
    BY DocumentAssumption, NestedIs DEF Trees
  <2>2. QED
    BY <2>1, MadeType
<1>2. QED
  BY <1>1 DEF Rank, TreesOrNone

LEMMA RankNat == Rank \in Ranks(TreesOrNone) /\ \A v \in TreesOrNone : Rank[v] \in Nat
<1>1. \A v \in TreesOrNone : Rank[v] \in Nat
  BY RankIs, NoRank DEF TreesOrNone
<1>2. QED
  BY <1>1 DEF Rank, Ranks

\* The values whose parts are the values of smaller rank.
Smaller(v) == {w \in Trees : Rank[w] < Rank[v]}

LEMMA TreeMade ==
  ASSUME NEW v \in Trees
  PROVE  v \in Made(Smaller(v))
<1>1. /\ Rank[v] \in Nat /\ v \in Nested[Rank[v]] /\ Rank[v] <= Height
  BY RankIs
<1>2. CASE Rank[v] = 0
  <2>1. v \in Made({})
    BY <1>1, <1>2, NestedIs
  <2>2. QED
    BY <2>1, MadeMonotonic
<1>3. CASE Rank[v] # 0
  <2>1. Rank[v] - 1 \in Nat /\ Rank[v] - 1 <= Height /\ Height \in Nat
    <3>1. Height \in Nat
      BY DocumentAssumption
    <3>2. QED
      BY <1>1, <1>3, <3>1
  <2>2. v \in Made(Nested[Rank[v] - 1])
    BY <1>1, <1>3, NestedIs
  <2>3. ASSUME NEW w \in Nested[Rank[v] - 1] PROVE w \in Smaller(v)
    <3>1. w \in Trees
      BY <2>1, NestedMonotonic DEF Trees
    <3>2. Rank[w] <= Rank[v] - 1 /\ Rank[w] \in Nat
      BY <2>1, <3>1, RankIs
    <3>3. Rank[w] < Rank[v]
      BY <1>1, <3>2
    <3>4. QED
      BY <3>1, <3>3 DEF Smaller
  <2>4. QED
    BY <2>2, <2>3, MadeMonotonic
<1>4. QED
  BY <1>2, <1>3

\* The values of an object by name.
LEMMA GetValueIs ==
  ASSUME NEW A, NEW c \in Seq(Strings \X A), DistinctNames(c)
  PROVE  /\ \A i \in DOMAIN c : /\ c[i] = << c[i][1], c[i][2] >> /\ c[i][2] \in A
                                /\ GetValue(c, c[i][1]) = c[i][2]
         /\ \A n : n \notin NamesOf(c) => GetValue(c, n) = NoValue
<1>1. ASSUME NEW i \in DOMAIN c
      PROVE  /\ c[i] = << c[i][1], c[i][2] >> /\ c[i][2] \in A
             /\ GetValue(c, c[i][1]) = c[i][2]
  <2>1. c[i] \in Strings \X A
    OBVIOUS
  <2>2. {j \in DOMAIN c : c[j][1] = c[i][1]} = {i}
    BY DEF DistinctNames
  <2>3. Min({i}) = i
    <3>1. i \in Int
      OBVIOUS
    <3>2. QED
      BY <3>1 DEF Min
  <2>4. {i} # {}
    OBVIOUS
  <2>5. GetValue(c, c[i][1]) = c[i][2]
    BY <2>2, <2>3, <2>4, Zenon DEF GetValue
  <2>6. QED
    BY <2>1, <2>5
<1>2. ASSUME NEW n, n \notin NamesOf(c)
      PROVE  GetValue(c, n) = NoValue
  <2>1. {j \in DOMAIN c : c[j][1] = n} = {}
    BY <1>2 DEF NamesOf
  <2>2. QED
    BY <2>1, Zenon DEF GetValue
<1>3. QED
  BY <1>1, <1>2

\* Arrays and objects of the program: the parts come before the whole.
ArrayParts(v) ==
  LET c == Content(v) IN
  /\ v = << "array", c >> /\ c \in Seq(Smaller(v)) /\ Len(c) \in Nat /\ DOMAIN c = 1 .. Len(c)
  /\ \A i \in DOMAIN c : c[i] \in Smaller(v)

ObjectParts(v) ==
  LET c == Content(v) IN
  /\ v = << "object", c >> /\ c \in Seq(Strings \X Smaller(v)) /\ DistinctNames(c)
  /\ Len(c) \in Nat /\ DOMAIN c = 1 .. Len(c)
  /\ \A i \in DOMAIN c : /\ c[i] = << c[i][1], c[i][2] >> /\ c[i][1] \in Strings /\ c[i][2] \in Smaller(v)
                         /\ GetValue(c, c[i][1]) = c[i][2]
  /\ \A n : n \notin NamesOf(c) => GetValue(c, n) = NoValue

LEMMA TreeIs ==
  ASSUME NEW v \in Trees
  PROVE  /\ Type(v) = "array" => ArrayParts(v)
         /\ Type(v) = "object" => ObjectParts(v)
         /\ Type(v) # "array" /\ Type(v) # "object" => v \in Range(Scalar) /\ Type(v) \in ScalarTypes
         /\ v # NoValue
<1>1. v \in Made(Smaller(v))
  BY TreeMade
<1>2. IsMade(v, Smaller(v)) /\ v # NoValue
  BY <1>1, MadeType
<1>3. ASSUME Type(v) = "array" PROVE ArrayParts(v)
  <2>1. v = << "array", Content(v) >> /\ Content(v) \in Seq(Smaller(v))
    BY <1>2, <1>3, Zenon DEF IsMade
  <2>2. QED
    BY <2>1 DEF ArrayParts
<1>4. ASSUME Type(v) = "object" PROVE ObjectParts(v)
  <2>1. v = << "object", Content(v) >> /\ Content(v) \in Seq(Strings \X Smaller(v)) /\ DistinctNames(Content(v))
    BY <1>2, <1>4, Zenon DEF IsMade
  <2>2. /\ \A i \in DOMAIN Content(v) :
              /\ Content(v)[i] = << Content(v)[i][1], Content(v)[i][2] >> /\ Content(v)[i][2] \in Smaller(v)
              /\ GetValue(Content(v), Content(v)[i][1]) = Content(v)[i][2]
        /\ \A n : n \notin NamesOf(Content(v)) => GetValue(Content(v), n) = NoValue
    BY <2>1, GetValueIs
  <2>3. /\ Len(Content(v)) \in Nat /\ DOMAIN Content(v) = 1 .. Len(Content(v))
        /\ \A i \in DOMAIN Content(v) : Content(v)[i][1] \in Strings
    BY <2>1
  <2>4. QED
    BY <2>1, <2>2, <2>3 DEF ObjectParts
<1>5. ASSUME Type(v) # "array", Type(v) # "object"
      PROVE  v \in Range(Scalar) /\ Type(v) \in ScalarTypes
  BY <1>2, <1>5, Zenon DEF IsMade
<1>6. QED
  BY <1>2, <1>3, <1>4, <1>5

-----------------------------------------------------------------------------
(* The nodes of a value.                                                  *)

\* What the parts of any value are.
LEMMA PartsOfTree ==
  ASSUME NEW v \in TreesOrNone, NEW part \in KeyedParts(v)
  PROVE  /\ part = << part[1], part[2] >> /\ part[2] \in Trees /\ part[2] \in TreesOrNone
         /\ Rank[part[2]] < Rank[v] /\ v \in Trees
<1>1. v \in Trees
  BY NoParts DEF TreesOrNone
<1>2. PartsAmong(v, Smaller(v))
  BY <1>1, TreeMade, PartsOfMade
<1>3. QED
  BY <1>1, <1>2 DEF PartsAmong, Smaller, TreesOrNone

Keys == {part[1] : part \in UNION {KeyedParts(w) : w \in TreesOrNone}}
NodePlaces == [path : Seq(Keys), node : TreesOrNone]

NodesOf(nodes, v) ==
  {[path |-> << >>, node |-> v]} \cup UNION {Below(part[1], nodes[part[2]]) : part \in KeyedParts(v)}

LEMMA BelowIs ==
  ASSUME NEW key \in Keys, NEW nodes \in SUBSET NodePlaces
  PROVE  Below(key, nodes) \in SUBSET NodePlaces
<1>1. ASSUME NEW n \in nodes PROVE [path |-> << key >> \o n.path, node |-> n.node] \in NodePlaces
  <2>1. n.path \in Seq(Keys) /\ n.node \in TreesOrNone
    BY DEF NodePlaces
  <2>2. << key >> \o n.path \in Seq(Keys)
    BY <2>1
  <2>3. QED
    BY <2>1, <2>2 DEF NodePlaces
<1>2. QED
  BY <1>1 DEF Below

LEMMA NodesOfIs ==
  ASSUME NEW v \in TreesOrNone, NEW g, \A w \in Trees : Rank[w] < Rank[v] => g[w] \in SUBSET NodePlaces
  PROVE  NodesOf(g, v) \in SUBSET NodePlaces
<1>1. [path |-> << >>, node |-> v] \in NodePlaces
  BY DEF NodePlaces
<1>2. ASSUME NEW part \in KeyedParts(v) PROVE Below(part[1], g[part[2]]) \in SUBSET NodePlaces
  <2>1. part[1] \in Keys /\ g[part[2]] \in SUBSET NodePlaces
    BY PartsOfTree DEF Keys
  <2>2. QED
    BY <2>1, BelowIs
<1>3. QED
  BY <1>1, <1>2 DEF NodesOf

LEMMA NodesOfSame ==
  ASSUME NEW v \in TreesOrNone, NEW g, NEW h, \A w \in Trees : Rank[w] < Rank[v] => g[w] = h[w]
  PROVE  NodesOf(g, v) = NodesOf(h, v)
<1>1. ASSUME NEW part \in KeyedParts(v) PROVE g[part[2]] = h[part[2]]
  BY PartsOfTree
<1>2. QED
  BY <1>1 DEF NodesOf

\* The recursive definition of Nodes is one.
LEMMA NodesAre ==
  /\ \A v \in TreesOrNone : Nodes[v] \in SUBSET NodePlaces
  /\ \A v \in TreesOrNone : Nodes[v] = NodesOf(Nodes, v)
<1> DEFINE S == TreesOrNone
           V == SUBSET NodePlaces
           body == [p \in S \X [S -> V] |-> NodesOf(p[2], p[1])]
           N == CHOOSE f : f = [v \in S |-> NodesOf(f, v)]
<1>1. ASSUME NEW v \in S, NEW g \in [S -> V]
      PROVE  body[<<v, g>>] = NodesOf(g, v) /\ NodesOf(g, v) \in V
  <2>1. \A w \in Trees : g[w] \in V
    BY DEF TreesOrNone
  <2>2. NodesOf(g, v) \in V
    BY <2>1, NodesOfIs
  <2>3. QED
    BY <2>2
<1>2. body \in Bodies(S, V)
  BY <1>1 DEF Bodies
<1>3. Descending(S, V, Rank, body)
  <2>1. SUFFICES ASSUME NEW v \in S, NEW g \in [S -> V], NEW h \in [S -> V],
                        \A w \in S : Rank[w] < Rank[v] => g[w] = h[w]
                 PROVE  body[<<v, g>>] = body[<<v, h>>]
    BY DEF Descending
  <2>2. NodesOf(g, v) = NodesOf(h, v)
    BY <2>1, NodesOfSame DEF TreesOrNone
  <2>3. QED
    BY <1>1, <2>2
<1> HIDE DEF body
<1>4. PICK f \in [S -> V] : f = [v \in S |-> body[<<v, f>>]]
  <2>1. {} \in V /\ Rank \in Ranks(S)
    BY RankNat
  <2> HIDE DEF S, V
  <2>2. QED
    BY <1>2, <1>3, <2>1, RecursiveFunction
<1>5. f = [v \in S |-> NodesOf(f, v)]
  BY <1>1, <1>4
<1>6. N = [v \in S |-> NodesOf(N, v)]
  BY <1>5
<1>7. Nodes = N
  BY DEF Nodes, NodesOf, TreesOrNone
<1> HIDE DEF N
<1>8. \A v \in S : Nodes[v] = NodesOf(Nodes, v)
  BY <1>6, <1>7
<1>9. S \subseteq {v \in S : Nodes[v] \in V}
  <2> DEFINE T == {v \in S : Nodes[v] \in V}
  <2>1. ASSUME NEW v \in S, \A w \in S : Rank[w] < Rank[v] => w \in T PROVE v \in T
    <3>1. \A w \in Trees : Rank[w] < Rank[v] => Nodes[w] \in V
      BY <2>1 DEF TreesOrNone
    <3>2. Nodes[v] \in V
      BY <1>8, <3>1, NodesOfIs
    <3>3. QED
      BY <3>2
  <2>2. Rank \in Ranks(S)
    BY RankNat
  <2> HIDE DEF T, S
  <2>3. S \subseteq T
    BY <2>1, <2>2, RankInduction
  <2>4. QED
    BY <2>3 DEF T
<1>10. QED
  BY <1>8, <1>9

-----------------------------------------------------------------------------
(* json_value_equals(): the recursive definition of ValueEquals.          *)

LEMMA ContainerIsTree ==
  ASSUME NEW v \in TreesOrNone, Type(v) \in {"array", "object"} \cup ScalarTypes
  PROVE  v \in Trees
BY NoParts DEF TreesOrNone, ScalarTypes

\* A boolean depends on the values of its parts only.
AgreeBelow(g, h, r) ==
  \A x \in Trees : \A y \in TreesOrNone : Rank[x] < r => g[<< x, y >>] = h[<< x, y >>]

LEMMA EqualValuesSame ==
  ASSUME NEW a \in TreesOrNone, NEW b \in TreesOrNone, NEW g, NEW h, AgreeBelow(g, h, Rank[a])
  PROVE  EqualValues(g, a, b) = EqualValues(h, a, b)
<1> DEFINE c == Content(a)
           d == Content(b)
<1>1. CASE Type(a) # Type(b)
  BY <1>1, Zenon DEF EqualValues
<1>2. CASE Type(a) = "array" /\ Type(b) = "array"
  <2>1. a \in Trees /\ b \in Trees
    BY <1>2, ContainerIsTree
  <2>2. ArrayParts(a) /\ ArrayParts(b)
    BY <1>2, <2>1, TreeIs
  <2>3. ASSUME Len(c) = Len(d), NEW i \in DOMAIN c PROVE g[<< c[i], d[i] >>] = h[<< c[i], d[i] >>]
    <3>1. DOMAIN c = DOMAIN d /\ c[i] \in Smaller(a) /\ d[i] \in Smaller(b)
      BY <2>2, <2>3 DEF ArrayParts
    <3>2. QED
      BY <3>1 DEF Smaller, TreesOrNone, AgreeBelow
  <2>4. CASE Len(c) # Len(d)
    BY <1>2, <2>4, Zenon DEF EqualValues
  <2>5. CASE Len(c) = Len(d)
    BY <1>2, <2>3, <2>5, Zenon DEF EqualValues
  <2>6. QED
    BY <2>4, <2>5
<1>3. CASE Type(a) = "object" /\ Type(b) = "object"
  <2>1. a \in Trees /\ b \in Trees
    BY <1>3, ContainerIsTree
  <2>2. ObjectParts(a) /\ ObjectParts(b)
    BY <1>3, <2>1, TreeIs
  <2>3. ASSUME NEW n \in NamesOf(c)
        PROVE  g[<< GetValue(c, n), GetValue(d, n) >>] = h[<< GetValue(c, n), GetValue(d, n) >>]
    <3>1. PICK i \in DOMAIN c : n = c[i][1]
      BY DEF NamesOf
    <3>2. GetValue(c, n) \in Smaller(a)
      BY <2>2, <3>1 DEF ObjectParts
    <3>3. GetValue(d, n) \in TreesOrNone
      <4>1. CASE n \notin NamesOf(d)
        BY <2>2, <4>1 DEF ObjectParts, TreesOrNone
      <4>2. CASE n \in NamesOf(d)
        <5>1. PICK j \in DOMAIN d : n = d[j][1]
          BY <4>2 DEF NamesOf
        <5>2. QED
          BY <2>2, <5>1 DEF ObjectParts, TreesOrNone, Smaller
      <4>3. QED
        BY <4>1, <4>2
    <3>4. QED
      BY <3>2, <3>3 DEF Smaller, AgreeBelow
  <2>4. QED
    BY <1>3, <2>3, Zenon DEF EqualValues
<1>4. CASE Type(a) # "array" /\ Type(a) # "object"
  BY <1>4, Zenon DEF EqualValues
<1>5. QED
  BY <1>1, <1>2, <1>3, <1>4

LEMMA EqualValuesIs ==
  ASSUME NEW g, NEW a, NEW b
  PROVE  EqualValues(g, a, b) \in BOOLEAN
BY Zenon DEF EqualValues

PairRank == [pair \in Pairs |-> Rank[pair[1]]]

LEMMA PairRankIs ==
  /\ PairRank \in Ranks(Pairs)
  /\ \A a, b \in TreesOrNone : << a, b >> \in Pairs /\ PairRank[<< a, b >>] = Rank[a]
  /\ \A pair \in Pairs : /\ pair = << pair[1], pair[2] >>
                         /\ pair[1] \in TreesOrNone /\ pair[2] \in TreesOrNone
<1>1. Pairs = TreesOrNone \X TreesOrNone
  BY DEF Pairs, TreesOrNone
<1>2. \A pair \in Pairs : pair[1] \in TreesOrNone /\ Rank[pair[1]] \in Nat
  BY <1>1, RankNat
<1>3. QED
  BY <1>1, <1>2 DEF PairRank, Ranks

\* The recursive definition of ValueEquals is one.
LEMMA ValueEqualsIs ==
  ASSUME NEW a \in TreesOrNone, NEW b \in TreesOrNone
  PROVE  /\ ValueEquals[<< a, b >>] \in BOOLEAN
         /\ ValueEquals[<< a, b >>] = EqualValues(ValueEquals, a, b)
<1> DEFINE V == BOOLEAN
           body == [p \in Pairs \X [Pairs -> V] |-> EqualValues(p[2], p[1][1], p[1][2])]
           N == CHOOSE f : f = [pair \in Pairs |-> EqualValues(f, pair[1], pair[2])]
<1>1. ASSUME NEW pair \in Pairs, NEW g \in [Pairs -> V]
      PROVE  /\ body[<<pair, g>>] = EqualValues(g, pair[1], pair[2])
             /\ EqualValues(g, pair[1], pair[2]) \in V
  BY EqualValuesIs
<1>2. body \in Bodies(Pairs, V)
  BY EqualValuesIs DEF Bodies
<1>3. Descending(Pairs, V, PairRank, body)
  <2>1. SUFFICES ASSUME NEW pair \in Pairs, NEW g \in [Pairs -> V], NEW h \in [Pairs -> V],
                        \A q \in Pairs : PairRank[q] < PairRank[pair] => g[q] = h[q]
                 PROVE  body[<<pair, g>>] = body[<<pair, h>>]
    BY DEF Descending
  <2>2. pair[1] \in TreesOrNone /\ pair[2] \in TreesOrNone /\ PairRank[pair] = Rank[pair[1]]
    BY PairRankIs DEF PairRank
  <2>3. ASSUME NEW x \in Trees, NEW y \in TreesOrNone, Rank[x] < Rank[pair[1]]
        PROVE  g[<< x, y >>] = h[<< x, y >>]
    <3>1. x \in TreesOrNone
      BY DEF TreesOrNone
    <3>2. << x, y >> \in Pairs /\ PairRank[<< x, y >>] = Rank[x]
      BY <3>1, PairRankIs
    <3>3. QED
      BY <2>1, <2>2, <2>3, <3>2
  <2>4. EqualValues(g, pair[1], pair[2]) = EqualValues(h, pair[1], pair[2])
    <3>1. AgreeBelow(g, h, Rank[pair[1]])
      BY <2>3 DEF AgreeBelow
    <3>2. QED
      BY <2>2, <3>1, EqualValuesSame
  <2>5. QED
    BY <1>1, <2>4
<1> HIDE DEF body
<1>4. PICK f \in [Pairs -> V] : f = [pair \in Pairs |-> body[<<pair, f>>]]
  <2>1. PICK v \in V : TRUE
    OBVIOUS
  <2>0. PairRank \in Ranks(Pairs)
    BY PairRankIs
  <2> HIDE DEF V
  <2>2. QED
    BY <1>2, <1>3, <2>1, <2>0, RecursiveFunction
<1>5. f = [pair \in Pairs |-> EqualValues(f, pair[1], pair[2])]
  BY <1>1, <1>4
<1>6. N = [pair \in Pairs |-> EqualValues(N, pair[1], pair[2])]
  BY <1>5
<1>7. ValueEquals = N
  BY DEF ValueEquals
<1> HIDE DEF N
<1>8. ValueEquals[<< a, b >>] = EqualValues(ValueEquals, << a, b >>[1], << a, b >>[2])
  BY <1>6, <1>7, PairRankIs
<1>9. << a, b >>[1] = a /\ << a, b >>[2] = b
  OBVIOUS
<1>10. QED
  BY <1>8, <1>9, EqualValuesIs, Zenon

-----------------------------------------------------------------------------
(* Names, paths and keys.                                                 *)

\* An object has as many names as members.
LEMMA NamesCount ==
  ASSUME NEW A, NEW c \in Seq(A), DistinctNames(c)
  PROVE  IsFiniteSet(NamesOf(c)) /\ Cardinality(NamesOf(c)) = Len(c)
<1> DEFINE n == Len(c)
           f == [i \in 1 .. n |-> c[i][1]]
<1>1. n \in Nat /\ DOMAIN c = 1 .. n
  OBVIOUS
<1> HIDE DEF n
<1>2. f \in Bijection(1 .. n, NamesOf(c))
  <2>1. f \in [1 .. n -> NamesOf(c)]
    BY <1>1 DEF NamesOf
  <2>2. \A i, j \in 1 .. n : f[i] = f[j] => i = j
    BY <1>1 DEF DistinctNames
  <2>3. \A x \in NamesOf(c) : \E i \in 1 .. n : f[i] = x
    BY <1>1 DEF NamesOf
  <2> HIDE DEF f
  <2>4. f \in Injection(1 .. n, NamesOf(c)) /\ f \in Surjection(1 .. n, NamesOf(c))
    BY <2>1, <2>2, <2>3 DEF Injection, Surjection, IsInjective
  <2>5. QED
    BY <2>4 DEF Bijection
<1>3. ExistsBijection(1 .. n, NamesOf(c))
  BY <1>2 DEF ExistsBijection
<1>4. IsFiniteSet(1 .. n) /\ Cardinality(1 .. n) = n
  BY <1>1, FS_Interval
<1>5. QED
  BY <1>3, <1>4, FS_Bijection DEF n

LEMMA NamesSubset ==
  ASSUME NEW A, NEW c \in Seq(A), NEW d \in Seq(A), DistinctNames(c), DistinctNames(d),
         NamesOf(c) \subseteq NamesOf(d)
  PROVE  Len(c) <= Len(d) /\ (Len(c) = Len(d) => NamesOf(c) = NamesOf(d))
BY NamesCount, FS_Subset

\* Paths.
LEMMA Prefixed ==
  ASSUME NEW K, NEW k \in K, NEW l \in K, NEW p \in Seq(K), NEW q \in Seq(K)
  PROVE  /\ << k >> \o p # << >>
         /\ << k >> \o p = << l >> \o q => k = l /\ p = q
<1> DEFINE x == << k >> \o p
           y == << l >> \o q
<1>1. /\ Len(x) = Len(p) + 1 /\ x[1] = k /\ \A i \in 1 .. Len(p) : x[i + 1] = p[i]
      /\ Len(y) = Len(q) + 1 /\ y[1] = l /\ \A i \in 1 .. Len(q) : y[i + 1] = q[i]
  OBVIOUS
<1>2. << k >> \o p # << >>
  <2>1. Len(x) # 0
    BY <1>1
  <2>2. QED
    BY <2>1
<1>3. ASSUME x = y PROVE k = l /\ p = q
  <2>1. Len(p) = Len(q) /\ Len(p) \in Nat
    BY <1>1, <1>3
  <2>2. \A i \in 1 .. Len(p) : p[i] = q[i]
    BY <1>1, <1>3, <2>1
  <2>3. p = q
    BY <2>1, <2>2
  <2>4. QED
    BY <1>1, <1>3, <2>3
<1>4. QED
  BY <1>2, <1>3

KeysOf(v) == {part[1] : part \in KeyedParts(v)}

\* A key says which part is meant.
LEMMA KeysAreDistinct ==
  ASSUME NEW v \in TreesOrNone, NEW p \in KeyedParts(v), NEW q \in KeyedParts(v), p[1] = q[1]
  PROVE  p = q
<1> DEFINE c == Content(v)
<1>0. v \in Trees
  BY PartsOfTree
<1>1. CASE Type(v) = "array"
  <2>1. KeyedParts(v) = {<< << "item", i >>, c[i] >> : i \in DOMAIN c}
    BY <1>1 DEF KeyedParts
  <2>2. PICK i \in DOMAIN c : p = << << "item", i >>, c[i] >>
    BY <2>1
  <2>3. PICK j \in DOMAIN c : q = << << "item", j >>, c[j] >>
    BY <2>1
  <2>4. << "item", i >> = << "item", j >>
    BY <2>2, <2>3
  <2>5. i = j
    BY <2>4
  <2>6. QED
    BY <2>2, <2>3, <2>5
<1>2. CASE Type(v) = "object"
  <2>1. KeyedParts(v) = {<< << "name", m[1] >>, m[2] >> : m \in Range(c)}
    BY <1>2 DEF KeyedParts
  <2>2. PICK i \in DOMAIN c : p = << << "name", c[i][1] >>, c[i][2] >>
    BY <2>1 DEF Range
  <2>3. PICK j \in DOMAIN c : q = << << "name", c[j][1] >>, c[j][2] >>
    BY <2>1 DEF Range
  <2>4. << "name", c[i][1] >> = << "name", c[j][1] >>
    BY <2>2, <2>3
  <2>5. c[i][1] = c[j][1]
    BY <2>4
  <2>6. DistinctNames(c)
    BY <1>0, <1>2, TreeIs DEF ObjectParts
  <2>7. i = j
    BY <2>5, <2>6 DEF DistinctNames
  <2>8. QED
    BY <2>2, <2>3, <2>7
<1>3. CASE Type(v) # "array" /\ Type(v) # "object"
  BY <1>3 DEF KeyedParts
<1>4. QED
  BY <1>1, <1>2, <1>3

\* The nodes of a value are itself and those of its parts.
LEMMA NodeIs ==
  ASSUME NEW v \in TreesOrNone, NEW m
  PROVE  m \in Nodes[v] <=>
           \/ m = [path |-> << >>, node |-> v]
           \/ \E part \in KeyedParts(v) : \E n \in Nodes[part[2]] :
                m = [path |-> << part[1] >> \o n.path, node |-> n.node]
<1>1. Nodes[v] = NodesOf(Nodes, v)
  BY NodesAre
<1>2. \A part : m \in Below(part[1], Nodes[part[2]]) <=>
                  \E n \in Nodes[part[2]] : m = [path |-> << part[1] >> \o n.path, node |-> n.node]
  BY DEF Below
<1> DEFINE B == {Below(part[1], Nodes[part[2]]) : part \in KeyedParts(v)}
<1>3. m \in UNION B <=> \E part \in KeyedParts(v) : m \in Below(part[1], Nodes[part[2]])
  OBVIOUS
<1>4. Nodes[v] = {[path |-> << >>, node |-> v]} \cup UNION B
  BY <1>1 DEF NodesOf
<1> HIDE DEF B
<1>5. QED
  BY <1>2, <1>3, <1>4, Zenon

LEMMA NodeType ==
  ASSUME NEW v \in TreesOrNone, NEW m \in Nodes[v]
  PROVE  m.path \in Seq(Keys) /\ m.node \in TreesOrNone
BY NodesAre DEF NodePlaces

-----------------------------------------------------------------------------
(* Two values are the same under the same paths if their parts are.       *)

\* A node of v is v itself or is one of a part.
RootNode(v, m) == m.path = << >> /\ m.node = v
PartNode(part, n, m) == m.path = << part[1] >> \o n.path /\ m.node = n.node

LEMMA NodeCases ==
  ASSUME NEW v \in TreesOrNone, NEW m \in Nodes[v]
  PROVE  RootNode(v, m) \/ \E part \in KeyedParts(v) : \E n \in Nodes[part[2]] : PartNode(part, n, m)
<1>1. CASE m = [path |-> << >>, node |-> v]
  BY <1>1 DEF RootNode
<1>2. ASSUME NEW part \in KeyedParts(v), NEW n \in Nodes[part[2]],
             m = [path |-> << part[1] >> \o n.path, node |-> n.node]
      PROVE  PartNode(part, n, m)
  BY <1>2 DEF PartNode
<1>3. QED
  BY <1>1, <1>2, NodeIs

LEMMA NodeOfPart ==
  ASSUME NEW v \in TreesOrNone, NEW part \in KeyedParts(v), NEW n \in Nodes[part[2]]
  PROVE  \E m \in Nodes[v] : PartNode(part, n, m)
<1> DEFINE m == [path |-> << part[1] >> \o n.path, node |-> n.node]
<1>1. m \in Nodes[v]
  BY NodeIs
<1>2. PartNode(part, n, m)
  BY DEF PartNode
<1>3. QED
  BY <1>1, <1>2

LEMMA RootOf ==
  ASSUME NEW v \in TreesOrNone
  PROVE  \E m \in Nodes[v] : RootNode(v, m)
<1> DEFINE m == [path |-> << >>, node |-> v]
<1>1. m \in Nodes[v]
  BY NodeIs
<1>2. QED
  BY <1>1 DEF RootNode

LEMMA KeyOfPart ==
  ASSUME NEW v \in TreesOrNone, NEW part \in KeyedParts(v)
  PROVE  part[1] \in Keys
BY DEF Keys

\* Nodes of parts under the same path.
LEMMA PartNodesMeet ==
  ASSUME NEW a \in TreesOrNone, NEW b \in TreesOrNone,
         NEW p \in KeyedParts(a), NEW q \in KeyedParts(b),
         NEW m \in Nodes[p[2]], NEW n \in Nodes[q[2]], NEW mm, NEW nn,
         PartNode(p, m, mm), PartNode(q, n, nn)
  PROVE  /\ mm.path # << >> /\ nn.path # << >>
         /\ mm.path = nn.path <=> p[1] = q[1] /\ m.path = n.path
<1>1. p[2] \in TreesOrNone /\ q[2] \in TreesOrNone /\ p[1] \in Keys /\ q[1] \in Keys
  BY PartsOfTree, KeyOfPart
<1>2. m.path \in Seq(Keys) /\ n.path \in Seq(Keys)
  BY <1>1, NodeType
<1>3. /\ << p[1] >> \o m.path # << >> /\ << q[1] >> \o n.path # << >>
      /\ << p[1] >> \o m.path = << q[1] >> \o n.path => p[1] = q[1] /\ m.path = n.path
  <2> DEFINE k == p[1]
             l == q[1]
             x == m.path
             y == n.path
  <2>1. k \in Keys /\ l \in Keys /\ x \in Seq(Keys) /\ y \in Seq(Keys)
    BY <1>1, <1>2
  <2> HIDE DEF k, l, x, y
  <2>2. << k >> \o x # << >> /\ << l >> \o y # << >> /\ (<< k >> \o x = << l >> \o y => k = l /\ x = y)
    BY <2>1, Prefixed
  <2>3. QED
    BY <2>2 DEF k, l, x, y
<1>4. QED
  BY <1>3, Zenon DEF PartNode

\* Every path in v is one in w.
Covers(v, w) == Paths(Nodes[v]) \subseteq Paths(Nodes[w])

LEMMA PathsBelow ==
  ASSUME NEW a \in TreesOrNone, NEW b \in TreesOrNone, NEW p \in KeyedParts(a), Covers(a, b)
  PROVE  \E q \in KeyedParts(b) : q[1] = p[1] /\ Covers(p[2], q[2])
<1>0. p[2] \in TreesOrNone
  BY PartsOfTree
<1>1. ASSUME NEW m \in Nodes[p[2]]
      PROVE  \E q \in KeyedParts(b) : q[1] = p[1] /\ \E n \in Nodes[q[2]] : n.path = m.path
  <2>1. PICK mm \in Nodes[a] : PartNode(p, m, mm)
    BY NodeOfPart
  <2>2. PICK nn \in Nodes[b] : nn.path = mm.path
    BY DEF Paths, Covers
  <2>3. mm.path # << >>
    <3>1. p[1] \in Keys /\ m.path \in Seq(Keys)
      BY <1>0, KeyOfPart, NodeType
    <3>2. << p[1] >> \o m.path # << >>
      BY <3>1, Prefixed
    <3>3. QED
      BY <2>1, <3>2 DEF PartNode
  <2>4. PICK q \in KeyedParts(b) : \E n \in Nodes[q[2]] : PartNode(q, n, nn)
    BY <2>2, <2>3, NodeCases DEF RootNode
  <2>5. PICK n \in Nodes[q[2]] : PartNode(q, n, nn)
    BY <2>4
  <2>6. p[1] = q[1] /\ m.path = n.path
    BY <2>1, <2>2, <2>5, PartNodesMeet
  <2>7. QED
    BY <2>6
<1>2. PICK r \in Nodes[p[2]] : TRUE
  BY <1>0, RootOf
<1>3. PICK q \in KeyedParts(b) : q[1] = p[1]
  BY <1>1, <1>2
<1>4. ASSUME NEW m \in Nodes[p[2]] PROVE \E n \in Nodes[q[2]] : n.path = m.path
  <2>1. PICK s \in KeyedParts(b) : s[1] = p[1] /\ \E n \in Nodes[s[2]] : n.path = m.path
    BY <1>1
  <2>2. s = q
    BY <1>3, <2>1, KeysAreDistinct
  <2>3. QED
    BY <2>1, <2>2
<1>5. Covers(p[2], q[2])
  BY <1>4 DEF Paths, Covers
<1>6. QED
  BY <1>3, <1>5

SameNodes(a, b) ==
  /\ Paths(Nodes[a]) = Paths(Nodes[b])
  /\ \A m \in Nodes[a], n \in Nodes[b] : m.path = n.path => Near(m.node, n.node)

SameParts(a, b) ==
  /\ KeysOf(a) = KeysOf(b)
  /\ \A p \in KeyedParts(a), q \in KeyedParts(b) : p[1] = q[1] => SameNodes(p[2], q[2])

LEMMA PathsAbove ==
  ASSUME NEW a \in TreesOrNone, NEW b \in TreesOrNone,
         \A p \in KeyedParts(a) : \E q \in KeyedParts(b) : p[1] = q[1] /\ Covers(p[2], q[2])
  PROVE  Covers(a, b)
<1>1. ASSUME NEW m \in Nodes[a] PROVE \E n \in Nodes[b] : n.path = m.path
  <2>1. CASE RootNode(a, m)
    BY <2>1, RootOf DEF RootNode
  <2>2. ASSUME NEW p \in KeyedParts(a), NEW k \in Nodes[p[2]], PartNode(p, k, m)
        PROVE  \E n \in Nodes[b] : n.path = m.path
    <3>1. PICK q \in KeyedParts(b) : p[1] = q[1] /\ Covers(p[2], q[2])
      OBVIOUS
    <3>2. PICK l \in Nodes[q[2]] : l.path = k.path
      BY <3>1 DEF Paths, Covers
    <3>3. PICK n \in Nodes[b] : PartNode(q, l, n)
      BY NodeOfPart
    <3>4. QED
      BY <2>2, <3>1, <3>2, <3>3 DEF PartNode
  <2>3. QED
    BY <2>1, <2>2, NodeCases
<1>2. QED
  BY <1>1 DEF Paths, Covers

LEMMA SameNodesIs ==
  ASSUME NEW a \in TreesOrNone, NEW b \in TreesOrNone
  PROVE  SameNodes(a, b) <=> Near(a, b) /\ SameParts(a, b)
<1>1. ASSUME SameNodes(a, b) PROVE Near(a, b) /\ SameParts(a, b)
  <2>0. /\ Covers(a, b) /\ Covers(b, a)
    BY <1>1 DEF SameNodes, Covers
  <2>1. Near(a, b)
    <3>1. PICK m \in Nodes[a] : RootNode(a, m)
      BY RootOf
    <3>2. PICK n \in Nodes[b] : RootNode(b, n)
      BY RootOf
    <3>3. m.path = n.path /\ m.node = a /\ n.node = b
      BY <3>1, <3>2 DEF RootNode
    <3>4. QED
      BY <1>1, <3>3 DEF SameNodes
  <2>2. KeysOf(a) = KeysOf(b)
    <3>1. \A p \in KeyedParts(a) : \E q \in KeyedParts(b) : q[1] = p[1]
      BY <2>0, PathsBelow
    <3>2. \A p \in KeyedParts(b) : \E q \in KeyedParts(a) : q[1] = p[1]
      BY <2>0, PathsBelow
    <3>3. QED
      BY <3>1, <3>2 DEF KeysOf
  <2>3. ASSUME NEW p \in KeyedParts(a), NEW q \in KeyedParts(b), p[1] = q[1]
        PROVE  SameNodes(p[2], q[2])
    <3>1. Covers(p[2], q[2])
      <4>1. PICK s \in KeyedParts(b) : s[1] = p[1] /\ Covers(p[2], s[2])
        BY <2>0, PathsBelow
      <4>2. s = q
        BY <2>3, <4>1, KeysAreDistinct
      <4>3. QED
        BY <4>1, <4>2
    <3>2. Covers(q[2], p[2])
      <4>1. PICK s \in KeyedParts(a) : s[1] = q[1] /\ Covers(q[2], s[2])
        BY <2>0, PathsBelow
      <4>2. s = p
        BY <2>3, <4>1, KeysAreDistinct
      <4>3. QED
        BY <4>1, <4>2
    <3>3. ASSUME NEW m \in Nodes[p[2]], NEW n \in Nodes[q[2]], m.path = n.path
          PROVE  Near(m.node, n.node)
      <4>1. PICK mm \in Nodes[a] : PartNode(p, m, mm)
        BY NodeOfPart
      <4>2. PICK nn \in Nodes[b] : PartNode(q, n, nn)
        BY NodeOfPart
      <4>3. mm.path = nn.path
        BY <2>3, <3>3, <4>1, <4>2 DEF PartNode
      <4>4. Near(mm.node, nn.node)
        BY <1>1, <4>3 DEF SameNodes
      <4>5. QED
        BY <4>1, <4>2, <4>4 DEF PartNode
    <3>4. QED
      BY <3>1, <3>2, <3>3 DEF SameNodes, Covers
  <2>4. QED
    BY <2>1, <2>2, <2>3 DEF SameParts
<1>2. ASSUME Near(a, b), SameParts(a, b) PROVE SameNodes(a, b)
  <2>1. Covers(a, b)
    <3>1. ASSUME NEW p \in KeyedParts(a)
          PROVE  \E q \in KeyedParts(b) : p[1] = q[1] /\ Covers(p[2], q[2])
      <4>1. PICK q \in KeyedParts(b) : p[1] = q[1]
        BY <1>2 DEF SameParts, KeysOf
      <4>2. SameNodes(p[2], q[2])
        BY <1>2, <4>1 DEF SameParts
      <4>3. QED
        BY <4>1, <4>2 DEF SameNodes, Covers
    <3>2. QED
      BY <3>1, PathsAbove
  <2>2. Covers(b, a)
    <3>1. ASSUME NEW p \in KeyedParts(b)
          PROVE  \E q \in KeyedParts(a) : p[1] = q[1] /\ Covers(p[2], q[2])
      <4>1. PICK q \in KeyedParts(a) : p[1] = q[1]
        BY <1>2 DEF SameParts, KeysOf
      <4>2. SameNodes(q[2], p[2])
        BY <1>2, <4>1 DEF SameParts
      <4>3. QED
        BY <4>1, <4>2 DEF SameNodes, Covers
    <3>2. QED
      BY <3>1, PathsAbove
  <2>3. ASSUME NEW m \in Nodes[a], NEW n \in Nodes[b], m.path = n.path
        PROVE  Near(m.node, n.node)
    <3>1. CASE RootNode(a, m) /\ RootNode(b, n)
      BY <1>2, <3>1 DEF RootNode
    <3>2. ASSUME NEW p \in KeyedParts(a), NEW k \in Nodes[p[2]], PartNode(p, k, m)
          PROVE  ~RootNode(b, n) /\ Near(m.node, n.node)
      <4>1. m.path # << >>
        <5>1. p[1] \in Keys /\ k.path \in Seq(Keys)
          BY PartsOfTree, KeyOfPart, NodeType
        <5>2. << p[1] >> \o k.path # << >>
          BY <5>1, Prefixed
        <5>3. QED
          BY <3>2, <5>2 DEF PartNode
      <4>2. ~RootNode(b, n)
        BY <2>3, <4>1 DEF RootNode
      <4>3. PICK q \in KeyedParts(b) : \E l \in Nodes[q[2]] : PartNode(q, l, n)
        BY <4>2, NodeCases
      <4>4. PICK l \in Nodes[q[2]] : PartNode(q, l, n)
        BY <4>3
      <4>5. p[1] = q[1] /\ k.path = l.path
        BY <2>3, <3>2, <4>4, PartNodesMeet
      <4>6. Near(k.node, l.node)
        BY <1>2, <4>5 DEF SameParts, SameNodes
      <4>7. QED
        BY <3>2, <4>2, <4>4, <4>6 DEF PartNode
    <3>3. ASSUME NEW q \in KeyedParts(b), NEW l \in Nodes[q[2]], PartNode(q, l, n)
          PROVE  ~RootNode(a, m)
      <4>1. n.path # << >>
        <5>1. q[1] \in Keys /\ l.path \in Seq(Keys)
          BY PartsOfTree, KeyOfPart, NodeType
        <5>2. << q[1] >> \o l.path # << >>
          BY <5>1, Prefixed
        <5>3. QED
          BY <3>3, <5>2 DEF PartNode
      <4>2. QED
        BY <2>3, <4>1 DEF RootNode
    <3>4. QED
      BY <3>1, <3>2, <3>3, NodeCases
  <2>4. QED
    BY <2>1, <2>2, <2>3 DEF SameNodes, Covers
<1>3. QED
  BY <1>1, <1>2

-----------------------------------------------------------------------------
(* Arrays are the same item by item, objects name by name.                *)

LEMMA ArrayKeys ==
  ASSUME NEW v \in Trees, Type(v) = "array"
  PROVE  /\ \A i \in DOMAIN Content(v) : << << "item", i >>, Content(v)[i] >> \in KeyedParts(v)
         /\ \A part \in KeyedParts(v) : \E i \in DOMAIN Content(v) :
               part[1] = << "item", i >> /\ part[2] = Content(v)[i]
BY DEF KeyedParts

LEMMA ObjectKeys ==
  ASSUME NEW v \in Trees, Type(v) = "object"
  PROVE  /\ \A n \in NamesOf(Content(v)) : << << "name", n >>, GetValue(Content(v), n) >> \in KeyedParts(v)
         /\ \A part \in KeyedParts(v) : \E n \in NamesOf(Content(v)) :
               part[1] = << "name", n >> /\ part[2] = GetValue(Content(v), n)
<1> DEFINE c == Content(v)
<1>1. KeyedParts(v) = {<< << "name", m[1] >>, m[2] >> : m \in Range(c)}
  BY DEF KeyedParts
<1>2. \A i \in DOMAIN c : GetValue(c, c[i][1]) = c[i][2]
  BY TreeIs DEF ObjectParts
<1>3. ASSUME NEW n \in NamesOf(c) PROVE << << "name", n >>, GetValue(c, n) >> \in KeyedParts(v)
  <2>1. PICK i \in DOMAIN c : n = c[i][1]
    BY DEF NamesOf
  <2>2. c[i] \in Range(c) /\ GetValue(c, n) = c[i][2]
    BY <1>2, <2>1 DEF Range
  <2>3. QED
    BY <1>1, <2>1, <2>2
<1>4. ASSUME NEW part \in KeyedParts(v)
      PROVE  \E n \in NamesOf(c) : part[1] = << "name", n >> /\ part[2] = GetValue(c, n)
  <2>1. PICK m \in Range(c) : part = << << "name", m[1] >>, m[2] >>
    BY <1>1
  <2>2. PICK i \in DOMAIN c : m = c[i]
    BY <2>1 DEF Range
  <2>3. m[1] \in NamesOf(c) /\ GetValue(c, m[1]) = m[2]
    BY <1>2, <2>2 DEF NamesOf
  <2>4. QED
    BY <2>1, <2>3
<1>5. QED
  BY <1>3, <1>4

LEMMA IntervalSame ==
  ASSUME NEW m \in Nat, NEW n \in Nat, 1 .. m = 1 .. n
  PROVE  m = n
<1>1. m # 0 => m \in 1 .. m
  OBVIOUS
<1>2. n # 0 => n \in 1 .. n
  OBVIOUS
<1>3. QED
  BY <1>1, <1>2

LEMMA SameArrays ==
  ASSUME NEW a \in Trees, NEW b \in Trees, Type(a) = "array", Type(b) = "array"
  PROVE  SameParts(a, b) <=> /\ Len(Content(a)) = Len(Content(b))
                             /\ \A i \in DOMAIN Content(a) : SameNodes(Content(a)[i], Content(b)[i])
<1> DEFINE c == Content(a)
           d == Content(b)
           K(x) == << "item", x >>
<1>0. /\ DOMAIN c = 1 .. Len(c) /\ DOMAIN d = 1 .. Len(d) /\ Len(c) \in Nat /\ Len(d) \in Nat
  BY TreeIs DEF ArrayParts
<1>4. \A x, y : K(x) = K(y) => x = y
  OBVIOUS
<1>1. /\ \A i \in DOMAIN c : << K(i), c[i] >> \in KeyedParts(a)
      /\ \A part \in KeyedParts(a) : \E i \in DOMAIN c : part[1] = K(i) /\ part[2] = c[i]
  BY ArrayKeys, Zenon
<1>2. /\ \A i \in DOMAIN d : << K(i), d[i] >> \in KeyedParts(b)
      /\ \A part \in KeyedParts(b) : \E i \in DOMAIN d : part[1] = K(i) /\ part[2] = d[i]
  BY ArrayKeys, Zenon
<1> HIDE DEF c, d, K
<1>3. /\ KeysOf(a) = {K(i) : i \in DOMAIN c}
      /\ KeysOf(b) = {K(i) : i \in DOMAIN d}
  <2>1. ASSUME NEW k PROVE k \in KeysOf(a) <=> \E i \in DOMAIN c : k = K(i)
    BY <1>1 DEF KeysOf
  <2>2. ASSUME NEW k PROVE k \in KeysOf(b) <=> \E i \in DOMAIN d : k = K(i)
    BY <1>2 DEF KeysOf
  <2>3. QED
    BY <2>1, <2>2
<1>5. ASSUME SameParts(a, b)
      PROVE  Len(c) = Len(d) /\ \A i \in DOMAIN c : SameNodes(c[i], d[i])
  <2>1. DOMAIN c = DOMAIN d
    BY <1>3, <1>4, <1>5 DEF SameParts
  <2>2. Len(c) = Len(d)
    BY <1>0, <2>1, IntervalSame
  <2>3. ASSUME NEW i \in DOMAIN c PROVE SameNodes(c[i], d[i])
    <3>1. << K(i), c[i] >> \in KeyedParts(a) /\ << K(i), d[i] >> \in KeyedParts(b)
      BY <1>1, <1>2, <2>1
    <3>2. \A p \in KeyedParts(a), q \in KeyedParts(b) : p[1] = q[1] => SameNodes(p[2], q[2])
      BY <1>5 DEF SameParts
    <3>3. QED
      BY <3>1, <3>2
  <2>4. QED
    BY <2>2, <2>3
<1>6. ASSUME Len(c) = Len(d), \A i \in DOMAIN c : SameNodes(c[i], d[i])
      PROVE  SameParts(a, b)
  <2>1. KeysOf(a) = KeysOf(b)
    BY <1>0, <1>3, <1>6
  <2>2. ASSUME NEW p \in KeyedParts(a), NEW q \in KeyedParts(b), p[1] = q[1]
        PROVE  SameNodes(p[2], q[2])
    <3>1. PICK i \in DOMAIN c : p[1] = K(i) /\ p[2] = c[i]
      BY <1>1
    <3>2. PICK j \in DOMAIN d : q[1] = K(j) /\ q[2] = d[j]
      BY <1>2
    <3>3. i = j
      BY <1>4, <2>2, <3>1, <3>2
    <3>4. QED
      BY <1>6, <3>1, <3>2, <3>3
  <2>3. QED
    BY <2>1, <2>2 DEF SameParts
<1>7. QED
  BY <1>5, <1>6, Zenon DEF c, d

LEMMA SameObjects ==
  ASSUME NEW a \in Trees, NEW b \in Trees, Type(a) = "object", Type(b) = "object"
  PROVE  SameParts(a, b) <=>
           /\ NamesOf(Content(a)) = NamesOf(Content(b))
           /\ \A n \in NamesOf(Content(a)) : SameNodes(GetValue(Content(a), n), GetValue(Content(b), n))
<1> DEFINE c == Content(a)
           d == Content(b)
           K(x) == << "name", x >>
<1>4. \A x, y : K(x) = K(y) => x = y
  OBVIOUS
<1>1. /\ \A n \in NamesOf(c) : << K(n), GetValue(c, n) >> \in KeyedParts(a)
      /\ \A part \in KeyedParts(a) : \E n \in NamesOf(c) : part[1] = K(n) /\ part[2] = GetValue(c, n)
  BY ObjectKeys, Zenon
<1>2. /\ \A n \in NamesOf(d) : << K(n), GetValue(d, n) >> \in KeyedParts(b)
      /\ \A part \in KeyedParts(b) : \E n \in NamesOf(d) : part[1] = K(n) /\ part[2] = GetValue(d, n)
  BY ObjectKeys, Zenon
<1> HIDE DEF c, d, K
<1>3. /\ KeysOf(a) = {K(n) : n \in NamesOf(c)}
      /\ KeysOf(b) = {K(n) : n \in NamesOf(d)}
  BY <1>1, <1>2, ZenonT(30) DEF KeysOf
<1>5. ASSUME SameParts(a, b)
      PROVE  NamesOf(c) = NamesOf(d) /\ \A n \in NamesOf(c) : SameNodes(GetValue(c, n), GetValue(d, n))
  <2>1. NamesOf(c) = NamesOf(d)
    <3>1. {K(n) : n \in NamesOf(c)} = {K(n) : n \in NamesOf(d)}
      BY <1>3, <1>5 DEF SameParts
    <3>2. ASSUME NEW n \in NamesOf(c) PROVE n \in NamesOf(d)
      <4>1. PICK m \in NamesOf(d) : K(n) = K(m)
        BY <3>1
      <4>2. QED
        BY <1>4, <4>1
    <3>3. ASSUME NEW n \in NamesOf(d) PROVE n \in NamesOf(c)
      <4>1. PICK m \in NamesOf(c) : K(n) = K(m)
        BY <3>1
      <4>2. QED
        BY <1>4, <4>1
    <3>4. QED
      BY <3>2, <3>3
  <2>2. ASSUME NEW n \in NamesOf(c) PROVE SameNodes(GetValue(c, n), GetValue(d, n))
    <3>1. /\ << K(n), GetValue(c, n) >> \in KeyedParts(a)
          /\ << K(n), GetValue(d, n) >> \in KeyedParts(b)
      BY <1>1, <1>2, <2>1
    <3>2. \A p \in KeyedParts(a), q \in KeyedParts(b) : p[1] = q[1] => SameNodes(p[2], q[2])
      BY <1>5 DEF SameParts
    <3>3. QED
      BY <3>1, <3>2
  <2>3. QED
    BY <2>1, <2>2
<1>6. ASSUME NamesOf(c) = NamesOf(d), \A n \in NamesOf(c) : SameNodes(GetValue(c, n), GetValue(d, n))
      PROVE  SameParts(a, b)
  <2>1. KeysOf(a) = KeysOf(b)
    BY <1>3, <1>6
  <2>2. ASSUME NEW p \in KeyedParts(a), NEW q \in KeyedParts(b), p[1] = q[1]
        PROVE  SameNodes(p[2], q[2])
    <3>1. PICK m \in NamesOf(c) : p[1] = K(m) /\ p[2] = GetValue(c, m)
      BY <1>1
    <3>2. PICK n \in NamesOf(d) : q[1] = K(n) /\ q[2] = GetValue(d, n)
      BY <1>2
    <3>3. m = n
      BY <1>4, <2>2, <3>1, <3>2
    <3>4. QED
      BY <1>6, <3>1, <3>2, <3>3
  <2>3. QED
    BY <2>1, <2>2 DEF SameParts
<1>7. QED
  BY <1>5, <1>6, Zenon DEF c, d

\* Names and values of an object.
LEMMA ObjectNames ==
  ASSUME NEW v \in Trees, Type(v) = "object"
  PROVE  /\ \A n \in NamesOf(Content(v)) : GetValue(Content(v), n) \in Smaller(v)
         /\ \A n : n \notin NamesOf(Content(v)) => GetValue(Content(v), n) = NoValue
         /\ \A n : GetValue(Content(v), n) \in TreesOrNone
<1>1. ObjectParts(v)
  BY TreeIs
<1>2. \A n \in NamesOf(Content(v)) : GetValue(Content(v), n) \in Smaller(v)
  BY <1>1 DEF ObjectParts, NamesOf
<1>3. \A n : n \notin NamesOf(Content(v)) => GetValue(Content(v), n) = NoValue
  BY <1>1 DEF ObjectParts
<1>4. QED
  BY <1>2, <1>3 DEF TreesOrNone, Smaller

LEMMA ObjectSizes ==
  ASSUME NEW a \in Trees, NEW b \in Trees, Type(a) = "object", Type(b) = "object"
  PROVE  /\ Len(Content(a)) \in Nat /\ Len(Content(b)) \in Nat
         /\ NamesOf(Content(a)) \subseteq NamesOf(Content(b)) => Len(Content(a)) <= Len(Content(b))
         /\ NamesOf(Content(a)) \subseteq NamesOf(Content(b)) /\ Len(Content(a)) = Len(Content(b))
              => NamesOf(Content(a)) = NamesOf(Content(b))
         /\ NamesOf(Content(a)) = NamesOf(Content(b)) => Len(Content(a)) = Len(Content(b))
<1> DEFINE c == Content(a)
           d == Content(b)
<1>1. /\ c \in Seq(Strings \X Smaller(a)) /\ DistinctNames(c)
      /\ d \in Seq(Strings \X Smaller(b)) /\ DistinctNames(d)
  BY TreeIs DEF ObjectParts
<1>2. /\ IsFiniteSet(NamesOf(c)) /\ Cardinality(NamesOf(c)) = Len(c)
      /\ IsFiniteSet(NamesOf(d)) /\ Cardinality(NamesOf(d)) = Len(d)
  BY <1>1, NamesCount
<1>3. Len(c) \in Nat /\ Len(d) \in Nat
  BY <1>1
<1> HIDE DEF c, d
<1>4. ASSUME NamesOf(c) \subseteq NamesOf(d)
      PROVE  Len(c) <= Len(d) /\ (Len(c) = Len(d) => NamesOf(c) = NamesOf(d))
  BY <1>2, <1>4, FS_Subset
<1>5. NamesOf(c) = NamesOf(d) => Len(c) = Len(d)
  BY <1>2
<1>6. QED
  BY <1>3, <1>4, <1>5 DEF c, d

LEMMA NotSameAsNone ==
  ASSUME NEW v \in Trees
  PROVE  ~SameNodes(v, NoValue)
<1>1. Type(v) # "error"
  BY TreeIs, NoParts DEF ScalarTypes
<1>2. ~Near(v, NoValue)
  BY <1>1, NoParts, Zenon DEF Near
<1>3. v \in TreesOrNone /\ NoValue \in TreesOrNone
  BY DEF TreesOrNone
<1>4. QED
  BY <1>2, <1>3, SameNodesIs

-----------------------------------------------------------------------------
(* Equality is sameness.                                                  *)

\* Equality means sameness for the values of smaller rank.
EqualMeansSame(r) ==
  \A x \in Trees : \A y \in TreesOrNone : Rank[x] < r => (ValueEquals[<< x, y >>] <=> SameNodes(x, y))

LEMMA EqualArrays ==
  ASSUME NEW a \in Trees, NEW b \in Trees, Type(a) = "array", Type(b) = "array", EqualMeansSame(Rank[a])
  PROVE  ValueEquals[<< a, b >>] <=> SameNodes(a, b)
<1> DEFINE c == Content(a)
           d == Content(b)
<1>0. a \in TreesOrNone /\ b \in TreesOrNone
  BY DEF TreesOrNone
<1>1. ValueEquals[<< a, b >>] <=> Len(c) = Len(d) /\ \A i \in DOMAIN c : ValueEquals[<< c[i], d[i] >>]
  <2>1. ValueEquals[<< a, b >>] = EqualValues(ValueEquals, a, b)
    BY <1>0, ValueEqualsIs
  <2>2. EqualValues(ValueEquals, a, b) <=> Len(c) = Len(d) /\ \A i \in DOMAIN c : ValueEquals[<< c[i], d[i] >>]
    BY Zenon DEF EqualValues
  <2>3. QED
    BY <2>1, <2>2, Zenon
<1>2. ASSUME Len(c) = Len(d), NEW i \in DOMAIN c
      PROVE  ValueEquals[<< c[i], d[i] >>] <=> SameNodes(c[i], d[i])
  <2>1. /\ DOMAIN c = 1 .. Len(c) /\ DOMAIN d = 1 .. Len(d)
        /\ \A j \in DOMAIN c : c[j] \in Smaller(a)
        /\ \A j \in DOMAIN d : d[j] \in Smaller(b)
    BY TreeIs DEF ArrayParts
  <2>2. c[i] \in Trees /\ Rank[c[i]] < Rank[a] /\ d[i] \in TreesOrNone
    BY <1>2, <2>1 DEF Smaller, TreesOrNone
  <2>3. QED
    BY <2>2, Zenon DEF EqualMeansSame
<1>3. SameParts(a, b) <=> Len(c) = Len(d) /\ \A i \in DOMAIN c : SameNodes(c[i], d[i])
  BY SameArrays
<1>4. Near(a, b)
  BY Zenon DEF Near
<1>5. SameNodes(a, b) <=> SameParts(a, b)
  BY <1>0, <1>4, SameNodesIs
<1>6. QED
  BY <1>1, <1>2, <1>3, <1>5, Zenon

LEMMA EqualObjects ==
  ASSUME NEW a \in Trees, NEW b \in Trees, Type(a) = "object", Type(b) = "object", EqualMeansSame(Rank[a])
  PROVE  ValueEquals[<< a, b >>] <=> SameNodes(a, b)
<1> DEFINE c == Content(a)
           d == Content(b)
           equal(n) == ValueEquals[<< GetValue(c, n), GetValue(d, n) >>]
           same(n) == SameNodes(GetValue(c, n), GetValue(d, n))
<1>0. a \in TreesOrNone /\ b \in TreesOrNone
  BY DEF TreesOrNone
<1>1. ValueEquals[<< a, b >>] <=> Len(c) = Len(d) /\ \A n \in NamesOf(c) : equal(n)
  <2>1. ValueEquals[<< a, b >>] = EqualValues(ValueEquals, a, b)
    BY <1>0, ValueEqualsIs
  <2>2. EqualValues(ValueEquals, a, b) <=> Len(c) = Len(d) /\ \A n \in NamesOf(c) : equal(n)
    BY Zenon DEF EqualValues
  <2>3. QED
    BY <2>1, <2>2, Zenon
<1>2. ASSUME NEW n \in NamesOf(c)
      PROVE  (equal(n) <=> same(n)) /\ (same(n) => n \in NamesOf(d))
  <2>1. GetValue(c, n) \in Trees /\ Rank[GetValue(c, n)] < Rank[a] /\ GetValue(d, n) \in TreesOrNone
    BY ObjectNames DEF Smaller
  <2>2. equal(n) <=> same(n)
    BY <2>1, Zenon DEF EqualMeansSame
  <2>3. n \notin NamesOf(d) => ~same(n)
    BY <2>1, ObjectNames, NotSameAsNone
  <2>4. QED
    BY <2>2, <2>3, Zenon
<1>3. SameParts(a, b) <=> NamesOf(c) = NamesOf(d) /\ \A n \in NamesOf(c) : same(n)
  BY SameObjects
<1>4. Near(a, b)
  BY Zenon DEF Near
<1>5. SameNodes(a, b) <=> SameParts(a, b)
  BY <1>0, <1>4, SameNodesIs
<1> HIDE DEF equal, same
<1>6. (\A n \in NamesOf(c) : same(n)) => NamesOf(c) \subseteq NamesOf(d)
  BY <1>2
<1>7. /\ NamesOf(c) \subseteq NamesOf(d) /\ Len(c) = Len(d) => NamesOf(c) = NamesOf(d)
      /\ NamesOf(c) = NamesOf(d) => Len(c) = Len(d)
  BY ObjectSizes
<1>8. QED
  BY <1>1, <1>2, <1>3, <1>5, <1>6, <1>7, Zenon

LEMMA EqualOthers ==
  ASSUME NEW a \in TreesOrNone, NEW b \in TreesOrNone,
         Type(a) # Type(b) \/ (Type(a) # "array" /\ Type(a) # "object")
  PROVE  ValueEquals[<< a, b >>] <=> SameNodes(a, b)
<1> DEFINE c == Content(a)
           d == Content(b)
<1>1. ValueEquals[<< a, b >>] = EqualValues(ValueEquals, a, b)
  BY ValueEqualsIs
<1>2. CASE Type(a) # Type(b)
  <2>1. ~EqualValues(ValueEquals, a, b) /\ ~Near(a, b)
    BY <1>2, Zenon DEF EqualValues, Near
  <2>2. ~SameNodes(a, b)
    BY <2>1, SameNodesIs
  <2>3. QED
    BY <1>1, <2>1, <2>2, Zenon
<1>3. CASE Type(a) = Type(b) /\ Type(a) # "array" /\ Type(a) # "object"
  <2>1. KeyedParts(a) = {} /\ KeyedParts(b) = {}
    BY <1>3, Zenon DEF KeyedParts
  <2>2. SameParts(a, b)
    BY <2>1 DEF SameParts, KeysOf
  <2>3. SameNodes(a, b) <=> Near(a, b)
    BY <2>2, SameNodesIs
  <2>4. CASE Type(a) = "number"
    <3>1. a \in Trees /\ b \in Trees
      BY <1>3, <2>4, ContainerIsTree DEF ScalarTypes
    <3>2. a \in Range(Scalar) /\ b \in Range(Scalar)
      BY <1>3, <3>1, TreeIs
    <3>3. c \in Int /\ d \in Int /\ Epsilon \in Nat
      BY <1>3, <2>4, <3>2, ScalarIs, DocumentAssumption
    <3>4. c - d \in 1 - Epsilon .. Epsilon - 1 <=> c - d < Epsilon /\ d - c < Epsilon
      <4> HIDE DEF c, d
      <4>1. QED
        BY <3>3
    <3>5. Near(a, b) <=> c - d \in 1 - Epsilon .. Epsilon - 1
      BY <1>3, <2>4, Zenon DEF Near
    <3>6. EqualValues(ValueEquals, a, b) <=> c - d < Epsilon /\ d - c < Epsilon
      BY <1>3, <2>4, Zenon DEF EqualValues
    <3>7. QED
      BY <1>1, <2>3, <3>4, <3>5, <3>6, Zenon
  <2>5. CASE Type(a) # "number"
    <3>1. Near(a, b) <=> c = d
      BY <1>3, <2>5, Zenon DEF Near
    <3>2. EqualValues(ValueEquals, a, b) <=> c = d
      BY <1>3, <2>5, Zenon DEF EqualValues
    <3>3. QED
      BY <1>1, <2>3, <3>1, <3>2, Zenon
  <2>6. QED
    BY <2>4, <2>5
<1>4. QED
  BY <1>2, <1>3

\* json_value_equals() says that two values are the same under the same paths.
LEMMA EqualsMeansSame ==
  ASSUME NEW a \in TreesOrNone, NEW b \in TreesOrNone
  PROVE  ValueEquals[<< a, b >>] <=> SameNodes(a, b)
<1> DEFINE T == {x \in TreesOrNone : \A y \in TreesOrNone : ValueEquals[<< x, y >>] <=> SameNodes(x, y)}
<1>1. ASSUME NEW x \in TreesOrNone, \A w \in TreesOrNone : Rank[w] < Rank[x] => w \in T
      PROVE  x \in T
  <2>1. EqualMeansSame(Rank[x])
    BY <1>1 DEF EqualMeansSame, TreesOrNone
  <2>2. ASSUME NEW y \in TreesOrNone PROVE ValueEquals[<< x, y >>] <=> SameNodes(x, y)
    <3>1. CASE Type(x) = "array" /\ Type(y) = "array"
      BY <2>1, <3>1, ContainerIsTree, EqualArrays
    <3>2. CASE Type(x) = "object" /\ Type(y) = "object"
      BY <2>1, <3>2, ContainerIsTree, EqualObjects
    <3>3. CASE Type(x) # Type(y) \/ (Type(x) # "array" /\ Type(x) # "object")
      BY <3>3, EqualOthers
    <3>4. QED
      BY <3>1, <3>2, <3>3
  <2>3. QED
    BY <2>2
<1>2. Rank \in Ranks(TreesOrNone)
  BY RankNat
<1> HIDE DEF T
<1>3. TreesOrNone \subseteq T
  BY <1>1, <1>2, RankInduction
<1>4. QED
  BY <1>3 DEF T

-----------------------------------------------------------------------------
(* json_value_deep_copy()                                                 *)

\* A copy of a value whose parts are copied as they are is the value.
LEMMA CopyIsSame ==
  ASSUME NEW v \in Trees, NEW g, \A w \in Smaller(v) : g[w] = w
  PROVE  CopyValue(g, v) = v
<1> DEFINE c == Content(v)
<1>1. CASE Type(v) # "array" /\ Type(v) # "object"
  BY <1>1 DEF CopyValue
<1>2. CASE Type(v) = "array"
  <2>1. ArrayParts(v)
    BY <1>2, TreeIs
  <2> DEFINE part == [i \in DOMAIN c |-> g[IF Type(v) = "array" THEN c[i] ELSE GetValue(c, c[i][1])]]
  <2>2. \A i \in DOMAIN c : part[i] = c[i] /\ c[i] # NoValue
    BY <1>2, <2>1, NoRank DEF ArrayParts, Smaller
  <2>3. part = c
    <3>1. c = [i \in DOMAIN c |-> c[i]]
      BY <2>1 DEF ArrayParts
    <3>2. part = [i \in DOMAIN c |-> c[i]]
      BY <2>2
    <3>3. QED
      BY <3>1, <3>2
  <2>4. NoValue \notin Range(part)
    BY <2>2 DEF Range
  <2>5. v = << "array", part >>
    BY <2>1, <2>3 DEF ArrayParts
  <2> HIDE DEF part
  <2>6. QED
    BY <1>2, <2>4, <2>5 DEF CopyValue, part
<1>3. CASE Type(v) = "object"
  <2>1. ObjectParts(v)
    BY <1>3, TreeIs
  <2> DEFINE part == [i \in DOMAIN c |-> g[IF Type(v) = "array" THEN c[i] ELSE GetValue(c, c[i][1])]]
  <2>2. ASSUME NEW i \in DOMAIN c PROVE part[i] = c[i][2] /\ c[i][2] # NoValue
    <3>1. GetValue(c, c[i][1]) = c[i][2] /\ c[i][2] \in Smaller(v)
      BY <2>1 DEF ObjectParts
    <3>2. part[i] = g[GetValue(c, c[i][1])]
      BY <1>3
    <3>3. c[i][2] # NoValue
      BY <3>1, NoRank DEF Smaller
    <3> HIDE DEF part
    <3>4. QED
      BY <3>1, <3>2, <3>3, Zenon
  <2>3. c = [i \in DOMAIN c |-> << c[i][1], part[i] >>]
    <3>1. c = [i \in DOMAIN c |-> c[i]]
      BY <2>1 DEF ObjectParts
    <3>2. \A i \in DOMAIN c : c[i] = << c[i][1], part[i] >>
      BY <2>1, <2>2 DEF ObjectParts
    <3>3. QED
      BY <3>1, <3>2
  <2>4. NoValue \notin Range(part)
    BY <2>2 DEF Range
  <2>5. v = << "object", [i \in DOMAIN c |-> << c[i][1], part[i] >>] >> /\ DistinctNames(c)
    BY <2>1, <2>3 DEF ObjectParts
  <2> HIDE DEF part
  <2>6. QED
    BY <1>3, <2>4, <2>5 DEF CopyValue, part
<1>4. QED
  BY <1>1, <1>2, <1>3

\* json_value_deep_copy() makes the value again.
LEMMA CopyOfTree ==
  ASSUME NEW v \in Trees
  PROVE  DeepCopy[v] = v
<1> DEFINE f == [w \in Trees |-> w]
           N == CHOOSE g : g = [w \in Trees |-> CopyValue(g, w)]
<1>1. f = [w \in Trees |-> CopyValue(f, w)]
  <2>1. ASSUME NEW w \in Trees PROVE CopyValue(f, w) = w
    <3>1. \A u \in Smaller(w) : f[u] = u
      BY DEF Smaller
    <3> HIDE DEF f
    <3>2. QED
      BY <3>1, CopyIsSame
  <2>2. QED
    BY <2>1
<1> HIDE DEF f
<1>2. N = [w \in Trees |-> CopyValue(N, w)]
  BY <1>1
<1>3. DeepCopy = N
  BY DEF DeepCopy
<1> HIDE DEF N
<1> DEFINE T == {w \in TreesOrNone : w \in Trees => N[w] = w}
<1>4. ASSUME NEW w \in TreesOrNone, \A u \in TreesOrNone : Rank[u] < Rank[w] => u \in T
      PROVE  w \in T
  <2>1. \A u \in Smaller(w) : N[u] = u
    BY <1>4 DEF Smaller, TreesOrNone
  <2>2. w \in Trees => CopyValue(N, w) = w
    BY <2>1, CopyIsSame
  <2>3. QED
    BY <1>2, <2>2
<1> HIDE DEF T
<1>5. TreesOrNone \subseteq T
  BY <1>4, RankNat, RankInduction
<1>6. QED
  BY <1>3, <1>5 DEF T, TreesOrNone

-----------------------------------------------------------------------------
(* json_validate *)

LEMMA ValidateValueIs ==
  ASSUME NEW g, NEW a, NEW b
  PROVE  ValidateValue(g, a, b) \in BOOLEAN
BY Zenon DEF ValidateValue

LEMMA ValidateValueSame ==
  ASSUME NEW a \in TreesOrNone, NEW b \in TreesOrNone, NEW g, NEW h, AgreeBelow(g, h, Rank[a])
  PROVE  ValidateValue(g, a, b) = ValidateValue(h, a, b)
<1> DEFINE c == Content(a)
           d == Content(b)
<1>0. CASE Type(a) # Type(b) /\ Type(a) # "null"
  BY <1>0, Zenon DEF ValidateValue
<1>1. CASE Type(a) # "array" /\ Type(a) # "object"
  BY <1>1, Zenon DEF ValidateValue
<1>2. CASE Type(a) = "array" /\ Type(b) = "array"
  <2>1. a \in Trees /\ b \in Trees
    BY <1>2, ContainerIsTree
  <2>2. ArrayParts(a) /\ ArrayParts(b)
    BY <1>2, <2>1, TreeIs
  <2>3. ASSUME c # << >>, NEW i \in DOMAIN d PROVE g[<< c[1], d[i] >>] = h[<< c[1], d[i] >>]
    <3>1. 1 \in DOMAIN c
      BY <2>2, <2>3 DEF ArrayParts
    <3>2. c[1] \in Smaller(a) /\ d[i] \in Smaller(b)
      BY <2>2, <3>1 DEF ArrayParts
    <3>3. QED
      BY <3>2 DEF Smaller, TreesOrNone, AgreeBelow
  <2>4. CASE c = << >>
    BY <1>2, <2>4, Zenon DEF ValidateValue
  <2>5. CASE c # << >>
    BY <1>2, <2>3, <2>5, Zenon DEF ValidateValue
  <2>6. QED
    BY <2>4, <2>5
<1>3. CASE Type(a) = "object" /\ Type(b) = "object"
  <2>1. a \in Trees /\ b \in Trees
    BY <1>3, ContainerIsTree
  <2>2. ASSUME NEW n \in NamesOf(c)
        PROVE  g[<< GetValue(c, n), GetValue(d, n) >>] = h[<< GetValue(c, n), GetValue(d, n) >>]
    <3>1. GetValue(c, n) \in Smaller(a) /\ GetValue(d, n) \in TreesOrNone
      BY <1>3, <2>1, ObjectNames
    <3>2. QED
      BY <3>1 DEF Smaller, AgreeBelow
  <2>3. QED
    BY <1>3, <2>2, Zenon DEF ValidateValue
<1>4. QED
  BY <1>0, <1>1, <1>2, <1>3

\* The recursive definition of Validate is one.
LEMMA ValidateIs ==
  ASSUME NEW a \in TreesOrNone, NEW b \in TreesOrNone
  PROVE  /\ Validate[<< a, b >>] \in BOOLEAN
         /\ Validate[<< a, b >>] = ValidateValue(Validate, a, b)
<1> DEFINE V == BOOLEAN
           body == [p \in Pairs \X [Pairs -> V] |-> ValidateValue(p[2], p[1][1], p[1][2])]
           N == CHOOSE f : f = [pair \in Pairs |-> ValidateValue(f, pair[1], pair[2])]
<1>1. ASSUME NEW pair \in Pairs, NEW g \in [Pairs -> V]
      PROVE  /\ body[<<pair, g>>] = ValidateValue(g, pair[1], pair[2])
             /\ ValidateValue(g, pair[1], pair[2]) \in V
  BY ValidateValueIs
<1>2. body \in Bodies(Pairs, V)
  BY ValidateValueIs DEF Bodies
<1>3. Descending(Pairs, V, PairRank, body)
  <2>1. SUFFICES ASSUME NEW pair \in Pairs, NEW g \in [Pairs -> V], NEW h \in [Pairs -> V],
                        \A q \in Pairs : PairRank[q] < PairRank[pair] => g[q] = h[q]
                 PROVE  body[<<pair, g>>] = body[<<pair, h>>]
    BY DEF Descending
  <2>2. pair[1] \in TreesOrNone /\ pair[2] \in TreesOrNone /\ PairRank[pair] = Rank[pair[1]]
    BY PairRankIs DEF PairRank
  <2>3. ASSUME NEW x \in Trees, NEW y \in TreesOrNone, Rank[x] < Rank[pair[1]]
        PROVE  g[<< x, y >>] = h[<< x, y >>]
    <3>1. x \in TreesOrNone
      BY DEF TreesOrNone
    <3>2. << x, y >> \in Pairs /\ PairRank[<< x, y >>] = Rank[x]
      BY <3>1, PairRankIs
    <3>3. QED
      BY <2>1, <2>2, <2>3, <3>2
  <2>4. ValidateValue(g, pair[1], pair[2]) = ValidateValue(h, pair[1], pair[2])
    <3>1. AgreeBelow(g, h, Rank[pair[1]])
      BY <2>3 DEF AgreeBelow
    <3>2. QED
      BY <2>2, <3>1, ValidateValueSame
  <2>5. QED
    BY <1>1, <2>4
<1> HIDE DEF body
<1>4. PICK f \in [Pairs -> V] : f = [pair \in Pairs |-> body[<<pair, f>>]]
  <2>1. PICK v \in V : TRUE
    OBVIOUS
  <2>0. PairRank \in Ranks(Pairs)
    BY PairRankIs
  <2> HIDE DEF V
  <2>2. QED
    BY <1>2, <1>3, <2>1, <2>0, RecursiveFunction
<1>5. f = [pair \in Pairs |-> ValidateValue(f, pair[1], pair[2])]
  BY <1>1, <1>4
<1>6. N = [pair \in Pairs |-> ValidateValue(N, pair[1], pair[2])]
  BY <1>5
<1>7. Validate = N
  BY DEF Validate
<1> HIDE DEF N
<1>8. Validate[<< a, b >>] = ValidateValue(Validate, << a, b >>[1], << a, b >>[2])
  BY <1>6, <1>7, PairRankIs
<1>9. << a, b >>[1] = a /\ << a, b >>[2] = b
  OBVIOUS
<1>10. QED
  BY <1>8, <1>9, ValidateValueIs, Zenon

-----------------------------------------------------------------------------
(* What a schema says about the nodes of a value.                         *)

\* The shape of a path, key by key.
ShapeKey(k) == IF k[1] = "item" THEN << "item", 1 >> ELSE k
ShapeKeys == Keys \cup {ShapeKey(k) : k \in Keys}

LEMMA ShapeOf ==
  ASSUME NEW k \in Keys, NEW p \in Seq(Keys)
  PROVE  /\ Shape(p) \in Seq(ShapeKeys) /\ Shape(<< >>) = << >>
         /\ Shape(<< k >> \o p) = << ShapeKey(k) >> \o Shape(p)
<1> DEFINE x == << k >> \o p
<1>1. \A q : Shape(q) = [j \in DOMAIN q |-> ShapeKey(q[j])]
  BY DEF Shape, ShapeKey
<1>2. \A q \in Seq(Keys) : Shape(q) \in Seq(ShapeKeys) /\ Len(Shape(q)) = Len(q)
                            /\ \A j \in 1 .. Len(q) : Shape(q)[j] = ShapeKey(q[j])
  <2>1. ASSUME NEW q \in Seq(Keys)
        PROVE  Shape(q) \in Seq(ShapeKeys) /\ Len(Shape(q)) = Len(q)
               /\ \A j \in 1 .. Len(q) : Shape(q)[j] = ShapeKey(q[j])
    <3> DEFINE n == Len(q)
               g(y) == ShapeKey(y)
    <3>1. n \in Nat /\ DOMAIN q = 1 .. n /\ \A j \in 1 .. n : q[j] \in Keys
      OBVIOUS
    <3>2. \A j \in 1 .. n : g(q[j]) \in ShapeKeys
      BY <3>1 DEF ShapeKeys
    <3> HIDE DEF g
    <3>3. Shape(q) = [j \in 1 .. n |-> g(q[j])]
      BY <1>1, <3>1 DEF g
    <3>4. [j \in 1 .. n |-> g(q[j])] \in Seq(ShapeKeys) /\ Len([j \in 1 .. n |-> g(q[j])]) = n
      <4> HIDE DEF n
      <4>1. QED
        BY <3>1, <3>2
    <3>5. QED
      BY <3>3, <3>4 DEF g
  <2>2. QED
    BY <2>1
<1>3. x \in Seq(Keys) /\ Len(x) = Len(p) + 1 /\ x[1] = k /\ \A j \in 1 .. Len(p) : x[j + 1] = p[j]
  OBVIOUS
<1> DEFINE y == << ShapeKey(k) >> \o Shape(p)
<1>4. ShapeKey(k) \in ShapeKeys
  BY DEF ShapeKeys
<1>5. /\ y \in Seq(ShapeKeys) /\ Len(y) = Len(p) + 1 /\ y[1] = ShapeKey(k)
      /\ \A j \in 1 .. Len(p) : y[j + 1] = ShapeKey(p[j])
  <2>1. Shape(p) \in Seq(ShapeKeys) /\ Len(Shape(p)) = Len(p)
         /\ \A j \in 1 .. Len(p) : Shape(p)[j] = ShapeKey(p[j])
    BY <1>2
  <2> DEFINE s == Shape(p)
             h == ShapeKey(k)
  <2>2. s \in Seq(ShapeKeys) /\ h \in ShapeKeys /\ Len(s) \in Nat
    BY <1>4, <2>1
  <2> HIDE DEF s, h
  <2>3. LET z == << h >> \o s IN z \in Seq(ShapeKeys) /\ Len(z) = Len(s) + 1 /\ z[1] = h
               /\ \A j \in 1 .. Len(s) : z[j + 1] = s[j]
    BY <2>2
  <2>4. QED
    BY <2>1, <2>3 DEF s, h
<1>6. \A j \in 1 .. Len(p) + 1 : Shape(x)[j] = y[j]
  <2>1. ASSUME NEW j \in 1 .. Len(p) + 1 PROVE Shape(x)[j] = y[j]
    <3>1. Shape(x)[j] = ShapeKey(x[j])
      BY <1>2, <1>3
    <3>2. CASE j = 1
      BY <1>3, <1>5, <3>1, <3>2
    <3>3. CASE j # 1
      <4>1. j - 1 \in 1 .. Len(p) /\ (j - 1) + 1 = j
        BY <3>3
      <4>2. QED
        BY <1>3, <1>5, <3>1, <4>1
    <3>4. QED
      BY <3>2, <3>3
  <2>2. QED
    BY <2>1
<1>7. Shape(x) = y
  <2>1. Shape(x) \in Seq(ShapeKeys) /\ Len(Shape(x)) = Len(p) + 1
    BY <1>2, <1>3
  <2> HIDE DEF y, x
  <2>2. QED
    BY <1>5, <1>6, <2>1
<1>8. Shape(<< >>) = << >>
  BY DEF Shape
<1>9. QED
  BY <1>2, <1>7, <1>8

\* What a schema says about the nodes of a value, path by path.
Speaks(a, b) ==
  \A s \in Nodes[a], n \in Nodes[b] :
    s.path = Shape(s.path) /\ s.path = Shape(n.path) => Conforms(s.node, n.node)

\* Parts of which the schema's speaks about the value's.
Meet(p, q) == ShapeKey(p[1]) = p[1] /\ ShapeKey(q[1]) = p[1]

SpeaksBelow(a, b) ==
  \A p \in KeyedParts(a), q \in KeyedParts(b) : Meet(p, q) => Speaks(p[2], q[2])

\* Nodes of parts under the same shape.
InPlace(s, n) == s.path = Shape(s.path) /\ s.path = Shape(n.path)

LEMMA PlacesOfParts ==
  ASSUME NEW a \in TreesOrNone, NEW b \in TreesOrNone,
         NEW p \in KeyedParts(a), NEW q \in KeyedParts(b),
         NEW m \in Nodes[p[2]], NEW n \in Nodes[q[2]], NEW mm, NEW nn,
         PartNode(p, m, mm), PartNode(q, n, nn)
  PROVE  InPlace(mm, nn) <=> Meet(p, q) /\ InPlace(m, n)
<1>1. p[2] \in TreesOrNone /\ q[2] \in TreesOrNone /\ p[1] \in Keys /\ q[1] \in Keys
  BY PartsOfTree, KeyOfPart
<1>2. m.path \in Seq(Keys) /\ n.path \in Seq(Keys)
  BY <1>1, NodeType
<1> DEFINE k == p[1]
           l == q[1]
           x == m.path
           y == n.path
<1>3. k \in Keys /\ l \in Keys /\ x \in Seq(Keys) /\ y \in Seq(Keys)
  BY <1>1, <1>2
<1>4. mm.path = << k >> \o x /\ nn.path = << l >> \o y
  BY DEF PartNode
<1>5. Meet(p, q) <=> ShapeKey(k) = k /\ ShapeKey(l) = k
  BY DEF Meet
<1>6. InPlace(m, n) <=> x = Shape(x) /\ x = Shape(y)
  BY DEF InPlace
<1> HIDE DEF k, l, x, y
<1>7. /\ Shape(<< k >> \o x) = << ShapeKey(k) >> \o Shape(x) /\ Shape(x) \in Seq(ShapeKeys)
      /\ Shape(<< l >> \o y) = << ShapeKey(l) >> \o Shape(y) /\ Shape(y) \in Seq(ShapeKeys)
  BY <1>3, ShapeOf
<1>8. x \in Seq(ShapeKeys) /\ k \in ShapeKeys /\ ShapeKey(k) \in ShapeKeys /\ ShapeKey(l) \in ShapeKeys
  BY <1>3 DEF ShapeKeys
<1>9. << k >> \o x = << ShapeKey(k) >> \o Shape(x) <=> k = ShapeKey(k) /\ x = Shape(x)
  <2> DEFINE u == ShapeKey(k)
             z == Shape(x)
  <2>1. u \in ShapeKeys /\ z \in Seq(ShapeKeys) /\ k \in ShapeKeys /\ x \in Seq(ShapeKeys)
    BY <1>7, <1>8
  <2> HIDE DEF u, z
  <2>2. << k >> \o x = << u >> \o z => k = u /\ x = z
    BY <2>1, Prefixed
  <2>3. k = u /\ x = z => << k >> \o x = << u >> \o z
    OBVIOUS
  <2>4. QED
    BY <2>2, <2>3, Zenon DEF u, z
<1>10. << k >> \o x = << ShapeKey(l) >> \o Shape(y) <=> k = ShapeKey(l) /\ x = Shape(y)
  <2> DEFINE u == ShapeKey(l)
             z == Shape(y)
  <2>1. u \in ShapeKeys /\ z \in Seq(ShapeKeys) /\ k \in ShapeKeys /\ x \in Seq(ShapeKeys)
    BY <1>7, <1>8
  <2> HIDE DEF u, z
  <2>2. << k >> \o x = << u >> \o z => k = u /\ x = z
    BY <2>1, Prefixed
  <2>3. k = u /\ x = z => << k >> \o x = << u >> \o z
    OBVIOUS
  <2>4. QED
    BY <2>2, <2>3, Zenon DEF u, z
<1>11. InPlace(mm, nn) <=> << k >> \o x = Shape(<< k >> \o x) /\ << k >> \o x = Shape(<< l >> \o y)
  BY <1>4 DEF InPlace
<1>12. QED
  BY <1>5, <1>6, <1>7, <1>9, <1>10, <1>11, Zenon

\* A root and a node of a part are in different places.
LEMMA RootAndPart ==
  ASSUME NEW a \in TreesOrNone, NEW p \in KeyedParts(a), NEW m \in Nodes[p[2]], NEW mm, PartNode(p, m, mm)
  PROVE  mm.path # << >> /\ Shape(mm.path) # << >>
<1>1. p[1] \in Keys /\ m.path \in Seq(Keys)
  BY PartsOfTree, KeyOfPart, NodeType
<1>2. mm.path = << p[1] >> \o m.path
  BY DEF PartNode
<1>3. << p[1] >> \o m.path # << >>
  BY <1>1, Prefixed
<1> DEFINE k == p[1]
           x == m.path
<1>4. k \in Keys /\ x \in Seq(Keys)
  BY <1>1
<1> HIDE DEF k, x
<1>5. Shape(<< k >> \o x) = << ShapeKey(k) >> \o Shape(x) /\ Shape(x) \in Seq(ShapeKeys) /\ ShapeKey(k) \in ShapeKeys
  BY <1>4, ShapeOf DEF ShapeKeys
<1>6. << ShapeKey(k) >> \o Shape(x) # << >>
  BY <1>5, Prefixed
<1>7. QED
  BY <1>2, <1>3, <1>5, <1>6 DEF k, x

LEMMA SpeaksIs ==
  ASSUME NEW a \in TreesOrNone, NEW b \in TreesOrNone
  PROVE  Speaks(a, b) <=> Conforms(a, b) /\ SpeaksBelow(a, b)
<1>0. Speaks(a, b) <=> \A s \in Nodes[a], n \in Nodes[b] : InPlace(s, n) => Conforms(s.node, n.node)
  BY Zenon DEF Speaks, InPlace
<1>s. \A x, y : Speaks(x, y) <=> \A s \in Nodes[x], n \in Nodes[y] : InPlace(s, n) => Conforms(s.node, n.node)
  BY Zenon DEF Speaks, InPlace
<1>e. Shape(<< >>) = << >>
  BY DEF Shape
<1>1. ASSUME Speaks(a, b) PROVE Conforms(a, b)
  <2>1. PICK m \in Nodes[a] : RootNode(a, m)
    BY RootOf
  <2>2. PICK n \in Nodes[b] : RootNode(b, n)
    BY RootOf
  <2>3. InPlace(m, n) /\ m.node = a /\ n.node = b
    BY <1>e, <2>1, <2>2 DEF RootNode, InPlace
  <2>4. Conforms(m.node, n.node)
    BY <1>0, <1>1, <2>3
  <2>5. QED
    BY <2>3, <2>4
<1>2. ASSUME Speaks(a, b) PROVE SpeaksBelow(a, b)
  <2>1. ASSUME NEW p \in KeyedParts(a), NEW q \in KeyedParts(b), Meet(p, q),
               NEW m \in Nodes[p[2]], NEW n \in Nodes[q[2]], InPlace(m, n)
        PROVE  Conforms(m.node, n.node)
    <3>1. PICK mm \in Nodes[a] : PartNode(p, m, mm)
      BY NodeOfPart
    <3>2. PICK nn \in Nodes[b] : PartNode(q, n, nn)
      BY NodeOfPart
    <3>3. InPlace(mm, nn)
      BY <2>1, <3>1, <3>2, PlacesOfParts
    <3>4. Conforms(mm.node, nn.node)
      BY <1>0, <1>2, <3>3
    <3>5. mm.node = m.node /\ nn.node = n.node
      BY <3>1, <3>2 DEF PartNode
    <3>6. QED
      BY <3>4, <3>5
  <2>2. QED
    BY <1>s, <2>1 DEF SpeaksBelow
<1>3. ASSUME Conforms(a, b), SpeaksBelow(a, b) PROVE Speaks(a, b)
  <2>1. ASSUME NEW m \in Nodes[a], NEW n \in Nodes[b], InPlace(m, n)
        PROVE  Conforms(m.node, n.node)
    <3>1. CASE RootNode(a, m) /\ RootNode(b, n)
      <4>1. m.node = a /\ n.node = b
        BY <3>1 DEF RootNode
      <4>2. QED
        BY <1>3, <4>1
    <3>2. ASSUME NEW p \in KeyedParts(a), NEW k \in Nodes[p[2]], PartNode(p, k, m)
          PROVE  Conforms(m.node, n.node)
      <4>1. m.path # << >>
        BY <3>2, RootAndPart
      <4>2. ~RootNode(b, n)
        BY <1>e, <2>1, <4>1 DEF RootNode, InPlace
      <4>3. PICK q \in KeyedParts(b) : \E l \in Nodes[q[2]] : PartNode(q, l, n)
        BY <4>2, NodeCases
      <4>4. PICK l \in Nodes[q[2]] : PartNode(q, l, n)
        BY <4>3
      <4>5. Meet(p, q) /\ InPlace(k, l)
        BY <2>1, <3>2, <4>4, PlacesOfParts
      <4>6. Speaks(p[2], q[2])
        BY <1>3, <4>5 DEF SpeaksBelow
      <4>7. Conforms(k.node, l.node)
        BY <1>s, <4>5, <4>6
      <4>8. m.node = k.node /\ n.node = l.node
        BY <3>2, <4>4 DEF PartNode
      <4>9. QED
        BY <4>7, <4>8
    <3>3. ASSUME NEW q \in KeyedParts(b), NEW l \in Nodes[q[2]], PartNode(q, l, n)
          PROVE  ~RootNode(a, m)
      <4>1. Shape(n.path) # << >>
        BY <3>3, RootAndPart
      <4>2. QED
        BY <2>1, <4>1 DEF RootNode, InPlace
    <3>4. QED
      BY <3>1, <3>2, <3>3, NodeCases
  <2>2. QED
    BY <1>0, <2>1
<1>4. QED
  BY <1>1, <1>2, <1>3

-----------------------------------------------------------------------------
(* Validation is what the schema says.                                    *)

\* Validation is what a schema says for the schemas of smaller rank.
ValidateMeansSpeaks(r) ==
  \A x \in Trees : \A y \in Trees : Rank[x] < r => (Validate[<< x, y >>] <=> Speaks(x, y))

LEMMA ValidateArrays ==
  ASSUME NEW a \in Trees, NEW b \in Trees, Type(a) = "array", Type(b) = "array", ValidateMeansSpeaks(Rank[a])
  PROVE  Validate[<< a, b >>] <=> Speaks(a, b)
<1> DEFINE c == Content(a)
           d == Content(b)
           K(x) == << "item", x >>
           valid(j) == Validate[<< c[1], d[j] >>]
<1>0. a \in TreesOrNone /\ b \in TreesOrNone /\ a # NoValue /\ b # NoValue
  BY TreeIs DEF TreesOrNone
<1>1. Validate[<< a, b >>] <=> (c # << >> => \A j \in DOMAIN d : valid(j))
  <2>1. Validate[<< a, b >>] = ValidateValue(Validate, a, b)
    BY <1>0, ValidateIs
  <2>2. ValidateValue(Validate, a, b) <=> (c # << >> => \A j \in DOMAIN d : valid(j))
    BY <1>0, Zenon DEF ValidateValue
  <2>3. QED
    BY <2>1, <2>2, Zenon
<1>2. Speaks(a, b) <=> SpeaksBelow(a, b)
  <2>1. Conforms(a, b)
    BY DEF Conforms
  <2>2. QED
    BY <1>0, <2>1, SpeaksIs
<1>3. /\ DOMAIN c = 1 .. Len(c) /\ Len(c) \in Nat
      /\ \A i \in DOMAIN c : c[i] \in Smaller(a)
      /\ \A j \in DOMAIN d : d[j] \in Smaller(b)
      /\ c \in Seq(Smaller(a))
  BY TreeIs DEF ArrayParts
<1>4. c # << >> <=> 1 \in DOMAIN c
  <2> HIDE DEF c
  <2>1. QED
    BY <1>3
<1>5. \A i \in DOMAIN c, j \in DOMAIN d : Validate[<< c[i], d[j] >>] <=> Speaks(c[i], d[j])
  <2>1. ASSUME NEW i \in DOMAIN c, NEW j \in DOMAIN d PROVE Validate[<< c[i], d[j] >>] <=> Speaks(c[i], d[j])
    <3>1. c[i] \in Trees /\ Rank[c[i]] < Rank[a] /\ d[j] \in Trees
      BY <1>3 DEF Smaller
    <3>2. QED
      BY <3>1, Zenon DEF ValidateMeansSpeaks
  <2>2. QED
    BY <2>1
<1>6. /\ \A i : ShapeKey(K(i)) = K(1)
      /\ \A i, j : K(i) = K(j) => i = j
  BY DEF ShapeKey
<1>7. /\ \A i \in DOMAIN c : << K(i), c[i] >> \in KeyedParts(a)
      /\ \A part \in KeyedParts(a) : \E i \in DOMAIN c : part[1] = K(i) /\ part[2] = c[i]
  BY ArrayKeys, Zenon
<1>8. /\ \A j \in DOMAIN d : << K(j), d[j] >> \in KeyedParts(b)
      /\ \A part \in KeyedParts(b) : \E j \in DOMAIN d : part[1] = K(j) /\ part[2] = d[j]
  BY ArrayKeys, Zenon
<1> HIDE DEF c, d, K
<1>9. SpeaksBelow(a, b) <=> (1 \in DOMAIN c => \A j \in DOMAIN d : Speaks(c[1], d[j]))
  <2>1. ASSUME SpeaksBelow(a, b), 1 \in DOMAIN c, NEW j \in DOMAIN d PROVE Speaks(c[1], d[j])
    <3> DEFINE p == << K(1), c[1] >>
               q == << K(j), d[j] >>
    <3>1. p \in KeyedParts(a) /\ q \in KeyedParts(b)
      BY <1>7, <1>8, <2>1
    <3>2. p[1] = K(1) /\ p[2] = c[1] /\ q[1] = K(j) /\ q[2] = d[j]
      OBVIOUS
    <3> HIDE DEF p, q
    <3>3. Meet(p, q)
      BY <1>6, <3>2 DEF Meet
    <3>4. Speaks(p[2], q[2])
      BY <2>1, <3>1, <3>3 DEF SpeaksBelow
    <3>5. QED
      BY <3>2, <3>4
  <2>2. ASSUME 1 \in DOMAIN c => \A j \in DOMAIN d : Speaks(c[1], d[j])
        PROVE  SpeaksBelow(a, b)
    <3>1. ASSUME NEW p \in KeyedParts(a), NEW q \in KeyedParts(b), Meet(p, q) PROVE Speaks(p[2], q[2])
      <4>1. PICK i \in DOMAIN c : p[1] = K(i) /\ p[2] = c[i]
        BY <1>7
      <4>2. PICK j \in DOMAIN d : q[1] = K(j) /\ q[2] = d[j]
        BY <1>8
      <4>3. i = 1
        BY <1>6, <3>1, <4>1 DEF Meet
      <4>4. QED
        BY <2>2, <4>1, <4>2, <4>3
    <3>2. QED
      BY <3>1 DEF SpeaksBelow
  <2>3. QED
    BY <2>1, <2>2
<1>10. 1 \in DOMAIN c => \A j \in DOMAIN d : valid(j) <=> Speaks(c[1], d[j])
  BY <1>5
<1> HIDE DEF valid
<1>11. QED
  BY <1>1, <1>2, <1>4, <1>9, <1>10, Zenon

LEMMA ValidateObjects ==
  ASSUME NEW a \in Trees, NEW b \in Trees, Type(a) = "object", Type(b) = "object", ValidateMeansSpeaks(Rank[a])
  PROVE  Validate[<< a, b >>] <=> Speaks(a, b)
<1> DEFINE c == Content(a)
           d == Content(b)
           K(x) == << "name", x >>
           valid(n) == Validate[<< GetValue(c, n), GetValue(d, n) >>]
           speaks(n) == Speaks(GetValue(c, n), GetValue(d, n))
<1>0. a \in TreesOrNone /\ b \in TreesOrNone /\ a # NoValue /\ b # NoValue
  BY TreeIs DEF TreesOrNone
<1>1. Validate[<< a, b >>] <=> Len(d) >= Len(c) /\ \A n \in NamesOf(c) : valid(n)
  <2>1. Validate[<< a, b >>] = ValidateValue(Validate, a, b)
    BY <1>0, ValidateIs
  <2>2. ValidateValue(Validate, a, b) <=> Len(d) >= Len(c) /\ \A n \in NamesOf(c) : valid(n)
    BY <1>0, Zenon DEF ValidateValue
  <2>3. QED
    BY <2>1, <2>2, Zenon
<1>2. Speaks(a, b) <=> NamesOf(c) \subseteq NamesOf(d) /\ SpeaksBelow(a, b)
  <2>1. Conforms(a, b) <=> NamesOf(c) \subseteq NamesOf(d)
    BY DEF Conforms
  <2>2. QED
    BY <1>0, <2>1, SpeaksIs
<1>3. ASSUME NEW n \in NamesOf(c), n \in NamesOf(d) PROVE valid(n) <=> speaks(n)
  <2>1. GetValue(c, n) \in Trees /\ Rank[GetValue(c, n)] < Rank[a] /\ GetValue(d, n) \in Trees
    BY <1>3, ObjectNames DEF Smaller
  <2>2. QED
    BY <2>1, Zenon DEF ValidateMeansSpeaks
<1>4. ASSUME NEW n \in NamesOf(c), n \notin NamesOf(d) PROVE ~valid(n)
  <2>1. GetValue(c, n) \in TreesOrNone /\ GetValue(d, n) = NoValue
    BY <1>4, ObjectNames
  <2>2. NoValue \in TreesOrNone
    BY DEF TreesOrNone
  <2>3. Validate[<< GetValue(c, n), NoValue >>] = ValidateValue(Validate, GetValue(c, n), NoValue)
    BY <2>1, <2>2, ValidateIs
  <2>4. ~ValidateValue(Validate, GetValue(c, n), NoValue)
    BY Zenon DEF ValidateValue
  <2>5. QED
    BY <2>1, <2>3, <2>4, Zenon
<1>5. Len(c) \in Nat /\ Len(d) \in Nat /\ (NamesOf(c) \subseteq NamesOf(d) => Len(d) >= Len(c))
  BY ObjectSizes
<1>6. /\ \A n : ShapeKey(K(n)) = K(n)
      /\ \A m, n : K(m) = K(n) => m = n
  BY DEF ShapeKey
<1>7. /\ \A n \in NamesOf(c) : << K(n), GetValue(c, n) >> \in KeyedParts(a)
      /\ \A part \in KeyedParts(a) : \E n \in NamesOf(c) : part[1] = K(n) /\ part[2] = GetValue(c, n)
  BY ObjectKeys, Zenon
<1>8. /\ \A n \in NamesOf(d) : << K(n), GetValue(d, n) >> \in KeyedParts(b)
      /\ \A part \in KeyedParts(b) : \E n \in NamesOf(d) : part[1] = K(n) /\ part[2] = GetValue(d, n)
  BY ObjectKeys, Zenon
<1>s. \A n : speaks(n) <=> Speaks(GetValue(c, n), GetValue(d, n))
  OBVIOUS
<1> HIDE DEF c, d, K, valid, speaks
<1>9. SpeaksBelow(a, b) <=> \A n \in NamesOf(c) : n \in NamesOf(d) => speaks(n)
  <2>1. ASSUME SpeaksBelow(a, b), NEW n \in NamesOf(c), n \in NamesOf(d) PROVE speaks(n)
    <3> DEFINE p == << K(n), GetValue(c, n) >>
               q == << K(n), GetValue(d, n) >>
    <3>1. p \in KeyedParts(a) /\ q \in KeyedParts(b)
      BY <1>7, <1>8, <2>1
    <3>2. p[1] = K(n) /\ p[2] = GetValue(c, n) /\ q[1] = K(n) /\ q[2] = GetValue(d, n)
      OBVIOUS
    <3> HIDE DEF p, q
    <3>3. Meet(p, q)
      BY <1>6, <3>2 DEF Meet
    <3>4. Speaks(p[2], q[2])
      BY <2>1, <3>1, <3>3 DEF SpeaksBelow
    <3>5. QED
      BY <1>s, <3>2, <3>4
  <2>2. ASSUME \A n \in NamesOf(c) : n \in NamesOf(d) => speaks(n)
        PROVE  SpeaksBelow(a, b)
    <3>1. ASSUME NEW p \in KeyedParts(a), NEW q \in KeyedParts(b), Meet(p, q) PROVE Speaks(p[2], q[2])
      <4>1. PICK m \in NamesOf(c) : p[1] = K(m) /\ p[2] = GetValue(c, m)
        BY <1>7
      <4>2. PICK n \in NamesOf(d) : q[1] = K(n) /\ q[2] = GetValue(d, n)
        BY <1>8
      <4>3. m = n
        BY <1>6, <3>1, <4>1, <4>2 DEF Meet
      <4>4. QED
        BY <1>s, <2>2, <4>1, <4>2, <4>3
    <3>2. QED
      BY <3>1 DEF SpeaksBelow
  <2>3. QED
    BY <2>1, <2>2
<1>10. QED
  <2>1. (\A n \in NamesOf(c) : valid(n)) => NamesOf(c) \subseteq NamesOf(d)
    BY <1>4
  <2>2. QED
    BY <1>1, <1>2, <1>3, <1>5, <1>9, <2>1, Zenon

LEMMA ValidateOthers ==
  ASSUME NEW a \in Trees, NEW b \in Trees, Type(a) # Type(b) \/ (Type(a) # "array" /\ Type(a) # "object")
  PROVE  Validate[<< a, b >>] <=> Speaks(a, b)
<1>0. a \in TreesOrNone /\ b \in TreesOrNone /\ a # NoValue /\ b # NoValue
  BY TreeIs DEF TreesOrNone
<1>1. Validate[<< a, b >>] = ValidateValue(Validate, a, b)
  BY <1>0, ValidateIs
<1>2. CASE Type(a) # Type(b) /\ Type(a) # "null"
  <2>1. ~ValidateValue(Validate, a, b)
    BY <1>2, Zenon DEF ValidateValue
  <2>2. ~Conforms(a, b)
    BY <1>2, Zenon DEF Conforms
  <2>3. ~Speaks(a, b)
    BY <1>0, <2>2, SpeaksIs
  <2>4. QED
    BY <1>1, <2>1, <2>3, Zenon
<1>3. CASE (Type(a) = Type(b) \/ Type(a) = "null") /\ Type(a) # "array" /\ Type(a) # "object"
  <2>1. ValidateValue(Validate, a, b)
    BY <1>0, <1>3, Zenon DEF ValidateValue
  <2>2. Conforms(a, b)
    BY <1>3, Zenon DEF Conforms
  <2>3. KeyedParts(a) = {}
    BY <1>3, Zenon DEF KeyedParts
  <2>4. Speaks(a, b)
    <3>1. SpeaksBelow(a, b)
      BY <2>3 DEF SpeaksBelow
    <3>2. QED
      BY <1>0, <2>2, <3>1, SpeaksIs
  <2>5. QED
    BY <1>1, <2>1, <2>4, Zenon
<1>4. CASE Type(a) = "null"
  BY <1>3, <1>4
<1>5. QED
  BY <1>2, <1>3, <1>4

\* json_validate() accepts the values that the schema says nothing against.
LEMMA ValidateIsSpeaks ==
  ASSUME NEW a \in Trees, NEW b \in Trees
  PROVE  Validate[<< a, b >>] <=> Speaks(a, b)
<1> DEFINE T == {x \in TreesOrNone : x \in Trees => \A y \in Trees : Validate[<< x, y >>] <=> Speaks(x, y)}
<1>1. ASSUME NEW x \in TreesOrNone, \A w \in TreesOrNone : Rank[w] < Rank[x] => w \in T
      PROVE  x \in T
  <2>1. ValidateMeansSpeaks(Rank[x])
    BY <1>1 DEF ValidateMeansSpeaks, TreesOrNone
  <2>2. ASSUME x \in Trees, NEW y \in Trees PROVE Validate[<< x, y >>] <=> Speaks(x, y)
    <3>1. CASE Type(x) = "array" /\ Type(y) = "array"
      BY <2>1, <2>2, <3>1, ValidateArrays
    <3>2. CASE Type(x) = "object" /\ Type(y) = "object"
      BY <2>1, <2>2, <3>2, ValidateObjects
    <3>3. CASE Type(x) # Type(y) \/ (Type(x) # "array" /\ Type(x) # "object")
      BY <2>2, <3>3, ValidateOthers
    <3>4. QED
      BY <3>1, <3>2, <3>3
  <2>3. QED
    BY <2>2
<1>2. Rank \in Ranks(TreesOrNone) /\ Trees \subseteq TreesOrNone
  BY RankNat DEF TreesOrNone
<1> HIDE DEF T
<1>3. TreesOrNone \subseteq T
  BY <1>1, <1>2, RankInduction
<1>4. QED
  BY <1>2, <1>3 DEF T

-----------------------------------------------------------------------------
(* The documents and samples of DocSpec.                                  *)

\* What is in memory and on disk before a text is loaded.
DocInv ==
  /\ step \in {"made", "saved", "edited", "loaded", "compared"}
  /\ step # "loaded" => value \in Documents \cup Samples
  /\ step = "compared" => other \in Samples
  /\ step = "saved" => /\ value \in Documents
                       /\ \E n \in 0 .. Len(Serialize[value]) : file = SubSeq(Serialize[value], 1, n)

THEOREM DocumentInvariant == DocSpec => []DocInv
<1>1. DocInit => DocInv
  BY DEF DocInit, DocInv
<1>2. DocInv /\ [DocNext]_docVars => DocInv'
  <2> SUFFICES ASSUME DocInv, [DocNext]_docVars PROVE DocInv'
    OBVIOUS
  <2>1. CASE Save
    BY <2>1 DEF DocInv, Save
  <2>2. CASE Edit
    BY <2>2 DEF DocInv, Edit
  <2>3. CASE Load
    BY <2>3 DEF DocInv, Load
  <2>4. CASE Compare
    BY <2>4 DEF DocInv, Compare
  <2>5. CASE UNCHANGED docVars
    BY <2>5 DEF DocInv, docVars
  <2>6. QED
    BY <2>1, <2>2, <2>3, <2>4, <2>5 DEF DocNext
<1>3. QED
  BY <1>1, <1>2, PTL DEF DocSpec

THEOREM EqualityIsByPath == DocSpec => []EqualsByPath
<1>1. DocInv => EqualsByPath
  <2>1. SUFFICES ASSUME DocInv, step = "compared"
                 PROVE  /\ ValueEquals[<< value, other >>] =
                             (/\ Paths(Nodes[value]) = Paths(Nodes[other])
                              /\ \A m \in Nodes[value], n \in Nodes[other] :
                                    m.path = n.path => Near(m.node, n.node))
                        /\ DeepCopy[value] = value
    BY Zenon DEF EqualsByPath
  <2>2. value \in Trees /\ other \in Trees
    <3>1. value \in Documents \cup Samples /\ other \in Samples
      BY <2>1 DEF DocInv
    <3>2. QED
      BY <3>1, DocumentAssumption
  <2>3. value \in TreesOrNone /\ other \in TreesOrNone
    BY <2>2 DEF TreesOrNone
  <2>4. ValueEquals[<< value, other >>] <=> SameNodes(value, other)
    BY <2>3, EqualsMeansSame
  <2>5. ValueEquals[<< value, other >>] \in BOOLEAN
    BY <2>3, ValueEqualsIs
  <2>6. DeepCopy[value] = value
    BY <2>2, CopyOfTree
  <2>7. QED
    BY <2>4, <2>5, <2>6, Zenon DEF SameNodes
<1>2. QED
  BY <1>1, DocumentInvariant, PTL

THEOREM ValidationIsByPath == DocSpec => []ValidatesByPath
<1>1. DocInv => ValidatesByPath
  <2>1. SUFFICES ASSUME DocInv, step = "compared"
                 PROVE  Validate[<< value, other >>] =
                          \A s \in Nodes[value], n \in Nodes[other] :
                            s.path = Shape(s.path) /\ s.path = Shape(n.path) => Conforms(s.node, n.node)
    BY Zenon DEF ValidatesByPath
  <2>2. value \in Trees /\ other \in Trees
    <3>1. value \in Documents \cup Samples /\ other \in Samples
      BY <2>1 DEF DocInv
    <3>2. QED
      BY <3>1, DocumentAssumption
  <2>3. value \in TreesOrNone /\ other \in TreesOrNone
    BY <2>2 DEF TreesOrNone
  <2>4. Validate[<< value, other >>] <=> Speaks(value, other)
    BY <2>2, ValidateIsSpeaks
  <2>5. Validate[<< value, other >>] \in BOOLEAN
    BY <2>3, ValidateIs
  <2>6. QED
    BY <2>4, <2>5, Zenon DEF Speaks
<1>2. QED
  BY <1>1, DocumentInvariant, PTL

-----------------------------------------------------------------------------
(* The text of a container, from the texts of its parts.                  *)

\* The tokens the serializer writes.
Writable == DOMAIN Scalar \cup Separators

Comma == ","

\* The text of a container: where the texts of its parts begin.
Spelled(s, open, close, text, at) ==
  LET m == Len(text) IN
  /\ at \in [1 .. m + 1 -> Nat] /\ at[1] = 2 /\ Len(s) \in Nat /\ Len(s) >= 2 /\ s[1] = open
  /\ m = 0 => Len(s) = 2 /\ s[2] = close
  /\ m # 0 => Len(s) = at[m] + Len(text[m])
  /\ \A k \in 1 .. m : /\ at[k + 1] = at[k] + Len(text[k]) + 1 /\ at[k] >= 2
                       /\ at[k] + Len(text[k]) <= Len(s)
                       /\ \A j \in 1 .. Len(text[k]) : s[at[k] + j - 1] = text[k][j]
                       /\ s[at[k] + Len(text[k])] = IF k = m THEN close ELSE Comma

LEMMA SeparatedTexts ==
  ASSUME NEW T, Comma \in T, NEW text \in Seq(Seq(T))
  PROVE  /\ CommaSeparated(text) \in Seq(T)
         /\ text = << >> => CommaSeparated(text) = << >>
         /\ \E at \in [0 .. Len(text) -> Nat] :
              /\ at[0] = 0 /\ at[Len(text)] = Len(CommaSeparated(text))
              /\ at \in Sums(Len(text)) /\ \A k \in 1 .. Len(text) : at[k - 1] <= at[k]
              /\ Len(text) # 0 =>
                   /\ at[1] = Len(text[1])
                   /\ \A j \in 1 .. Len(text[1]) : CommaSeparated(text)[j] = text[1][j]
              /\ \A k \in 2 .. Len(text) :
                   /\ at[k] = at[k - 1] + Len(text[k]) + 1
                   /\ CommaSeparated(text)[at[k - 1] + 1] = Comma
                   /\ \A j \in 1 .. Len(text[k]) : CommaSeparated(text)[at[k - 1] + 1 + j] = text[k][j]
<1> DEFINE m == Len(text)
           s == [i \in DOMAIN text |-> IF i = 1 THEN text[i] ELSE << Comma >> \o text[i]]
           all == FlattenSeq(s)
<1>1. /\ m \in Nat /\ DOMAIN text = 1 .. m
      /\ \A k \in 1 .. m : text[k] \in Seq(T) /\ Len(text[k]) \in Nat
  OBVIOUS
<1> HIDE DEF m
<1>2. \A k \in 1 .. m : s[k] = IF k = 1 THEN text[k] ELSE << Comma >> \o text[k]
  BY <1>1
<1>3. ASSUME NEW k \in 2 .. m
      PROVE  /\ s[k] \in Seq(T) /\ Len(s[k]) = Len(text[k]) + 1 /\ s[k][1] = Comma
             /\ \A j \in 1 .. Len(text[k]) : s[k][1 + j] = text[k][j]
  <2>1. k \in 1 .. m /\ k # 1
    BY <1>1
  <2> DEFINE x == text[k]
  <2>2. s[k] = << Comma >> \o x /\ x \in Seq(T)
    BY <1>1, <1>2, <2>1
  <2> HIDE DEF x, s
  <2>3. << Comma >> \o x \in Seq(T) /\ Len(<< Comma >> \o x) = Len(x) + 1 /\ (<< Comma >> \o x)[1] = Comma
    BY <2>2
  <2>4. \A j \in 1 .. Len(x) : (<< Comma >> \o x)[1 + j] = x[j]
    BY <2>2
  <2>5. QED
    BY <2>2, <2>3, <2>4 DEF x
<1>4. \A k \in 1 .. m : s[k] \in Seq(T) /\ (k = 1 => s[k] = text[k])
  <2>1. ASSUME NEW k \in 1 .. m PROVE s[k] \in Seq(T) /\ (k = 1 => s[k] = text[k])
    <3>1. CASE k = 1
      <4>1. s[k] = text[k]
        BY <1>2, <3>1
      <4> HIDE DEF s
      <4>2. QED
        BY <1>1, <4>1
    <3>2. CASE k # 1
      <4>1. k \in 2 .. m
        BY <1>1, <3>2
      <4> HIDE DEF s
      <4>2. QED
        BY <1>3, <3>2, <4>1
    <3>3. QED
      BY <3>1, <3>2
  <2>2. QED
    BY <2>1
<1>5. s \in Seq(Seq(T)) /\ Len(s) = m
  <2>1. s = [i \in 1 .. m |-> s[i]]
    BY <1>1
  <2> HIDE DEF s
  <2> DEFINE V == Seq(T)
  <2>2. \A k \in 1 .. m : s[k] \in V
    BY <1>4
  <2> HIDE DEF V
  <2>3. [i \in 1 .. m |-> s[i]] \in Seq(V) /\ Len([i \in 1 .. m |-> s[i]]) = m
    BY <1>1, <2>2
  <2>4. s \in Seq(V) /\ Len(s) = m
    BY <2>1, <2>3, Zenon
  <2>5. QED
    BY <2>4 DEF V
<1>6. CommaSeparated(text) = all
  BY Zenon DEF CommaSeparated, Comma
<1> HIDE DEF s
<1>7. PICK at \in [0 .. m -> Nat] :
         /\ at[0] = 0 /\ at[m] = Len(all)
         /\ \A k \in 1 .. m : /\ at[k] = at[k - 1] + Len(s[k])
                              /\ \A j \in 1 .. Len(s[k]) : all[at[k - 1] + j] = s[k][j]
  <2>1. \E at \in [0 .. Len(s) -> Nat] :
         /\ at[0] = 0 /\ at[Len(s)] = Len(FlattenSeq(s))
         /\ \A k \in 1 .. Len(s) : /\ at[k] = at[k - 1] + Len(s[k])
                                   /\ \A j \in 1 .. Len(s[k]) : FlattenSeq(s)[at[k - 1] + j] = s[k][j]
    BY <1>5, FlattenPlaces, ZenonT(60)
  <2>2. Len(s) = m /\ FlattenSeq(s) = all
    BY <1>5
  <2> HIDE DEF all
  <2>3. QED
    BY <2>1, <2>2, Zenon
<1>8. all \in Seq(T)
  BY <1>5, FlattenPlaces
<1>9. m = 0 => all = << >>
  BY <1>5, <1>8, <1>7
<1> HIDE DEF all
<1>10. m # 0 => at[1] = Len(text[1]) /\ \A j \in 1 .. Len(text[1]) : all[j] = text[1][j]
  <2>1. SUFFICES ASSUME m # 0 PROVE at[1] = Len(text[1]) /\ \A j \in 1 .. Len(text[1]) : all[j] = text[1][j]
    OBVIOUS
  <2>2. 1 \in 1 .. m /\ 1 - 1 = 0
    BY <1>1, <2>1
  <2>3. s[1] = text[1] /\ Len(text[1]) \in Nat
    BY <1>1, <1>4, <2>2
  <2>4. at[1] = 0 + Len(s[1]) /\ \A j \in 1 .. Len(s[1]) : all[0 + j] = s[1][j]
    BY <1>7, <2>2
  <2>5. QED
    BY <2>3, <2>4
<1>11. ASSUME NEW k \in 2 .. m
       PROVE  /\ at[k] = at[k - 1] + Len(text[k]) + 1 /\ all[at[k - 1] + 1] = Comma
              /\ \A j \in 1 .. Len(text[k]) : all[at[k - 1] + 1 + j] = text[k][j]
  <2>1. k \in 1 .. m /\ k - 1 \in 0 .. m
    BY <1>1
  <2>2. at[k] = at[k - 1] + Len(s[k]) /\ \A j \in 1 .. Len(s[k]) : all[at[k - 1] + j] = s[k][j]
    BY <1>7, <2>1
  <2>3. Len(s[k]) = Len(text[k]) + 1 /\ Len(text[k]) \in Nat /\ at[k - 1] \in Nat
    BY <1>1, <1>3, <1>7, <2>1
  <2>4. 1 \in 1 .. Len(s[k]) /\ \A j \in 1 .. Len(text[k]) : 1 + j \in 1 .. Len(s[k])
    BY <2>3
  <2>5. all[at[k - 1] + 1] = s[k][1] /\ \A j \in 1 .. Len(text[k]) : all[at[k - 1] + (1 + j)] = s[k][1 + j]
    BY <2>2, <2>4
  <2>6. \A j \in 1 .. Len(text[k]) : at[k - 1] + (1 + j) = at[k - 1] + 1 + j
    BY <2>3
  <2>7. s[k][1] = Comma /\ \A j \in 1 .. Len(text[k]) : s[k][1 + j] = text[k][j]
    BY <1>3
  <2>8. at[k] = at[k - 1] + Len(text[k]) + 1
    <3> DEFINE x == at[k - 1]
               y == Len(text[k])
    <3>1. at[k] = x + (y + 1) /\ x \in Nat /\ y \in Nat
      BY <1>1, <2>1, <2>2, <2>3
    <3> HIDE DEF x, y
    <3>2. at[k] = x + y + 1
      BY <3>1
    <3>3. QED
      BY <3>2 DEF x, y
  <2>9. \A j \in 1 .. Len(text[k]) : all[at[k - 1] + 1 + j] = text[k][j]
    BY <2>5, <2>6, <2>7
  <2>10. QED
    BY <2>5, <2>7, <2>8, <2>9
<1>12. ASSUME NEW k \in 1 .. m PROVE at[k - 1] <= at[k]
  <2>1. k - 1 \in 0 .. m /\ k \in 0 .. m
    BY <1>1
  <2>2. at[k] = at[k - 1] + Len(s[k]) /\ at[k - 1] \in Nat /\ Len(s[k]) \in Nat
    BY <1>4, <1>7, <2>1
  <2>3. QED
    BY <2>2
<1>13. at \in Sums(m)
  BY <1>7 DEF Sums
<1>14. text = << >> => m = 0
  BY DEF m
<1>15. QED
  BY <1>6, <1>7, <1>8, <1>9, <1>10, <1>11, <1>12, <1>13, <1>14 DEF m

LEMMA Enclosed ==
  ASSUME NEW T, NEW open \in T, NEW close \in T, NEW inner \in Seq(T)
  PROVE  LET s == << open >> \o inner \o << close >> IN
         /\ s \in Seq(T) /\ Len(s) = Len(inner) + 2 /\ Len(inner) \in Nat /\ s[1] = open
         /\ s[Len(inner) + 2] = close /\ \A j \in 1 .. Len(inner) : s[1 + j] = inner[j]
<1> DEFINE a == << open >> \o inner
           s == a \o << close >>
           n == Len(inner)
<1>1. /\ a \in Seq(T) /\ Len(a) = n + 1 /\ a[1] = open /\ n \in Nat
      /\ \A j \in 1 .. n : a[1 + j] = inner[j]
  OBVIOUS
<1> HIDE DEF a
<1>2. s \in Seq(T) /\ Len(s) = Len(a) + 1 /\ s[Len(a) + 1] = close /\ \A j \in 1 .. Len(a) : s[j] = a[j]
  BY <1>1
<1> HIDE DEF s, n
<1>3. 1 \in 1 .. Len(a) /\ \A j \in 1 .. n : 1 + j \in 1 .. Len(a)
  BY <1>1
<1>4. s[1] = open /\ \A j \in 1 .. n : s[1 + j] = inner[j]
  BY <1>1, <1>2, <1>3
<1>5. Len(s) = n + 2 /\ s[n + 2] = close
  <2>1. Len(a) + 1 = n + 2
    BY <1>1
  <2>2. QED
    BY <1>2, <2>1
<1>6. QED
  BY <1>1, <1>2, <1>4, <1>5 DEF s, a, n

LEMMA ContainerLayout ==
  ASSUME NEW T, Comma \in T, NEW open \in T, NEW close \in T, NEW text \in Seq(Seq(T))
  PROVE  LET s == << open >> \o CommaSeparated(text) \o << close >> IN
         s \in Seq(T) /\ \E at : Spelled(s, open, close, text, at)
<1> DEFINE inner == CommaSeparated(text)
           s == << open >> \o inner \o << close >>
           m == Len(text)
           n == Len(inner)
<1>1. m \in Nat /\ \A k \in 1 .. m : text[k] \in Seq(T) /\ Len(text[k]) \in Nat
  OBVIOUS
<1>2. inner \in Seq(T)
  BY SeparatedTexts
<1>0. m = 0 => inner = << >>
  <2>1. m = 0 => text = << >>
    OBVIOUS
  <2> HIDE DEF m
  <2>2. QED
    BY <2>1, SeparatedTexts
<1>3. PICK b \in [0 .. m -> Nat] :
         /\ b[0] = 0 /\ b[m] = n
         /\ b \in Sums(m) /\ \A k \in 1 .. m : b[k - 1] <= b[k]
         /\ m # 0 => /\ b[1] = Len(text[1])
                     /\ \A j \in 1 .. Len(text[1]) : inner[j] = text[1][j]
         /\ \A k \in 2 .. m :
              /\ b[k] = b[k - 1] + Len(text[k]) + 1
              /\ inner[b[k - 1] + 1] = Comma
              /\ \A j \in 1 .. Len(text[k]) : inner[b[k - 1] + 1 + j] = text[k][j]
  <2>1. \E at \in [0 .. Len(text) -> Nat] :
              /\ at[0] = 0 /\ at[Len(text)] = Len(CommaSeparated(text))
              /\ at \in Sums(Len(text)) /\ \A k \in 1 .. Len(text) : at[k - 1] <= at[k]
              /\ Len(text) # 0 =>
                   /\ at[1] = Len(text[1])
                   /\ \A j \in 1 .. Len(text[1]) : CommaSeparated(text)[j] = text[1][j]
              /\ \A k \in 2 .. Len(text) :
                   /\ at[k] = at[k - 1] + Len(text[k]) + 1
                   /\ CommaSeparated(text)[at[k - 1] + 1] = Comma
                   /\ \A j \in 1 .. Len(text[k]) : CommaSeparated(text)[at[k - 1] + 1 + j] = text[k][j]
    BY SeparatedTexts
  <2>2. QED
    BY <2>1, Zenon
<1> HIDE DEF inner, m
<1>4. /\ s \in Seq(T) /\ Len(s) = n + 2 /\ n \in Nat /\ s[1] = open
      /\ s[n + 2] = close /\ \A j \in 1 .. n : s[1 + j] = inner[j]
  BY <1>2, Enclosed
<1>e. m = 0 => n = 0
  BY <1>0
<1> HIDE DEF s, n
<1> DEFINE at == [k \in 1 .. m + 1 |-> IF k = 1 THEN 2 ELSE b[k - 1] + 3]
<1>5. ASSUME NEW k \in 1 .. m
      PROVE  b[k] \in Nat /\ b[k] <= n /\ b[k - 1] \in Nat /\ k \in 0 .. m /\ k - 1 \in 0 .. m
  <2>1. k \in 0 .. m /\ k - 1 \in 0 .. m /\ m \in 0 .. m /\ k <= m
    BY <1>1
  <2>2. b[k] <= b[m]
    BY <1>1, <1>3, <2>1, NeverFalls
  <2>3. QED
    BY <1>3, <2>1, <2>2
<1>6. /\ at \in [1 .. m + 1 -> Nat] /\ at[1] = 2
      /\ \A k \in 1 .. m : at[k] = (IF k = 1 THEN 2 ELSE b[k - 1] + 3) /\ at[k + 1] = b[k] + 3
  <2>1. \A k \in 1 .. m + 1 : k # 1 => k - 1 \in 1 .. m
    BY <1>1
  <2>2. \A k \in 1 .. m + 1 : (IF k = 1 THEN 2 ELSE b[k - 1] + 3) \in Nat
    BY <1>5, <2>1
  <2>3. 1 \in 1 .. m + 1 /\ \A k \in 1 .. m : k \in 1 .. m + 1 /\ k + 1 \in 1 .. m + 1 /\ k + 1 # 1 /\ (k + 1) - 1 = k
    BY <1>1
  <2>4. QED
    BY <2>2, <2>3
<1> HIDE DEF at
<1>7. ASSUME NEW k \in 1 .. m
      PROVE  /\ at[k] \in Nat /\ at[k] >= 2 /\ at[k] + Len(text[k]) = b[k] + 2
             /\ \A j \in 1 .. Len(text[k]) : s[at[k] + j - 1] = text[k][j]
  <2> DEFINE l == Len(text[k])
  <2>0. l \in Nat /\ b[k] \in Nat /\ b[k] <= n /\ b[k - 1] \in Nat
    BY <1>1, <1>5
  <2>1. CASE k = 1
    <3>1. b[1] = Len(text[1]) /\ \A j \in 1 .. Len(text[1]) : inner[j] = text[1][j]
      BY <1>1, <1>3, <2>1
    <3>2. at[k] = 2
      BY <1>6, <2>1
    <3>3. ASSUME NEW j \in 1 .. l PROVE s[at[k] + j - 1] = text[k][j]
      <4>1. j \in 1 .. n /\ at[k] + j - 1 = 1 + j
        BY <2>0, <2>1, <3>1, <3>2, <1>4
      <4>2. QED
        BY <1>4, <2>1, <3>1, <4>1
    <3>4. QED
      BY <2>0, <2>1, <3>1, <3>2, <3>3
  <2>2. CASE k # 1
    <3>1. k \in 2 .. m
      BY <1>1, <2>2
    <3> DEFINE x == b[k - 1]
    <3>2. b[k] = x + l + 1 /\ at[k] = x + 3 /\ x \in Nat
      BY <1>3, <1>6, <2>0, <2>2, <3>1
    <3>3. \A j \in 1 .. l : inner[x + 1 + j] = text[k][j]
      BY <1>3, <3>1
    <3> HIDE DEF x
    <3>4. ASSUME NEW j \in 1 .. l PROVE s[at[k] + j - 1] = text[k][j]
      <4> HIDE DEF l
      <4>1. x + 1 + j \in 1 .. n /\ at[k] + j - 1 = 1 + (x + 1 + j)
        BY <2>0, <3>2, <1>4
      <4>2. QED
        BY <1>4, <3>3, <4>1
    <3>5. at[k] \in Nat /\ at[k] >= 2 /\ at[k] + l = b[k] + 2
      <4> HIDE DEF l
      <4>1. QED
        BY <2>0, <3>2
    <3>6. QED
      BY <3>4, <3>5
  <2>3. QED
    BY <2>1, <2>2
<1>8. ASSUME NEW k \in 1 .. m
      PROVE  /\ at[k + 1] = at[k] + Len(text[k]) + 1
             /\ at[k] + Len(text[k]) <= Len(s)
             /\ s[at[k] + Len(text[k])] = IF k = m THEN close ELSE Comma
  <2> DEFINE e == at[k] + Len(text[k])
  <2>1. e = b[k] + 2 /\ at[k + 1] = b[k] + 3 /\ b[k] \in Nat /\ b[k] <= n
    BY <1>5, <1>6, <1>7
  <2> HIDE DEF e
  <2>2. at[k + 1] = e + 1 /\ e <= Len(s)
    BY <1>4, <2>1
  <2>3. k = m => s[e] = close
    BY <1>3, <1>4, <2>1
  <2>4. ASSUME k # m PROVE s[e] = Comma
    <3>1. k + 1 \in 2 .. m /\ (k + 1) - 1 = k /\ k + 1 \in 1 .. m
      BY <1>1, <2>4
    <3>2. inner[b[k] + 1] = Comma /\ b[k + 1] = b[k] + Len(text[k + 1]) + 1
      BY <1>3, <3>1
    <3>3. b[k + 1] <= n /\ Len(text[k + 1]) \in Nat
      BY <1>1, <1>5, <3>1
    <3>4. b[k] + 1 \in 1 .. n /\ e = 1 + (b[k] + 1)
      <4> DEFINE x == b[k]
                 y == b[k + 1]
                 z == Len(text[k + 1])
      <4>1. y = x + z + 1 /\ y <= n /\ z \in Nat /\ x \in Nat /\ n \in Nat /\ e = x + 2
        BY <1>4, <2>1, <3>2, <3>3
      <4> HIDE DEF x, y, z
      <4>2. x + 1 \in 1 .. n /\ e = 1 + (x + 1)
        BY <4>1
      <4>3. QED
        BY <4>2 DEF x
    <3>5. QED
      BY <1>4, <3>2, <3>4
  <2>5. QED
    BY <2>2, <2>3, <2>4 DEF e
<1>9. m # 0 => Len(s) = at[m] + Len(text[m])
  <2>1. m # 0 => m \in 1 .. m
    BY <1>1
  <2>2. QED
    BY <1>3, <1>4, <1>7, <2>1
<1>10. Len(s) \in Nat /\ Len(s) >= 2 /\ (m = 0 => Len(s) = 2 /\ s[2] = close)
  BY <1>4, <1>e
<1>11. Spelled(s, open, close, text, at)
  BY <1>4, <1>6, <1>7, <1>8, <1>9, <1>10 DEF Spelled, m
<1>12. QED
  BY <1>4, <1>11 DEF s, inner

Colon == ":"
End == "NUL"
OpenOf(type) == IF type = "array" THEN "[" ELSE "{"
CloseOf(type) == IF type = "array" THEN "]" ELSE "}"

\* Brackets, separators and the end of the text are no scalars and differ.
LEMMA SignsAre ==
  /\ Comma \in Writable /\ Colon \in Writable
  /\ \A type : OpenOf(type) \in Writable /\ CloseOf(type) \in Writable
  /\ Comma \notin DOMAIN Scalar /\ Colon \notin DOMAIN Scalar /\ End \notin DOMAIN Scalar
  /\ \A type : OpenOf(type) \notin DOMAIN Scalar /\ CloseOf(type) \notin DOMAIN Scalar
  /\ Comma # Colon /\ Comma # End /\ Colon # End
  /\ \A type : /\ OpenOf(type) # Comma /\ OpenOf(type) # Colon /\ OpenOf(type) # End
               /\ CloseOf(type) # Comma /\ CloseOf(type) # Colon /\ CloseOf(type) # End
  /\ \A type, other_type : OpenOf(type) # CloseOf(other_type)
  /\ OpenOf("array") # OpenOf("object")
<1>1. (Separators \cup {"NUL"}) \cap DOMAIN Scalar = {}
  BY DocumentAssumption
<1>2. \A x \in Separators \cup {"NUL"} : x \notin DOMAIN Scalar
  BY <1>1, Zenon
<1>3. "," \in Separators /\ ":" \in Separators /\ \A type : OpenOf(type) \in Separators /\ CloseOf(type) \in Separators
  BY Zenon DEF Separators, OpenOf, CloseOf
<1>4. Comma # Colon /\ Comma # End /\ Colon # End
  BY Zenon DEF Comma, Colon, End
<1>5. \A type : /\ OpenOf(type) # Comma /\ OpenOf(type) # Colon /\ OpenOf(type) # End
                /\ CloseOf(type) # Comma /\ CloseOf(type) # Colon /\ CloseOf(type) # End
  BY Zenon DEF Comma, Colon, End, OpenOf, CloseOf
<1>6. \A type, other_type : OpenOf(type) # CloseOf(other_type)
  BY Zenon DEF OpenOf, CloseOf
<1>7. OpenOf("array") # OpenOf("object")
  BY Zenon DEF OpenOf
<1>8. QED
  BY <1>2, <1>3, <1>4, <1>5, <1>6, <1>7, Zenon DEF Writable, Comma, Colon, End

\* The texts of the parts of a container.
MemberText(g, c, i) == << TokenOf("string", c[i][1]), Colon >> \o g[GetValue(c, c[i][1])]
PartTexts(g, v) ==
  [i \in DOMAIN Content(v) |->
     IF Type(v) = "array" THEN g[Content(v)[i]] ELSE MemberText(g, Content(v), i)]

IsContainer(v) == Type(v) = "array" \/ Type(v) = "object"

LEMMA SerializeContainer ==
  ASSUME NEW v, NEW g, IsContainer(v)
  PROVE  SerializeValue(g, v)
           = << OpenOf(Type(v)) >> \o CommaSeparated(PartTexts(g, v)) \o << CloseOf(Type(v)) >>
<1>1. CASE Type(v) = "array"
  <2>1. PartTexts(g, v) = [i \in DOMAIN Content(v) |-> g[Content(v)[i]]]
    BY <1>1 DEF PartTexts
  <2>2. OpenOf(Type(v)) = "[" /\ CloseOf(Type(v)) = "]"
    BY <1>1, Zenon DEF OpenOf, CloseOf
  <2>3. SerializeValue(g, v)
          = << "[" >> \o CommaSeparated([i \in DOMAIN Content(v) |-> g[Content(v)[i]]]) \o << "]" >>
    BY <1>1, Zenon DEF SerializeValue
  <2>4. QED
    BY <2>1, <2>2, <2>3, Zenon
<1>2. CASE Type(v) = "object"
  <2>1. PartTexts(g, v) = [i \in DOMAIN Content(v) |-> MemberText(g, Content(v), i)]
    BY <1>2 DEF PartTexts
  <2>2. OpenOf(Type(v)) = "{" /\ CloseOf(Type(v)) = "}"
    BY <1>2, Zenon DEF OpenOf, CloseOf
  <2>3. SerializeValue(g, v)
          = << "{" >> \o CommaSeparated([i \in DOMAIN Content(v) |-> MemberText(g, Content(v), i)]) \o << "}" >>
    BY <1>2, Zenon DEF SerializeValue, MemberText, Colon
  <2>4. QED
    BY <2>1, <2>2, <2>3, Zenon
<1>3. QED
  BY <1>1, <1>2 DEF IsContainer

\* Names have tokens.
LEMMA NameToken ==
  ASSUME NEW name \in Strings
  PROVE  LET token == TokenOf("string", name) IN
         token \in DOMAIN Scalar /\ IsString(token) /\ Content(Scalar[token]) = name /\ token \in Writable
<1>1. PICK w \in Range(Scalar) : Type(w) = "string" /\ name = Content(w)
  BY DEF Strings
<1>2. TokenOf("string", name) \in DOMAIN Scalar /\ Scalar[TokenOf("string", name)] = w
  BY <1>1, ScalarIs
<1>3. QED
  BY <1>1, <1>2, Zenon DEF IsString, Writable

LEMMA PartTextsAre ==
  ASSUME NEW v \in Trees, IsContainer(v), NEW g, \A w \in Smaller(v) : g[w] \in Seq(Writable)
  PROVE  /\ PartTexts(g, v) \in Seq(Seq(Writable)) /\ Len(PartTexts(g, v)) = Len(Content(v))
         /\ Len(Content(v)) \in Nat /\ DOMAIN Content(v) = 1 .. Len(Content(v))
         /\ \A i \in 1 .. Len(Content(v)) :
              PartTexts(g, v)[i] = IF Type(v) = "array" THEN g[Content(v)[i]]
                                                        ELSE MemberText(g, Content(v), i)
<1> DEFINE c == Content(v)
           n == Len(c)
           V == Seq(Writable)
           text(i) == IF Type(v) = "array" THEN g[c[i]] ELSE MemberText(g, c, i)
<1>1. n \in Nat /\ DOMAIN c = 1 .. n
  BY TreeIs DEF IsContainer, ArrayParts, ObjectParts
<1>2. ASSUME NEW i \in 1 .. n PROVE text(i) \in V
  <2>1. CASE Type(v) = "array"
    BY <1>1, <2>1, TreeIs DEF ArrayParts
  <2>2. CASE Type(v) = "object"
    <3>1. c[i][1] \in Strings /\ GetValue(c, c[i][1]) \in Smaller(v)
      <4>1. ObjectParts(v) /\ i \in DOMAIN c
        BY <1>1, <2>2, TreeIs
      <4>2. c[i][1] \in Strings /\ c[i][2] \in Smaller(v) /\ GetValue(c, c[i][1]) = c[i][2]
        BY <4>1 DEF ObjectParts
      <4>3. QED
        BY <4>2
    <3> DEFINE a == TokenOf("string", c[i][1])
               b == g[GetValue(c, c[i][1])]
    <3>2. a \in Writable /\ Colon \in Writable /\ b \in Seq(Writable)
      BY <3>1, NameToken, SignsAre
    <3> HIDE DEF a, b
    <3>3. << a, Colon >> \o b \in Seq(Writable)
      BY <3>2
    <3>4. QED
      BY <2>2, <3>3, Zenon DEF MemberText, a, b
  <2>3. QED
    BY <2>1, <2>2 DEF IsContainer
<1>3. PartTexts(g, v) = [i \in 1 .. n |-> text(i)]
  BY <1>1 DEF PartTexts
<1> HIDE DEF V, text, n
<1>4. [i \in 1 .. n |-> text(i)] \in Seq(V) /\ Len([i \in 1 .. n |-> text(i)]) = n
  BY <1>1, <1>2
<1>5. \A i \in 1 .. n : [j \in 1 .. n |-> text(j)][i] = text(i)
  OBVIOUS
<1>6. QED
  BY <1>1, <1>3, <1>4, <1>5, Zenon DEF V, text, n

LEMMA SerializeValueIs ==
  ASSUME NEW v \in Trees, NEW g, \A w \in Smaller(v) : g[w] \in Seq(Writable)
  PROVE  SerializeValue(g, v) \in Seq(Writable)
<1>1. CASE IsContainer(v)
  <2> DEFINE text == PartTexts(g, v)
             open == OpenOf(Type(v))
             close == CloseOf(Type(v))
  <2>1. text \in Seq(Seq(Writable)) /\ Comma \in Writable /\ open \in Writable /\ close \in Writable
    BY <1>1, PartTextsAre, SignsAre
  <2>2. SerializeValue(g, v) = << open >> \o CommaSeparated(text) \o << close >>
    BY <1>1, SerializeContainer
  <2> HIDE DEF text, open, close
  <2>3. QED
    BY <2>1, <2>2, ContainerLayout
<1>2. CASE ~IsContainer(v)
  <2>1. v \in Range(Scalar)
    BY <1>2, TreeIs DEF IsContainer
  <2>2. SerializeValue(g, v) = << TokenOf(Type(v), Content(v)) >>
    BY <1>2, Zenon DEF SerializeValue, IsContainer
  <2>3. TokenOf(Type(v), Content(v)) \in Writable
    BY <2>1, ScalarIs, Zenon DEF Writable
  <2>4. QED
    BY <2>2, <2>3
<1>3. QED
  BY <1>1, <1>2

LEMMA SerializeValueSame ==
  ASSUME NEW v \in Trees, NEW g, NEW h, \A w \in Smaller(v) : g[w] = h[w]
  PROVE  SerializeValue(g, v) = SerializeValue(h, v)
<1> DEFINE c == Content(v)
<1>1. CASE Type(v) = "array"
  <2>1. \A i \in DOMAIN c : g[c[i]] = h[c[i]]
    BY <1>1, TreeIs DEF ArrayParts
  <2>2. PartTexts(g, v) = PartTexts(h, v)
    BY <1>1, <2>1 DEF PartTexts
  <2>3. QED
    BY <1>1, <2>2, SerializeContainer DEF IsContainer
<1>2. CASE Type(v) = "object"
  <2>1. \A i \in DOMAIN c : g[GetValue(c, c[i][1])] = h[GetValue(c, c[i][1])]
    BY <1>2, TreeIs DEF ObjectParts
  <2>2. \A i \in DOMAIN c : MemberText(g, c, i) = MemberText(h, c, i)
    BY <2>1, Zenon DEF MemberText
  <2>3. PartTexts(g, v) = PartTexts(h, v)
    BY <1>2, <2>2 DEF PartTexts
  <2>4. QED
    BY <1>2, <2>3, SerializeContainer DEF IsContainer
<1>3. CASE ~IsContainer(v)
  BY <1>3, Zenon DEF SerializeValue, IsContainer
<1>4. QED
  BY <1>1, <1>2, <1>3 DEF IsContainer

\* The recursive definition of Serialize is one.
LEMMA SerializeIs ==
  ASSUME NEW v \in Trees
  PROVE  Serialize[v] = SerializeValue(Serialize, v) /\ Serialize[v] \in Seq(Writable)
<1> DEFINE V == Seq(Writable)
           S == Trees
           rank == [w \in S |-> Rank[w]]
           body == [p \in S \X [S -> V] |-> SerializeValue(p[2], p[1])]
           N == CHOOSE f : f = [w \in S |-> SerializeValue(f, w)]
<1>1. ASSUME NEW w \in S, NEW g \in [S -> V]
      PROVE  body[<<w, g>>] = SerializeValue(g, w) /\ SerializeValue(g, w) \in V
  <2>1. \A u \in Smaller(w) : g[u] \in V
    BY DEF Smaller
  <2>2. SerializeValue(g, w) \in V
    BY <2>1, SerializeValueIs
  <2>3. QED
    BY <2>2
<1>2. body \in Bodies(S, V)
  BY <1>1 DEF Bodies
<1>3. rank \in Ranks(S)
  BY RankIs DEF Ranks
<1>4. Descending(S, V, rank, body)
  <2>1. SUFFICES ASSUME NEW w \in S, NEW g \in [S -> V], NEW h \in [S -> V],
                        \A u \in S : rank[u] < rank[w] => g[u] = h[u]
                 PROVE  body[<<w, g>>] = body[<<w, h>>]
    BY DEF Descending
  <2>2. \A u \in Smaller(w) : g[u] = h[u]
    BY <2>1 DEF Smaller
  <2>3. SerializeValue(g, w) = SerializeValue(h, w)
    BY <2>2, SerializeValueSame
  <2>4. QED
    BY <1>1, <2>3
<1> HIDE DEF body, rank
<1>5. PICK f \in [S -> V] : f = [w \in S |-> body[<<w, f>>]]
  <2>1. << >> \in V
    OBVIOUS
  <2> HIDE DEF S, V
  <2>2. QED
    BY <1>2, <1>3, <1>4, <2>1, RecursiveFunction
<1>6. f = [w \in S |-> SerializeValue(f, w)]
  BY <1>1, <1>5
<1>7. N = [w \in S |-> SerializeValue(N, w)]
  BY <1>6
<1>8. Serialize = N
  BY DEF Serialize
<1> HIDE DEF N
<1>9. \A w \in S : N[w] = SerializeValue(N, w)
  BY <1>7
<1> DEFINE T == {w \in TreesOrNone : w \in Trees => N[w] \in V}
<1>10. ASSUME NEW w \in TreesOrNone, \A u \in TreesOrNone : Rank[u] < Rank[w] => u \in T
       PROVE  w \in T
  <2>1. \A u \in Smaller(w) : N[u] \in V
    BY <1>10 DEF Smaller, TreesOrNone
  <2>2. w \in Trees => SerializeValue(N, w) \in V
    BY <2>1, SerializeValueIs
  <2>3. QED
    BY <1>9, <2>2
<1> HIDE DEF T
<1>11. TreesOrNone \subseteq T
  BY <1>10, RankNat, RankInduction
<1>12. QED
  BY <1>8, <1>9, <1>11 DEF T, TreesOrNone

-----------------------------------------------------------------------------
(* The functions of the parser, and what each may find.                   *)

\* The values that may stand where the nesting is k: none below MAX_NESTING.
ValuesAt(k) == IF k <= MaxNesting THEN Nested[MaxNesting - k] ELSE {}

LEMMA ValuesAtIs ==
  ASSUME NEW k \in Nat
  PROVE  ValuesAt(k) = IF k <= MaxNesting THEN Made(ValuesAt(k + 1)) ELSE {}
<1>0. MaxNesting \in Nat
  BY DocumentAssumption
<1>1. CASE k <= MaxNesting
  <2>1. MaxNesting - k \in Nat
    BY <1>0, <1>1
  <2>2. ValuesAt(k) = Made(IF MaxNesting - k = 0 THEN {} ELSE Nested[(MaxNesting - k) - 1])
    BY <1>1, <2>1, NestedIs DEF ValuesAt
  <2>3. (MaxNesting - k = 0 <=> ~(k + 1 <= MaxNesting)) /\ (MaxNesting - k) - 1 = MaxNesting - (k + 1)
    BY <1>0, <1>1
  <2>4. ValuesAt(k + 1) = IF MaxNesting - k = 0 THEN {} ELSE Nested[(MaxNesting - k) - 1]
    BY <2>3, Zenon DEF ValuesAt
  <2>5. QED
    BY <1>1, <2>2, <2>4, Zenon
<1>2. CASE ~(k <= MaxNesting)
  BY <1>2, Zenon DEF ValuesAt
<1>3. QED
  BY <1>1, <1>2

\* What a function of the parser may find.
Found(mode, k) ==
  IF mode = "value" THEN ValuesAt(k)
  ELSE IF mode = "array" THEN Seq(ValuesAt(k))
  ELSE {c \in Seq(Strings \X ValuesAt(k)) : DistinctNames(c)}

Outcomes(t, mode, i, k) ==
  {Failed} \cup {r \in [value : Found(mode, k), next : Nat] : i < r.next /\ r.next <= Len(t) + 1}

LEMMA OutcomeIs ==
  ASSUME NEW t, NEW mode, NEW i \in Nat, NEW k, NEW r
  PROVE  /\ Fails(Failed) /\ Failed \in Outcomes(t, mode, i, k)
         /\ r \in Outcomes(t, mode, i, k) =>
              /\ r.next \in Nat /\ (Fails(r) <=> r = Failed)
              /\ ~Fails(r) => /\ r.value \in Found(mode, k) /\ i < r.next /\ r.next <= Len(t) + 1
                              /\ r = [value |-> r.value, next |-> r.next]
<1>1. Fails(Failed) /\ Failed.next = 0 /\ Failed \in Outcomes(t, mode, i, k)
  BY DEF Fails, Failed, Outcomes
<1>2. ASSUME r \in Outcomes(t, mode, i, k), r # Failed
      PROVE  /\ r.next \in Nat /\ ~Fails(r) /\ r.value \in Found(mode, k) /\ i < r.next /\ r.next <= Len(t) + 1
             /\ r = [value |-> r.value, next |-> r.next]
  <2>1. r \in [value : Found(mode, k), next : Nat] /\ i < r.next /\ r.next <= Len(t) + 1
    BY <1>2 DEF Outcomes
  <2>2. QED
    BY <2>1 DEF Fails
<1>3. QED
  BY <1>1, <1>2

LEMMA OutcomeMade ==
  ASSUME NEW t, NEW mode, NEW i, NEW k, NEW v, NEW next, NEW r,
         r = [value |-> v, next |-> next], v \in Found(mode, k),
         next \in Nat, i < next, next <= Len(t) + 1
  PROVE  r \in Outcomes(t, mode, i, k)
BY DEF Outcomes

LEMMA TokenAtIs ==
  ASSUME NEW t, NEW i
  PROVE  /\ TokenAt(t, i) # End => i <= Len(t)
         /\ i <= Len(t) => TokenAt(t, i) = t[i]
         /\ ~(i <= Len(t)) => TokenAt(t, i) = End
BY Zenon DEF TokenAt, End

\* The functions of the parser, with their signs named.
LEMMA ParseContainerIs ==
  ASSUME NEW t, NEW parse, NEW type, NEW close, NEW i, NEW k, NEW inside,
         inside = parse[<< type, i + 1, k + 1 >>]
  PROVE  ParseContainer(t, parse, type, close, i, k) =
           IF TokenAt(t, i + 1) = close THEN [value |-> << type, << >> >>, next |-> i + 2]
           ELSE IF Fails(inside) THEN Failed
           ELSE [value |-> << type, inside.value >>, next |-> inside.next]
BY Zenon DEF ParseContainer

LEMMA ParseValueIs ==
  ASSUME NEW t, NEW parse, NEW i, NEW k
  PROVE  ParseValue(t, parse, i, k) =
           IF k > MaxNesting THEN Failed
           ELSE IF TokenAt(t, i) \in DOMAIN Scalar THEN ParseScalar(t, i)
           ELSE IF TokenAt(t, i) = OpenOf("object")
           THEN ParseContainer(t, parse, "object", CloseOf("object"), i, k)
           ELSE IF TokenAt(t, i) = OpenOf("array")
           THEN ParseContainer(t, parse, "array", CloseOf("array"), i, k)
           ELSE Failed
<1>1. /\ OpenOf("object") = "{" /\ CloseOf("object") = "}"
      /\ OpenOf("array") = "[" /\ CloseOf("array") = "]"
  BY Zenon DEF OpenOf, CloseOf
<1>2. QED
  BY <1>1, Zenon DEF ParseValue

\* What each of them finds is an outcome.
LEMMA ParseContainerInto ==
  ASSUME NEW T, NEW t \in Seq(T), NEW i \in Nat, NEW k \in Nat, NEW parse, k <= MaxNesting,
         NEW type \in {"array", "object"},
         parse[<< type, i + 1, k + 1 >>] \in Outcomes(t, type, i + 1, k + 1)
  PROVE  ParseContainer(t, parse, type, CloseOf(type), i, k) \in Outcomes(t, "value", i, k)
<1> DEFINE inside == parse[<< type, i + 1, k + 1 >>]
           result == ParseContainer(t, parse, type, CloseOf(type), i, k)
<1> SUFFICES result \in Outcomes(t, "value", i, k)
  OBVIOUS
<1>0. Len(t) \in Nat /\ i + 1 \in Nat /\ k + 1 \in Nat
  OBVIOUS
<1>1. /\ Failed \in Outcomes(t, "value", i, k) /\ inside.next \in Nat
      /\ ~Fails(inside) => /\ inside.value \in Found(type, k + 1) /\ i + 1 < inside.next
                           /\ inside.next <= Len(t) + 1
  BY <1>0, OutcomeIs
<1>2. ASSUME NEW c \in Found(type, k + 1) PROVE << type, c >> \in Found("value", k)
  <2> DEFINE A == ValuesAt(k + 1)
  <2>1. Found("value", k) = Made(A)
    BY ValuesAtIs DEF Found
  <2>2. /\ type = "array" => c \in Seq(A)
        /\ type = "object" => c \in Seq(Strings \X A) /\ DistinctNames(c)
    BY <1>2 DEF Found
  <2> HIDE DEF A
  <2>3. BuiltFrom(<< type, c >>, A)
    BY <2>2 DEF BuiltFrom
  <2>4. QED
    BY <2>1, <2>3, MadeIs
<1>3. << >> \in Found(type, k + 1)
  BY DEF Found, DistinctNames
<1>4. result = IF TokenAt(t, i + 1) = CloseOf(type) THEN [value |-> << type, << >> >>, next |-> i + 2]
               ELSE IF Fails(inside) THEN Failed
               ELSE [value |-> << type, inside.value >>, next |-> inside.next]
  BY ParseContainerIs
<1>5. TokenAt(t, i + 1) = CloseOf(type) => i + 1 <= Len(t)
  BY SignsAre, TokenAtIs
<1> HIDE DEF result, inside
<1>6. CASE TokenAt(t, i + 1) = CloseOf(type)
  <2>1. result = [value |-> << type, << >> >>, next |-> i + 2]
    BY <1>4, <1>6, Zenon
  <2>2. i + 2 \in Nat /\ i < i + 2 /\ i + 2 <= Len(t) + 1
    BY <1>0, <1>5, <1>6
  <2>3. << type, << >> >> \in Found("value", k)
    BY <1>2, <1>3
  <2>4. QED
    BY <2>1, <2>2, <2>3, OutcomeMade, Zenon
<1>7. CASE TokenAt(t, i + 1) # CloseOf(type) /\ ~Fails(inside)
  <2>1. result = [value |-> << type, inside.value >>, next |-> inside.next]
    BY <1>4, <1>7, Zenon
  <2>2. << type, inside.value >> \in Found("value", k) /\ i < inside.next
    BY <1>1, <1>2, <1>7
  <2>3. QED
    BY <1>1, <1>7, <2>1, <2>2, OutcomeMade, Zenon
<1>8. CASE TokenAt(t, i + 1) # CloseOf(type) /\ Fails(inside)
  BY <1>1, <1>4, <1>8, Zenon
<1>9. QED
  BY <1>6, <1>7, <1>8

LEMMA ParseValueInto ==
  ASSUME NEW T, NEW t \in Seq(T), NEW i \in Nat, NEW k \in Nat, NEW parse,
         \A type \in {"array", "object"} :
            parse[<< type, i + 1, k + 1 >>] \in Outcomes(t, type, i + 1, k + 1)
  PROVE  ParseValue(t, parse, i, k) \in Outcomes(t, "value", i, k)
<1>1. Failed \in Outcomes(t, "value", i, k)
  BY OutcomeIs
<1>2. CASE k > MaxNesting
  BY <1>1, <1>2, ParseValueIs, Zenon
<1>3. CASE ~(k > MaxNesting)
  <2>n. MaxNesting \in Nat
    BY DocumentAssumption
  <2>0. k <= MaxNesting
    BY <1>3, <2>n
  <2>1. \A type \in {"array", "object"} :
          ParseContainer(t, parse, type, CloseOf(type), i, k) \in Outcomes(t, "value", i, k)
    BY <2>0, ParseContainerInto
  <2>2. TokenAt(t, i) \in DOMAIN Scalar => ParseScalar(t, i) \in Outcomes(t, "value", i, k)
    <3>1. SUFFICES ASSUME TokenAt(t, i) \in DOMAIN Scalar PROVE ParseScalar(t, i) \in Outcomes(t, "value", i, k)
      OBVIOUS
    <3>2. i <= Len(t) /\ TokenAt(t, i) = t[i]
      <4>1. TokenAt(t, i) # End
        BY <3>1, SignsAre
      <4>2. QED
        BY <4>1, TokenAtIs
    <3>3. Scalar[t[i]] \in Range(Scalar)
      BY <3>1, <3>2 DEF Range
    <3>4. Scalar[t[i]] \in Found("value", k)
      <4>1. Found("value", k) = Made(ValuesAt(k + 1))
        BY <2>0, ValuesAtIs DEF Found
      <4>2. QED
        BY <3>3, <4>1, MadeIs, ZenonT(40) DEF BuiltFrom
    <3>5. i + 1 \in Nat /\ i < i + 1 /\ i + 1 <= Len(t) + 1
      BY <3>2
    <3>6. QED
      BY <3>4, <3>5, OutcomeMade, Zenon DEF ParseScalar
  <2>3. QED
    BY <1>1, <1>3, <2>1, <2>2, ParseValueIs, Zenon
<1>4. QED
  BY <1>2, <1>3

\* The loops put what they have found before what is behind it.
Behind(t, parse, type, i, k) ==
  \A n \in Nat : i < n => parse[<< type, n + 1, k >>] \in Outcomes(t, type, n + 1, k)

LEMMA ParseItemsInto ==
  ASSUME NEW T, NEW t \in Seq(T), NEW i \in Nat, NEW k \in Nat, NEW parse,
         parse[<< "value", i, k >>] \in Outcomes(t, "value", i, k),
         Behind(t, parse, "array", i, k)
  PROVE  ParseItems(t, parse, i, k) \in Outcomes(t, "array", i, k)
<1> DEFINE new == parse[<< "value", i, k >>]
           behind == parse[<< "array", new.next + 1, k >>]
           result == ParseItems(t, parse, i, k)
           A == ValuesAt(k)
<1> SUFFICES result \in Outcomes(t, "array", i, k)
  OBVIOUS
<1>0. Len(t) \in Nat
  OBVIOUS
<1>f. Found("value", k) = A /\ Found("array", k) = Seq(A)
  BY DEF Found
<1>1. /\ Failed \in Outcomes(t, "array", i, k) /\ new.next \in Nat
      /\ ~Fails(new) => new.value \in A /\ i < new.next
  BY <1>f, OutcomeIs
<1>2. ~Fails(new) => behind \in Outcomes(t, "array", new.next + 1, k)
  BY <1>1 DEF Behind
<1>3. result = IF Fails(new) THEN Failed
               ELSE IF TokenAt(t, new.next) = CloseOf("array")
               THEN [value |-> << new.value >>, next |-> new.next + 1]
               ELSE IF TokenAt(t, new.next) # Comma \/ Fails(behind) THEN Failed
               ELSE [value |-> << new.value >> \o behind.value, next |-> behind.next]
  <2>1. CloseOf("array") = "]"
    BY Zenon DEF CloseOf
  <2>2. QED
    BY <2>1, Zenon DEF ParseItems, Comma
<1>4. TokenAt(t, new.next) = CloseOf("array") => new.next <= Len(t)
  BY SignsAre, TokenAtIs
<1> HIDE DEF new, behind, result, A
<1>5. CASE ~Fails(new) /\ TokenAt(t, new.next) = CloseOf("array")
  <2>1. result = [value |-> << new.value >>, next |-> new.next + 1]
    BY <1>3, <1>5, Zenon
  <2>2. new.next + 1 \in Nat /\ i < new.next + 1 /\ new.next + 1 <= Len(t) + 1
    BY <1>0, <1>1, <1>4, <1>5
  <2>3. << new.value >> \in Found("array", k)
    <3> DEFINE w == new.value
    <3>1. w \in A
      BY <1>1, <1>5
    <3> HIDE DEF w
    <3>2. << w >> \in Seq(A)
      BY <3>1
    <3>3. QED
      BY <3>2, <1>f, Zenon DEF w
  <2>4. QED
    BY <2>1, <2>2, <2>3, OutcomeMade, Zenon
<1>6. CASE ~Fails(new) /\ TokenAt(t, new.next) # CloseOf("array") /\ TokenAt(t, new.next) = Comma /\ ~Fails(behind)
  <2>1. result = [value |-> << new.value >> \o behind.value, next |-> behind.next]
    BY <1>3, <1>6, Zenon
  <2>2. /\ behind.next \in Nat /\ behind.value \in Seq(A) /\ new.next + 1 < behind.next
        /\ behind.next <= Len(t) + 1
    <3>1. new.next + 1 \in Nat /\ behind \in Outcomes(t, "array", new.next + 1, k)
      BY <1>1, <1>2, <1>6
    <3>2. QED
      BY <1>6, <1>f, <3>1, OutcomeIs
  <2>3. i < behind.next
    BY <1>1, <1>6, <2>2
  <2>4. << new.value >> \o behind.value \in Found("array", k)
    <3> DEFINE w == new.value
               c == behind.value
    <3>1. w \in A /\ c \in Seq(A)
      BY <1>1, <1>6, <2>2
    <3> HIDE DEF w, c
    <3>2. << w >> \o c \in Seq(A)
      BY <3>1
    <3>3. QED
      BY <3>2, <1>f, Zenon DEF w, c
  <2>5. QED
    BY <2>1, <2>2, <2>3, <2>4, OutcomeMade, Zenon
<1>7. CASE Fails(new) \/ (TokenAt(t, new.next) # CloseOf("array") /\ (TokenAt(t, new.next) # Comma \/ Fails(behind)))
  BY <1>1, <1>3, <1>7, Zenon
<1>8. QED
  BY <1>5, <1>6, <1>7

LEMMA MemberBefore ==
  ASSUME NEW A, NEW name \in Strings, NEW v \in A, NEW c \in Seq(Strings \X A), DistinctNames(c),
         name \notin NamesOf(c)
  PROVE  LET d == << << name, v >> >> \o c IN d \in Seq(Strings \X A) /\ DistinctNames(d)
<1> DEFINE B == Strings \X A
           x == << name, v >>
           d == << x >> \o c
<1>1. x \in B /\ x[1] = name /\ c \in Seq(B) /\ Len(c) \in Nat /\ DOMAIN c = 1 .. Len(c)
  OBVIOUS
<1> HIDE DEF x, B
<1>2. d \in Seq(B) /\ DOMAIN d = 1 .. Len(c) + 1 /\ d[1] = x /\ \A i \in 2 .. Len(c) + 1 : d[i] = c[i - 1]
  BY <1>1
<1> HIDE DEF d
<1>3. ASSUME NEW i \in 2 .. Len(c) + 1 PROVE i - 1 \in DOMAIN c /\ d[i][1] = c[i - 1][1] /\ c[i - 1][1] # name
  <2>1. i - 1 \in DOMAIN c
    BY <1>1
  <2>2. c[i - 1][1] \in NamesOf(c)
    BY <2>1 DEF NamesOf
  <2>3. QED
    BY <1>2, <2>1, <2>2
<1>4. ASSUME NEW i \in DOMAIN d, NEW j \in DOMAIN d, d[i][1] = d[j][1] PROVE i = j
  <2>1. i = 1 \/ i \in 2 .. Len(c) + 1
    BY <1>1, <1>2
  <2>2. j = 1 \/ j \in 2 .. Len(c) + 1
    BY <1>1, <1>2
  <2>3. CASE i \in 2 .. Len(c) + 1 /\ j \in 2 .. Len(c) + 1
    <3>1. i - 1 \in DOMAIN c /\ j - 1 \in DOMAIN c /\ c[i - 1][1] = c[j - 1][1]
      BY <1>3, <1>4, <2>3
    <3>2. i - 1 = j - 1
      BY <3>1 DEF DistinctNames
    <3>3. QED
      BY <2>3, <3>2
  <2>4. CASE i = 1 /\ j \in 2 .. Len(c) + 1
    BY <1>1, <1>2, <1>3, <1>4, <2>4
  <2>5. CASE j = 1 /\ i \in 2 .. Len(c) + 1
    BY <1>1, <1>2, <1>3, <1>4, <2>5
  <2>6. QED
    BY <2>1, <2>2, <2>3, <2>4, <2>5
<1>5. DistinctNames(d)
  BY <1>4 DEF DistinctNames
<1>6. QED
  BY <1>2, <1>5 DEF d, x, B

LEMMA ParseMembersInto ==
  ASSUME NEW T, NEW t \in Seq(T), NEW i \in Nat, NEW k \in Nat, NEW parse,
         parse[<< "value", i + 2, k >>] \in Outcomes(t, "value", i + 2, k),
         Behind(t, parse, "object", i, k)
  PROVE  ParseMembers(t, parse, i, k) \in Outcomes(t, "object", i, k)
<1> DEFINE name == Content(Scalar[TokenAt(t, i)])
           new == parse[<< "value", i + 2, k >>]
           behind == parse[<< "object", new.next + 1, k >>]
           result == ParseMembers(t, parse, i, k)
           A == ValuesAt(k)
<1> SUFFICES result \in Outcomes(t, "object", i, k)
  OBVIOUS
<1>0. Len(t) \in Nat /\ i + 2 \in Nat
  OBVIOUS
<1>f. /\ Found("value", k) = A
      /\ Found("object", k) = {c \in Seq(Strings \X A) : DistinctNames(c)}
  BY DEF Found
<1>1. /\ Failed \in Outcomes(t, "object", i, k) /\ new.next \in Nat
      /\ ~Fails(new) => new.value \in A /\ i + 2 < new.next
  BY <1>0, <1>f, OutcomeIs
<1>2. ~Fails(new) => behind \in Outcomes(t, "object", new.next + 1, k)
  BY <1>1 DEF Behind
<1>3. result = IF ~IsString(TokenAt(t, i)) \/ TokenAt(t, i + 1) # Colon \/ Fails(new) THEN Failed
               ELSE IF TokenAt(t, new.next) = CloseOf("object")
               THEN [value |-> << << name, new.value >> >>, next |-> new.next + 1]
               ELSE IF TokenAt(t, new.next) # Comma \/ Fails(behind) \/ name \in NamesOf(behind.value)
               THEN Failed
               ELSE [value |-> << << name, new.value >> >> \o behind.value, next |-> behind.next]
  <2>1. CloseOf("object") = "}"
    BY Zenon DEF CloseOf
  <2>2. QED
    BY <2>1, Zenon DEF ParseMembers, Comma, Colon
<1>4. TokenAt(t, new.next) = CloseOf("object") => new.next <= Len(t)
  BY SignsAre, TokenAtIs
<1>s. IsString(TokenAt(t, i)) => name \in Strings
  BY DEF IsString, Strings, Range
<1>e. << >> \in Seq(Strings \X A) /\ DistinctNames(<< >>) /\ NamesOf(<< >>) = {}
  BY DEF DistinctNames, NamesOf
<1> HIDE DEF name, new, behind, result, A
<1> DEFINE good == IsString(TokenAt(t, i)) /\ TokenAt(t, i + 1) = Colon /\ ~Fails(new)
<1>5. CASE good /\ TokenAt(t, new.next) = CloseOf("object")
  <2>1. result = [value |-> << << name, new.value >> >>, next |-> new.next + 1]
    BY <1>3, <1>5, Zenon
  <2>2. new.next + 1 \in Nat /\ i < new.next + 1 /\ new.next + 1 <= Len(t) + 1
    BY <1>0, <1>1, <1>4, <1>5
  <2>3. << << name, new.value >> >> \in Found("object", k)
    <3> DEFINE d == << << name, new.value >> >>
    <3>1. name \in Strings /\ new.value \in A
      BY <1>1, <1>5, <1>s
    <3>2. d \in Seq(Strings \X A) /\ DOMAIN d = {1}
      BY <3>1
    <3> HIDE DEF d
    <3>3. DistinctNames(d)
      BY <3>2 DEF DistinctNames
    <3>4. QED
      BY <1>f, <3>2, <3>3 DEF d
  <2>4. QED
    BY <2>1, <2>2, <2>3, OutcomeMade, Zenon
<1>6. CASE /\ good /\ TokenAt(t, new.next) # CloseOf("object") /\ TokenAt(t, new.next) = Comma
           /\ ~Fails(behind) /\ name \notin NamesOf(behind.value)
  <2>1. result = [value |-> << << name, new.value >> >> \o behind.value, next |-> behind.next]
    BY <1>3, <1>6, Zenon
  <2>2. /\ behind.next \in Nat /\ behind.value \in Seq(Strings \X A) /\ DistinctNames(behind.value)
        /\ new.next + 1 < behind.next /\ behind.next <= Len(t) + 1
    <3>1. new.next + 1 \in Nat /\ behind \in Outcomes(t, "object", new.next + 1, k)
      BY <1>1, <1>2, <1>6
    <3>2. behind.next \in Nat /\ behind.value \in Found("object", k)
           /\ new.next + 1 < behind.next /\ behind.next <= Len(t) + 1
      BY <1>6, <3>1, OutcomeIs
    <3>3. QED
      BY <1>f, <3>2
  <2>3. i < behind.next
    BY <1>1, <1>6, <2>2
  <2>4. << << name, new.value >> >> \o behind.value \in Found("object", k)
    <3>1. name \in Strings /\ new.value \in A
      BY <1>1, <1>6, <1>s
    <3> DEFINE w == new.value
               c == behind.value
    <3>2. c \in Seq(Strings \X A) /\ DistinctNames(c) /\ name \notin NamesOf(c) /\ w \in A
      BY <1>6, <2>2, <3>1
    <3> HIDE DEF w, c
    <3>3. LET d == << << name, w >> >> \o c IN d \in Seq(Strings \X A) /\ DistinctNames(d)
      BY <3>1, <3>2, MemberBefore
    <3>4. QED
      BY <1>f, <3>3 DEF w, c
  <2>5. QED
    BY <2>1, <2>2, <2>3, <2>4, OutcomeMade, Zenon
<1>7. CASE \/ ~good
           \/ /\ TokenAt(t, new.next) # CloseOf("object")
              /\ TokenAt(t, new.next) # Comma \/ Fails(behind) \/ name \in NamesOf(behind.value)
  BY <1>1, <1>3, <1>7, Zenon
<1>8. QED
  BY <1>5, <1>6, <1>7

-----------------------------------------------------------------------------
(* The recursive definition of the parser is one: what a function calls is  *)
(* nearer to the end of the text.                                           *)

LEMMA ParseContainerSame ==
  ASSUME NEW t, NEW g, NEW h, NEW type, NEW close, NEW i, NEW k,
         g[<< type, i + 1, k + 1 >>] = h[<< type, i + 1, k + 1 >>]
  PROVE  ParseContainer(t, g, type, close, i, k) = ParseContainer(t, h, type, close, i, k)
BY Zenon DEF ParseContainer

SameInside(t, g, h, i, k) ==
  i <= Len(t) => \A type \in {"array", "object"} :
                   g[<< type, i + 1, k + 1 >>] = h[<< type, i + 1, k + 1 >>]

LEMMA ParseValueSame ==
  ASSUME NEW t, NEW g, NEW h, NEW i, NEW k, SameInside(t, g, h, i, k)
  PROVE  ParseValue(t, g, i, k) = ParseValue(t, h, i, k)
<1>1. CASE i <= Len(t)
  <2>1. /\ ParseContainer(t, g, "array", CloseOf("array"), i, k)
             = ParseContainer(t, h, "array", CloseOf("array"), i, k)
        /\ ParseContainer(t, g, "object", CloseOf("object"), i, k)
             = ParseContainer(t, h, "object", CloseOf("object"), i, k)
    BY <1>1, ParseContainerSame DEF SameInside
  <2>2. QED
    BY <2>1, ParseValueIs, Zenon
<1>2. CASE ~(i <= Len(t))
  <2>1. TokenAt(t, i) = End
    BY <1>2, TokenAtIs
  <2>2. TokenAt(t, i) # OpenOf("object") /\ TokenAt(t, i) # OpenOf("array")
    BY <2>1, SignsAre
  <2>3. QED
    BY <2>2, ParseValueIs, Zenon
<1>3. QED
  BY <1>1, <1>2

\* Two functions agree on the rest of a list.
SameBehind(t, g, h, type, i, k) ==
  \A n \in Nat : i < n /\ n <= Len(t) => g[<< type, n + 1, k >>] = h[<< type, n + 1, k >>]

LEMMA ParseItemsSame ==
  ASSUME NEW T, NEW t \in Seq(T), NEW g, NEW h, NEW i \in Nat, NEW k,
         g[<< "value", i, k >>] = h[<< "value", i, k >>],
         g[<< "value", i, k >>] \in Outcomes(t, "value", i, k),
         SameBehind(t, g, h, "array", i, k)
  PROVE  ParseItems(t, g, i, k) = ParseItems(t, h, i, k)
<1> DEFINE new == g[<< "value", i, k >>]
           then == g[<< "array", new.next + 1, k >>]
           behind == h[<< "array", new.next + 1, k >>]
<1>1. ParseItems(t, g, i, k) =
        IF Fails(new) THEN Failed
        ELSE IF TokenAt(t, new.next) = CloseOf("array") THEN [value |-> << new.value >>, next |-> new.next + 1]
        ELSE IF TokenAt(t, new.next) # Comma \/ Fails(then) THEN Failed
        ELSE [value |-> << new.value >> \o then.value, next |-> then.next]
  <2>1. CloseOf("array") = "]"
    BY Zenon DEF CloseOf
  <2>2. QED
    BY <2>1, Zenon DEF ParseItems, Comma
<1>2. ParseItems(t, h, i, k) =
        IF Fails(new) THEN Failed
        ELSE IF TokenAt(t, new.next) = CloseOf("array") THEN [value |-> << new.value >>, next |-> new.next + 1]
        ELSE IF TokenAt(t, new.next) # Comma \/ Fails(behind) THEN Failed
        ELSE [value |-> << new.value >> \o behind.value, next |-> behind.next]
  <2>1. CloseOf("array") = "]" /\ new = h[<< "value", i, k >>]
    BY Zenon DEF CloseOf
  <2>2. QED
    BY <2>1, Zenon DEF ParseItems, Comma
<1>3. new.next \in Nat /\ (~Fails(new) => i < new.next)
  BY OutcomeIs
<1>4. TokenAt(t, new.next) = Comma => new.next <= Len(t)
  BY SignsAre, TokenAtIs
<1>5. ~Fails(new) /\ TokenAt(t, new.next) = Comma => then = behind
  BY <1>3, <1>4 DEF SameBehind
<1> HIDE DEF new, then, behind
<1>6. CASE ~Fails(new) /\ TokenAt(t, new.next) = Comma
  BY <1>1, <1>2, <1>5, <1>6
<1>7. CASE Fails(new) \/ TokenAt(t, new.next) # Comma
  BY <1>1, <1>2, <1>7
<1>8. QED
  BY <1>6, <1>7

LEMMA ParseMembersSame ==
  ASSUME NEW T, NEW t \in Seq(T), NEW g, NEW h, NEW i \in Nat, NEW k,
         g[<< "value", i + 2, k >>] = h[<< "value", i + 2, k >>],
         g[<< "value", i + 2, k >>] \in Outcomes(t, "value", i + 2, k),
         SameBehind(t, g, h, "object", i, k)
  PROVE  ParseMembers(t, g, i, k) = ParseMembers(t, h, i, k)
<1> DEFINE name == Content(Scalar[TokenAt(t, i)])
           new == g[<< "value", i + 2, k >>]
           then == g[<< "object", new.next + 1, k >>]
           behind == h[<< "object", new.next + 1, k >>]
<1>1. ParseMembers(t, g, i, k) =
        IF ~IsString(TokenAt(t, i)) \/ TokenAt(t, i + 1) # Colon \/ Fails(new) THEN Failed
        ELSE IF TokenAt(t, new.next) = CloseOf("object")
        THEN [value |-> << << name, new.value >> >>, next |-> new.next + 1]
        ELSE IF TokenAt(t, new.next) # Comma \/ Fails(then) \/ name \in NamesOf(then.value) THEN Failed
        ELSE [value |-> << << name, new.value >> >> \o then.value, next |-> then.next]
  <2>1. CloseOf("object") = "}"
    BY Zenon DEF CloseOf
  <2>2. QED
    BY <2>1, Zenon DEF ParseMembers, Comma, Colon
<1>2. ParseMembers(t, h, i, k) =
        IF ~IsString(TokenAt(t, i)) \/ TokenAt(t, i + 1) # Colon \/ Fails(new) THEN Failed
        ELSE IF TokenAt(t, new.next) = CloseOf("object")
        THEN [value |-> << << name, new.value >> >>, next |-> new.next + 1]
        ELSE IF TokenAt(t, new.next) # Comma \/ Fails(behind) \/ name \in NamesOf(behind.value) THEN Failed
        ELSE [value |-> << << name, new.value >> >> \o behind.value, next |-> behind.next]
  <2>1. CloseOf("object") = "}" /\ new = h[<< "value", i + 2, k >>]
    BY Zenon DEF CloseOf
  <2>2. QED
    BY <2>1, Zenon DEF ParseMembers, Comma, Colon
<1>3. new.next \in Nat /\ (~Fails(new) => i < new.next)
  <2>1. i + 2 \in Nat
    OBVIOUS
  <2>2. new.next \in Nat /\ (~Fails(new) => i + 2 < new.next)
    BY <2>1, OutcomeIs
  <2> HIDE DEF new
  <2>3. QED
    BY <2>2
<1>4. TokenAt(t, new.next) = Comma => new.next <= Len(t)
  BY SignsAre, TokenAtIs
<1>5. ~Fails(new) /\ TokenAt(t, new.next) = Comma => then = behind
  BY <1>3, <1>4 DEF SameBehind
<1> HIDE DEF new, then, behind, name
<1>6. CASE ~Fails(new) /\ TokenAt(t, new.next) = Comma
  BY <1>1, <1>2, <1>5, <1>6
<1>7. CASE Fails(new) \/ TokenAt(t, new.next) # Comma
  BY <1>1, <1>2, <1>7
<1>8. QED
  BY <1>6, <1>7

\* How far a call is from the end of the text.
CallRank(t, mode, i) ==
  (IF i <= Len(t) THEN 2 * (Len(t) + 1 - i) ELSE 0) + (IF mode = "value" THEN 0 ELSE 1)

LEMMA CallRankIs ==
  ASSUME NEW T, NEW t \in Seq(T), NEW i \in Nat
  PROVE  /\ \A mode : CallRank(t, mode, i) \in Nat
         /\ i <= Len(t) => \A mode : CallRank(t, mode, i + 1) < CallRank(t, "value", i)
         /\ \A mode : mode # "value" => /\ CallRank(t, "value", i) < CallRank(t, mode, i)
                                        /\ CallRank(t, "value", i + 2) < CallRank(t, mode, i)
         /\ \A mode, n : n \in Nat /\ i < n /\ n <= Len(t) /\ mode # "value"
              => CallRank(t, mode, n + 1) < CallRank(t, mode, i)
<1> DEFINE n == Len(t)
           left(j) == IF j <= n THEN 2 * (n + 1 - j) ELSE 0
           loop(mode) == IF mode = "value" THEN 0 ELSE 1
<1>1. n \in Nat
  OBVIOUS
<1> HIDE DEF n
<1>2. /\ \A j \in Nat : left(j) \in Nat
      /\ i <= n => left(i + 1) + 1 < left(i)
      /\ left(i + 2) <= left(i)
      /\ \A j \in Nat : i < j /\ j <= n => left(j + 1) < left(i)
  BY <1>1
<1>3. \A mode : (mode = "value" => loop(mode) = 0) /\ (mode # "value" => loop(mode) = 1)
  OBVIOUS
<1>4. \A mode, j : CallRank(t, mode, j) = left(j) + loop(mode)
  BY Zenon DEF CallRank, n
<1>5. i + 1 \in Nat /\ i + 2 \in Nat /\ \A j \in Nat : j + 1 \in Nat
  OBVIOUS
<1> HIDE DEF left, loop
<1>6. ASSUME NEW mode PROVE CallRank(t, mode, i) \in Nat
  <2>1. loop(mode) = 0 \/ loop(mode) = 1
    BY <1>3
  <2>2. left(i) \in Nat
    BY <1>2
  <2>3. QED
    BY <1>4, <2>1, <2>2
<1>7. ASSUME i <= n, NEW mode PROVE CallRank(t, mode, i + 1) < CallRank(t, "value", i)
  <2>1. loop(mode) = 0 \/ loop(mode) = 1
    BY <1>3
  <2>2. left(i + 1) \in Nat /\ left(i) \in Nat /\ left(i + 1) + 1 < left(i) /\ loop("value") = 0
    BY <1>2, <1>3, <1>5, <1>7
  <2>3. QED
    BY <1>4, <2>1, <2>2
<1>8. ASSUME NEW mode, mode # "value"
      PROVE  /\ CallRank(t, "value", i) < CallRank(t, mode, i)
             /\ CallRank(t, "value", i + 2) < CallRank(t, mode, i)
  <2>1. loop(mode) = 1 /\ loop("value") = 0
    BY <1>3, <1>8
  <2>2. left(i + 2) \in Nat /\ left(i) \in Nat /\ left(i + 2) <= left(i)
    BY <1>2, <1>5
  <2>3. QED
    BY <1>4, <2>1, <2>2
<1>9. ASSUME NEW mode, NEW j \in Nat, i < j, j <= n, mode # "value"
      PROVE  CallRank(t, mode, j + 1) < CallRank(t, mode, i)
  <2>1. loop(mode) = 1
    BY <1>3, <1>9
  <2>2. left(j + 1) \in Nat /\ left(i) \in Nat /\ left(j + 1) < left(i)
    BY <1>2, <1>5, <1>9
  <2>3. QED
    BY <1>4, <2>1, <2>2
<1>10. QED
  BY <1>6, <1>7, <1>8, <1>9 DEF n

\* What may be found by each call.
OutcomesOf(t) == [call \in Calls |-> Outcomes(t, call[1], call[2], call[3])]
AllOutcomes(t) == UNION {Outcomes(t, call[1], call[2], call[3]) : call \in Calls}
Parsers(t) == Into(Calls, AllOutcomes(t), OutcomesOf(t))

LEMMA CallIs ==
  ASSUME NEW call \in Calls
  PROVE  /\ call = << call[1], call[2], call[3] >> /\ call[2] \in Nat /\ call[3] \in Nat
         /\ call[1] = "value" \/ call[1] = "array" \/ call[1] = "object"
BY DEF Calls

LEMMA ParserAnswers ==
  ASSUME NEW t, NEW parse \in Parsers(t), NEW mode \in {"value", "array", "object"},
         NEW i \in Nat, NEW k \in Nat
  PROVE  parse[<< mode, i, k >>] \in Outcomes(t, mode, i, k)
<1> DEFINE call == << mode, i, k >>
<1>1. call \in Calls /\ call[1] = mode /\ call[2] = i /\ call[3] = k
  BY DEF Calls
<1> HIDE DEF call
<1>2. parse[call] \in OutcomesOf(t)[call]
  BY <1>1 DEF Parsers, Into
<1>3. OutcomesOf(t)[call] = Outcomes(t, mode, i, k)
  BY <1>1 DEF OutcomesOf
<1>4. QED
  BY <1>2, <1>3 DEF call

LEMMA ParseCallIs ==
  ASSUME NEW t, NEW parse, NEW call
  PROVE  /\ call[1] = "value" => ParseCall(t, parse, call) = ParseValue(t, parse, call[2], call[3])
         /\ call[1] = "array" => ParseCall(t, parse, call) = ParseItems(t, parse, call[2], call[3])
         /\ call[1] = "object" => ParseCall(t, parse, call) = ParseMembers(t, parse, call[2], call[3])
<1>1. "value" # "array" /\ "value" # "object" /\ "array" # "object"
  OBVIOUS
<1>2. ASSUME call[1] = "value" PROVE ParseCall(t, parse, call) = ParseValue(t, parse, call[2], call[3])
  BY <1>1, <1>2, Zenon DEF ParseCall
<1>3. ASSUME call[1] = "array" PROVE ParseCall(t, parse, call) = ParseItems(t, parse, call[2], call[3])
  BY <1>1, <1>3, Zenon DEF ParseCall
<1>4. ASSUME call[1] = "object" PROVE ParseCall(t, parse, call) = ParseMembers(t, parse, call[2], call[3])
  BY <1>1, <1>4, Zenon DEF ParseCall
<1>5. QED
  BY <1>2, <1>3, <1>4

LEMMA ParseCallInto ==
  ASSUME NEW T, NEW t \in Seq(T), NEW parse \in Parsers(t), NEW call \in Calls
  PROVE  ParseCall(t, parse, call) \in Outcomes(t, call[1], call[2], call[3])
<1> DEFINE i == call[2]
           k == call[3]
<1>1. i \in Nat /\ k \in Nat /\ i + 1 \in Nat /\ i + 2 \in Nat /\ k + 1 \in Nat
  BY CallIs
<1> HIDE DEF i, k
<1>2. /\ \A type \in {"array", "object"} : parse[<< type, i + 1, k + 1 >>] \in Outcomes(t, type, i + 1, k + 1)
      /\ parse[<< "value", i, k >>] \in Outcomes(t, "value", i, k)
      /\ parse[<< "value", i + 2, k >>] \in Outcomes(t, "value", i + 2, k)
  BY <1>1, ParserAnswers
<1>3. Behind(t, parse, "array", i, k) /\ Behind(t, parse, "object", i, k)
  BY <1>1, ParserAnswers, SMTT(40) DEF Behind
<1>4. /\ ParseValue(t, parse, i, k) \in Outcomes(t, "value", i, k)
      /\ ParseItems(t, parse, i, k) \in Outcomes(t, "array", i, k)
      /\ ParseMembers(t, parse, i, k) \in Outcomes(t, "object", i, k)
  BY <1>1, <1>2, <1>3, ParseValueInto, ParseItemsInto, ParseMembersInto
<1>5. QED
  BY <1>4, CallIs, ParseCallIs DEF i, k

LEMMA ParseCallSame ==
  ASSUME NEW T, NEW t \in Seq(T), NEW g \in Parsers(t), NEW h, NEW call \in Calls,
         \A mode \in {"value", "array", "object"} : \A i \in Nat, k \in Nat :
            CallRank(t, mode, i) < CallRank(t, call[1], call[2]) => g[<< mode, i, k >>] = h[<< mode, i, k >>]
  PROVE  ParseCall(t, g, call) = ParseCall(t, h, call)
<1> DEFINE i == call[2]
           k == call[3]
<1>1. i \in Nat /\ k \in Nat /\ i + 1 \in Nat /\ i + 2 \in Nat /\ k + 1 \in Nat
  BY CallIs
<1> HIDE DEF i, k
<1>2. ASSUME call[1] = "value" PROVE ParseValue(t, g, i, k) = ParseValue(t, h, i, k)
  <2>1. ASSUME i <= Len(t), NEW type \in {"array", "object"}
        PROVE  g[<< type, i + 1, k + 1 >>] = h[<< type, i + 1, k + 1 >>]
    <3>1. CallRank(t, type, i + 1) < CallRank(t, "value", i)
      BY <1>1, <2>1, CallRankIs
    <3>2. QED
      BY <1>1, <1>2, <3>1 DEF i
  <2>2. SameInside(t, g, h, i, k)
    BY <2>1 DEF SameInside
  <2>3. QED
    BY <2>2, ParseValueSame
<1>3. ASSUME call[1] = "array" PROVE ParseItems(t, g, i, k) = ParseItems(t, h, i, k)
  <2>0. "array" # "value"
    OBVIOUS
  <2>1. g[<< "value", i, k >>] = h[<< "value", i, k >>]
    <3>1. CallRank(t, "value", i) < CallRank(t, "array", i)
      BY <1>1, <2>0, CallRankIs
    <3>2. QED
      BY <1>1, <1>3, <3>1 DEF i
  <2>2. g[<< "value", i, k >>] \in Outcomes(t, "value", i, k)
    BY <1>1, ParserAnswers
  <2>3. ASSUME NEW n \in Nat, i < n, n <= Len(t) PROVE g[<< "array", n + 1, k >>] = h[<< "array", n + 1, k >>]
    <3>1. CallRank(t, "array", n + 1) < CallRank(t, "array", i)
      BY <1>1, <2>0, <2>3, CallRankIs, Zenon
    <3>0. n + 1 \in Nat
      OBVIOUS
    <3>2. QED
      BY <1>1, <1>3, <3>0, <3>1 DEF i
  <2>4. SameBehind(t, g, h, "array", i, k)
    BY <2>3 DEF SameBehind
  <2>5. QED
    BY <1>1, <2>1, <2>2, <2>4, ParseItemsSame
<1>4. ASSUME call[1] = "object" PROVE ParseMembers(t, g, i, k) = ParseMembers(t, h, i, k)
  <2>0. "object" # "value"
    OBVIOUS
  <2>1. g[<< "value", i + 2, k >>] = h[<< "value", i + 2, k >>]
    <3>1. CallRank(t, "value", i + 2) < CallRank(t, "object", i)
      BY <1>1, <2>0, CallRankIs
    <3>2. QED
      BY <1>1, <1>4, <3>1 DEF i
  <2>2. g[<< "value", i + 2, k >>] \in Outcomes(t, "value", i + 2, k)
    BY <1>1, ParserAnswers
  <2>3. ASSUME NEW n \in Nat, i < n, n <= Len(t) PROVE g[<< "object", n + 1, k >>] = h[<< "object", n + 1, k >>]
    <3>1. CallRank(t, "object", n + 1) < CallRank(t, "object", i)
      BY <1>1, <2>0, <2>3, CallRankIs, Zenon
    <3>0. n + 1 \in Nat
      OBVIOUS
    <3>2. QED
      BY <1>1, <1>4, <3>0, <3>1 DEF i
  <2>4. SameBehind(t, g, h, "object", i, k)
    BY <2>3 DEF SameBehind
  <2>5. QED
    BY <1>1, <2>1, <2>2, <2>4, ParseMembersSame
<1>5. CASE call[1] = "value"
  BY <1>2, <1>5, ParseCallIs DEF i, k
<1>6. CASE call[1] = "array"
  BY <1>3, <1>6, ParseCallIs DEF i, k
<1>7. CASE call[1] = "object"
  BY <1>4, <1>7, ParseCallIs DEF i, k
<1>8. QED
  BY <1>5, <1>6, <1>7, CallIs

LEMMA ParserIs ==
  ASSUME NEW T, NEW t \in Seq(T)
  PROVE  /\ Parser(t) \in Parsers(t)
         /\ \A call \in Calls : Parser(t)[call] = ParseCall(t, Parser(t), call)
<1> DEFINE V == AllOutcomes(t)
           R == OutcomesOf(t)
           F == Into(Calls, V, R)
           start == [call \in Calls |-> Failed]
           rank == [call \in Calls |-> CallRank(t, call[1], call[2])]
           body == [p \in Calls \X F |-> ParseCall(t, p[2], p[1])]
           N == CHOOSE f : f = [call \in Calls |-> ParseCall(t, f, call)]
<1>0. F = Parsers(t)
  BY Zenon DEF Parsers
<1>1. ASSUME NEW call \in Calls
      PROVE  R[call] = Outcomes(t, call[1], call[2], call[3]) /\ R[call] \subseteq V
  <2>1. R[call] = Outcomes(t, call[1], call[2], call[3])
    BY DEF OutcomesOf
  <2>2. Outcomes(t, call[1], call[2], call[3]) \subseteq AllOutcomes(t)
    BY Zenon DEF AllOutcomes
  <2>3. QED
    BY <2>1, <2>2
<1>2. start \in Into(Calls, V, R)
  <2>1. \A call \in Calls : Failed \in R[call] /\ Failed \in V
    BY <1>1, CallIs, OutcomeIs
  <2> HIDE DEF V, R
  <2>2. QED
    BY <2>1 DEF Into
<1>3. rank \in Ranks(Calls)
  BY CallIs, CallRankIs DEF Ranks
<1>4. ASSUME NEW call \in Calls, NEW g \in F
      PROVE  /\ body[<<call, g>>] = ParseCall(t, g, call)
             /\ ParseCall(t, g, call) \in R[call] /\ ParseCall(t, g, call) \in V
  <2>1. ParseCall(t, g, call) \in R[call]
    BY <1>0, <1>1, ParseCallInto
  <2> HIDE DEF V, R, F
  <2>2. ParseCall(t, g, call) \in V
    BY <2>1, <1>1
  <2>3. QED
    BY <2>1, <2>2
<1>5. body \in BodiesInto(Calls, V, R)
  <2> HIDE DEF V, R
  <2>1. \A p \in Calls \X F : ParseCall(t, p[2], p[1]) \in V
    BY <1>4
  <2>2. body \in [Calls \X Into(Calls, V, R) -> V]
    BY <2>1
  <2> HIDE DEF body
  <2>3. QED
    BY <1>4, <2>2 DEF BodiesInto
<1>6. DescendingInto(Calls, V, R, rank, body)
  <2>1. SUFFICES ASSUME NEW call \in Calls, NEW g \in F, NEW h \in F,
                        \A q \in Calls : rank[q] < rank[call] => g[q] = h[q]
                 PROVE  body[<<call, g>>] = body[<<call, h>>]
    BY DEF DescendingInto
  <2>2. ASSUME NEW mode \in {"value", "array", "object"}, NEW i \in Nat, NEW k \in Nat,
               CallRank(t, mode, i) < CallRank(t, call[1], call[2])
        PROVE  g[<< mode, i, k >>] = h[<< mode, i, k >>]
    <3>1. << mode, i, k >> \in Calls
      BY DEF Calls
    <3>2. rank[<< mode, i, k >>] = CallRank(t, mode, i) /\ rank[call] = CallRank(t, call[1], call[2])
      BY <3>1
    <3> HIDE DEF rank
    <3>3. QED
      BY <2>1, <2>2, <3>1, <3>2
  <2>3. ParseCall(t, g, call) = ParseCall(t, h, call)
    BY <1>0, <2>2, ParseCallSame
  <2> HIDE DEF body
  <2>4. QED
    BY <1>4, <2>3
<1> HIDE DEF body, rank, start
<1>7. PICK f \in Into(Calls, V, R) : f = [call \in Calls |-> body[<<call, f>>]]
  <2> HIDE DEF V, R
  <2>1. QED
    BY <1>2, <1>3, <1>5, <1>6, RecursiveFunctionInto
<1> HIDE DEF V, R
<1>8. f = [call \in Calls |-> ParseCall(t, f, call)]
  BY <1>4, <1>7
<1>9. N = [call \in Calls |-> ParseCall(t, N, call)]
  BY <1>8
<1>10. Parser(t) = N
  BY DEF Parser
<1> HIDE DEF N
<1> DEFINE U == {call \in Calls : N[call] = f[call]}
<1>11. ASSUME NEW call \in Calls, \A q \in Calls : rank[q] < rank[call] => q \in U
       PROVE  call \in U
  <2>1. ASSUME NEW mode \in {"value", "array", "object"}, NEW i \in Nat, NEW k \in Nat,
               CallRank(t, mode, i) < CallRank(t, call[1], call[2])
        PROVE  f[<< mode, i, k >>] = N[<< mode, i, k >>]
    <3>1. << mode, i, k >> \in Calls
      BY DEF Calls
    <3>2. rank[<< mode, i, k >>] = CallRank(t, mode, i) /\ rank[call] = CallRank(t, call[1], call[2])
      BY <3>1 DEF rank
    <3>3. QED
      BY <1>11, <2>1, <3>1, <3>2
  <2>2. f \in Parsers(t)
    BY <1>0, <1>7
  <2>3. ParseCall(t, f, call) = ParseCall(t, N, call)
    BY <2>1, <2>2, ParseCallSame
  <2>4. f[call] = ParseCall(t, f, call) /\ N[call] = ParseCall(t, N, call)
    BY <1>8, <1>9
  <2>5. QED
    BY <2>3, <2>4
<1> HIDE DEF U
<1>12. Calls \subseteq U
  BY <1>3, <1>11, RankInduction
<1>13. N = f
  <2>1. N = [call \in Calls |-> N[call]] /\ f = [call \in Calls |-> f[call]]
    BY <1>8, <1>9
  <2>2. \A call \in Calls : N[call] = f[call]
    BY <1>12 DEF U
  <2>3. QED
    BY <2>1, <2>2
<1>14. QED
  BY <1>0, <1>7, <1>9, <1>10, <1>13

\* The functions of the parser call one another.
LEMMA ParserCalls ==
  ASSUME NEW T, NEW t \in Seq(T), NEW i \in Nat, NEW k \in Nat
  PROVE  LET parse == Parser(t) IN
         /\ parse[<< "value", i, k >>] = ParseValue(t, parse, i, k)
         /\ parse[<< "array", i, k >>] = ParseItems(t, parse, i, k)
         /\ parse[<< "object", i, k >>] = ParseMembers(t, parse, i, k)
         /\ \A mode \in {"value", "array", "object"} :
               parse[<< mode, i, k >>] \in Outcomes(t, mode, i, k)
<1> DEFINE parse == Parser(t)
<1>1. parse \in Parsers(t) /\ \A call \in Calls : parse[call] = ParseCall(t, parse, call)
  BY ParserIs
<1> HIDE DEF parse
<1>2. ASSUME NEW mode \in {"value", "array", "object"}
      PROVE  /\ parse[<< mode, i, k >>] = ParseCall(t, parse, << mode, i, k >>)
             /\ parse[<< mode, i, k >>] \in Outcomes(t, mode, i, k)
  BY <1>1, ParserAnswers DEF Calls
<1>3. ASSUME NEW mode
      PROVE << mode, i, k >>[1] = mode /\ << mode, i, k >>[2] = i /\ << mode, i, k >>[3] = k
  OBVIOUS
<1>4. /\ ParseCall(t, parse, << "value", i, k >>) = ParseValue(t, parse, i, k)
      /\ ParseCall(t, parse, << "array", i, k >>) = ParseItems(t, parse, i, k)
      /\ ParseCall(t, parse, << "object", i, k >>) = ParseMembers(t, parse, i, k)
  BY <1>3, ParseCallIs
<1>5. QED
  BY <1>2, <1>4 DEF parse

-----------------------------------------------------------------------------
(* What the parser makes of a text that the serializer wrote, or of the      *)
(* beginning of one.                                                         *)

\* From position i on, t is s, or as much of s as there is of t.
Agree(t, i, s) == \A j \in 1 .. Len(s) : i + j - 1 <= Len(t) => t[i + j - 1] = s[j]
WholeAt(t, i, n) == i + n - 1 <= Len(t)

LEMMA TokenOfText ==
  ASSUME NEW t, NEW i, NEW s, Agree(t, i, s), NEW j \in 1 .. Len(s)
  PROVE  TokenAt(t, i + j - 1) = IF i + j - 1 <= Len(t) THEN s[j] ELSE End
<1>1. i + j - 1 <= Len(t) => t[i + j - 1] = s[j]
  BY DEF Agree
<1>2. QED
  BY <1>1, TokenAtIs, Zenon

\* One entry before the others.
LEMMA EntryBefore ==
  ASSUME NEW D, NEW c \in Seq(D), NEW j \in 1 .. Len(c)
  PROVE  /\ j = Len(c) => SubSeq(c, j, Len(c)) = << c[j] >>
         /\ j # Len(c) => SubSeq(c, j, Len(c)) = << c[j] >> \o SubSeq(c, j + 1, Len(c))
<1> DEFINE m == Len(c)
           e == c[j]
           a == SubSeq(c, j, m)
           b == SubSeq(c, j + 1, m)
<1>0. m \in Nat /\ DOMAIN c = 1 .. m /\ e \in D /\ j \in Nat
  OBVIOUS
<1>1. /\ a \in Seq(D) /\ Len(a) = m - j + 1 /\ \A x \in 1 .. m - j + 1 : a[x] = c[j + x - 1]
  BY <1>0
<1>2. j # m => b \in Seq(D) /\ Len(b) = m - j /\ \A x \in 1 .. m - j : b[x] = c[j + x]
  BY <1>0
<1>3. a[1] = e
  BY <1>0, <1>1
<1> HIDE DEF a, b, m, e
<1>4. CASE j = m
  <2>1. Len(a) = 1
    BY <1>0, <1>1, <1>4
  <2> DEFINE d == << e >>
  <2>3. d \in Seq(D) /\ Len(d) = 1 /\ d[1] = e
    BY <1>0
  <2> HIDE DEF d
  <2>4. \A x \in 1 .. Len(a) : a[x] = d[x]
    BY <1>3, <2>1, <2>3
  <2>5. a = d
    BY <1>1, <2>1, <2>3, <2>4
  <2>6. QED
    BY <1>4, <2>5 DEF a, d, e, m
<1>5. CASE j # m
  <2> DEFINE d == << e >> \o b
  <2>1. /\ d \in Seq(D) /\ Len(d) = 1 + Len(b) /\ d[1] = e
        /\ \A x \in 1 .. Len(b) : d[x + 1] = b[x]
    BY <1>0, <1>2, <1>5
  <2> HIDE DEF d
  <2>2. Len(d) = Len(a) /\ Len(a) = m - j + 1 /\ m - j \in Nat
    <3>1. m - j \in Nat
      BY <1>0 DEF m
    <3>2. Len(d) = 1 + (m - j)
      BY <1>2, <1>5, <2>1
    <3>3. QED
      BY <1>1, <3>1, <3>2
  <2>3. ASSUME NEW x \in 1 .. Len(a) PROVE d[x] = a[x]
    <3>1. CASE x = 1
      BY <1>3, <2>1, <3>1
    <3>2. CASE x # 1
      <4> DEFINE y == x - 1
      <4>1. y \in 1 .. Len(b) /\ y \in 1 .. m - j /\ x = y + 1 /\ x \in 1 .. m - j + 1
        BY <1>2, <1>5, <2>2, <3>2
      <4> HIDE DEF y
      <4>2. d[x] = c[j + y]
        BY <1>2, <1>5, <2>1, <4>1
      <4>3. a[x] = c[j + x - 1] /\ j + x - 1 = j + y
        BY <1>0, <1>1, <4>1
      <4>4. QED
        BY <4>2, <4>3
    <3>3. QED
      BY <3>1, <3>2
  <2>4. d = a
    BY <1>1, <2>1, <2>2, <2>3, SeqEqual
  <2>5. QED
    BY <1>5, <2>4 DEF a, d, e, b, m
<1>6. QED
  BY <1>4, <1>5 DEF m

\* The loops of the parser, at the j-th entry of c: its text ends before position q of
\* a text of length n; good says that the entry may stand there, rest that those
\* behind it may.
Looped(t, close, new, behind, clash, entry) ==
  IF Fails(new) THEN Failed
  ELSE IF TokenAt(t, new.next) = close THEN [value |-> << entry >>, next |-> new.next + 1]
  ELSE IF TokenAt(t, new.next) # Comma \/ Fails(behind) \/ clash THEN Failed
  ELSE [value |-> << entry >> \o behind.value, next |-> behind.next]

Listed(t, i, n, good, content) ==
  IF WholeAt(t, i, n) /\ good THEN [value |-> content, next |-> i + n] ELSE Failed

LoopFacts(t, c, j, i, n, q, type, new, behind, good, rest, all, clash) ==
  LET m == Len(c) IN
  /\ j \in 1 .. m /\ i \in Nat /\ n \in Nat /\ q \in 1 .. n /\ (j = m => q = n)
  /\ TokenAt(t, i + q - 1) =
       IF i + q - 1 <= Len(t) THEN IF j = m THEN CloseOf(type) ELSE Comma ELSE End
  /\ Fails(new) <=> ~(WholeAt(t, i, q - 1) /\ good)
  /\ ~Fails(new) => new.next = i + q - 1
  /\ (all <=> good /\ rest) /\ (j = m => rest)
  /\ ~Fails(new) /\ j # m => behind = Listed(t, i, n, rest, SubSeq(c, j + 1, m))
  /\ ~Fails(new) /\ j # m /\ behind.value = SubSeq(c, j + 1, m) => ~clash

LEMMA LoopStep ==
  ASSUME NEW T, NEW t \in Seq(T), NEW D, NEW c \in Seq(D), NEW j, NEW i, NEW n, NEW q,
         NEW type, NEW new, NEW behind, NEW good, NEW rest, NEW all, NEW clash,
         LoopFacts(t, c, j, i, n, q, type, new, behind, good, rest, all, clash)
  PROVE  Looped(t, CloseOf(type), new, behind, clash, c[j])
           = Listed(t, i, n, all, SubSeq(c, j, Len(c)))
<1> DEFINE m == Len(c)
           close == CloseOf(type)
           a == SubSeq(c, j, m)
           b == SubSeq(c, j + 1, m)
           e == c[j]
           l == Len(t)
           next == i + q - 1
           result == Looped(t, close, new, behind, clash, e)
<1> SUFFICES result = Listed(t, i, n, all, a)
  OBVIOUS
<1>f. j \in 1 .. m /\ i \in Nat /\ n \in Nat /\ q \in 1 .. n /\ (j = m => q = n)
  BY Zenon DEF LoopFacts
<1>0. /\ (j = m => a = << e >>) /\ (j # m => a = << e >> \o b)
      /\ close # Comma /\ close # End /\ Comma # End /\ l \in Nat /\ m \in Nat /\ next \in Nat
  BY <1>f, EntryBefore, SignsAre
<1>1. /\ WholeAt(t, i, q - 1) <=> next <= l + 1
      /\ WholeAt(t, i, n) => next <= l /\ next <= l + 1
      /\ (j = m => (WholeAt(t, i, n) <=> next <= l))
      /\ i + n # 0 /\ (j = m => next + 1 = i + n)
  BY <1>0, <1>f DEF WholeAt
<1>2. TokenAt(t, next) = IF next <= l THEN IF j = m THEN close ELSE Comma ELSE End
  BY Zenon DEF LoopFacts
<1>3. /\ Fails(new) <=> ~(next <= l + 1 /\ good)
      /\ ~Fails(new) => new.next = next
      /\ (all <=> good /\ rest) /\ (j = m => rest)
      /\ ~Fails(new) /\ j # m => behind = Listed(t, i, n, rest, b)
      /\ ~Fails(new) /\ j # m /\ behind.value = b => ~clash
  BY <1>1, Zenon DEF LoopFacts
<1> HIDE DEF m, close, a, b, e, l, next
<1>4. result = IF Fails(new) THEN Failed
               ELSE IF TokenAt(t, new.next) = close THEN [value |-> << e >>, next |-> new.next + 1]
               ELSE IF TokenAt(t, new.next) # Comma \/ Fails(behind) \/ clash THEN Failed
               ELSE [value |-> << e >> \o behind.value, next |-> behind.next]
  BY Zenon DEF Looped
<1> HIDE DEF result
<1>5. CASE Fails(new)
  <2>1. result = Failed
    BY <1>4, <1>5, Zenon
  <2>2. ~(WholeAt(t, i, n) /\ good)
    BY <1>1, <1>3, <1>5, Zenon
  <2>3. ~(WholeAt(t, i, n) /\ all)
    BY <1>3, <2>2, Zenon
  <2>4. QED
    BY <2>1, <2>3, Zenon DEF Listed
<1>6. CASE ~Fails(new) /\ ~(next <= l)
  <2>1. TokenAt(t, new.next) = End
    BY <1>2, <1>3, <1>6, Zenon
  <2>2. result = Failed
    BY <1>0, <1>4, <1>6, <2>1, Zenon
  <2>3. ~WholeAt(t, i, n)
    BY <1>1, <1>6, Zenon
  <2>4. QED
    BY <2>2, <2>3, Zenon DEF Listed
<1>7. CASE ~Fails(new) /\ next <= l /\ j = m
  <2>1. TokenAt(t, new.next) = close
    BY <1>2, <1>3, <1>7, Zenon
  <2>2. result = [value |-> << e >>, next |-> new.next + 1]
    BY <1>4, <1>7, <2>1, Zenon
  <2>3. result = [value |-> a, next |-> i + n]
    BY <1>0, <1>1, <1>3, <1>7, <2>2
  <2>4. WholeAt(t, i, n) /\ all
    BY <1>1, <1>3, <1>7, Zenon
  <2>5. QED
    BY <2>3, <2>4, Zenon DEF Listed
<1>8. CASE ~Fails(new) /\ next <= l /\ j # m
  <2>1. TokenAt(t, new.next) = Comma /\ good /\ behind = Listed(t, i, n, rest, b)
    BY <1>2, <1>3, <1>8, Zenon
  <2>2. CASE WholeAt(t, i, n) /\ rest
    <3>1. behind = [value |-> b, next |-> i + n]
      BY <2>1, <2>2, Zenon DEF Listed
    <3>2. behind.value = b /\ behind.next = i + n /\ ~Fails(behind)
      BY <1>1, <3>1 DEF Fails
    <3>3. result = [value |-> << e >> \o behind.value, next |-> behind.next]
      BY <1>0, <1>3, <1>4, <1>8, <2>1, <3>2, Zenon
    <3>4. result = [value |-> a, next |-> i + n]
      BY <1>0, <1>8, <3>2, <3>3, Zenon
    <3>5. all
      BY <1>3, <2>1, <2>2, Zenon
    <3>6. QED
      BY <2>2, <3>4, <3>5, Zenon DEF Listed
  <2>3. CASE ~(WholeAt(t, i, n) /\ rest)
    <3>1. behind = Failed /\ Fails(behind)
      BY <2>1, <2>3, OutcomeIs, Zenon DEF Listed
    <3>2. result = Failed
      BY <1>0, <1>4, <2>1, <3>1, Zenon
    <3>3. ~(WholeAt(t, i, n) /\ all)
      BY <1>3, <2>3, Zenon
    <3>4. QED
      BY <3>2, <3>3, Zenon DEF Listed
  <2>4. QED
    BY <2>2, <2>3
<1>9. QED
  BY <1>5, <1>6, <1>7, <1>8

-----------------------------------------------------------------------------
(* The entries of a container in its text.                                   *)

PartOf(v, j) == IF Type(v) = "array" THEN Content(v)[j] ELSE Content(v)[j][2]

\* What is known of a container.
Entries(v) ==
  LET c == Content(v)  m == Len(Content(v)) IN
  /\ v = << Type(v), c >> /\ m \in Nat /\ DOMAIN c = 1 .. m
  /\ \E D : c \in Seq(D)
  /\ \A j \in 1 .. m : PartOf(v, j) \in Smaller(v)

LEMMA EntriesAre ==
  ASSUME NEW v \in Trees, IsContainer(v)
  PROVE  Entries(v)
<1>1. CASE Type(v) = "array"
  <2>1. ArrayParts(v)
    BY <1>1, TreeIs
  <2>2. QED
    BY <1>1, <2>1 DEF ArrayParts, Entries, PartOf
<1>2. CASE Type(v) = "object"
  <2>1. ObjectParts(v) /\ Type(v) # "array"
    BY <1>2, TreeIs
  <2>2. QED
    BY <1>2, <2>1 DEF ObjectParts, Entries, PartOf
<1>3. QED
  BY <1>1, <1>2 DEF IsContainer

\* A container may stand where its parts may stand in it.
LEMMA ContainerAt ==
  ASSUME NEW v \in Trees, IsContainer(v), NEW k \in Nat, k <= MaxNesting
  PROVE  v \in ValuesAt(k) <=> \A j \in 1 .. Len(Content(v)) : PartOf(v, j) \in ValuesAt(k + 1)
<1> DEFINE A == ValuesAt(k + 1)
           c == Content(v)
           m == Len(c)
<1>1. ValuesAt(k) = Made(A)
  BY ValuesAtIs
<1>2. Entries(v)
  BY EntriesAre
<1> HIDE DEF A
<1>3. CASE Type(v) = "array"
  <2>1. v = << "array", c >> /\ (\E D : c \in Seq(D)) /\ \A j \in 1 .. m : PartOf(v, j) = c[j]
    BY <1>2, <1>3 DEF Entries, PartOf
  <2>2. ASSUME v \in Made(A), NEW j \in 1 .. m PROVE PartOf(v, j) \in A
    <3>1. IsMade(v, A)
      BY <2>2, MadeType
    <3>2. c \in Seq(A)
      <4>1. Type(v) # "object" /\ "array" \notin ScalarTypes /\ Type(v) \notin ScalarTypes
        BY <1>3 DEF ScalarTypes
      <4>2. QED
        BY <1>3, <3>1, <4>1, Zenon DEF IsMade
    <3>3. QED
      BY <2>1, <2>2, <3>2
  <2>3. ASSUME \A j \in 1 .. m : PartOf(v, j) \in A PROVE v \in Made(A)
    <3>1. c \in Seq(A)
      BY <2>1, <2>3
    <3>2. BuiltFrom(v, A)
      BY <2>1, <3>1 DEF BuiltFrom
    <3>3. QED
      BY <3>2, MadeIs
  <2>4. QED
    BY <1>1, <2>2, <2>3 DEF A
<1>4. CASE Type(v) = "object"
  <2>1. ObjectParts(v) /\ Type(v) # "array" /\ \A j \in 1 .. m : PartOf(v, j) = c[j][2]
    BY <1>4, TreeIs DEF PartOf
  <2>2. ASSUME v \in Made(A), NEW j \in 1 .. m PROVE PartOf(v, j) \in A
    <3>1. IsMade(v, A)
      BY <2>2, MadeType
    <3>2. c \in Seq(Strings \X A)
      <4>1. Type(v) \notin ScalarTypes
        BY <1>4 DEF ScalarTypes
      <4>2. QED
        BY <2>1, <3>1, <4>1, Zenon DEF IsMade
    <3>3. c[j] \in Strings \X A
      BY <3>2, <2>2
    <3>4. QED
      BY <2>1, <3>3
  <2>3. ASSUME \A j \in 1 .. m : PartOf(v, j) \in A PROVE v \in Made(A)
    <3>0. /\ v = << "object", c >> /\ c \in Seq(Strings \X Smaller(v)) /\ DistinctNames(c)
          /\ \A i \in 1 .. m : c[i] = << c[i][1], c[i][2] >> /\ c[i][1] \in Strings
      BY <2>1 DEF ObjectParts
    <3>1. c \in Seq(Strings \X A)
      <4>1. ASSUME NEW j \in 1 .. m PROVE c[j] \in Strings \X A
        BY <2>1, <2>3, <3>0
      <4>2. QED
        BY <3>0, <4>1
    <3>2. BuiltFrom(v, A)
      BY <3>0, <3>1 DEF BuiltFrom
    <3>3. QED
      BY <3>2, MadeIs
  <2>4. QED
    BY <1>1, <2>2, <2>3 DEF A
<1>5. QED
  BY <1>3, <1>4 DEF IsContainer

\* The text of a container has the texts of its entries in it.
TextOf(v, at) ==
  Spelled(Serialize[v], OpenOf(Type(v)), CloseOf(Type(v)), PartTexts(Serialize, v), at)

LEMMA ContainerText ==
  ASSUME NEW v \in Trees, IsContainer(v)
  PROVE  /\ \E at : TextOf(v, at)
         /\ PartTexts(Serialize, v) \in Seq(Seq(Writable))
         /\ Len(PartTexts(Serialize, v)) = Len(Content(v))
<1> DEFINE text == PartTexts(Serialize, v)
           open == OpenOf(Type(v))
           close == CloseOf(Type(v))
<1>1. \A w \in Smaller(v) : Serialize[w] \in Seq(Writable)
  BY SerializeIs DEF Smaller
<1>2. text \in Seq(Seq(Writable)) /\ Len(text) = Len(Content(v))
  BY <1>1, PartTextsAre
<1>3. open \in Writable /\ close \in Writable /\ Comma \in Writable
  BY SignsAre
<1>4. Serialize[v] = << open >> \o CommaSeparated(text) \o << close >>
  BY SerializeIs, SerializeContainer
<1> HIDE DEF text, open, close
<1>5. \E at : Spelled(Serialize[v], open, close, text, at)
  BY <1>2, <1>3, <1>4, ContainerLayout
<1>6. QED
  BY <1>2, <1>5 DEF TextOf, text, open, close

\* The j-th entry of a text at position i.
PartInText(t, i, s, close, text, at, j, p, q) ==
  /\ Agree(t, p, text[j]) /\ p \in Nat /\ q \in 1 .. Len(s) /\ Len(s) \in Nat
  /\ j = Len(text) => q = Len(s)
  /\ TokenAt(t, i + q - 1) =
       IF i + q - 1 <= Len(t) THEN IF j = Len(text) THEN close ELSE Comma ELSE End
  /\ p + Len(text[j]) = i + q - 1 /\ Len(text[j]) \in Nat /\ q \in Nat /\ 2 <= q
  /\ j # Len(text) => i + q = i + at[j + 1] - 1

LEMMA PartAt ==
  ASSUME NEW T, NEW t \in Seq(T), NEW i \in Nat, NEW s, NEW open, NEW close,
         NEW text \in Seq(Seq(Writable)), NEW at, Spelled(s, open, close, text, at),
         Agree(t, i, s), NEW j \in 1 .. Len(text)
  PROVE  PartInText(t, i, s, close, text, at, j, i + at[j] - 1, at[j] + Len(text[j]))
<1> DEFINE m == Len(text)
           n == Len(s)
           b == at[j]
           e == Len(text[j])
           l == Len(t)
           p == i + b - 1
           q == b + e
<1>1. m \in Nat /\ l \in Nat /\ e \in Nat /\ text[j] \in Seq(Writable)
  OBVIOUS
<1>2. /\ n \in Nat /\ n >= 2 /\ b \in Nat /\ b >= 2 /\ q <= n
      /\ \A x \in 1 .. e : s[b + x - 1] = text[j][x]
      /\ s[q] = IF j = m THEN close ELSE Comma
      /\ at[j + 1] = q + 1
      /\ j = m => n = q
  <2>1. /\ at \in [1 .. m + 1 -> Nat] /\ n \in Nat /\ n >= 2
        /\ m # 0 => n = at[m] + Len(text[m])
    BY Zenon DEF Spelled
  <2>2. /\ at[j + 1] = b + e + 1 /\ b >= 2 /\ b + e <= n
        /\ \A x \in 1 .. e : s[b + x - 1] = text[j][x]
        /\ s[b + e] = IF j = m THEN close ELSE Comma
    BY Zenon DEF Spelled
  <2>3. j \in 1 .. m + 1 /\ m # 0 /\ j \in 1 .. m
    BY <1>1
  <2>4. b \in Nat
    BY <2>1, <2>3
  <2>5. j = m => n = q
    BY <2>1, <2>3, Zenon
  <2> HIDE DEF m, n, b, e
  <2>6. q \in Nat /\ at[j + 1] = q + 1
    BY <1>1, <2>2, <2>4, SMTT(40)
  <2>7. QED
    BY <2>1, <2>2, <2>4, <2>5, <2>6
<1>3. ASSUME NEW x \in 1 .. e, p + x - 1 <= l PROVE t[p + x - 1] = text[j][x]
  <2> DEFINE y == b + x - 1
  <2>1. y \in 1 .. n /\ i + y - 1 = p + x - 1
    <3>1. n \in Nat /\ b \in Nat /\ b >= 2 /\ q <= n /\ e \in Nat
      BY <1>1, <1>2, Zenon
    <3> HIDE DEF n, b, e
    <3>2. QED
      BY <3>1, SMTT(40)
  <2>2. s[y] = text[j][x]
    BY <1>2
  <2> HIDE DEF y, p, n
  <2>3. t[i + y - 1] = s[y]
    BY <1>3, <2>1 DEF Agree, n
  <2>4. QED
    BY <2>1, <2>2, <2>3
<1>4. Agree(t, p, text[j])
  BY <1>3 DEF Agree
<1>5. TokenAt(t, i + q - 1) = IF i + q - 1 <= l THEN s[q] ELSE End
  <2>1. q \in 1 .. n
    BY <1>1, <1>2, SMTT(40)
  <2> HIDE DEF q
  <2>2. QED
    BY <2>1, TokenOfText, Zenon
<1>6. p \in Nat /\ q \in Nat /\ q \in 1 .. n /\ p + e = i + q - 1 /\ 2 <= q
  <2> HIDE DEF n, b, e
  <2>1. QED
    BY <1>1, <1>2
<1>7. j # m => i + q = i + at[j + 1] - 1
  <2> HIDE DEF n, b, e
  <2>1. QED
    BY <1>1, <1>2
<1>8. TokenAt(t, i + q - 1) = IF i + q - 1 <= l THEN IF j = m THEN close ELSE Comma ELSE End
  BY <1>2, <1>5, Zenon
<1>9. QED
  BY <1>1, <1>2, <1>4, <1>6, <1>7, <1>8, Zenon DEF PartInText

\* The parser reads the value v wherever it is the next one.
Reads(t, v) ==
  \A i \in Nat, k \in Nat :
    Agree(t, i, Serialize[v]) =>
      Parser(t)[<< "value", i, k >>] = Listed(t, i, Len(Serialize[v]), v \in ValuesAt(k), v)

\* From the j-th entry on it reads the entries that are left.
ReadsFrom(t, v, at, i, k, j) ==
  Parser(t)[<< Type(v), i + at[j] - 1, k >>] =
    Listed(t, i, Len(Serialize[v]), \A l \in j .. Len(Content(v)) : PartOf(v, l) \in ValuesAt(k),
           SubSeq(Content(v), j, Len(Content(v))))

\* What is known of a value that was read.
NewFacts(t, i, q, good, w, new) ==
  /\ Fails(new) <=> ~(WholeAt(t, i, q - 1) /\ good)
  /\ ~Fails(new) => new.next = i + q - 1 /\ new.value = w

LEMMA NewIs ==
  ASSUME NEW t, NEW p, NEW e, NEW good, NEW w, NEW i, NEW q, NEW new,
         p \in Nat, e \in Nat, i \in Nat, q \in Nat, p + e = i + q - 1, 2 <= q,
         new = Listed(t, p, e, good, w)
  PROVE  NewFacts(t, i, q, good, w, new)
<1>1. WholeAt(t, p, e) <=> WholeAt(t, i, q - 1)
  <2>1. p + e - 1 = i + (q - 1) - 1
    OBVIOUS
  <2>2. QED
    BY <2>1, Zenon DEF WholeAt
<1>2. p + e # 0
  OBVIOUS
<1>3. CASE WholeAt(t, p, e) /\ good
  <2>1. new = [value |-> w, next |-> p + e]
    BY <1>3, Zenon DEF Listed
  <2>2. new.value = w /\ new.next = p + e /\ ~Fails(new)
    BY <1>2, <2>1 DEF Fails
  <2>3. QED
    BY <1>1, <1>3, <2>2 DEF NewFacts
<1>4. CASE ~(WholeAt(t, p, e) /\ good)
  <2>1. new = Failed /\ Fails(new)
    BY <1>4, OutcomeIs, Zenon DEF Listed
  <2>2. QED
    BY <1>1, <1>4, <2>1 DEF NewFacts
<1>5. QED
  BY <1>3, <1>4

LEMMA ItemsStep ==
  ASSUME NEW T, NEW t \in Seq(T), NEW v \in Trees, Type(v) = "array", NEW at, TextOf(v, at),
         NEW i \in Nat, NEW k \in Nat, Agree(t, i, Serialize[v]),
         \A w \in Smaller(v) : Reads(t, w), NEW j \in 1 .. Len(Content(v)),
         j # Len(Content(v)) => ReadsFrom(t, v, at, i, k, j + 1)
  PROVE  ReadsFrom(t, v, at, i, k, j)
<1> DEFINE c == Content(v)
           m == Len(c)
           n == Len(Serialize[v])
           text == PartTexts(Serialize, v)
           parse == Parser(t)
           p == i + at[j] - 1
           q == at[j] + Len(text[j])
           e == Len(text[j])
           A == ValuesAt(k)
           good == c[j] \in A
           rest == \A l \in j + 1 .. m : PartOf(v, l) \in A
           all == \A l \in j .. m : PartOf(v, l) \in A
           clash == FALSE
           new == parse[<< "value", p, k >>]
           behind == parse[<< "array", new.next + 1, k >>]
           a == SubSeq(c, j, m)
           b == SubSeq(c, j + 1, m)
<1>0. IsContainer(v) /\ Entries(v) /\ j \in 1 .. m /\ m \in Nat
  BY EntriesAre DEF IsContainer, Entries
<1>1. /\ text \in Seq(Seq(Writable)) /\ Len(text) = m
      /\ Spelled(Serialize[v], OpenOf("array"), CloseOf("array"), text, at)
  BY <1>0, ContainerText DEF TextOf
<1>2. c[j] \in Smaller(v) /\ text[j] = Serialize[c[j]] /\ \A l \in 1 .. m : PartOf(v, l) = c[l]
  <2>1. \A l \in 1 .. m : PartOf(v, l) = c[l]
    BY ZenonT(40) DEF PartOf
  <2>2. c[j] \in Smaller(v)
    BY <1>0, <2>1, Zenon DEF Entries
  <2>3. \A w \in Smaller(v) : Serialize[w] \in Seq(Writable)
    BY SerializeIs DEF Smaller
  <2>4. text[j] = Serialize[c[j]]
    BY <1>0, <2>3, PartTextsAre
  <2>5. QED
    BY <2>1, <2>2, <2>4
<1>3. /\ Agree(t, p, text[j]) /\ p \in Nat /\ q \in 1 .. n /\ n \in Nat /\ (j = m => q = n)
      /\ TokenAt(t, i + q - 1) =
           IF i + q - 1 <= Len(t) THEN IF j = m THEN CloseOf("array") ELSE Comma ELSE End
      /\ p + e = i + q - 1 /\ e \in Nat /\ q \in Nat /\ 2 <= q
      /\ j # m => i + q = i + at[j + 1] - 1
  <2>1. PartInText(t, i, Serialize[v], CloseOf("array"), text, at, j, p, q)
    <3> HIDE DEF text
    <3>1. QED
      BY <1>0, <1>1, PartAt
  <2>2. QED
    BY <1>1, <2>1, Zenon DEF PartInText
<1>4. new = Listed(t, p, e, good, c[j])
  <2>1. Reads(t, c[j])
    BY <1>2
  <2>2. QED
    BY <1>2, <1>3, <2>1, SMTT(40) DEF Reads
<1>5. /\ Fails(new) <=> ~(WholeAt(t, i, q - 1) /\ good)
      /\ ~Fails(new) => new.next = i + q - 1 /\ new.value = c[j]
  <2> HIDE DEF new, p, q, e, good
  <2>1. NewFacts(t, i, q, good, c[j], new)
    BY <1>3, <1>4, NewIs, Zenon
  <2>2. QED
    BY <2>1, Zenon DEF NewFacts
<1>6. ParseItems(t, parse, p, k) =
        IF Fails(new) THEN Failed
        ELSE IF TokenAt(t, new.next) = CloseOf("array") THEN [value |-> << new.value >>, next |-> new.next + 1]
        ELSE IF TokenAt(t, new.next) # Comma \/ Fails(behind) THEN Failed
        ELSE [value |-> << new.value >> \o behind.value, next |-> behind.next]
  <2>1. CloseOf("array") = "]"
    BY Zenon DEF CloseOf
  <2> HIDE DEF parse, p
  <2>2. QED
    BY <2>1, Zenon DEF ParseItems, Comma
<1>7. parse[<< "array", p, k >>] = ParseItems(t, parse, p, k)
  BY <1>3, ParserCalls
<1>8. ~Fails(new) /\ j # m => behind = Listed(t, i, n, rest, b)
  <2>1. SUFFICES ASSUME new.next = i + q - 1, j # m PROVE behind = Listed(t, i, n, rest, b)
    <3>1. ~Fails(new) => new.next = i + q - 1
      <4> HIDE DEF new, p, q, good
      <4>1. QED
        BY <1>5, Zenon
    <3>2. QED
      BY <3>1, Zenon
  <2>2. new.next + 1 = i + at[j + 1] - 1
    <3> HIDE DEF new, q
    <3>1. (i + q - 1) + 1 = i + q
      BY <1>3
    <3>2. QED
      BY <1>3, <2>1, <3>1
  <2>3. ReadsFrom(t, v, at, i, k, j + 1)
    BY <2>1
  <2> HIDE DEF new, p, q
  <2>4. QED
    BY <2>2, <2>3, Zenon DEF ReadsFrom
<1>9. j = m => rest
  BY <1>0, SMTT(40)
<1>10. PICK D : c \in Seq(D)
  BY <1>0, Zenon DEF Entries
<1>11. ReadsFrom(t, v, at, i, k, j) <=>
         parse[<< "array", p, k >>] = Listed(t, i, n, all, a)
  BY Zenon DEF ReadsFrom
<1>12. (all <=> good /\ rest) /\ ~clash
  BY <1>0, <1>2
<1> HIDE DEF n, parse, p, q, good, rest, all, clash, new, behind, A, text, e
<1>13. parse[<< "array", p, k >>] = Looped(t, CloseOf("array"), new, behind, clash, c[j])
  <2>1. CASE Fails(new)
    BY <1>6, <1>7, <1>12, <2>1, Zenon DEF Looped
  <2>2. CASE ~Fails(new)
    <3>1. new.value = c[j]
      BY <1>5, <2>2, Zenon
    <3>2. QED
      BY <1>6, <1>7, <1>12, <2>2, <3>1, Zenon DEF Looped
  <2>3. QED
    BY <2>1, <2>2
<1>14. Looped(t, CloseOf("array"), new, behind, clash, c[j]) = Listed(t, i, n, all, a)
  <2>1. LoopFacts(t, c, j, i, n, q, "array", new, behind, good, rest, all, clash)
    BY <1>0, <1>3, <1>5, <1>8, <1>9, <1>12, Zenon DEF LoopFacts
  <2>2. QED
    BY <1>10, <2>1, LoopStep
<1>15. QED
  BY <1>11, <1>13, <1>14, Zenon

\* The text of a member: a name, a colon and the text of the value.
LEMMA MemberTextIs ==
  ASSUME NEW v \in Trees, Type(v) = "object", NEW j \in 1 .. Len(Content(v))
  PROVE  LET token == TokenOf("string", Content(v)[j][1])
             text == MemberText(Serialize, Content(v), j)
             inner == Serialize[Content(v)[j][2]]
         IN  /\ text[1] = token /\ text[2] = Colon /\ Len(text) = Len(inner) + 2 /\ Len(inner) \in Nat
             /\ \A x \in 1 .. Len(inner) : text[x + 2] = inner[x]
             /\ IsString(token) /\ Content(Scalar[token]) = Content(v)[j][1]
             /\ token \in DOMAIN Scalar
<1> DEFINE c == Content(v)
           token == TokenOf("string", c[j][1])
           inner == Serialize[c[j][2]]
<1>1. /\ c[j][1] \in Strings /\ c[j][2] \in Smaller(v) /\ GetValue(c, c[j][1]) = c[j][2]
      /\ DistinctNames(c)
  <2>1. ObjectParts(v)
    BY TreeIs
  <2>2. QED
    BY <2>1 DEF ObjectParts
<1>2. IsString(token) /\ Content(Scalar[token]) = c[j][1] /\ token \in Writable /\ token \in DOMAIN Scalar
  BY <1>1, NameToken
<1>3. inner \in Seq(Writable)
  BY <1>1, SerializeIs DEF Smaller
<1>4. MemberText(Serialize, c, j) = << token, Colon >> \o inner
  BY <1>1, Zenon DEF MemberText
<1>5. Colon \in Writable
  BY SignsAre
<1> HIDE DEF token, inner
<1>6. LET text == << token, Colon >> \o inner
      IN  /\ text[1] = token /\ text[2] = Colon /\ Len(text) = Len(inner) + 2 /\ Len(inner) \in Nat
          /\ \A x \in 1 .. Len(inner) : text[x + 2] = inner[x]
  BY <1>2, <1>3, <1>5
<1>7. QED
  BY <1>2, <1>4, <1>6, Zenon DEF token, inner

\* The names of the entries behind one are others.
LEMMA OtherNames ==
  ASSUME NEW D, NEW c \in Seq(D), DistinctNames(c), NEW j \in 1 .. Len(c)
  PROVE  c[j][1] \notin NamesOf(SubSeq(c, j + 1, Len(c)))
<1> DEFINE m == Len(c)
           b == SubSeq(c, j + 1, m)
<1>0. m \in Nat /\ DOMAIN c = 1 .. m /\ j \in Nat /\ j <= m
  OBVIOUS
<1>1. /\ DOMAIN b = 1 .. m - j /\ \A x \in 1 .. m - j : b[x] = c[j + x]
  <2>1. Len(b) = m - j /\ b \in Seq(D) /\ \A x \in 1 .. m - j : b[x] = c[j + x]
    BY <1>0
  <2> HIDE DEF b
  <2>2. QED
    BY <2>1
<1> HIDE DEF b, m
<1>2. ASSUME NEW x \in DOMAIN b PROVE b[x][1] # c[j][1]
  <2>1. j + x \in DOMAIN c /\ j \in DOMAIN c /\ j + x # j /\ b[x] = c[j + x]
    BY <1>0, <1>1
  <2>2. c[j + x][1] # c[j][1]
    BY <2>1 DEF DistinctNames
  <2>3. QED
    BY <2>1, <2>2
<1>3. c[j][1] \notin NamesOf(b)
  BY <1>2 DEF NamesOf
<1>4. QED
  BY <1>3 DEF b, m

LEMMA MembersStep ==
  ASSUME NEW T, NEW t \in Seq(T), NEW v \in Trees, Type(v) = "object", NEW at, TextOf(v, at),
         NEW i \in Nat, NEW k \in Nat, Agree(t, i, Serialize[v]),
         \A w \in Smaller(v) : Reads(t, w), NEW j \in 1 .. Len(Content(v)),
         j # Len(Content(v)) => ReadsFrom(t, v, at, i, k, j + 1)
  PROVE  ReadsFrom(t, v, at, i, k, j)
<1> DEFINE c == Content(v)
           m == Len(c)
           n == Len(Serialize[v])
           text == PartTexts(Serialize, v)
           inner == Serialize[c[j][2]]
           parse == Parser(t)
           p == i + at[j] - 1
           q == at[j] + Len(text[j])
           e == Len(inner)
           A == ValuesAt(k)
           good == c[j][2] \in A
           rest == \A l \in j + 1 .. m : PartOf(v, l) \in A
           all == \A l \in j .. m : PartOf(v, l) \in A
           name == Content(Scalar[TokenAt(t, p)])
           new == parse[<< "value", p + 2, k >>]
           behind == parse[<< "object", new.next + 1, k >>]
           clash == name \in NamesOf(behind.value)
           a == SubSeq(c, j, m)
           b == SubSeq(c, j + 1, m)
           token == TokenOf("string", c[j][1])
<1>0. IsContainer(v) /\ Entries(v) /\ j \in 1 .. m /\ m \in Nat /\ Type(v) # "array"
  BY EntriesAre DEF IsContainer, Entries
<1>1. /\ text \in Seq(Seq(Writable)) /\ Len(text) = m
      /\ Spelled(Serialize[v], OpenOf("object"), CloseOf("object"), text, at)
  <2>1. OpenOf(Type(v)) = OpenOf("object") /\ CloseOf(Type(v)) = CloseOf("object")
    OBVIOUS
  <2>2. QED
    BY <1>0, <2>1, ContainerText, Zenon DEF TextOf
<1>2. /\ c[j][2] \in Smaller(v) /\ text[j] = MemberText(Serialize, c, j)
      /\ \A l \in 1 .. m : PartOf(v, l) = c[l][2]
  <2>1. \A l \in 1 .. m : PartOf(v, l) = c[l][2]
    BY <1>0, ZenonT(40) DEF PartOf
  <2>2. c[j][2] \in Smaller(v)
    BY <1>0, <2>1, Zenon DEF Entries
  <2>3. \A w \in Smaller(v) : Serialize[w] \in Seq(Writable)
    BY SerializeIs DEF Smaller
  <2>4. text[j] = MemberText(Serialize, c, j)
    BY <1>0, <2>3, PartTextsAre
  <2>5. QED
    BY <2>1, <2>2, <2>4
<1>3. /\ text[j][1] = token /\ text[j][2] = Colon /\ Len(text[j]) = e + 2 /\ e \in Nat
      /\ \A x \in 1 .. e : text[j][x + 2] = inner[x]
      /\ IsString(token) /\ Content(Scalar[token]) = c[j][1]
  <2>1. /\ MemberText(Serialize, c, j)[1] = token /\ MemberText(Serialize, c, j)[2] = Colon
        /\ Len(MemberText(Serialize, c, j)) = e + 2 /\ e \in Nat
        /\ \A x \in 1 .. e : MemberText(Serialize, c, j)[x + 2] = inner[x]
        /\ IsString(token) /\ Content(Scalar[token]) = c[j][1]
    BY MemberTextIs, Zenon
  <2> HIDE DEF token, e, inner, text
  <2>2. QED
    BY <1>2, <2>1, Zenon
<1>4. /\ Agree(t, p, text[j]) /\ p \in Nat /\ q \in 1 .. n /\ n \in Nat /\ (j = m => q = n)
      /\ TokenAt(t, i + q - 1) =
           IF i + q - 1 <= Len(t) THEN IF j = m THEN CloseOf("object") ELSE Comma ELSE End
      /\ p + Len(text[j]) = i + q - 1 /\ q \in Nat /\ 2 <= q
      /\ j # m => i + q = i + at[j + 1] - 1
  <2>1. PartInText(t, i, Serialize[v], CloseOf("object"), text, at, j, p, q)
    <3> HIDE DEF text
    <3>1. QED
      BY <1>0, <1>1, PartAt
  <2>2. QED
    BY <1>1, <2>1, Zenon DEF PartInText
<1>5. p + 2 \in Nat /\ (p + 2) + e = i + q - 1
  <2> DEFINE l == Len(text[j])
  <2>1. l = e + 2 /\ e \in Nat /\ p \in Nat /\ p + l = i + q - 1
    BY <1>3, <1>4, Zenon
  <2> HIDE DEF p, q, e, text, l
  <2>2. p + 2 + e = p + l /\ p + 2 \in Nat
    BY <2>1
  <2>3. QED
    BY <2>1, <2>2
<1>6. Agree(t, p + 2, inner)
  <2>1. ASSUME NEW x \in 1 .. e, (p + 2) + x - 1 <= Len(t) PROVE t[(p + 2) + x - 1] = inner[x]
    <3> DEFINE y == x + 2
               l == Len(text[j])
    <3>0. l = e + 2 /\ e \in Nat /\ p \in Nat
      BY <1>3, <1>4, Zenon
    <3> HIDE DEF p, q, e, text, inner, l
    <3>1. y \in 1 .. l /\ p + y - 1 = (p + 2) + x - 1
      BY <3>0
    <3>2. text[j][y] = inner[x]
      BY <1>3
    <3> HIDE DEF y
    <3>3. t[p + y - 1] = text[j][y]
      BY <1>4, <2>1, <3>1 DEF Agree, l
    <3>4. QED
      BY <3>1, <3>2, <3>3
  <2>2. QED
    BY <2>1 DEF Agree
<1>7. new = Listed(t, p + 2, e, good, c[j][2])
  <2>1. Reads(t, c[j][2])
    BY <1>2
  <2> HIDE DEF p, parse
  <2>2. QED
    BY <1>5, <1>6, <2>1, Zenon DEF Reads, parse
<1>8. /\ Fails(new) <=> ~(WholeAt(t, i, q - 1) /\ good)
      /\ ~Fails(new) => new.next = i + q - 1 /\ new.value = c[j][2]
  <2> HIDE DEF new, p, q, e, good
  <2>1. NewFacts(t, i, q, good, c[j][2], new)
    <3>1. /\ p + 2 \in Nat /\ e \in Nat /\ i \in Nat /\ q \in Nat /\ (p + 2) + e = i + q - 1 /\ 2 <= q
          /\ new = Listed(t, p + 2, e, good, c[j][2])
      BY <1>3, <1>4, <1>5, <1>7, Zenon
    <3>2. QED
      BY <3>1, NewIs, Zenon
  <2>2. QED
    BY <2>1, Zenon DEF NewFacts
<1>9. ParseMembers(t, parse, p, k) =
        IF ~IsString(TokenAt(t, p)) \/ TokenAt(t, p + 1) # Colon \/ Fails(new) THEN Failed
        ELSE IF TokenAt(t, new.next) = CloseOf("object")
        THEN [value |-> << << name, new.value >> >>, next |-> new.next + 1]
        ELSE IF TokenAt(t, new.next) # Comma \/ Fails(behind) \/ clash THEN Failed
        ELSE [value |-> << << name, new.value >> >> \o behind.value, next |-> behind.next]
  <2>1. CloseOf("object") = "}"
    BY Zenon DEF CloseOf
  <2> HIDE DEF parse, p
  <2>2. QED
    BY <2>1, Zenon DEF ParseMembers, Comma, Colon
<1>10. parse[<< "object", p, k >>] = ParseMembers(t, parse, p, k)
  BY <1>4, ParserCalls
<1>11. ~Fails(new) /\ j # m => behind = Listed(t, i, n, rest, b)
  <2>1. SUFFICES ASSUME new.next = i + q - 1, j # m PROVE behind = Listed(t, i, n, rest, b)
    <3>1. ~Fails(new) => new.next = i + q - 1
      <4> HIDE DEF new, p, q, good
      <4>1. QED
        BY <1>8, Zenon
    <3>2. QED
      BY <3>1, Zenon
  <2>2. new.next + 1 = i + at[j + 1] - 1
    <3> HIDE DEF new, q
    <3>1. (i + q - 1) + 1 = i + q
      BY <1>4
    <3>2. QED
      BY <1>4, <2>1, <3>1
  <2>3. ReadsFrom(t, v, at, i, k, j + 1)
    BY <2>1
  <2> HIDE DEF new, p, q
  <2>4. QED
    BY <2>2, <2>3, Zenon DEF ReadsFrom
<1>12. j = m => rest
  BY <1>0
<1>13. PICK D : c \in Seq(D)
  BY <1>0, Zenon DEF Entries
<1>14. ReadsFrom(t, v, at, i, k, j) <=>
         parse[<< "object", p, k >>] = Listed(t, i, n, all, a)
  BY Zenon DEF ReadsFrom
<1>15. all <=> good /\ rest
  BY <1>0, <1>2
<1>16. /\ c[j] = << c[j][1], c[j][2] >>
       /\ c[j][1] \notin NamesOf(b)
  <2>1. ObjectParts(v)
    BY TreeIs
  <2>2. DistinctNames(c) /\ c[j] = << c[j][1], c[j][2] >>
    BY <2>1, Zenon DEF ObjectParts
  <2>3. QED
    BY <1>13, <2>2, OtherNames
<1>17. ~Fails(new) => /\ TokenAt(t, p) = token /\ TokenAt(t, p + 1) = Colon /\ name = c[j][1]
  <2>1. SUFFICES ASSUME ~Fails(new)
                 PROVE  TokenAt(t, p) = token /\ TokenAt(t, p + 1) = Colon
    BY <1>3, Zenon
  <2> HIDE DEF new, p, q, e, good, text, token
  <2>2. i + (q - 1) - 1 <= Len(t)
    BY <1>8, <2>1, Zenon DEF WholeAt
  <2>3. p <= Len(t) /\ p + 1 <= Len(t) /\ p + 1 - 1 = p /\ p + 2 - 1 = p + 1
    <3>1. p \in Nat /\ e \in Nat /\ q \in Nat /\ (p + 2) + e = i + q - 1
      BY <1>3, <1>4, <1>5, Zenon
    <3>2. QED
      BY <2>2, <3>1
  <2>4. 1 \in 1 .. Len(text[j]) /\ 2 \in 1 .. Len(text[j])
    BY <1>3
  <2>5. TokenAt(t, p + 1 - 1) = text[j][1] /\ TokenAt(t, p + 2 - 1) = text[j][2]
    BY <1>4, <2>3, <2>4, TokenOfText
  <2>6. QED
    BY <1>3, <2>3, <2>5
<1> HIDE DEF n, parse, p, q, good, rest, all, clash, new, behind, A, text, e, inner, token, name
<1>18. parse[<< "object", p, k >>] = Looped(t, CloseOf("object"), new, behind, clash, c[j])
  <2>1. CASE Fails(new)
    BY <1>9, <1>10, <2>1, Zenon DEF Looped
  <2>2. CASE ~Fails(new)
    <3>1. << name, new.value >> = c[j]
      BY <1>8, <1>16, <1>17, <2>2, Zenon
    <3>2. IsString(TokenAt(t, p)) /\ TokenAt(t, p + 1) = Colon
      BY <1>3, <1>17, <2>2, Zenon
    <3>3. QED
      BY <1>9, <1>10, <2>2, <3>1, <3>2, Zenon DEF Looped
  <2>3. QED
    BY <2>1, <2>2
<1>19. ~Fails(new) /\ j # m /\ behind.value = b => ~clash
  BY <1>16, <1>17, Zenon DEF clash
<1>20. Looped(t, CloseOf("object"), new, behind, clash, c[j]) = Listed(t, i, n, all, a)
  <2>1. LoopFacts(t, c, j, i, n, q, "object", new, behind, good, rest, all, clash)
    BY <1>0, <1>4, <1>8, <1>11, <1>12, <1>15, <1>19, Zenon DEF LoopFacts
  <2>2. QED
    BY <1>13, <2>1, LoopStep
<1>21. QED
  BY <1>14, <1>18, <1>20, Zenon

LEMMA ScalarText ==
  ASSUME NEW v \in Trees, ~IsContainer(v)
  PROVE  LET token == TokenOf(Type(v), Content(v)) IN
         /\ Serialize[v] = << token >> /\ token \in DOMAIN Scalar /\ Scalar[token] = v
         /\ v \in Range(Scalar)
<1>1. Type(v) # "array" /\ Type(v) # "object"
  BY DEF IsContainer
<1>2. SerializeValue(Serialize, v) = << TokenOf(Type(v), Content(v)) >>
  BY <1>1, Zenon DEF SerializeValue
<1>3. Serialize[v] = << TokenOf(Type(v), Content(v)) >>
  BY <1>2, SerializeIs
<1>4. v \in Range(Scalar)
  BY <1>1, TreeIs
<1>5. TokenOf(Type(v), Content(v)) \in DOMAIN Scalar /\ Scalar[TokenOf(Type(v), Content(v))] = v
  BY <1>4, ScalarIs
<1>6. QED
  BY <1>3, <1>4, <1>5, Zenon

\* No text begins with a closing bracket.
LEMMA FirstToken ==
  ASSUME NEW v \in Trees
  PROVE  /\ Len(Serialize[v]) \in Nat /\ Len(Serialize[v]) >= 1
         /\ \A type : Serialize[v][1] # CloseOf(type)
<1>1. CASE IsContainer(v)
  <2>1. PICK at : TextOf(v, at)
    BY <1>1, ContainerText
  <2>2. Serialize[v][1] = OpenOf(Type(v)) /\ Len(Serialize[v]) \in Nat /\ Len(Serialize[v]) >= 2
    BY <2>1, Zenon DEF TextOf, Spelled
  <2>3. QED
    BY <2>2, SignsAre
<1>2. CASE ~IsContainer(v)
  <2> DEFINE token == TokenOf(Type(v), Content(v))
  <2>1. Serialize[v] = << token >> /\ token \in DOMAIN Scalar
    BY <1>2, ScalarText, Zenon
  <2> HIDE DEF token
  <2>2. Len(Serialize[v]) = 1 /\ Serialize[v][1] = token
    BY <2>1
  <2>3. QED
    BY <2>1, <2>2, SignsAre
<1>3. QED
  BY <1>1, <1>2

\* Nothing is read at the end.
LEMMA EndFails ==
  ASSUME NEW T, NEW t \in Seq(T), NEW i \in Nat, NEW k \in Nat, TokenAt(t, i) = End
  PROVE  \A type \in {"array", "object"} : Fails(Parser(t)[<< type, i, k >>])
<1> DEFINE parse == Parser(t)
<1>1. /\ parse[<< "value", i, k >>] = ParseValue(t, parse, i, k)
      /\ parse[<< "array", i, k >>] = ParseItems(t, parse, i, k)
      /\ parse[<< "object", i, k >>] = ParseMembers(t, parse, i, k)
  BY ParserCalls
<1> HIDE DEF parse
<1>2. /\ TokenAt(t, i) # OpenOf("object") /\ TokenAt(t, i) # OpenOf("array")
      /\ TokenAt(t, i) \notin DOMAIN Scalar /\ ~IsString(TokenAt(t, i))
  BY SignsAre DEF IsString
<1>3. parse[<< "value", i, k >>] = Failed
  BY <1>1, <1>2, ParseValueIs, Zenon
<1>4. Fails(Failed) /\ Fails(parse[<< "value", i, k >>])
  BY <1>3, OutcomeIs
<1>5. ParseItems(t, parse, i, k) = Failed
  BY <1>4, Zenon DEF ParseItems
<1>6. ParseMembers(t, parse, i, k) = Failed
  BY <1>2, Zenon DEF ParseMembers
<1>7. QED
  BY <1>1, <1>4, <1>5, <1>6 DEF parse

LEMMA ScalarReads ==
  ASSUME NEW T, NEW t \in Seq(T), NEW v \in Trees, ~IsContainer(v)
  PROVE  Reads(t, v)
<1> DEFINE token == TokenOf(Type(v), Content(v))
           s == Serialize[v]
<1>1. s = << token >> /\ token \in DOMAIN Scalar /\ Scalar[token] = v /\ v \in Range(Scalar)
  BY ScalarText, Zenon
<1> HIDE DEF token, s
<1>2. Len(s) = 1 /\ s[1] = token
  BY <1>1
<1>3. SUFFICES ASSUME NEW i \in Nat, NEW k \in Nat, Agree(t, i, s)
               PROVE  Parser(t)[<< "value", i, k >>] = Listed(t, i, 1, v \in ValuesAt(k), v)
  BY <1>2 DEF Reads, s
<1>4. Parser(t)[<< "value", i, k >>] = ParseValue(t, Parser(t), i, k)
  BY ParserCalls
<1>5. v \in ValuesAt(k) <=> k <= MaxNesting
  <2>1. ASSUME k <= MaxNesting PROVE v \in ValuesAt(k)
    <3>1. ValuesAt(k) = Made(ValuesAt(k + 1))
      BY <2>1, ValuesAtIs
    <3>2. BuiltFrom(v, ValuesAt(k + 1))
      BY <1>1, Zenon DEF BuiltFrom
    <3>3. QED
      BY <3>1, <3>2, MadeIs
  <2>2. ASSUME ~(k <= MaxNesting) PROVE v \notin ValuesAt(k)
    BY <2>2, Zenon DEF ValuesAt
  <2>3. QED
    BY <2>1, <2>2
<1>6. (k <= MaxNesting <=> ~(k > MaxNesting)) /\ (WholeAt(t, i, 1) <=> i <= Len(t)) /\ i + 1 - 1 = i
  <2>1. MaxNesting \in Nat
    BY DocumentAssumption
  <2>2. Len(t) \in Nat
    OBVIOUS
  <2>3. QED
    BY <2>1, <2>2 DEF WholeAt
<1>7. TokenAt(t, i) = IF i <= Len(t) THEN token ELSE End
  <2>1. 1 \in 1 .. Len(s)
    BY <1>2
  <2>2. TokenAt(t, i + 1 - 1) = IF i + 1 - 1 <= Len(t) THEN s[1] ELSE End
    BY <1>3, <2>1, TokenOfText, Zenon
  <2>3. QED
    BY <1>2, <1>6, <2>2
<1>8. CASE k > MaxNesting
  <2>1. ParseValue(t, Parser(t), i, k) = Failed
    BY <1>8, ParseValueIs, Zenon
  <2>2. v \notin ValuesAt(k)
    BY <1>5, <1>6, <1>8
  <2>3. QED
    BY <1>4, <2>1, <2>2, Zenon DEF Listed
<1>9. CASE ~(k > MaxNesting) /\ i <= Len(t)
  <2>1. TokenAt(t, i) = token /\ t[i] = token
    BY <1>7, <1>9, TokenAtIs, Zenon
  <2>2. ParseValue(t, Parser(t), i, k) = ParseScalar(t, i)
    BY <1>1, <1>9, <2>1, ParseValueIs, Zenon
  <2>3. ParseScalar(t, i) = [value |-> v, next |-> i + 1]
    BY <1>1, <2>1 DEF ParseScalar
  <2>4. v \in ValuesAt(k) /\ WholeAt(t, i, 1)
    BY <1>5, <1>6, <1>9
  <2>5. QED
    BY <1>4, <2>2, <2>3, <2>4, Zenon DEF Listed
<1>10. CASE ~(k > MaxNesting) /\ ~(i <= Len(t))
  <2>1. /\ TokenAt(t, i) # OpenOf("object") /\ TokenAt(t, i) # OpenOf("array")
        /\ TokenAt(t, i) \notin DOMAIN Scalar
    BY <1>7, <1>10, SignsAre
  <2>2. ParseValue(t, Parser(t), i, k) = Failed
    BY <1>10, <2>1, ParseValueIs, Zenon
  <2>3. ~WholeAt(t, i, 1)
    BY <1>6, <1>10
  <2>4. QED
    BY <1>4, <2>2, <2>3, Zenon DEF Listed
<1>11. QED
  BY <1>8, <1>9, <1>10

LEMMA EntryStep ==
  ASSUME NEW T, NEW t \in Seq(T), NEW v \in Trees, IsContainer(v), NEW at, TextOf(v, at),
         NEW i \in Nat, NEW k \in Nat, Agree(t, i, Serialize[v]),
         \A w \in Smaller(v) : Reads(t, w), NEW j \in 1 .. Len(Content(v)),
         j # Len(Content(v)) => ReadsFrom(t, v, at, i, k, j + 1)
  PROVE  ReadsFrom(t, v, at, i, k, j)
<1>1. CASE Type(v) = "array"
  BY <1>1, ItemsStep
<1>2. CASE Type(v) = "object"
  BY <1>2, MembersStep
<1>3. QED
  BY <1>1, <1>2 DEF IsContainer

\* From the last entry to the first.
LEMMA EntriesRead ==
  ASSUME NEW T, NEW t \in Seq(T), NEW v \in Trees, IsContainer(v), NEW at, TextOf(v, at),
         NEW i \in Nat, NEW k \in Nat, Agree(t, i, Serialize[v]),
         \A w \in Smaller(v) : Reads(t, w), Len(Content(v)) # 0
  PROVE  ReadsFrom(t, v, at, i, k, 1)
<1> DEFINE m == Len(Content(v))
           U == {x \in 0 .. m - 1 : ReadsFrom(t, v, at, i, k, x + 1)}
<1>1. m \in Nat /\ m # 0
  BY EntriesAre DEF Entries
<1>2. m - 1 \in U
  <2>1. m \in 1 .. Len(Content(v)) /\ m - 1 \in 0 .. m - 1 /\ (m - 1) + 1 = m
    BY <1>1
  <2>2. ReadsFrom(t, v, at, i, k, m)
    BY <2>1, EntryStep
  <2> HIDE DEF m
  <2>3. QED
    BY <2>1, <2>2
<1>3. ASSUME NEW x \in 1 .. m - 1, x \in U PROVE x - 1 \in U
  <2>1. x \in 1 .. Len(Content(v)) /\ x - 1 \in 0 .. m - 1 /\ (x - 1) + 1 = x
    BY <1>1
  <2>2. ReadsFrom(t, v, at, i, k, x + 1)
    BY <1>3
  <2>3. ReadsFrom(t, v, at, i, k, x)
    BY <2>1, <2>2, EntryStep
  <2> HIDE DEF m
  <2>4. QED
    BY <2>1, <2>3
<1>4. m - 1 \in Nat /\ 0 \in 0 .. m - 1 /\ 0 + 1 = 1
  BY <1>1
<1> HIDE DEF U, m
<1>5. 0 \in U
  BY <1>2, <1>3, <1>4, AllNumbersDown
<1>6. QED
  BY <1>4, <1>5 DEF U

LEMMA ContainerReads ==
  ASSUME NEW T, NEW t \in Seq(T), NEW v \in Trees, IsContainer(v),
         \A w \in Smaller(v) : Reads(t, w)
  PROVE  Reads(t, v)
<1> DEFINE s == Serialize[v]
           n == Len(s)
           c == Content(v)
           m == Len(c)
           type == Type(v)
           close == CloseOf(type)
           text == PartTexts(Serialize, v)
           parse == Parser(t)
           l == Len(t)
<1>1. SUFFICES ASSUME NEW i \in Nat, NEW k \in Nat, Agree(t, i, s)
               PROVE  parse[<< "value", i, k >>] = Listed(t, i, n, v \in ValuesAt(k), v)
  BY DEF Reads
<1>2. /\ type \in {"array", "object"} /\ v = << type, c >> /\ m \in Nat /\ DOMAIN c = 1 .. m
      /\ \E D : c \in Seq(D)
  <2>1. Entries(v)
    BY EntriesAre
  <2>2. QED
    BY <2>1 DEF Entries, IsContainer
<1>3. PICK at : TextOf(v, at)
  BY ContainerText
<1>4. /\ at[1] = 2 /\ n \in Nat /\ n >= 2 /\ s[1] = OpenOf(type)
      /\ Len(text) = 0 => n = 2 /\ s[2] = close
  BY <1>3, Zenon DEF TextOf, Spelled
<1>5. Len(text) = m
  BY ContainerText
<1>6. /\ parse[<< "value", i, k >>] = ParseValue(t, parse, i, k)
      /\ i + 1 \in Nat /\ k + 1 \in Nat
  <2>1. parse[<< "value", i, k >>] = ParseValue(t, parse, i, k)
    BY ParserCalls
  <2> HIDE DEF parse
  <2>2. QED
    BY <2>1
<1>7. /\ TokenAt(t, i) = IF i <= l THEN OpenOf(type) ELSE End
      /\ TokenAt(t, i + 1) = IF i + 1 <= l THEN s[2] ELSE End
  <2>1. 1 \in 1 .. n /\ 2 \in 1 .. n /\ i + 1 - 1 = i /\ i + 2 - 1 = i + 1
    BY <1>4
  <2>2. TokenAt(t, i + 1 - 1) = IF i + 1 - 1 <= l THEN s[1] ELSE End
    BY <1>1, <2>1, TokenOfText, Zenon
  <2>3. TokenAt(t, i + 2 - 1) = IF i + 2 - 1 <= l THEN s[2] ELSE End
    BY <1>1, <2>1, TokenOfText, Zenon
  <2> HIDE DEF s, l, type
  <2>4. QED
    BY <1>4, <2>1, <2>2, <2>3
<1>8. /\ MaxNesting \in Nat
      /\ k <= MaxNesting <=> ~(k > MaxNesting)
      /\ WholeAt(t, i, n) => i <= l /\ i + 1 <= l
      /\ n = 2 => (WholeAt(t, i, n) <=> i + 1 <= l) /\ i + n = i + 2
  <2>1. MaxNesting \in Nat
    BY DocumentAssumption
  <2>2. l \in Nat
    OBVIOUS
  <2> HIDE DEF l, n
  <2>3. QED
    BY <1>4, <2>1, <2>2 DEF WholeAt, l
<1>9. CASE k > MaxNesting
  <2>1. ParseValue(t, parse, i, k) = Failed
    BY <1>9, ParseValueIs, Zenon
  <2>2. v \notin ValuesAt(k)
    BY <1>8, <1>9, Zenon DEF ValuesAt
  <2>3. QED
    BY <1>6, <2>1, <2>2, Zenon DEF Listed
<1>10. CASE ~(k > MaxNesting) /\ ~(i <= l)
  <2>1. /\ TokenAt(t, i) # OpenOf("object") /\ TokenAt(t, i) # OpenOf("array")
        /\ TokenAt(t, i) \notin DOMAIN Scalar
    BY <1>7, <1>10, SignsAre
  <2>2. ParseValue(t, parse, i, k) = Failed
    BY <1>10, <2>1, ParseValueIs, Zenon
  <2>3. ~WholeAt(t, i, n)
    BY <1>8, <1>10, Zenon
  <2>4. QED
    BY <1>6, <2>2, <2>3, Zenon DEF Listed
<1>11. CASE ~(k > MaxNesting) /\ i <= l
  <2> DEFINE inside == parse[<< type, i + 1, k + 1 >>]
             good == v \in ValuesAt(k)
             a == \A j \in 1 .. m : PartOf(v, j) \in ValuesAt(k + 1)
             result == parse[<< "value", i, k >>]
  <2>1. ParseValue(t, parse, i, k) = ParseContainer(t, parse, type, close, i, k)
    <3>1. TokenAt(t, i) = OpenOf(type) /\ TokenAt(t, i) \notin DOMAIN Scalar
      BY <1>7, <1>11, SignsAre
    <3>2. CASE type = "object"
      <4>1. TokenAt(t, i) = OpenOf("object") /\ close = CloseOf("object")
        BY <3>1, <3>2
      <4> HIDE DEF close
      <4>2. QED
        BY <1>11, <3>1, <3>2, <4>1, ParseValueIs, Zenon
    <3>3. CASE type = "array"
      <4>1. /\ TokenAt(t, i) = OpenOf("array") /\ close = CloseOf("array")
            /\ TokenAt(t, i) # OpenOf("object")
        BY <3>1, <3>3, SignsAre
      <4> HIDE DEF close
      <4>2. QED
        BY <1>11, <3>1, <3>3, <4>1, ParseValueIs, Zenon
    <3>4. QED
      BY <1>2, <3>2, <3>3
  <2>2. ParseContainer(t, parse, type, close, i, k) =
          IF TokenAt(t, i + 1) = close THEN [value |-> << type, << >> >>, next |-> i + 2]
          ELSE IF Fails(inside) THEN Failed
          ELSE [value |-> << type, inside.value >>, next |-> inside.next]
    BY Zenon DEF ParseContainer
  <2>3. good <=> a
    BY <1>8, <1>11, ContainerAt
  <2>4. close # End
    BY SignsAre
  <2>5. CASE m = 0
    <3>1. n = 2 /\ s[2] = close
      BY <1>4, <1>5, <2>5
    <3>2. a /\ v = << type, << >> >>
      BY <1>2, <2>5
    <3>3. ~(i + 1 <= l) => Fails(inside)
      <4>1. ~(i + 1 <= l) => TokenAt(t, i + 1) = End
        BY <1>7, Zenon
      <4>2. QED
        BY <1>2, <1>6, <4>1, EndFails
    <3> HIDE DEF a, inside, close, s, n, l, type, parse, m, good, c
    <3>4. CASE i + 1 <= l
      <4>1. TokenAt(t, i + 1) = close
        BY <1>7, <3>1, <3>4, Zenon
      <4>2. result = [value |-> << type, << >> >>, next |-> i + 2]
        BY <1>6, <2>1, <2>2, <4>1, Zenon
      <4>3. result = [value |-> v, next |-> i + n]
        BY <1>8, <3>1, <3>2, <4>2
      <4>4. WholeAt(t, i, n) /\ good
        BY <1>8, <2>3, <3>1, <3>2, <3>4, Zenon
      <4>5. QED
        BY <4>3, <4>4, Zenon DEF Listed, good
    <3>5. CASE ~(i + 1 <= l)
      <4>1. TokenAt(t, i + 1) # close
        BY <1>7, <2>4, <3>5, Zenon
      <4>2. result = Failed
        BY <1>6, <2>1, <2>2, <3>3, <3>5, <4>1, Zenon
      <4>3. ~WholeAt(t, i, n)
        BY <1>8, <3>5, Zenon
      <4>4. QED
        BY <4>2, <4>3, Zenon DEF Listed
    <3>6. QED
      BY <3>4, <3>5
  <2>6. CASE m # 0
    <3>1. s[2] # close
      <4>1. /\ text \in Seq(Seq(Writable)) /\ 1 \in 1 .. m
            /\ \A j \in 1 .. Len(text[1]) : s[at[1] + j - 1] = text[1][j]
        <5>1. 1 \in 1 .. m /\ Len(text) = m
          BY <1>2, <1>5, <2>6
        <5>2. text \in Seq(Seq(Writable))
          BY ContainerText
        <5>3. \A x \in 1 .. Len(text) : \A j \in 1 .. Len(text[x]) : s[at[x] + j - 1] = text[x][j]
          BY <1>3, Zenon DEF TextOf, Spelled
        <5> HIDE DEF text, m, s
        <5>4. QED
          BY <5>1, <5>2, <5>3
      <4>2. Len(text[1]) \in Nat /\ Len(text[1]) >= 1 /\ text[1][1] # close
        <5>1. \A w \in Smaller(v) : Serialize[w] \in Seq(Writable)
          BY SerializeIs DEF Smaller
        <5>2. CASE type = "array"
          <6>1. text[1] = Serialize[c[1]] /\ PartOf(v, 1) = c[1]
            BY <4>1, <5>1, <5>2, PartTextsAre DEF PartOf
          <6>2. c[1] \in Trees
            <7>1. Entries(v)
              BY EntriesAre
            <7>2. QED
              BY <4>1, <6>1, <7>1 DEF Entries, Smaller
          <6>3. QED
            BY <6>1, <6>2, FirstToken
        <5>3. CASE type = "object"
          <6>1. text[1] = MemberText(Serialize, c, 1)
            BY <4>1, <5>1, <5>3, PartTextsAre
          <6> DEFINE token == TokenOf("string", c[1][1])
                     x == MemberText(Serialize, c, 1)
          <6>2. /\ x[1] = token /\ Len(x) = Len(Serialize[c[1][2]]) + 2 /\ Len(Serialize[c[1][2]]) \in Nat
                /\ token \in DOMAIN Scalar
            BY <4>1, <5>3, MemberTextIs, Zenon
          <6>3. token # close
            BY <6>2, SignsAre
          <6> HIDE DEF x, token, text
          <6>4. Len(x) \in Nat /\ Len(x) >= 1
            BY <6>2
          <6>5. QED
            BY <6>1, <6>2, <6>3, <6>4 DEF x
        <5>4. QED
          BY <1>2, <5>2, <5>3
      <4> HIDE DEF text, s, close
      <4>3. s[at[1] + 1 - 1] = text[1][1] /\ at[1] + 1 - 1 = 2
        BY <1>4, <4>1, <4>2, SMTT(40)
      <4>4. QED
        BY <4>2, <4>3
    <3>2. inside = Listed(t, i, n, a, c)
      <4>1. ReadsFrom(t, v, at, i, k + 1, 1)
        BY <1>1, <1>3, <1>6, <2>6, EntriesRead
      <4>2. i + at[1] - 1 = i + 1
        BY <1>4
      <4>3. SubSeq(c, 1, m) = c
        <5>1. PICK D : c \in Seq(D)
          BY <1>2
        <5> HIDE DEF c
        <5>2. QED
          BY <5>1 DEF m
      <4>4. QED
        BY <4>1, <4>2, <4>3, Zenon DEF ReadsFrom
    <3> HIDE DEF a, inside, close, s, n, l, type, parse, m, good, c
    <3>3. TokenAt(t, i + 1) # close
      BY <1>7, <2>4, <3>1, Zenon
    <3>4. result = IF Fails(inside) THEN Failed ELSE [value |-> << type, inside.value >>, next |-> inside.next]
      BY <1>6, <2>1, <2>2, <3>3, Zenon
    <3>5. CASE WholeAt(t, i, n) /\ a
      <4>1. inside = [value |-> c, next |-> i + n]
        BY <3>2, <3>5, Zenon DEF Listed
      <4>2. i + n # 0
        BY <1>4
      <4>3. inside.value = c /\ inside.next = i + n /\ ~Fails(inside)
        BY <4>1, <4>2 DEF Fails
      <4>4. result = [value |-> v, next |-> i + n]
        BY <1>2, <3>4, <4>3, Zenon
      <4>5. QED
        BY <2>3, <3>5, <4>4, Zenon DEF Listed, good
    <3>6. CASE ~(WholeAt(t, i, n) /\ a)
      <4>1. inside = Failed /\ Fails(inside)
        BY <3>2, <3>6, OutcomeIs, Zenon DEF Listed
      <4>2. result = Failed
        BY <3>4, <4>1, Zenon
      <4>3. ~(WholeAt(t, i, n) /\ good)
        BY <2>3, <3>6, Zenon
      <4>4. QED
        BY <4>2, <4>3, Zenon DEF Listed, good
    <3>7. QED
      BY <3>5, <3>6
  <2>7. QED
    BY <2>5, <2>6
<1>12. QED
  BY <1>9, <1>10, <1>11

\* Every value is read wherever its text, or the beginning of it, stands.
LEMMA TreeReads ==
  ASSUME NEW T, NEW t \in Seq(T), NEW v \in Trees
  PROVE  Reads(t, v)
<1> DEFINE U == {w \in TreesOrNone : w \in Trees => Reads(t, w)}
<1>1. ASSUME NEW w \in TreesOrNone, \A u \in TreesOrNone : Rank[u] < Rank[w] => u \in U
      PROVE  w \in U
  <2>1. \A u \in Smaller(w) : Reads(t, u)
    BY <1>1 DEF Smaller, TreesOrNone
  <2>2. w \in Trees => Reads(t, w)
    BY <2>1, ContainerReads, ScalarReads
  <2>3. QED
    BY <2>2
<1> HIDE DEF U
<1>2. TreesOrNone \subseteq U
  BY <1>1, RankNat, RankInduction
<1>3. QED
  BY <1>2 DEF U, TreesOrNone

LEMMA BeginningIsRead ==
  ASSUME NEW v \in Trees, NEW n \in 0 .. Len(Serialize[v])
  PROVE  Parse(SubSeq(Serialize[v], 1, n)) =
           IF n = Len(Serialize[v]) /\ Legal(v) THEN v ELSE NoValue
<1> DEFINE s == Serialize[v]
           l == Len(s)
           t == SubSeq(s, 1, n)
           result == Parser(t)[<< "value", 1, 0 >>]
           good == v \in ValuesAt(0)
<1>1. s \in Seq(Writable) /\ l \in Nat /\ n \in 0 .. l
  BY SerializeIs
<1>2. t \in Seq(Writable) /\ Len(t) = n /\ \A j \in 1 .. n : t[j] = s[j]
  <2> HIDE DEF s
  <2>1. QED
    BY <1>1
<1>3. Agree(t, 1, s)
  <2> HIDE DEF t, s
  <2>1. QED
    BY <1>1, <1>2 DEF Agree
<1>4. Reads(t, v)
  BY <1>2, TreeReads
<1>5. result = Listed(t, 1, l, good, v)
  BY <1>3, <1>4 DEF Reads
<1>6. WholeAt(t, 1, l) <=> n = l
  <2> HIDE DEF t, s, l
  <2>1. 1 + l - 1 <= n <=> n = l
    BY <1>1 DEF l, s
  <2>2. QED
    BY <1>2, <2>1, Zenon DEF WholeAt
<1>7. good <=> Legal(v)
  <2>1. MaxNesting \in Nat
    BY DocumentAssumption
  <2>2. 0 <= MaxNesting /\ MaxNesting - 0 = MaxNesting
    BY <2>1
  <2>3. ValuesAt(0) = Nested[MaxNesting]
    BY <2>2, Zenon DEF ValuesAt
  <2>4. QED
    BY <2>3, Zenon DEF Legal
<1>8. Parse(t) = result.value
  BY DEF Parse
<1> HIDE DEF t, s, l, good, result
<1>9. CASE n = l /\ Legal(v)
  <2>1. result = [value |-> v, next |-> 1 + l]
    BY <1>5, <1>6, <1>7, <1>9, Zenon DEF Listed
  <2>2. result.value = v
    BY <2>1
  <2>3. QED
    BY <1>8, <1>9, <2>2, Zenon DEF l, s, t
<1>10. CASE ~(n = l /\ Legal(v))
  <2>1. result = Failed
    BY <1>5, <1>6, <1>7, <1>10, Zenon DEF Listed
  <2>2. result.value = NoValue
    BY <2>1 DEF Failed
  <2>3. QED
    BY <1>8, <1>10, <2>2, Zenon DEF l, s, t
<1>11. QED
  BY <1>9, <1>10

\* What was saved whole is loaded again, what was cut short is not.
THEOREM SavedIsLoaded == DocSpec => []SavedOrNothing
<1>1. DocInv => SavedOrNothing
  <2> DEFINE whole == Serialize[value]
             l == Len(whole)
  <2>1. SUFFICES ASSUME DocInv, step = "saved"
                 PROVE  /\ Parse(whole) = IF Legal(value) THEN value ELSE NoValue
                        /\ Type(value) \in {"object", "array"} /\ file # whole => Parse(file) = NoValue
    BY Zenon DEF SavedOrNothing
  <2>2. value \in Documents
    BY <2>1 DEF DocInv
  <2>3. PICK n \in 0 .. l : file = SubSeq(whole, 1, n)
    BY <2>1 DEF DocInv
  <2>4. value \in Trees
    BY <2>2, DocumentAssumption
  <2>5. whole \in Seq(Writable)
    BY <2>4, SerializeIs
  <2> HIDE DEF whole
  <2>6. l \in 0 .. l /\ SubSeq(whole, 1, l) = whole
    BY <2>5
  <2> HIDE DEF l
  <2>7. Parse(SubSeq(whole, 1, l)) = IF l = l /\ Legal(value) THEN value ELSE NoValue
    BY <2>4, <2>6, BeginningIsRead DEF l, whole
  <2>8. Parse(file) = IF n = l /\ Legal(value) THEN value ELSE NoValue
    BY <2>3, <2>4, BeginningIsRead DEF l, whole
  <2>9. file # whole => n # l
    BY <2>3, <2>6, Zenon
  <2>10. QED
    BY <2>6, <2>7, <2>8, <2>9, Zenon
<1>2. QED
  BY <1>1, DocumentInvariant, PTL

(* The grammar of texts: levels of brackets and entries between commas. *)

Openers == {OpenOf("object"), OpenOf("array")}
Closers == {CloseOf("object"), CloseOf("array")}

\* The brackets open behind a token, from those open before it.
LevelBehind(token, level) ==
  IF token \in Openers THEN level + 1 ELSE IF token \in Closers THEN level - 1 ELSE level

\* The recursive definition of Level is one.
LEMMA LevelIs ==
  ASSUME NEW T, NEW t \in Seq(T)
  PROVE  /\ Level(t) \in [0 .. Len(t) -> Int]
         /\ \A i \in 1 .. Len(t) : Level(t)[i] = LevelBehind(t[i], Level(t)[i - 1])
<1> DEFINE S == 0 .. Len(t)
           rank == [i \in S |-> i]
           of(g, i) == IF i = 0 THEN 0 ELSE LevelBehind(t[i], g[i - 1])
           body == [p \in S \X [S -> Int] |-> of(p[2], p[1])]
           N == CHOOSE f : f = [i \in S |-> of(f, i)]
<1>0. Len(t) \in Nat /\ \A i \in S : i \in Nat /\ (i # 0 => i - 1 \in S /\ i - 1 < i)
  OBVIOUS
<1>1. \A token : \A x \in Int : LevelBehind(token, x) \in Int
  BY DEF LevelBehind
<1>2. ASSUME NEW i \in S, NEW g \in [S -> Int]
      PROVE  body[<< i, g >>] = of(g, i) /\ of(g, i) \in Int
  <2>1. of(g, i) \in Int
    BY <1>0, <1>1
  <2> HIDE DEF of
  <2>2. QED
    BY <2>1
<1> HIDE DEF of
<1>3. body \in Bodies(S, Int)
  BY <1>2 DEF Bodies
<1>4. Descending(S, Int, rank, body)
  <2>1. SUFFICES ASSUME NEW i \in S, NEW g \in [S -> Int], NEW h \in [S -> Int],
                        \A j \in S : rank[j] < rank[i] => g[j] = h[j]
                 PROVE  body[<< i, g >>] = body[<< i, h >>]
    BY Zenon DEF Descending
  <2>2. i # 0 => g[i - 1] = h[i - 1]
    BY <1>0, <2>1
  <2>3. of(g, i) = of(h, i)
    BY <2>2, Zenon DEF of
  <2>4. QED
    BY <1>2, <2>3
<1> HIDE DEF body
<1>5. PICK f \in [S -> Int] : f = [i \in S |-> body[<< i, f >>]]
  <2>1. 0 \in Int /\ rank \in Ranks(S)
    BY <1>0 DEF Ranks
  <2> HIDE DEF S, rank
  <2>2. QED
    BY <1>3, <1>4, <2>1, RecursiveFunction
<1>6. f = [i \in S |-> of(f, i)]
  BY <1>2, <1>5
<1>7. N = [i \in S |-> of(N, i)]
  BY <1>6
<1>8. Level(t) = N
  <2>1. {"{", "["} = Openers /\ {"}", "]"} = Closers
    BY Zenon DEF Openers, Closers, OpenOf, CloseOf
  <2>2. QED
    BY <2>1, Zenon DEF Level, of, LevelBehind
<1> HIDE DEF N
<1> DEFINE U == {i \in S : N[i] \in Int}
<1>9. \A i \in S : N[i] = of(N, i)
  BY <1>7
<1>10. ASSUME NEW i \in S, \A j \in S : rank[j] < rank[i] => j \in U PROVE i \in U
  <2>1. i # 0 => N[i - 1] \in Int
    BY <1>0, <1>10
  <2>2. of(N, i) \in Int
    BY <1>1, <2>1, SMTT(30) DEF of
  <2>3. QED
    BY <1>9, <2>2
<1>11. S \subseteq U
  <2>1. rank \in Ranks(S)
    BY <1>0 DEF Ranks
  <2> HIDE DEF U, S, rank
  <2>2. QED
    BY <1>10, <2>1, RankInduction
<1>12. N \in [S -> Int]
  <2>1. \A i \in S : N[i] \in Int
    BY <1>11
  <2> HIDE DEF S
  <2>2. QED
    BY <1>7, <2>1
<1>13. ASSUME NEW i \in 1 .. Len(t) PROVE N[i] = LevelBehind(t[i], N[i - 1])
  <2>1. i \in S /\ i # 0
    OBVIOUS
  <2>2. QED
    BY <1>9, <2>1, Zenon DEF of
<1>14. QED
  BY <1>8, <1>12, <1>13

Length(first, last) == IF first <= last THEN last - first + 1 ELSE 0

CommasIn(t, first, last) ==
  {j \in first .. last : t[j] = Comma /\ Level(t)[j] = Level(t)[first - 1]}

\* The entries of a segment, as far as f gives those of shorter ones.
EntriesStep(t, f, s) ==
  IF CommasIn(t, s[1], s[2]) = {} THEN << s >>
  ELSE << << s[1], Min(CommasIn(t, s[1], s[2])) - 1 >> >>
         \o f[<< Min(CommasIn(t, s[1], s[2])) + 1, s[2] >>]

LEMMA SegmentIs ==
  ASSUME NEW T, NEW t \in Seq(T), NEW s \in Segments(t)
  PROVE  /\ s = << s[1], s[2] >> /\ s[1] \in Nat /\ s[2] \in Nat /\ 1 <= s[1] /\ s[1] <= Len(t) + 1
         /\ s[2] <= Len(t) /\ Length(s[1], s[2]) \in Nat /\ Len(t) \in Nat
BY DEF Segments, Length

LEMMA SegmentFrom ==
  ASSUME NEW T, NEW t \in Seq(T), NEW first \in Int, NEW last \in Int
  PROVE  /\ << first, last >> \in Segments(t) <=> 1 <= first /\ first <= Len(t) + 1 /\ 0 <= last /\ last <= Len(t)
         /\ << first, last >>[1] = first /\ << first, last >>[2] = last
BY DEF Segments

\* The first comma of a segment, if there is one.
LEMMA FirstComma ==
  ASSUME NEW T, NEW t \in Seq(T), NEW first, NEW last, << first, last >> \in Segments(t),
         CommasIn(t, first, last) # {}
  PROVE  LET m == Min(CommasIn(t, first, last)) IN
         /\ m \in CommasIn(t, first, last) /\ \A j \in CommasIn(t, first, last) : m <= j
         /\ m \in Nat /\ first <= m /\ m <= last /\ 1 <= m
         /\ << first, m - 1 >> \in Segments(t) /\ << m + 1, last >> \in Segments(t)
         /\ Length(m + 1, last) < Length(first, last) /\ Length(first, m - 1) < Length(first, last)
<1> DEFINE C == CommasIn(t, first, last)
           m == Min(C)
<1>1. /\ first \in Nat /\ last \in Nat /\ 1 <= first /\ first <= Len(t) + 1 /\ last <= Len(t)
      /\ Len(t) \in Nat
  BY SegmentIs
<1>2. \A j \in C : j \in Nat /\ first <= j /\ j <= last
  BY <1>1 DEF CommasIn
<1>3. C \in SUBSET Nat /\ C # {}
  BY <1>2
<1> HIDE DEF C
<1>4. \E n \in C : \A j \in C : n <= j
  BY <1>3, LeastNumber
<1>5. m \in C /\ \A j \in C : m <= j
  BY <1>4 DEF Min
<1> HIDE DEF m
<1>6. m \in Nat /\ first <= m /\ m <= last /\ 1 <= m
  BY <1>1, <1>2, <1>5
<1>7. << first, m - 1 >> \in Segments(t) /\ << m + 1, last >> \in Segments(t)
  <2>1. m - 1 \in Int /\ 0 <= m - 1 /\ m - 1 <= Len(t) /\ m + 1 \in Int /\ 1 <= m + 1 /\ m + 1 <= Len(t) + 1
    BY <1>1, <1>6
  <2>2. QED
    BY <1>1, <2>1, SegmentFrom
<1>8. Length(m + 1, last) < Length(first, last) /\ Length(first, m - 1) < Length(first, last)
  BY <1>1, <1>6 DEF Length
<1>9. QED
  BY <1>5, <1>6, <1>7, <1>8 DEF C, m

\* The recursive definition of EntriesOf is one.
LEMMA EntriesOfIs ==
  ASSUME NEW T, NEW t \in Seq(T)
  PROVE  \A s \in Segments(t) : /\ EntriesOf(t)[s] \in Seq(Segments(t))
                                /\ EntriesOf(t)[s] = EntriesStep(t, EntriesOf(t), s)
<1> DEFINE S == Segments(t)
           V == Seq(S)
           rank == [s \in S |-> Length(s[1], s[2])]
           body == [p \in S \X [S -> V] |-> EntriesStep(t, p[2], p[1])]
           N == CHOOSE f : f = [s \in S |-> EntriesStep(t, f, s)]
<1>1. ASSUME NEW s \in S, NEW g, \A u \in S : rank[u] < rank[s] => g[u] \in V
      PROVE  EntriesStep(t, g, s) \in V
  <2>1. s = << s[1], s[2] >> /\ << s[1], s[2] >> \in S
    BY SegmentIs
  <2>2. CASE CommasIn(t, s[1], s[2]) = {}
    <3>1. EntriesStep(t, g, s) = << s >>
      BY <2>1, <2>2, Zenon DEF EntriesStep
    <3> HIDE DEF S
    <3>2. << s >> \in V
      OBVIOUS
    <3>3. QED
      BY <3>1, <3>2
  <2>3. CASE CommasIn(t, s[1], s[2]) # {}
    <3> DEFINE m == Min(CommasIn(t, s[1], s[2]))
               a == << s[1], m - 1 >>
               b == << m + 1, s[2] >>
    <3>1. a \in S /\ b \in S /\ Length(m + 1, s[2]) < Length(s[1], s[2])
      BY <2>1, <2>3, FirstComma
    <3>2. rank[b] < rank[s]
      <4>1. rank[b] = Length(m + 1, s[2]) /\ rank[s] = Length(s[1], s[2])
        BY <3>1
      <4> HIDE DEF rank
      <4>2. QED
        BY <3>1, <4>1
    <3>3. g[b] \in V
      BY <1>1, <3>1, <3>2
    <3>4. EntriesStep(t, g, s) = << a >> \o g[b]
      BY <2>3, Zenon DEF EntriesStep
    <3> HIDE DEF a, b, S
    <3>5. << a >> \o g[b] \in V
      BY <3>1, <3>3
    <3>6. QED
      BY <3>4, <3>5
  <2>4. QED
    BY <2>2, <2>3
<1>2. ASSUME NEW s \in S, NEW g \in [S -> V]
      PROVE  /\ body[<< s, g >>] = EntriesStep(t, g, s)
             /\ EntriesStep(t, g, s) \in V
  <2>1. \A u \in S : g[u] \in V
    OBVIOUS
  <2>2. EntriesStep(t, g, s) \in V
    BY <1>1, <2>1
  <2> HIDE DEF V, S
  <2>3. QED
    BY <2>2
<1>3. body \in Bodies(S, V)
  BY <1>2, Zenon DEF Bodies
<1>4. Descending(S, V, rank, body)
  <2>1. SUFFICES ASSUME NEW s \in S, NEW g \in [S -> V], NEW h \in [S -> V],
                        \A u \in S : rank[u] < rank[s] => g[u] = h[u]
                 PROVE  body[<< s, g >>] = body[<< s, h >>]
    BY Zenon DEF Descending
  <2> DEFINE m == Min(CommasIn(t, s[1], s[2]))
             b == << m + 1, s[2] >>
  <2>2. CASE CommasIn(t, s[1], s[2]) # {}
    <3>1. << s[1], s[2] >> \in S
      BY SegmentIs
    <3>2. b \in S /\ Length(m + 1, s[2]) < Length(s[1], s[2])
      BY <2>2, <3>1, FirstComma
    <3>3. rank[b] < rank[s]
      <4>1. rank[b] = Length(m + 1, s[2]) /\ rank[s] = Length(s[1], s[2])
        BY <3>2
      <4> HIDE DEF rank
      <4>2. QED
        BY <3>2, <4>1
    <3>4. g[b] = h[b]
      BY <2>1, <3>2, <3>3
    <3>5. EntriesStep(t, g, s) = EntriesStep(t, h, s)
      BY <3>4, Zenon DEF EntriesStep
    <3>6. QED
      BY <1>2, <3>5
  <2>3. CASE CommasIn(t, s[1], s[2]) = {}
    <3>1. EntriesStep(t, g, s) = EntriesStep(t, h, s)
      BY <2>3, Zenon DEF EntriesStep
    <3>2. QED
      BY <1>2, <3>1
  <2>4. QED
    BY <2>2, <2>3
<1>r. rank \in Ranks(S)
  <2>1. \A s \in S : Length(s[1], s[2]) \in Nat
    BY SegmentIs
  <2> HIDE DEF S
  <2>2. QED
    BY <2>1 DEF Ranks
<1> HIDE DEF body
<1>5. PICK f \in [S -> V] : f = [s \in S |-> body[<< s, f >>]]
  <2>1. << >> \in V
    OBVIOUS
  <2> HIDE DEF S, V, rank
  <2>2. QED
    BY <1>3, <1>4, <1>r, <2>1, RecursiveFunction
<1>6. f = [s \in S |-> EntriesStep(t, f, s)]
  BY <1>2, <1>5
<1>7. N = [s \in S |-> EntriesStep(t, N, s)]
  <2> HIDE DEF S
  <2>1. QED
    BY <1>6, Zenon
<1>8. EntriesOf(t) = N
  BY Zenon DEF EntriesOf, EntriesStep, CommasIn, Comma
<1>9. \A s \in S : N[s] = EntriesStep(t, N, s)
  <2> HIDE DEF S
  <2>1. QED
    BY <1>7
<1> DEFINE U == {s \in S : N[s] \in V}
<1>10. ASSUME NEW s \in S, \A u \in S : rank[u] < rank[s] => u \in U PROVE s \in U
  <2>1. \A u \in S : rank[u] < rank[s] => N[u] \in V
    BY <1>10
  <2>2. EntriesStep(t, N, s) \in V
    BY <1>1, <2>1
  <2>3. QED
    BY <1>9, <2>2
<1>11. S \subseteq U
  <2> HIDE DEF U, S, rank
  <2>1. QED
    BY <1>10, <1>r, RankInduction
<1>12. QED
  BY <1>8, <1>9, <1>11

\* A segment without commas is one entry.
LEMMA EntryAlone ==
  ASSUME NEW T, NEW t \in Seq(T), NEW first, NEW last, << first, last >> \in Segments(t),
         CommasIn(t, first, last) = {}
  PROVE  EntriesOf(t)[<< first, last >>] = << << first, last >> >>
<1>1. EntriesOf(t)[<< first, last >>] = EntriesStep(t, EntriesOf(t), << first, last >>)
  BY EntriesOfIs
<1>2. << first, last >>[1] = first /\ << first, last >>[2] = last
  OBVIOUS
<1>3. QED
  BY <1>1, <1>2, Zenon DEF EntriesStep

IsFirstComma(t, first, last, m) ==
  m \in CommasIn(t, first, last) /\ \A j \in CommasIn(t, first, last) : m <= j

\* Otherwise its first entry ends at the first comma.
LEMMA EntriesCut ==
  ASSUME NEW T, NEW t \in Seq(T), NEW first \in Nat, NEW last \in Nat,
         << first, last >> \in Segments(t), NEW m \in Nat, IsFirstComma(t, first, last, m)
  PROVE  EntriesOf(t)[<< first, last >>] = << << first, m - 1 >> >> \o EntriesOf(t)[<< m + 1, last >>]
<1> DEFINE C == CommasIn(t, first, last)
           E == EntriesOf(t)
<1>1. E[<< first, last >>] = EntriesStep(t, E, << first, last >>)
  BY EntriesOfIs
<1>2. << first, last >>[1] = first /\ << first, last >>[2] = last
  OBVIOUS
<1>3. m = Min(C)
  <2>0. m \in C /\ \A j \in C : m <= j
    BY DEF IsFirstComma
  <2>1. Min(C) \in C /\ Min(C) \in Nat /\ Min(C) <= m
    BY <2>0, FirstComma
  <2>2. m \in Int /\ m <= Min(C)
    <3>1. first \in Nat /\ last \in Nat
      BY SegmentIs
    <3>2. QED
      BY <2>0, <2>1, <3>1 DEF CommasIn
  <2>3. QED
    BY <2>1, <2>2
<1>4. E[<< first, last >>] = << << first, Min(C) - 1 >> >> \o E[<< Min(C) + 1, last >>]
  BY <1>1, <1>2, Zenon DEF EntriesStep, IsFirstComma
<1>5. QED
  BY <1>3, <1>4, Zenon

\* One more in front of a sequence.
LEMMA Prepended ==
  ASSUME NEW D, NEW a \in D, NEW d \in Seq(D), NEW c, c = << a >> \o d
  PROVE  /\ Len(d) \in Nat /\ c = [k \in 1 .. Len(d) + 1 |-> c[k]] /\ c[1] = a
         /\ \A k \in 1 .. Len(d) : c[k + 1] = d[k]
<1>1. << a >> \in Seq(D) /\ Len(<< a >>) = 1 /\ << a >>[1] = a /\ Len(d) \in Nat
  OBVIOUS
<1> DEFINE b == << a >>
<1> HIDE DEF b
<1>2. c \in Seq(D) /\ Len(c) = Len(d) + 1
  BY <1>1 DEF b
<1>3. \A k \in 1 .. Len(d) + 1 : c[k] = IF k = 1 THEN a ELSE d[k - 1]
  BY <1>1 DEF b
<1>4. QED
  BY <1>1, <1>2, <1>3

(* What a segment of a text denotes: the recursive definition of Denoted. *)

\* The entries of a segment lie in it.
LEMMA EntriesWithin ==
  ASSUME NEW T, NEW t \in Seq(T), NEW s \in Segments(t)
  PROVE  \A k \in DOMAIN EntriesOf(t)[s] :
           LET u == EntriesOf(t)[s][k] IN
           u \in Segments(t) /\ s[1] <= u[1] /\ u[2] <= s[2]
<1> DEFINE S == Segments(t)
           E == EntriesOf(t)
           Within(w) == \A k \in DOMAIN E[w] : E[w][k] \in S /\ w[1] <= E[w][k][1] /\ E[w][k][2] <= w[2]
           U == {w \in S : Within(w)}
           rank == [w \in S |-> Length(w[1], w[2])]
<1>1. ASSUME NEW w \in S, \A u \in S : rank[u] < rank[w] => Within(u) PROVE Within(w)
  <2> DEFINE i == w[1]
             n == w[2]
  <2>1. /\ w = << i, n >> /\ << i, n >> \in S /\ i \in Nat /\ n \in Nat /\ E[w] \in Seq(S)
        /\ rank[w] = Length(i, n)
    BY SegmentIs, EntriesOfIs
  <2>s. << i, n >> \in Segments(t)
    BY <2>1
  <2> HIDE DEF i, n
  <2>c. /\ CommasIn(t, i, n) = {} => E[<< i, n >>] = << << i, n >> >>
        /\ \A m \in CommasIn(t, i, n) :
             (\A j \in CommasIn(t, i, n) : m <= j) => E[<< i, n >>] = << << i, m - 1 >> >> \o E[<< m + 1, n >>]
    <3>1. CommasIn(t, i, n) = {} => EntriesOf(t)[<< i, n >>] = << << i, n >> >>
      BY <2>s, EntryAlone, Zenon
    <3>2. ASSUME NEW m \in CommasIn(t, i, n), \A j \in CommasIn(t, i, n) : m <= j
          PROVE  EntriesOf(t)[<< i, n >>] = << << i, m - 1 >> >> \o EntriesOf(t)[<< m + 1, n >>]
      <4>1. IsFirstComma(t, i, n, m)
        BY <3>2, Zenon DEF IsFirstComma
      <4>2. m \in Nat
        BY <2>1 DEF CommasIn
      <4>3. QED
        BY <2>1, <2>s, <4>1, <4>2, EntriesCut
    <3>3. QED
      BY <3>1, <3>2, Zenon
  <2> HIDE DEF E
  <2>2. CASE CommasIn(t, i, n) = {}
    <3>1. E[w] = << w >>
      BY <2>1, <2>2, <2>c, Zenon
    <3> HIDE DEF S
    <3>2. DOMAIN E[w] = {1} /\ E[w][1] = w
      BY <3>1
    <3>3. QED
      BY <2>1, <3>2, SMTT(30)
  <2>3. CASE CommasIn(t, i, n) # {}
    <3> DEFINE m == Min(CommasIn(t, i, n))
               a == << i, m - 1 >>
               b == << m + 1, n >>
    <3>1. /\ m \in CommasIn(t, i, n) /\ \A j \in CommasIn(t, i, n) : m <= j
          /\ m \in Nat /\ i <= m /\ m <= n /\ a \in S /\ b \in S
          /\ Length(m + 1, n) < Length(i, n)
      BY <2>1, <2>3, FirstComma
    <3>2. E[w] = << a >> \o E[b]
      BY <2>1, <2>c, <3>1, Zenon
    <3>3. rank[b] < rank[w]
      <4>1. rank[b] = Length(m + 1, n) /\ rank[w] = Length(i, n)
        BY <2>1, <3>1
      <4> HIDE DEF rank
      <4>2. QED
        BY <3>1, <4>1
    <3>4. Within(b) /\ E[b] \in Seq(S)
      BY <1>1, <3>1, <3>3, EntriesOfIs DEF E
    <3>a. a[1] = i /\ a[2] = m - 1 /\ b[1] = m + 1 /\ b[2] = n
      OBVIOUS
    <3> HIDE DEF a, b, S, m
    <3>5. /\ DOMAIN E[w] = 1 .. Len(E[b]) + 1 /\ E[w][1] = a /\ Len(E[b]) \in Nat
          /\ \A k \in 2 .. Len(E[b]) + 1 : E[w][k] = E[b][k - 1] /\ k - 1 \in DOMAIN E[b]
      BY <3>1, <3>2, <3>4
    <3>6. ASSUME NEW k \in DOMAIN E[w]
          PROVE  E[w][k] \in S /\ w[1] <= E[w][k][1] /\ E[w][k][2] <= w[2]
      <4>1. CASE k = 1
        <5>1. E[w][k] = a /\ a \in S /\ a[2] \in Int /\ a[2] <= n /\ a[1] = i
          BY <2>1, <3>1, <3>5, <3>a, <4>1
        <5>2. QED
          BY <2>1, <5>1 DEF i, n
      <4>2. CASE k # 1
        <5> DEFINE u == E[b][k - 1]
        <5>1. k \in 2 .. Len(E[b]) + 1
          BY <3>5, <4>2
        <5>2. E[w][k] = u /\ u \in S /\ b[1] <= u[1] /\ u[2] <= b[2]
          BY <3>4, <3>5, <5>1
        <5>3. u[1] \in Nat /\ u[2] \in Nat
          BY <5>2, SegmentIs DEF S
        <5> HIDE DEF u, i, n
        <5>4. i <= u[1] /\ u[2] <= n
          BY <2>1, <3>1, <3>a, <5>2, <5>3
        <5>5. QED
          BY <5>2, <5>4 DEF i, n
      <4>3. QED
        BY <4>1, <4>2
    <3>7. QED
      BY <3>6
  <2>4. QED
    BY <2>2, <2>3
<1>r. rank \in Ranks(S)
  <2>1. \A w \in S : Length(w[1], w[2]) \in Nat
    BY SegmentIs
  <2> HIDE DEF S
  <2>2. QED
    BY <2>1 DEF Ranks
<1> HIDE DEF Within
<1>2. ASSUME NEW w \in S, \A u \in S : rank[u] < rank[w] => u \in U PROVE w \in U
  BY <1>1, <1>2
<1>3. S \subseteq U
  <2> HIDE DEF S, U, rank
  <2>1. QED
    BY <1>2, <1>r, RankInduction
<1>4. QED
  BY <1>3 DEF Within

-----------------------------------------------------------------------------
(* What a segment denotes, if g says what shorter ones do. *)

EntryIs(t, g, type, first, last, e) ==
  IF type = "array" THEN e = g[<< first, last >>] /\ e # NoValue
  ELSE /\ first + 2 <= last /\ IsString(t[first]) /\ t[first + 1] = Colon
       /\ g[<< first + 2, last >>] # NoValue
       /\ e = << Content(Scalar[t[first]]), g[<< first + 2, last >>] >>

ListIs(t, g, type, first, last, c) ==
  LET parts == EntriesOf(t)[<< first, last >>] IN
  /\ c = [k \in DOMAIN parts |-> c[k]]
  /\ \A k \in DOMAIN parts : EntryIs(t, g, type, parts[k][1], parts[k][2], c[k])
  /\ type = "object" => DistinctNames(c)

ContainerIs(t, g, type, first, last, c) ==
  /\ first < last /\ t[first] = OpenOf(type) /\ t[last] = CloseOf(type)
  /\ IF last = first + 1 THEN c = << >> ELSE ListIs(t, g, type, first + 1, last - 1, c)

ScalarAt(t, first, last) == first = last /\ t[first] \in DOMAIN Scalar

LEMMA DenotedByIs ==
  ASSUME NEW T, NEW t \in Seq(T), NEW g, NEW first, NEW last, << first, last >> \in Segments(t)
  PROVE  LET v == DenotedBy(t, EntriesOf(t), g, first, last) IN
         /\ ScalarAt(t, first, last) => v = Scalar[t[first]]
         /\ ~ScalarAt(t, first, last) /\ v # NoValue =>
              \E type \in {"array", "object"} : \E c :
                 ContainerIs(t, g, type, first, last, c) /\ v = << type, c >>
         /\ \A type \in {"array", "object"} : \A c :
              ContainerIs(t, g, type, first, last, c) => v = << type, c >>
<1> DEFINE E == EntriesOf(t)
           v == DenotedBy(t, E, g, first, last)
           parts == IF last = first + 1 THEN << >> ELSE E[<< first + 1, last - 1 >>]
           items == [k \in DOMAIN parts |-> g[parts[k]]]
           named == [k \in DOMAIN parts |->
                         << Content(Scalar[t[parts[k][1]]]), g[<< parts[k][1] + 2, parts[k][2] >>] >>]
           isArray == /\ t[first] = OpenOf("array") /\ t[last] = CloseOf("array")
                      /\ \A k \in DOMAIN parts : items[k] # NoValue
           isObject == /\ t[first] = OpenOf("object") /\ t[last] = CloseOf("object")
                       /\ \A k \in DOMAIN parts : /\ parts[k][1] + 2 <= parts[k][2]
                                                  /\ IsString(t[parts[k][1]]) /\ t[parts[k][1] + 1] = Colon
                                                  /\ named[k][2] # NoValue
                       /\ DistinctNames(named)
<1>1. v = IF ScalarAt(t, first, last) THEN Scalar[t[first]]
          ELSE IF last <= first THEN NoValue
          ELSE IF isArray THEN << "array", items >>
          ELSE IF isObject THEN << "object", named >>
          ELSE NoValue
  <2>1. /\ OpenOf("array") = "[" /\ CloseOf("array") = "]"
        /\ OpenOf("object") = "{" /\ CloseOf("object") = "}"
    BY Zenon DEF OpenOf, CloseOf
  <2>2. QED
    BY <2>1, Zenon DEF DenotedBy, ScalarAt, Colon
<1>2. first \in Nat /\ last \in Nat /\ 1 <= first /\ first <= Len(t) + 1 /\ last <= Len(t) /\ Len(t) \in Nat
  BY SegmentIs
<1>3. ASSUME first < last, NEW k \in DOMAIN parts PROVE parts[k] = << parts[k][1], parts[k][2] >> /\ last # first + 1
  <2>1. last # first + 1
    BY <1>3
  <2>2. << first + 1, last - 1 >> \in Segments(t)
    <3>1. first + 1 \in Int /\ 1 <= first + 1 /\ first + 1 <= Len(t) + 1 /\ last - 1 \in Int /\ 0 <= last - 1 /\ last - 1 <= Len(t)
      BY <1>2, <1>3
    <3>2. QED
      BY <3>1, SegmentFrom
  <2>3. parts[k] \in Segments(t)
    BY <1>3, <2>1, <2>2, EntriesWithin
  <2> HIDE DEF parts
  <2>4. QED
    BY <2>1, <2>3, SegmentIs
<1>p. /\ last = first + 1 => parts = << >>
      /\ last # first + 1 => parts = E[<< first + 1, last - 1 >>]
  BY Zenon
<1> HIDE DEF v, E
<1>4. ASSUME NEW c
      PROVE  ContainerIs(t, g, "array", first, last, c) <=> first < last /\ isArray /\ c = items
  <2>1. ASSUME ContainerIs(t, g, "array", first, last, c) PROVE first < last /\ isArray /\ c = items
    <3>1. /\ first < last /\ t[first] = OpenOf("array") /\ t[last] = CloseOf("array")
          /\ IF last = first + 1 THEN c = << >> ELSE ListIs(t, g, "array", first + 1, last - 1, c)
      BY <2>1, Zenon DEF ContainerIs
    <3>2. CASE last = first + 1
      <4>1. DOMAIN parts = {} /\ c = << >>
        BY <1>p, <3>1, <3>2
      <4> HIDE DEF parts
      <4>2. items = << >>
        BY <4>1
      <4>3. QED
        BY <3>1, <4>1, <4>2
    <3>3. CASE last # first + 1
      <4>1. /\ c = [k \in DOMAIN parts |-> c[k]]
            /\ \A k \in DOMAIN parts : EntryIs(t, g, "array", parts[k][1], parts[k][2], c[k])
        BY <1>p, <3>1, <3>3, Zenon DEF ListIs, E
      <4>2. ASSUME NEW k \in DOMAIN parts PROVE c[k] = g[parts[k]] /\ c[k] # NoValue
        <5>1. EntryIs(t, g, "array", parts[k][1], parts[k][2], c[k]) /\ parts[k] = << parts[k][1], parts[k][2] >>
          BY <1>3, <3>1, <4>1
        <5> HIDE DEF parts
        <5>2. QED
          BY <5>1, Zenon DEF EntryIs
      <4> HIDE DEF parts
      <4>3. c = items
        BY <4>1, <4>2
      <4>4. \A k \in DOMAIN parts : items[k] # NoValue
        BY <4>2
      <4>5. QED
        BY <3>1, <4>3, <4>4
    <3>4. QED
      BY <3>2, <3>3
  <2>2. ASSUME first < last, isArray, c = items PROVE ContainerIs(t, g, "array", first, last, c)
    <3>1. ASSUME last = first + 1 PROVE c = << >>
      <4>1. DOMAIN parts = {}
        BY <1>p, <3>1
      <4> HIDE DEF parts
      <4>2. QED
        BY <2>2, <4>1
    <3>2. ASSUME last # first + 1 PROVE ListIs(t, g, "array", first + 1, last - 1, c)
      <4>1. ASSUME NEW k \in DOMAIN parts PROVE EntryIs(t, g, "array", parts[k][1], parts[k][2], c[k])
        <5>1. parts[k] = << parts[k][1], parts[k][2] >>
          BY <1>3, <2>2, <4>1
        <5>2. c[k] = g[parts[k]] /\ c[k] # NoValue
          BY <2>2, <4>1
        <5> HIDE DEF parts
        <5>3. QED
          BY <5>1, <5>2, Zenon DEF EntryIs
      <4>2. c = [k \in DOMAIN parts |-> c[k]]
        <5> HIDE DEF parts
        <5>1. QED
          BY <2>2
      <4>3. "array" # "object"
        OBVIOUS
      <4> HIDE DEF parts
      <4>4. QED
        BY <1>p, <3>2, <4>1, <4>2, <4>3, Zenon DEF ListIs, E
    <3>3. QED
      BY <2>2, <3>1, <3>2, Zenon DEF ContainerIs
  <2>3. QED
    BY <2>1, <2>2
<1>5. ASSUME NEW c
      PROVE  ContainerIs(t, g, "object", first, last, c) <=> first < last /\ isObject /\ c = named
  <2>0. "object" # "array"
    OBVIOUS
  <2>1. ASSUME ContainerIs(t, g, "object", first, last, c) PROVE first < last /\ isObject /\ c = named
    <3>1. /\ first < last /\ t[first] = OpenOf("object") /\ t[last] = CloseOf("object")
          /\ IF last = first + 1 THEN c = << >> ELSE ListIs(t, g, "object", first + 1, last - 1, c)
      BY <2>1, Zenon DEF ContainerIs
    <3>2. CASE last = first + 1
      <4>1. DOMAIN parts = {} /\ c = << >>
        BY <1>p, <3>1, <3>2
      <4> HIDE DEF parts
      <4>2. named = << >>
        BY <4>1
      <4>3. DistinctNames(named)
        BY <4>1 DEF DistinctNames
      <4> HIDE DEF named
      <4>4. QED
        BY <3>1, <4>1, <4>2, <4>3
    <3>3. CASE last # first + 1
      <4>1. /\ c = [k \in DOMAIN parts |-> c[k]] /\ DistinctNames(c)
            /\ \A k \in DOMAIN parts : EntryIs(t, g, "object", parts[k][1], parts[k][2], c[k])
        BY <1>p, <3>1, <3>3, Zenon DEF ListIs, E
      <4> DEFINE of(k) == << Content(Scalar[t[parts[k][1]]]), g[<< parts[k][1] + 2, parts[k][2] >>] >>
      <4>2. ASSUME NEW k \in DOMAIN parts
            PROVE  /\ c[k] = of(k) /\ parts[k][1] + 2 <= parts[k][2]
                   /\ IsString(t[parts[k][1]]) /\ t[parts[k][1] + 1] = Colon
                   /\ g[<< parts[k][1] + 2, parts[k][2] >>] # NoValue
        <5>1. EntryIs(t, g, "object", parts[k][1], parts[k][2], c[k])
          BY <4>1
        <5> HIDE DEF parts
        <5>2. QED
          BY <2>0, <5>1, Zenon DEF EntryIs
      <4>3. c = named
        <5>1. \A k \in DOMAIN parts : c[k] = of(k)
          BY <4>2
        <5>2. named = [k \in DOMAIN parts |-> of(k)]
          OBVIOUS
        <5> HIDE DEF parts, of, named
        <5>3. QED
          BY <4>1, <5>1, <5>2
      <4>4. \A k \in DOMAIN parts : named[k][2] # NoValue
        <5>1. \A k \in DOMAIN parts : named[k] = of(k) /\ of(k)[2] = g[<< parts[k][1] + 2, parts[k][2] >>]
          BY Zenon
        <5> HIDE DEF parts, of, named
        <5>2. QED
          BY <4>2, <5>1
      <4> HIDE DEF parts, of, named
      <4>5. QED
        BY <3>1, <4>1, <4>2, <4>3, <4>4
    <3>4. QED
      BY <3>2, <3>3
  <2>2. ASSUME first < last, isObject, c = named PROVE ContainerIs(t, g, "object", first, last, c)
    <3>1. ASSUME last = first + 1 PROVE c = << >>
      <4>1. DOMAIN parts = {}
        BY <1>p, <3>1
      <4> HIDE DEF parts
      <4>2. QED
        BY <2>2, <4>1
    <3>2. ASSUME last # first + 1 PROVE ListIs(t, g, "object", first + 1, last - 1, c)
      <4>1. ASSUME NEW k \in DOMAIN parts PROVE EntryIs(t, g, "object", parts[k][1], parts[k][2], c[k])
        <5> DEFINE x == g[<< parts[k][1] + 2, parts[k][2] >>]
                   n == Content(Scalar[t[parts[k][1]]])
        <5>1. named[k] = << n, x >>
          BY <4>1, Zenon
        <5>2. c[k] = << n, x >> /\ c[k][2] # NoValue
          BY <2>2, <4>1, <5>1
        <5>3. x # NoValue
          <6> HIDE DEF x, n
          <6>1. QED
            BY <5>2
        <5>4. /\ parts[k][1] + 2 <= parts[k][2]
              /\ IsString(t[parts[k][1]]) /\ t[parts[k][1] + 1] = Colon
          BY <2>2, <4>1
        <5> HIDE DEF parts
        <5>5. QED
          BY <2>0, <5>2, <5>3, <5>4, Zenon DEF EntryIs
      <4>2. c = [k \in DOMAIN parts |-> c[k]]
        <5> HIDE DEF parts
        <5>1. QED
          BY <2>2
      <4>3. DistinctNames(c)
        BY <2>2
      <4> HIDE DEF parts
      <4>4. QED
        BY <1>p, <3>2, <4>1, <4>2, <4>3, Zenon DEF ListIs, E
    <3>3. QED
      BY <2>2, <3>1, <3>2, Zenon DEF ContainerIs
  <2>3. QED
    BY <2>1, <2>2
<1>6. isArray => ~isObject
  <2>1. OpenOf("array") # OpenOf("object")
    BY SignsAre
  <2> HIDE DEF items, named, parts
  <2>2. QED
    BY <2>1, Zenon
<1>7. first < last <=> ~(last <= first)
  BY <1>2
<1>8. first < last => ~ScalarAt(t, first, last)
  BY <1>2 DEF ScalarAt
<1> HIDE DEF isArray, isObject, items, named, parts
<1>9. ASSUME ~ScalarAt(t, first, last), v # NoValue
      PROVE  \E type \in {"array", "object"} : \E c :
               ContainerIs(t, g, type, first, last, c) /\ v = << type, c >>
  <2>1. \/ first < last /\ isArray /\ v = << "array", items >>
        \/ first < last /\ isObject /\ v = << "object", named >>
    BY <1>1, <1>7, <1>9, Zenon
  <2>2. "array" \in {"array", "object"} /\ "object" \in {"array", "object"}
    OBVIOUS
  <2>3. CASE first < last /\ isArray /\ v = << "array", items >>
    BY <1>4, <2>2, <2>3, Zenon
  <2>4. CASE first < last /\ isObject /\ v = << "object", named >>
    BY <1>5, <2>2, <2>4, Zenon
  <2>5. QED
    BY <2>1, <2>3, <2>4
<1>10. ASSUME NEW type \in {"array", "object"}, NEW c, ContainerIs(t, g, type, first, last, c)
       PROVE  v = << type, c >>
  <2>1. CASE type = "array"
    <3>1. first < last /\ isArray /\ c = items
      BY <1>4, <1>10, <2>1
    <3>2. QED
      BY <1>1, <1>7, <1>8, <2>1, <3>1, Zenon
  <2>2. CASE type = "object"
    <3>1. first < last /\ isObject /\ c = named
      BY <1>5, <1>10, <2>2
    <3>2. QED
      BY <1>1, <1>6, <1>7, <1>8, <2>2, <3>1, Zenon
  <2>3. QED
    BY <2>1, <2>2
<1>11. ScalarAt(t, first, last) => v = Scalar[t[first]]
  BY <1>1, Zenon
<1>12. QED
  BY <1>9, <1>10, <1>11, Zenon DEF v, E

\* g and h say the same of the segments shorter than a given one.
SameBelow(t, g, h, n) == \A u \in Segments(t) : Length(u[1], u[2]) < n => g[u] = h[u]

\* The segment of an entry's value.
ValueSegment(type, first, last) == IF type = "array" THEN << first, last >> ELSE << first + 2, last >>
ValueOf(type, e) == IF type = "array" THEN e ELSE e[2]

EntryValueAt(t, g, u, n, type, e) ==
  u \in Segments(t) /\ Length(u[1], u[2]) <= n /\ ValueOf(type, e) = g[u] /\ g[u] # NoValue

LEMMA EntryValue ==
  ASSUME NEW T, NEW t \in Seq(T), NEW type \in {"array", "object"}, NEW g,
         NEW first, NEW last, << first, last >> \in Segments(t), NEW e,
         EntryIs(t, g, type, first, last, e)
  PROVE  EntryValueAt(t, g, ValueSegment(type, first, last), Length(first, last), type, e)
<1>0. first \in Nat /\ last \in Nat /\ 1 <= first /\ first <= Len(t) + 1 /\ last <= Len(t) /\ Len(t) \in Nat
  BY SegmentIs
<1>1. CASE type = "array"
  <2>1. ValueSegment(type, first, last) = << first, last >> /\ ValueOf(type, e) = e
    BY <1>1, Zenon DEF ValueSegment, ValueOf
  <2>2. e = g[<< first, last >>] /\ e # NoValue
    BY <1>1, Zenon DEF EntryIs
  <2>3. Length(first, last) \in Nat
    BY <1>0 DEF Length
  <2>4. QED
    BY <2>1, <2>2, <2>3 DEF EntryValueAt
<1>2. CASE type = "object"
  <2>0. type # "array"
    BY <1>2
  <2>1. ValueSegment(type, first, last) = << first + 2, last >> /\ ValueOf(type, e) = e[2]
    BY <2>0, Zenon DEF ValueSegment, ValueOf
  <2>2. /\ first + 2 <= last /\ g[<< first + 2, last >>] # NoValue
        /\ e = << Content(Scalar[t[first]]), g[<< first + 2, last >>] >>
    BY <2>0, Zenon DEF EntryIs
  <2>3. e[2] = g[<< first + 2, last >>]
    BY <2>2
  <2>4. << first + 2, last >> \in Segments(t)
    <3>1. first + 2 \in Int /\ 1 <= first + 2 /\ first + 2 <= Len(t) + 1 /\ last \in Int /\ 0 <= last
      BY <1>0, <2>2
    <3>2. QED
      BY <1>0, <3>1, SegmentFrom
  <2>5. Length(first + 2, last) <= Length(first, last)
    BY <1>0 DEF Length
  <2>6. QED
    BY <2>1, <2>2, <2>3, <2>4, <2>5 DEF EntryValueAt
<1>3. QED
  BY <1>1, <1>2

LEMMA EntrySame ==
  ASSUME NEW T, NEW t \in Seq(T), NEW type \in {"array", "object"}, NEW g, NEW h, NEW n \in Nat,
         SameBelow(t, g, h, n),
         NEW first, NEW last, << first, last >> \in Segments(t), Length(first, last) < n, NEW e,
         EntryIs(t, g, type, first, last, e)
  PROVE  EntryIs(t, h, type, first, last, e)
<1> DEFINE u == ValueSegment(type, first, last)
<1>1. u \in Segments(t) /\ Length(u[1], u[2]) <= Length(first, last) /\ g[u] # NoValue
  <2>1. EntryValueAt(t, g, u, Length(first, last), type, e)
    BY EntryValue
  <2>2. QED
    BY <2>1 DEF EntryValueAt
<1>2. g[u] = h[u]
  <2>1. Length(u[1], u[2]) \in Nat /\ Length(first, last) \in Nat
    BY <1>1, SegmentIs
  <2> HIDE DEF u
  <2>2. Length(u[1], u[2]) < n
    BY <1>1, <2>1
  <2>3. QED
    BY <1>1, <2>2 DEF SameBelow
<1>3. CASE type = "array"
  <2>1. u = << first, last >>
    BY <1>3, Zenon DEF ValueSegment
  <2> HIDE DEF u
  <2>2. QED
    BY <1>2, <1>3, <2>1, Zenon DEF EntryIs
<1>4. CASE type # "array"
  <2>1. u = << first + 2, last >>
    BY <1>4, Zenon DEF ValueSegment
  <2> HIDE DEF u
  <2>2. g[<< first + 2, last >>] = h[<< first + 2, last >>]
    BY <1>2, <2>1
  <2>3. /\ first + 2 <= last /\ IsString(t[first]) /\ t[first + 1] = Colon
        /\ g[<< first + 2, last >>] # NoValue
        /\ e = << Content(Scalar[t[first]]), g[<< first + 2, last >>] >>
    BY <1>4, Zenon DEF EntryIs
  <2>4. QED
    BY <1>4, <2>2, <2>3, Zenon DEF EntryIs
<1>5. QED
  BY <1>3, <1>4

\* The entries inside brackets are shorter than the whole.
LEMMA InnerIs ==
  ASSUME NEW T, NEW t \in Seq(T), NEW first, NEW last, << first, last >> \in Segments(t),
         first < last, last # first + 1
  PROVE  /\ << first + 1, last - 1 >> \in Segments(t)
         /\ \A k \in DOMAIN EntriesOf(t)[<< first + 1, last - 1 >>] :
              LET u == EntriesOf(t)[<< first + 1, last - 1 >>][k] IN
              /\ u = << u[1], u[2] >> /\ << u[1], u[2] >> \in Segments(t)
              /\ Length(u[1], u[2]) < Length(first, last)
<1>0. first \in Nat /\ last \in Nat /\ 1 <= first /\ first <= Len(t) + 1 /\ last <= Len(t) /\ Len(t) \in Nat
  BY SegmentIs
<1>1. << first + 1, last - 1 >> \in Segments(t)
  <2>1. /\ first + 1 \in Int /\ 1 <= first + 1 /\ first + 1 <= Len(t) + 1
        /\ last - 1 \in Int /\ 0 <= last - 1 /\ last - 1 <= Len(t)
    BY <1>0
  <2>2. QED
    BY <2>1, SegmentFrom
<1>2. ASSUME NEW k \in DOMAIN EntriesOf(t)[<< first + 1, last - 1 >>]
      PROVE  LET u == EntriesOf(t)[<< first + 1, last - 1 >>][k] IN
             /\ u = << u[1], u[2] >> /\ << u[1], u[2] >> \in Segments(t)
             /\ Length(u[1], u[2]) < Length(first, last)
  <2> DEFINE u == EntriesOf(t)[<< first + 1, last - 1 >>][k]
             s == << first + 1, last - 1 >>
  <2>1. s \in Segments(t) /\ s[1] = first + 1 /\ s[2] = last - 1
    BY <1>1
  <2>2. u \in Segments(t) /\ s[1] <= u[1] /\ u[2] <= s[2]
    <3>1. k \in DOMAIN EntriesOf(t)[s]
      BY <1>2
    <3> HIDE DEF s
    <3>2. EntriesOf(t)[s][k] \in Segments(t) /\ s[1] <= EntriesOf(t)[s][k][1] /\ EntriesOf(t)[s][k][2] <= s[2]
      BY <2>1, <3>1, EntriesWithin
    <3>3. QED
      BY <3>2 DEF s
  <2> HIDE DEF u, s
  <2>3. u = << u[1], u[2] >> /\ u[1] \in Nat /\ u[2] \in Nat
    BY <2>2, SegmentIs
  <2>4. first + 1 <= u[1] /\ u[2] <= last - 1
    BY <2>1, <2>2
  <2>5. Length(u[1], u[2]) < Length(first, last)
    BY <1>0, <2>3, <2>4 DEF Length
  <2>6. << u[1], u[2] >> \in Segments(t)
    BY <2>2, <2>3
  <2>7. QED
    BY <2>3, <2>5, <2>6 DEF u
<1>3. QED
  BY <1>1, <1>2

LEMMA ContainerSame ==
  ASSUME NEW T, NEW t \in Seq(T), NEW type \in {"array", "object"}, NEW g, NEW h,
         NEW first, NEW last, << first, last >> \in Segments(t),
         SameBelow(t, g, h, Length(first, last)),
         NEW c, ContainerIs(t, g, type, first, last, c)
  PROVE  ContainerIs(t, h, type, first, last, c)
<1>1. /\ first < last /\ t[first] = OpenOf(type) /\ t[last] = CloseOf(type)
      /\ IF last = first + 1 THEN c = << >> ELSE ListIs(t, g, type, first + 1, last - 1, c)
  BY Zenon DEF ContainerIs
<1>2. ASSUME last # first + 1 PROVE ListIs(t, h, type, first + 1, last - 1, c)
  <2> DEFINE parts == EntriesOf(t)[<< first + 1, last - 1 >>]
  <2>1. ListIs(t, g, type, first + 1, last - 1, c)
    BY <1>1, <1>2
  <2>2. /\ c = [k \in DOMAIN parts |-> c[k]]
        /\ \A k \in DOMAIN parts : EntryIs(t, g, type, parts[k][1], parts[k][2], c[k])
        /\ type = "object" => DistinctNames(c)
    BY <2>1, Zenon DEF ListIs
  <2>3. \A k \in DOMAIN parts : /\ << parts[k][1], parts[k][2] >> \in Segments(t)
                                /\ Length(parts[k][1], parts[k][2]) < Length(first, last)
    BY <1>1, <1>2, InnerIs
  <2>l. Length(first, last) \in Nat
    BY SegmentIs
  <2> HIDE DEF parts
  <2>4. ASSUME NEW k \in DOMAIN parts PROVE EntryIs(t, h, type, parts[k][1], parts[k][2], c[k])
    <3>1. EntryIs(t, g, type, parts[k][1], parts[k][2], c[k])
      BY <2>2
    <3>2. << parts[k][1], parts[k][2] >> \in Segments(t) /\ Length(parts[k][1], parts[k][2]) < Length(first, last)
      BY <2>3
    <3>3. QED
      BY <2>l, <3>1, <3>2, EntrySame
  <2>5. QED
    BY <2>2, <2>4, Zenon DEF ListIs, parts
<1>3. QED
  BY <1>1, <1>2, Zenon DEF ContainerIs

LEMMA DenotedBySame ==
  ASSUME NEW T, NEW t \in Seq(T), NEW g, NEW h,
         NEW first, NEW last, << first, last >> \in Segments(t),
         SameBelow(t, g, h, Length(first, last))
  PROVE  DenotedBy(t, EntriesOf(t), g, first, last) = DenotedBy(t, EntriesOf(t), h, first, last)
<1> DEFINE v == DenotedBy(t, EntriesOf(t), g, first, last)
           w == DenotedBy(t, EntriesOf(t), h, first, last)
<1>1. SameBelow(t, h, g, Length(first, last))
  BY DEF SameBelow
<1>2. ASSUME NEW type \in {"array", "object"}, NEW c
      PROVE  ContainerIs(t, g, type, first, last, c) <=> ContainerIs(t, h, type, first, last, c)
  BY <1>1, ContainerSame
<1>3. /\ ScalarAt(t, first, last) => v = Scalar[t[first]]
      /\ ~ScalarAt(t, first, last) /\ v # NoValue =>
           \E type \in {"array", "object"} : \E c :
              ContainerIs(t, g, type, first, last, c) /\ v = << type, c >>
      /\ \A type \in {"array", "object"} : \A c :
           ContainerIs(t, g, type, first, last, c) => v = << type, c >>
  BY DenotedByIs
<1>4. /\ ScalarAt(t, first, last) => w = Scalar[t[first]]
      /\ ~ScalarAt(t, first, last) /\ w # NoValue =>
           \E type \in {"array", "object"} : \E c :
              ContainerIs(t, h, type, first, last, c) /\ w = << type, c >>
      /\ \A type \in {"array", "object"} : \A c :
           ContainerIs(t, h, type, first, last, c) => w = << type, c >>
  BY DenotedByIs
<1> HIDE DEF v, w
<1>5. CASE ScalarAt(t, first, last)
  BY <1>3, <1>4, <1>5 DEF v, w
<1>6. CASE ~ScalarAt(t, first, last) /\ v # NoValue
  <2>0. PICK type \in {"array", "object"} : \E c : ContainerIs(t, g, type, first, last, c) /\ v = << type, c >>
    BY <1>3, <1>6
  <2>1. PICK c : ContainerIs(t, g, type, first, last, c) /\ v = << type, c >>
    BY <2>0
  <2>2. w = << type, c >>
    BY <1>2, <1>4, <2>1
  <2>3. QED
    BY <2>1, <2>2 DEF v, w
<1>7. CASE ~ScalarAt(t, first, last) /\ v = NoValue
  <2>1. ASSUME w # NoValue PROVE FALSE
    <3>0. PICK type \in {"array", "object"} : \E c : ContainerIs(t, h, type, first, last, c) /\ w = << type, c >>
      BY <1>4, <1>7, <2>1
    <3>1. PICK c : ContainerIs(t, h, type, first, last, c) /\ w = << type, c >>
      BY <3>0
    <3>2. v = << type, c >>
      BY <1>2, <1>3, <3>1
    <3>3. QED
      BY <1>7, <2>1, <3>1, <3>2
  <2>2. QED
    BY <1>7, <2>1 DEF v, w
<1>8. QED
  BY <1>5, <1>6, <1>7

\* What a text of n tokens can denote.
ValuesOfLength(n) == Nested[n] \cup {NoValue}

LEMMA EntryInto ==
  ASSUME NEW T, NEW t \in Seq(T), NEW type \in {"array", "object"}, NEW g, NEW n \in Nat,
         \A u \in Segments(t) : Length(u[1], u[2]) < n + 1 => g[u] \in ValuesOfLength(Length(u[1], u[2])),
         NEW first, NEW last, << first, last >> \in Segments(t), Length(first, last) <= n, NEW e,
         EntryIs(t, g, type, first, last, e)
  PROVE  IF type = "array" THEN e \in Nested[n] ELSE e \in Strings \X Nested[n]
<1> DEFINE u == ValueSegment(type, first, last)
           w == ValueOf(type, e)
<1>1. EntryValueAt(t, g, u, Length(first, last), type, e)
  BY EntryValue
<1>2. u \in Segments(t) /\ Length(u[1], u[2]) <= Length(first, last) /\ w = g[u] /\ g[u] # NoValue
  BY <1>1 DEF EntryValueAt
<1>3. Length(u[1], u[2]) \in Nat /\ Length(first, last) \in Nat
  BY <1>2, SegmentIs
<1> HIDE DEF u, w
<1>4. Length(u[1], u[2]) <= n
  BY <1>2, <1>3
<1>5. w \in Nested[Length(u[1], u[2])]
  BY <1>2, <1>3, <1>4 DEF ValuesOfLength
<1>6. w \in Nested[n]
  <2>1. Nested[Length(u[1], u[2])] \subseteq Nested[n]
    BY <1>3, <1>4, NestedMonotonic
  <2>2. QED
    BY <1>5, <2>1
<1>7. CASE type = "array"
  BY <1>6, <1>7, Zenon DEF w, ValueOf
<1>8. CASE type # "array"
  <2>1. w = e[2]
    BY <1>8, Zenon DEF w, ValueOf
  <2>2. /\ IsString(t[first])
        /\ e = << Content(Scalar[t[first]]), g[<< first + 2, last >>] >>
    BY <1>8, Zenon DEF EntryIs
  <2>3. Content(Scalar[t[first]]) \in Strings
    BY <2>2 DEF IsString, Strings, Range
  <2>4. e = << e[1], e[2] >> /\ e[1] \in Strings /\ e[2] \in Nested[n]
    BY <1>6, <2>1, <2>2, <2>3
  <2>5. QED
    BY <1>8, <2>4
<1>9. QED
  BY <1>7, <1>8

LEMMA DenotedByInto ==
  ASSUME NEW T, NEW t \in Seq(T), NEW g,
         NEW first, NEW last, << first, last >> \in Segments(t),
         \A u \in Segments(t) :
            Length(u[1], u[2]) < Length(first, last) => g[u] \in ValuesOfLength(Length(u[1], u[2]))
  PROVE  DenotedBy(t, EntriesOf(t), g, first, last) \in ValuesOfLength(Length(first, last))
<1> DEFINE v == DenotedBy(t, EntriesOf(t), g, first, last)
           n == Length(first, last)
<1>0. /\ first \in Nat /\ last \in Nat /\ 1 <= first /\ first <= Len(t) + 1 /\ last <= Len(t)
      /\ Len(t) \in Nat /\ n \in Nat
  BY SegmentIs
<1>1. /\ ScalarAt(t, first, last) => v = Scalar[t[first]]
      /\ ~ScalarAt(t, first, last) /\ v # NoValue =>
           \E type \in {"array", "object"} : \E c :
              ContainerIs(t, g, type, first, last, c) /\ v = << type, c >>
  BY DenotedByIs
<1> SUFFICES v \in ValuesOfLength(n)
  OBVIOUS
<1> HIDE DEF v
<1>2. CASE ScalarAt(t, first, last)
  <2>1. v \in Range(Scalar)
    BY <1>1, <1>2 DEF ScalarAt, Range
  <2>2. v \in Made(IF n = 0 THEN {} ELSE Nested[n - 1])
    BY <2>1, MadeIs, Zenon DEF BuiltFrom
  <2>3. QED
    BY <1>0, <2>2, NestedIs DEF ValuesOfLength
<1>3. CASE ~ScalarAt(t, first, last) /\ v # NoValue
  <2>0. PICK type \in {"array", "object"} : \E c : ContainerIs(t, g, type, first, last, c) /\ v = << type, c >>
    BY <1>1, <1>3
  <2>1. PICK c : ContainerIs(t, g, type, first, last, c) /\ v = << type, c >>
    BY <2>0
  <2>2. /\ first < last
        /\ IF last = first + 1 THEN c = << >> ELSE ListIs(t, g, type, first + 1, last - 1, c)
    BY <2>1, Zenon DEF ContainerIs
  <2>3. n # 0 /\ n - 1 \in Nat
    <3>1. first < last
      BY <2>2, Zenon
    <3>2. QED
      BY <1>0, <3>1 DEF Length
  <2> DEFINE A == Nested[n - 1]
  <2>4. /\ type = "array" => c \in Seq(A)
        /\ type = "object" => c \in Seq(Strings \X A) /\ DistinctNames(c)
    <3>1. CASE last = first + 1
      <4>1. c = << >>
        BY <2>2, <3>1
      <4>2. QED
        BY <4>1 DEF DistinctNames
    <3>2. CASE last # first + 1
      <4> DEFINE parts == EntriesOf(t)[<< first + 1, last - 1 >>]
      <4>1. /\ c = [k \in DOMAIN parts |-> c[k]]
            /\ \A k \in DOMAIN parts : EntryIs(t, g, type, parts[k][1], parts[k][2], c[k])
            /\ type = "object" => DistinctNames(c)
        BY <2>2, <3>2, Zenon DEF ListIs
      <4>2. /\ << first + 1, last - 1 >> \in Segments(t)
            /\ \A k \in DOMAIN parts : /\ << parts[k][1], parts[k][2] >> \in Segments(t)
                                       /\ Length(parts[k][1], parts[k][2]) < n
        BY <2>2, <3>2, InnerIs
      <4>3. parts \in Seq(Segments(t))
        BY <4>2, EntriesOfIs
      <4> HIDE DEF parts
      <4>4. ASSUME NEW k \in DOMAIN parts
            PROVE  IF type = "array" THEN c[k] \in A ELSE c[k] \in Strings \X A
        <5>1. /\ EntryIs(t, g, type, parts[k][1], parts[k][2], c[k])
              /\ << parts[k][1], parts[k][2] >> \in Segments(t)
          BY <4>1, <4>2
        <5>2. Length(parts[k][1], parts[k][2]) <= n - 1
          <6>1. Length(parts[k][1], parts[k][2]) \in Nat
            BY <5>1, SegmentFrom, SegmentIs
          <6>2. Length(parts[k][1], parts[k][2]) < n /\ n \in Nat
            BY <1>0, <4>2
          <6> HIDE DEF n
          <6>3. QED
            BY <6>1, <6>2
        <5>3. \A u \in Segments(t) :
                Length(u[1], u[2]) < (n - 1) + 1 => g[u] \in ValuesOfLength(Length(u[1], u[2]))
          <6>1. (n - 1) + 1 = n
            <7> HIDE DEF n
            <7>1. QED
              BY <1>0
          <6>2. QED
            BY <6>1
        <5> HIDE DEF n
        <5>4. QED
          BY <2>3, <5>1, <5>2, <5>3, EntryInto
      <4> HIDE DEF A
      <4>5. DOMAIN parts = 1 .. Len(parts) /\ Len(parts) \in Nat
        BY <4>3
      <4>6. ASSUME type = "array" PROVE c \in Seq(A)
        <5>1. \A k \in 1 .. Len(parts) : c[k] \in A
          BY <4>4, <4>5, <4>6
        <5>2. c = [k \in 1 .. Len(parts) |-> c[k]]
          BY <4>1, <4>5
        <5>3. QED
          BY <4>5, <5>1, <5>2
      <4>7. ASSUME type = "object" PROVE c \in Seq(Strings \X A) /\ DistinctNames(c)
        <5>0. type # "array"
          BY <4>7
        <5> DEFINE B == Strings \X A
        <5>1. \A k \in 1 .. Len(parts) : c[k] \in B
          BY <4>4, <4>5, <5>0
        <5>2. c = [k \in 1 .. Len(parts) |-> c[k]]
          BY <4>1, <4>5
        <5> HIDE DEF B
        <5>3. c \in Seq(B)
          BY <4>5, <5>1, <5>2
        <5>4. QED
          BY <4>1, <4>7, <5>3 DEF B
      <4>8. QED
        BY <4>6, <4>7
    <3>3. QED
      BY <3>1, <3>2
  <2> HIDE DEF A
  <2>5. BuiltFrom(v, A)
    BY <2>1, <2>4 DEF BuiltFrom
  <2>6. v \in Made(A)
    BY <2>5, MadeIs
  <2> HIDE DEF n
  <2>7. Nested[n] = Made(Nested[n - 1])
    BY <1>0, <2>3, NestedIs
  <2>8. QED
    BY <2>6, <2>7 DEF A, ValuesOfLength
<1>4. CASE ~ScalarAt(t, first, last) /\ v = NoValue
  BY <1>4 DEF ValuesOfLength
<1>5. QED
  BY <1>2, <1>3, <1>4

\* The recursive definition of Denoted is one.
LEMMA DenotedIs ==
  ASSUME NEW T, NEW t \in Seq(T)
  PROVE  \A s \in Segments(t) :
           Denoted(t)[s] = DenotedBy(t, EntriesOf(t), Denoted(t), s[1], s[2])
<1> DEFINE S == Segments(t)
           R == [s \in S |-> ValuesOfLength(Length(s[1], s[2]))]
           V == UNION {ValuesOfLength(n) : n \in Nat}
           F == Into(S, V, R)
           start == [s \in S |-> NoValue]
           rank == [s \in S |-> Length(s[1], s[2])]
           of(g, s) == DenotedBy(t, EntriesOf(t), g, s[1], s[2])
           body == [p \in S \X F |-> of(p[2], p[1])]
           N == CHOOSE f : f = [s \in S |-> of(f, s)]
<1>s. ASSUME NEW s \in S
      PROVE  /\ << s[1], s[2] >> \in S /\ Length(s[1], s[2]) \in Nat /\ rank[s] = Length(s[1], s[2])
             /\ R[s] = ValuesOfLength(Length(s[1], s[2])) /\ R[s] \subseteq V
  <2>1. << s[1], s[2] >> \in S /\ Length(s[1], s[2]) \in Nat
    BY SegmentIs
  <2>2. rank[s] = Length(s[1], s[2]) /\ R[s] = ValuesOfLength(Length(s[1], s[2]))
    OBVIOUS
  <2>3. ValuesOfLength(Length(s[1], s[2])) \subseteq V
    BY <2>1, Zenon
  <2>4. QED
    BY <2>1, <2>2, <2>3
<1> HIDE DEF S, V
<1>1. \A g \in F, s \in S : g[s] \in R[s]
  BY Zenon DEF Into
<1>2. ASSUME NEW s \in S, NEW g \in F
      PROVE  body[<< s, g >>] = of(g, s) /\ of(g, s) \in R[s] /\ of(g, s) \in V
  <2>1. << s[1], s[2] >> \in Segments(t)
    BY <1>s DEF S
  <2>2. \A u \in Segments(t) :
          Length(u[1], u[2]) < Length(s[1], s[2]) => g[u] \in ValuesOfLength(Length(u[1], u[2]))
    BY <1>1, <1>s DEF S
  <2>3. of(g, s) \in ValuesOfLength(Length(s[1], s[2]))
    BY <2>1, <2>2, DenotedByInto
  <2> HIDE DEF of, F
  <2>4. of(g, s) \in R[s] /\ of(g, s) \in V
    BY <1>s, <2>3
  <2>5. QED
    BY <2>4
<1>3. start \in Into(S, V, R)
  <2>1. \A s \in S : NoValue \in R[s] /\ NoValue \in V
    BY <1>s DEF ValuesOfLength
  <2> HIDE DEF R
  <2>2. QED
    BY <2>1 DEF Into
<1>4. rank \in Ranks(S)
  BY <1>s DEF Ranks
<1> HIDE DEF R, of
<1>5. body \in BodiesInto(S, V, R)
  <2>1. \A p \in S \X F : of(p[2], p[1]) \in V
    BY <1>2
  <2>2. body \in [S \X F -> V]
    BY <2>1
  <2> HIDE DEF body
  <2>3. QED
    BY <1>2, <2>2 DEF BodiesInto
<1>6. ASSUME NEW s \in S, NEW g, NEW h, \A u \in S : rank[u] < rank[s] => g[u] = h[u]
      PROVE  of(g, s) = of(h, s)
  <2>1. << s[1], s[2] >> \in Segments(t)
    BY <1>s DEF S
  <2>2. ASSUME NEW u \in S, Length(u[1], u[2]) < Length(s[1], s[2]) PROVE g[u] = h[u]
    <3>1. rank[u] < rank[s]
      BY <1>s, <2>2
    <3>2. QED
      BY <1>6, <3>1
  <2>3. SameBelow(t, g, h, Length(s[1], s[2]))
    BY <2>2 DEF SameBelow, S
  <2>4. QED
    BY <2>1, <2>3, DenotedBySame DEF of
<1>7. DescendingInto(S, V, R, rank, body)
  <2>1. SUFFICES ASSUME NEW s \in S, NEW g \in F, NEW h \in F,
                        \A u \in S : rank[u] < rank[s] => g[u] = h[u]
                 PROVE  body[<< s, g >>] = body[<< s, h >>]
    BY DEF DescendingInto
  <2>2. of(g, s) = of(h, s)
    BY <1>6, <2>1
  <2> HIDE DEF body, F
  <2>3. QED
    BY <1>2, <2>2
<1> HIDE DEF body, rank, start
<1>8. PICK f \in Into(S, V, R) : f = [s \in S |-> body[<< s, f >>]]
  BY <1>3, <1>4, <1>5, <1>7, RecursiveFunctionInto
<1>9. f = [s \in S |-> of(f, s)]
  BY <1>2, <1>8
<1>10. N = [s \in S |-> of(N, s)]
  BY <1>9
<1>11. Denoted(t) = N
  BY Zenon DEF Denoted, of, S
<1> HIDE DEF N
<1>12. \A s \in S : N[s] = of(N, s)
  BY <1>10
<1>13. QED
  BY <1>11, <1>12 DEF of, S

(* Closed segments: what denotes a value keeps its brackets and its commas. *)

\* No bracket of before the segment is closed in it, and every one that it opens.
Balanced(t, first, last) ==
  /\ first <= last
  /\ \A j \in first .. last : Level(t)[j] >= Level(t)[first - 1]
  /\ Level(t)[last] = Level(t)[first - 1]

\* And no comma of it stands outside its brackets.
Closed(t, first, last) == Balanced(t, first, last) /\ CommasIn(t, first, last) = {}

LEMMA LevelAt ==
  ASSUME NEW T, NEW t \in Seq(T), NEW j \in 1 .. Len(t)
  PROVE  /\ Level(t)[j] \in Int /\ Level(t)[j - 1] \in Int
         /\ t[j] \in Openers => Level(t)[j] = Level(t)[j - 1] + 1
         /\ t[j] \in Closers => Level(t)[j] = Level(t)[j - 1] - 1
         /\ t[j] \notin Openers /\ t[j] \notin Closers => Level(t)[j] = Level(t)[j - 1]
<1>1. Level(t) \in [0 .. Len(t) -> Int] /\ j \in 0 .. Len(t) /\ j - 1 \in 0 .. Len(t)
  BY LevelIs
<1>2. Level(t)[j] \in Int /\ Level(t)[j - 1] \in Int
  BY <1>1
<1>3. Level(t)[j] = LevelBehind(t[j], Level(t)[j - 1])
  BY LevelIs
<1>4. t[j] \in Closers => t[j] \notin Openers
  BY SignsAre DEF Openers, Closers
<1>5. QED
  BY <1>2, <1>3, <1>4, Zenon DEF LevelBehind

LEMMA PlainTokens ==
  ASSUME NEW token, token \in DOMAIN Scalar \/ token = Comma \/ token = Colon
  PROVE  /\ token \notin Openers /\ token \notin Closers
         /\ token # Comma \/ token \notin DOMAIN Scalar
BY SignsAre DEF Openers, Closers

\* One token that is no bracket.
LEMMA PlainClosed ==
  ASSUME NEW T, NEW t \in Seq(T), NEW i \in 1 .. Len(t), t[i] \in DOMAIN Scalar
  PROVE  Closed(t, i, i)
<1>1. t[i] \notin Openers /\ t[i] \notin Closers /\ t[i] # Comma
  BY PlainTokens
<1>2. Level(t)[i] \in Int /\ Level(t)[i] = Level(t)[i - 1]
  BY <1>1, LevelAt
<1>3. \A j : j \in i .. i <=> j = i
  OBVIOUS
<1>4. CommasIn(t, i, i) = {}
  BY <1>1, <1>3 DEF CommasIn
<1>5. Balanced(t, i, i)
  BY <1>2, <1>3 DEF Balanced
<1>6. QED
  BY <1>4, <1>5 DEF Closed

\* A name and a colon before a closed segment.
LEMMA MemberClosed ==
  ASSUME NEW T, NEW t \in Seq(T), NEW first \in Nat, NEW last \in Nat, 1 <= first, last <= Len(t),
         t[first] \in DOMAIN Scalar, t[first + 1] = Colon, Closed(t, first + 2, last)
  PROVE  Closed(t, first, last)
<1>0. Len(t) \in Nat
  OBVIOUS
<1>1. /\ first + 2 <= last /\ Level(t)[last] = Level(t)[(first + 2) - 1]
      /\ \A j \in first + 2 .. last : Level(t)[j] >= Level(t)[(first + 2) - 1]
      /\ CommasIn(t, first + 2, last) = {}
  BY DEF Closed, Balanced
<1>2. /\ first \in 1 .. Len(t) /\ first + 1 \in 1 .. Len(t) /\ (first + 1) - 1 = first /\ (first + 2) - 1 = first + 1
      /\ \A j \in first .. last : j = first \/ j = first + 1 \/ j \in first + 2 .. last
  BY <1>0, <1>1
<1>3. /\ t[first] \notin Openers /\ t[first] \notin Closers /\ t[first] # Comma
      /\ t[first + 1] \notin Openers /\ t[first + 1] \notin Closers /\ t[first + 1] # Comma
  BY PlainTokens, SignsAre
<1>4. Level(t)[first] = Level(t)[first - 1] /\ Level(t)[first - 1] \in Int
  BY <1>2, <1>3, LevelAt
<1>5. Level(t)[first + 1] = Level(t)[first]
  BY <1>2, <1>3, LevelAt
<1>6. Level(t)[first + 1] = Level(t)[first - 1]
  BY <1>4, <1>5
<1>7. Balanced(t, first, last)
  <2>1. first <= last
    BY <1>1
  <2>2. ASSUME NEW j \in first .. last PROVE Level(t)[j] >= Level(t)[first - 1]
    <3>1. CASE j = first \/ j = first + 1
      BY <1>4, <1>6, <3>1
    <3>2. CASE j \in first + 2 .. last
      BY <1>1, <1>2, <1>6, <3>2
    <3>3. QED
      BY <1>2, <3>1, <3>2
  <2>3. Level(t)[last] = Level(t)[first - 1]
    BY <1>1, <1>2, <1>6
  <2>4. QED
    BY <2>1, <2>2, <2>3 DEF Balanced
<1>8. CommasIn(t, first, last) = {}
  <2>1. ASSUME NEW j \in first .. last, t[j] = Comma, Level(t)[j] = Level(t)[first - 1] PROVE FALSE
    <3>1. j \in first + 2 .. last
      BY <1>2, <1>3, <2>1
    <3>2. j \in CommasIn(t, first + 2, last)
      BY <1>2, <1>6, <2>1, <3>1 DEF CommasIn
    <3>3. QED
      BY <1>1, <3>2
  <2>2. QED
    BY <2>1 DEF CommasIn
<1>9. QED
  BY <1>7, <1>8 DEF Closed

\* Brackets around nothing or around something balanced.
LEMMA ContainerClosed ==
  ASSUME NEW T, NEW t \in Seq(T), NEW first \in Nat, NEW last \in Nat, 1 <= first, last <= Len(t),
         first < last, t[first] \in Openers, t[last] \in Closers,
         last # first + 1 => Balanced(t, first + 1, last - 1)
  PROVE  Closed(t, first, last)
<1>0. Len(t) \in Nat
  OBVIOUS
<1>1. first \in 1 .. Len(t) /\ last \in 1 .. Len(t) /\ (first + 1) - 1 = first
  BY <1>0
<1>2. Level(t)[first] = Level(t)[first - 1] + 1 /\ Level(t)[first - 1] \in Int /\ Level(t)[first] \in Int
  BY <1>1, LevelAt
<1>3. Level(t)[last - 1] = Level(t)[first]
  <2>1. CASE last = first + 1
    BY <2>1
  <2>2. CASE last # first + 1
    BY <1>1, <2>2 DEF Balanced
  <2>3. QED
    BY <2>1, <2>2
<1>4. Level(t)[last] = Level(t)[last - 1] - 1
  BY <1>1, LevelAt
<1>5. Level(t)[last] = Level(t)[first - 1]
  BY <1>2, <1>3, <1>4
<1>6. ASSUME NEW j \in first .. last, j # last PROVE Level(t)[j] >= Level(t)[first]
  <2>1. CASE j = first
    BY <1>2, <2>1
  <2>2. CASE j # first
    <3>1. j \in first + 1 .. last - 1 /\ last # first + 1
      BY <1>6, <2>2
    <3>2. QED
      BY <1>1, <3>1 DEF Balanced
  <2>3. QED
    BY <2>1, <2>2
<1>7. Balanced(t, first, last)
  <2>1. ASSUME NEW j \in first .. last PROVE Level(t)[j] >= Level(t)[first - 1]
    <3>1. CASE j = last
      BY <1>2, <1>5, <3>1
    <3>2. CASE j # last
      <4>1. Level(t)[j] >= Level(t)[first] /\ Level(t)[j] \in Int
        <5>1. j \in 1 .. Len(t)
          BY <1>1
        <5>2. QED
          BY <1>6, <3>2, <5>1, LevelAt
      <4>2. QED
        BY <1>2, <4>1
    <3>3. QED
      BY <3>1, <3>2
  <2>2. QED
    BY <1>5, <2>1 DEF Balanced
<1>8. CommasIn(t, first, last) = {}
  <2>1. ASSUME NEW j \in first .. last, t[j] = Comma, Level(t)[j] = Level(t)[first - 1] PROVE FALSE
    <3>1. j # last
      BY <2>1, SignsAre DEF Closers
    <3>2. Level(t)[j] >= Level(t)[first]
      BY <1>6, <3>1
    <3>3. QED
      BY <1>2, <2>1, <3>2
  <2>2. QED
    BY <2>1 DEF CommasIn
<1>9. QED
  BY <1>7, <1>8 DEF Closed

\* Something closed, a comma, something balanced.
LEMMA SeparatedBalanced ==
  ASSUME NEW T, NEW t \in Seq(T), NEW first \in Nat, NEW last \in Nat, 1 <= first, last <= Len(t),
         NEW m \in Nat, first <= m, m <= last, t[m] = Comma,
         Balanced(t, first, m - 1), Balanced(t, m + 1, last)
  PROVE  Balanced(t, first, last)
<1>0. Len(t) \in Nat
  OBVIOUS
<1>1. m \in 1 .. Len(t) /\ (m + 1) - 1 = m
  BY <1>0
<1>2. t[m] \notin Openers /\ t[m] \notin Closers
  BY PlainTokens
<1>3. Level(t)[m] = Level(t)[m - 1] /\ Level(t)[m] \in Int
  BY <1>1, <1>2, LevelAt
<1>4. /\ \A j \in first .. m - 1 : Level(t)[j] >= Level(t)[first - 1]
      /\ Level(t)[m - 1] = Level(t)[first - 1]
      /\ \A j \in m + 1 .. last : Level(t)[j] >= Level(t)[m]
      /\ Level(t)[last] = Level(t)[m]
  BY <1>1 DEF Balanced
<1>5. ASSUME NEW j \in first .. last PROVE Level(t)[j] >= Level(t)[first - 1]
  <2>1. j \in first .. m - 1 \/ j = m \/ j \in m + 1 .. last
    OBVIOUS
  <2>2. QED
    BY <1>3, <1>4, <2>1
<1>6. Level(t)[last] = Level(t)[first - 1] /\ first <= last
  BY <1>3, <1>4
<1>7. QED
  BY <1>5, <1>6 DEF Balanced

\* A segment whose entries are closed is balanced.
LEMMA EntriesBalanced ==
  ASSUME NEW T, NEW t \in Seq(T), NEW s \in Segments(t),
         \A k \in DOMAIN EntriesOf(t)[s] : Closed(t, EntriesOf(t)[s][k][1], EntriesOf(t)[s][k][2])
  PROVE  Balanced(t, s[1], s[2])
<1> DEFINE S == Segments(t)
           E == EntriesOf(t)
           AllClosed(w) == \A k \in DOMAIN E[w] : Closed(t, E[w][k][1], E[w][k][2])
           Good(w) == AllClosed(w) => Balanced(t, w[1], w[2])
           U == {w \in S : Good(w)}
           rank == [w \in S |-> Length(w[1], w[2])]
<1>1. ASSUME NEW w \in S, \A u \in S : rank[u] < rank[w] => Good(u), AllClosed(w)
      PROVE  Balanced(t, w[1], w[2])
  <2> DEFINE i == w[1]
             n == w[2]
  <2>1. /\ w = << i, n >> /\ << i, n >> \in S /\ i \in Nat /\ n \in Nat /\ 1 <= i /\ n <= Len(t)
        /\ rank[w] = Length(i, n)
    BY SegmentIs
  <2>s. << i, n >> \in Segments(t)
    BY <2>1
  <2> HIDE DEF i, n
  <2>2. CASE CommasIn(t, i, n) = {}
    <3>1. EntriesOf(t)[<< i, n >>] = << << i, n >> >>
      BY <2>s, <2>2, EntryAlone, Zenon
    <3>2. E[w] = << w >>
      BY <2>1, <3>1
    <3> HIDE DEF E, S
    <3>3. 1 \in DOMAIN E[w] /\ E[w][1] = w
      BY <3>2
    <3>4. Closed(t, w[1], w[2])
      BY <1>1, <3>3
    <3>5. QED
      BY <3>4 DEF Closed
  <2>3. CASE CommasIn(t, i, n) # {}
    <3> DEFINE m == Min(CommasIn(t, i, n))
               a == << i, m - 1 >>
               b == << m + 1, n >>
    <3>1. /\ m \in CommasIn(t, i, n) /\ \A j \in CommasIn(t, i, n) : m <= j
          /\ m \in Nat /\ i <= m /\ m <= n /\ a \in S /\ b \in S
          /\ Length(m + 1, n) < Length(i, n)
      BY <2>1, <2>3, FirstComma
    <3>2. E[w] = << a >> \o E[b]
      <4>1. EntriesOf(t)[<< i, n >>] = << << i, m - 1 >> >> \o EntriesOf(t)[<< m + 1, n >>]
        <5>1. IsFirstComma(t, i, n, m)
          BY <3>1, Zenon DEF IsFirstComma
        <5>2. QED
          BY <2>1, <2>s, <3>1, <5>1, EntriesCut, ZenonT(30)
      <4>2. QED
        BY <2>1, <4>1
    <3>3. rank[b] < rank[w]
      <4>1. rank[b] = Length(m + 1, n) /\ rank[w] = Length(i, n)
        BY <2>1, <3>1
      <4> HIDE DEF rank
      <4>2. QED
        BY <3>1, <4>1
    <3>4. Good(b) /\ E[b] \in Seq(S)
      BY <1>1, <3>1, <3>3, EntriesOfIs DEF E
    <3>a. a[1] = i /\ a[2] = m - 1 /\ b[1] = m + 1 /\ b[2] = n
      OBVIOUS
    <3>c. t[m] = Comma
      BY <3>1 DEF CommasIn
    <3> HIDE DEF a, b, S, m, E
    <3>5. /\ DOMAIN E[w] = 1 .. Len(E[b]) + 1 /\ E[w][1] = a /\ Len(E[b]) \in Nat
          /\ \A k \in DOMAIN E[b] : E[w][k + 1] = E[b][k] /\ k + 1 \in DOMAIN E[w]
          /\ 1 \in DOMAIN E[w]
      <4>1. /\ Len(E[b]) \in Nat /\ E[w] = [k \in 1 .. Len(E[b]) + 1 |-> E[w][k]] /\ E[w][1] = a
            /\ \A k \in 1 .. Len(E[b]) : E[w][k + 1] = E[b][k]
        BY <3>1, <3>2, <3>4, Prepended, SMTT(30)
      <4>2. DOMAIN E[w] = 1 .. Len(E[b]) + 1
        BY <4>1, Zenon
      <4>3. DOMAIN E[b] = 1 .. Len(E[b])
        BY <3>4
      <4>4. QED
        BY <4>1, <4>2, <4>3
    <3>6. Closed(t, a[1], a[2])
      BY <1>1, <3>5
    <3>7. AllClosed(b)
      BY <1>1, <3>5
    <3>8. Balanced(t, b[1], b[2])
      BY <3>4, <3>7
    <3>9. Balanced(t, i, m - 1) /\ Balanced(t, m + 1, n)
      BY <3>6, <3>8, <3>a DEF Closed
    <3>10. Balanced(t, i, n)
      BY <2>1, <3>1, <3>9, <3>c, SeparatedBalanced
    <3>11. QED
      BY <3>10 DEF i, n
  <2>4. QED
    BY <2>2, <2>3
<1>r. rank \in Ranks(S)
  <2>1. \A w \in S : Length(w[1], w[2]) \in Nat
    BY SegmentIs
  <2> HIDE DEF S
  <2>2. QED
    BY <2>1 DEF Ranks
<1>2. ASSUME NEW w \in S, \A u \in S : rank[u] < rank[w] => u \in U PROVE w \in U
  BY <1>1, <1>2
<1>3. S \subseteq U
  <2> HIDE DEF S, U, rank
  <2>1. QED
    BY <1>2, <1>r, RankInduction
<1>4. QED
  BY <1>3

\* The first entry of a list, and the only one.
LEMMA CutFirst ==
  ASSUME NEW T, NEW t \in Seq(T), NEW first \in Nat, NEW last \in Nat, << first, last >> \in Segments(t),
         NEW m \in Nat, Closed(t, first, m - 1), m <= last, t[m] = Comma
  PROVE  EntriesOf(t)[<< first, last >>] = << << first, m - 1 >> >> \o EntriesOf(t)[<< m + 1, last >>]
<1>0. first \in Nat /\ last \in Nat /\ 1 <= first /\ last <= Len(t) /\ Len(t) \in Nat
  BY SegmentIs
<1>1. /\ first <= m - 1 /\ Level(t)[m - 1] = Level(t)[first - 1] /\ CommasIn(t, first, m - 1) = {}
  BY DEF Closed, Balanced
<1>2. m \in 1 .. Len(t) /\ m \in first .. last
  BY <1>0, <1>1
<1>3. Level(t)[m] = Level(t)[m - 1]
  BY <1>2, PlainTokens, LevelAt
<1>4. m \in CommasIn(t, first, last)
  BY <1>1, <1>2, <1>3 DEF CommasIn
<1>5. ASSUME NEW j \in CommasIn(t, first, last) PROVE m <= j
  <2>1. j \in first .. last /\ t[j] = Comma /\ Level(t)[j] = Level(t)[first - 1]
    BY <1>5 DEF CommasIn
  <2>2. j \in first .. m - 1 => j \in CommasIn(t, first, m - 1)
    BY <2>1 DEF CommasIn
  <2>3. j \notin first .. m - 1
    BY <1>1, <2>2
  <2>4. QED
    BY <1>0, <2>1, <2>3
<1>6. QED
  <2>1. IsFirstComma(t, first, last, m)
    BY <1>4, <1>5, Zenon DEF IsFirstComma
  <2>2. QED
    BY <2>1, EntriesCut, ZenonT(30)

LEMMA OneEntry ==
  ASSUME NEW T, NEW t \in Seq(T), NEW first, NEW last, << first, last >> \in Segments(t),
         Closed(t, first, last)
  PROVE  EntriesOf(t)[<< first, last >>] = << << first, last >> >>
<1>1. CommasIn(t, first, last) = {}
  BY DEF Closed
<1>2. QED
  BY <1>1, EntryAlone, Zenon

\* What is denoted by a segment: a scalar or a container.
IsDenoted(t, first, last, v) ==
  /\ ScalarAt(t, first, last) => v = Scalar[t[first]]
  /\ ~ScalarAt(t, first, last) /\ v # NoValue =>
       \E type \in {"array", "object"} : \E c :
          ContainerIs(t, Denoted(t), type, first, last, c) /\ v = << type, c >>
  /\ \A type \in {"array", "object"} : \A c :
       ContainerIs(t, Denoted(t), type, first, last, c) => v = << type, c >>

LEMMA DenotedAt ==
  ASSUME NEW T, NEW t \in Seq(T), NEW first, NEW last, << first, last >> \in Segments(t)
  PROVE  IsDenoted(t, first, last, Denoted(t)[<< first, last >>])
<1>1. Denoted(t)[<< first, last >>] = DenotedBy(t, EntriesOf(t), Denoted(t), first, last)
  <2>1. << first, last >>[1] = first /\ << first, last >>[2] = last
    OBVIOUS
  <2>2. QED
    BY <2>1, DenotedIs
<1> DEFINE v == DenotedBy(t, EntriesOf(t), Denoted(t), first, last)
<1>2. /\ ScalarAt(t, first, last) => v = Scalar[t[first]]
      /\ ~ScalarAt(t, first, last) /\ v # NoValue =>
           \E type \in {"array", "object"} : \E c :
              ContainerIs(t, Denoted(t), type, first, last, c) /\ v = << type, c >>
      /\ \A type \in {"array", "object"} : \A c :
           ContainerIs(t, Denoted(t), type, first, last, c) => v = << type, c >>
  BY DenotedByIs
<1>3. IsDenoted(t, first, last, v)
  <2> HIDE DEF v
  <2>1. QED
    BY <1>2, Zenon DEF IsDenoted
<1>4. QED
  BY <1>1, <1>3

\* What denotes a value is closed.
ClosedSegment(t, u) == Denoted(t)[u] # NoValue => Closed(t, u[1], u[2])

LEMMA EntryClosed ==
  ASSUME NEW T, NEW t \in Seq(T), NEW type \in {"array", "object"},
         NEW first, NEW last, << first, last >> \in Segments(t), NEW e,
         EntryIs(t, Denoted(t), type, first, last, e),
         ClosedSegment(t, ValueSegment(type, first, last))
  PROVE  Closed(t, first, last)
<1> DEFINE u == ValueSegment(type, first, last)
<1>0. first \in Nat /\ last \in Nat /\ 1 <= first /\ last <= Len(t)
  BY SegmentIs
<1>1. Denoted(t)[u] # NoValue
  <2>1. EntryValueAt(t, Denoted(t), u, Length(first, last), type, e)
    BY EntryValue
  <2>2. QED
    BY <2>1 DEF EntryValueAt
<1>2. Closed(t, u[1], u[2])
  BY <1>1 DEF ClosedSegment
<1>3. CASE type = "array"
  <2>1. u = << first, last >>
    BY <1>3, Zenon DEF ValueSegment
  <2> HIDE DEF u
  <2>2. QED
    BY <1>2, <2>1
<1>4. CASE type # "array"
  <2>1. u = << first + 2, last >>
    BY <1>4, Zenon DEF ValueSegment
  <2> HIDE DEF u
  <2>2. Closed(t, first + 2, last)
    BY <1>2, <2>1
  <2>3. IsString(t[first]) /\ t[first + 1] = Colon
    BY <1>4, Zenon DEF EntryIs
  <2>4. t[first] \in DOMAIN Scalar
    BY <2>3 DEF IsString
  <2>5. QED
    BY <1>0, <2>2, <2>3, <2>4, MemberClosed
<1>5. QED
  BY <1>3, <1>4

LEMMA DenotedClosed ==
  ASSUME NEW T, NEW t \in Seq(T)
  PROVE  \A s \in Segments(t) : ClosedSegment(t, s)
<1> DEFINE S == Segments(t)
           U == {w \in S : ClosedSegment(t, w)}
           rank == [w \in S |-> Length(w[1], w[2])]
<1>1. ASSUME NEW s \in S, \A u \in S : Length(u[1], u[2]) < Length(s[1], s[2]) => ClosedSegment(t, u)
      PROVE  ClosedSegment(t, s)
  <2> DEFINE first == s[1]
             last == s[2]
  <2>1. /\ s = << first, last >> /\ << first, last >> \in Segments(t) /\ first \in Nat /\ last \in Nat
        /\ 1 <= first /\ last <= Len(t) /\ Length(first, last) \in Nat
    BY SegmentIs
  <2>2. \A u \in Segments(t) : Length(u[1], u[2]) < Length(first, last) => ClosedSegment(t, u)
    BY <1>1
  <2> HIDE DEF first, last, S
  <2>3. SUFFICES ASSUME Denoted(t)[<< first, last >>] # NoValue PROVE Closed(t, first, last)
    BY <2>1 DEF ClosedSegment, first, last
  <2>4. CASE ScalarAt(t, first, last)
    <3>1. first = last /\ t[first] \in DOMAIN Scalar /\ first \in 1 .. Len(t)
      BY <2>1, <2>4 DEF ScalarAt
    <3>2. QED
      BY <3>1, PlainClosed
  <2>5. CASE ~ScalarAt(t, first, last)
    <3>0. PICK type \in {"array", "object"} : \E c : ContainerIs(t, Denoted(t), type, first, last, c)
      <4>1. IsDenoted(t, first, last, Denoted(t)[<< first, last >>])
        BY <2>1, DenotedAt
      <4>2. QED
        BY <2>3, <2>5, <4>1, Zenon DEF IsDenoted
    <3>1. PICK c : ContainerIs(t, Denoted(t), type, first, last, c)
      BY <3>0
    <3>2. /\ first < last /\ t[first] = OpenOf(type) /\ t[last] = CloseOf(type)
          /\ last # first + 1 => ListIs(t, Denoted(t), type, first + 1, last - 1, c)
      BY <3>1, Zenon DEF ContainerIs
    <3>3. t[first] \in Openers /\ t[last] \in Closers
      BY <3>2 DEF Openers, Closers
    <3>4. ASSUME last # first + 1 PROVE Balanced(t, first + 1, last - 1)
      <4> DEFINE w == << first + 1, last - 1 >>
                 parts == EntriesOf(t)[w]
      <4>1. \A k \in DOMAIN parts : EntryIs(t, Denoted(t), type, parts[k][1], parts[k][2], c[k])
        BY <3>2, <3>4, Zenon DEF ListIs
      <4>2. /\ w \in Segments(t)
            /\ \A k \in DOMAIN parts :
                 /\ << parts[k][1], parts[k][2] >> \in Segments(t)
                 /\ Length(parts[k][1], parts[k][2]) < Length(first, last)
        BY <2>1, <3>2, <3>4, InnerIs
      <4>3. w[1] = first + 1 /\ w[2] = last - 1
        OBVIOUS
      <4> HIDE DEF parts, w
      <4>4. ASSUME NEW k \in DOMAIN parts PROVE Closed(t, parts[k][1], parts[k][2])
        <5> DEFINE a == parts[k][1]
                   b == parts[k][2]
                   u == ValueSegment(type, a, b)
        <5>1. EntryIs(t, Denoted(t), type, a, b, c[k]) /\ << a, b >> \in Segments(t) /\ Length(a, b) < Length(first, last)
          BY <4>1, <4>2
        <5>2. Length(a, b) \in Nat
          BY <5>1, SegmentFrom, SegmentIs
        <5> HIDE DEF a, b
        <5>3. EntryValueAt(t, Denoted(t), u, Length(a, b), type, c[k])
          BY <5>1, EntryValue
        <5>4. u \in Segments(t) /\ Length(u[1], u[2]) <= Length(a, b)
          BY <5>3 DEF EntryValueAt
        <5> HIDE DEF u
        <5>5. Length(u[1], u[2]) \in Nat
          BY <5>4, SegmentIs
        <5>6. Length(u[1], u[2]) < Length(first, last)
          BY <2>1, <5>1, <5>2, <5>4, <5>5
        <5>7. ClosedSegment(t, u)
          BY <2>2, <5>4, <5>6
        <5>8. Closed(t, a, b)
          BY <5>1, <5>7, EntryClosed DEF u
        <5>9. QED
          BY <5>8 DEF a, b
      <4>5. Balanced(t, w[1], w[2])
        BY <4>2, <4>4, EntriesBalanced DEF parts
      <4>6. QED
        BY <4>3, <4>5
    <3>5. QED
      BY <2>1, <3>2, <3>3, <3>4, ContainerClosed
  <2>6. QED
    BY <2>4, <2>5
<1>r. rank \in Ranks(S) /\ \A s \in S : rank[s] = Length(s[1], s[2])
  <2>1. \A w \in S : Length(w[1], w[2]) \in Nat
    BY SegmentIs
  <2> HIDE DEF S
  <2>2. QED
    BY <2>1 DEF Ranks
<1>2. ASSUME NEW s \in S, \A u \in S : rank[u] < rank[s] => u \in U PROVE s \in U
  <2> HIDE DEF S, rank
  <2>1. QED
    BY <1>1, <1>2, <1>r
<1>3. S \subseteq U
  <2> HIDE DEF S, U, rank
  <2>1. QED
    BY <1>2, <1>r, RankInduction
<1>4. QED
  BY <1>3

\* A list is one entry, or an entry, a comma and a list.
IsOne(t, type, first, last, c) ==
  \E e : c = << e >> /\ EntryIs(t, Denoted(t), type, first, last, e)

IsMore(t, type, first, m, last, c) ==
  \E e, d : /\ c = << e >> \o d /\ d = [k \in 1 .. Len(d) |-> d[k]] /\ Len(d) \in Nat
            /\ EntryIs(t, Denoted(t), type, first, m - 1, e)
            /\ ListIs(t, Denoted(t), type, m + 1, last, d)
            /\ type = "object" => e[1] \notin NamesOf(d)

LEMMA NamesApart ==
  ASSUME NEW D, NEW e \in D, NEW d \in Seq(D)
  PROVE  DistinctNames(<< e >> \o d) <=> DistinctNames(d) /\ e[1] \notin NamesOf(d)
<1> DEFINE c == << e >> \o d
<1>1. /\ Len(d) \in Nat /\ DOMAIN d = 1 .. Len(d) /\ DOMAIN c = 1 .. Len(d) + 1 /\ c[1] = e
      /\ \A k \in DOMAIN d : c[k + 1] = d[k] /\ k + 1 \in DOMAIN c
      /\ \A k \in DOMAIN c : k # 1 => k - 1 \in DOMAIN d /\ c[k] = d[k - 1]
      /\ 1 \in DOMAIN c
  OBVIOUS
<1> HIDE DEF c
<1>2. ASSUME DistinctNames(c) PROVE DistinctNames(d) /\ e[1] \notin NamesOf(d)
  <2>1. ASSUME NEW i \in DOMAIN d, NEW j \in DOMAIN d, d[i][1] = d[j][1] PROVE i = j
    <3>1. c[i + 1][1] = c[j + 1][1] /\ i + 1 \in DOMAIN c /\ j + 1 \in DOMAIN c
      BY <1>1, <2>1
    <3>2. i + 1 = j + 1
      BY <1>2, <3>1 DEF DistinctNames
    <3>3. QED
      BY <1>1, <3>2
  <2>2. ASSUME NEW i \in DOMAIN d, d[i][1] = e[1] PROVE FALSE
    <3>1. c[i + 1][1] = c[1][1] /\ i + 1 \in DOMAIN c /\ 1 \in DOMAIN c
      BY <1>1, <2>2
    <3>2. i + 1 = 1
      BY <1>2, <3>1 DEF DistinctNames
    <3>3. QED
      BY <1>1, <3>2
  <2>3. QED
    BY <2>1, <2>2 DEF DistinctNames, NamesOf
<1>3. ASSUME DistinctNames(d), e[1] \notin NamesOf(d) PROVE DistinctNames(c)
  <2>1. ASSUME NEW i \in DOMAIN c, NEW j \in DOMAIN c, c[i][1] = c[j][1] PROVE i = j
    <3>1. CASE i # 1 /\ j # 1
      <4>1. i - 1 \in DOMAIN d /\ j - 1 \in DOMAIN d /\ d[i - 1][1] = d[j - 1][1]
        BY <1>1, <2>1, <3>1
      <4>2. i - 1 = j - 1
        BY <1>3, <4>1 DEF DistinctNames
      <4>3. QED
        BY <1>1, <4>2
    <3>2. CASE i = 1 /\ j # 1
      <4>1. j - 1 \in DOMAIN d /\ d[j - 1][1] = e[1]
        BY <1>1, <2>1, <3>2
      <4>2. QED
        BY <1>3, <4>1 DEF NamesOf
    <3>3. CASE i # 1 /\ j = 1
      <4>1. i - 1 \in DOMAIN d /\ d[i - 1][1] = e[1]
        BY <1>1, <2>1, <3>3
      <4>2. QED
        BY <1>3, <4>1 DEF NamesOf
    <3>4. QED
      BY <3>1, <3>2, <3>3
  <2>2. QED
    BY <2>1 DEF DistinctNames
<1>4. QED
  BY <1>2, <1>3 DEF c

LEMMA SequenceOf ==
  ASSUME NEW n \in Nat, NEW D, NEW c, c = [k \in 1 .. n |-> c[k]], \A k \in 1 .. n : c[k] \in D
  PROVE  c \in Seq(D) /\ Len(c) = n
OBVIOUS

LEMMA AnySequence ==
  ASSUME NEW n \in Nat, NEW c, c = [k \in 1 .. n |-> c[k]]
  PROVE  \E D : c \in Seq(D) /\ \A k \in 1 .. n : c[k] \in D
<1> DEFINE D == {c[k] : k \in 1 .. n}
<1>1. \A k \in 1 .. n : c[k] \in D
  OBVIOUS
<1> HIDE DEF D
<1>2. c \in Seq(D)
  BY <1>1
<1>3. QED
  BY <1>1, <1>2

(* A list of entries from its first entry on. *)

\* A list of one entry, and one of more.
LEMMA ListOfOne ==
  ASSUME NEW T, NEW t \in Seq(T), NEW type \in {"array", "object"},
         NEW first, NEW last, << first, last >> \in Segments(t), NEW c,
         EntriesOf(t)[<< first, last >>] = << << first, last >> >>
  PROVE  ListIs(t, Denoted(t), type, first, last, c) <=> IsOne(t, type, first, last, c)
<1> DEFINE parts == EntriesOf(t)[<< first, last >>]
           g == Denoted(t)
           w == << first, last >>
<1>1. DOMAIN parts = {1} /\ parts[1][1] = first /\ parts[1][2] = last
  <2>1. parts = << w >>
    OBVIOUS
  <2>2. w[1] = first /\ w[2] = last
    OBVIOUS
  <2> HIDE DEF parts, w
  <2>3. QED
    BY <2>1, <2>2
<1> HIDE DEF parts, g
<1>2. ListIs(t, g, type, first, last, c)
        <=> /\ c = [k \in DOMAIN parts |-> c[k]]
            /\ \A k \in DOMAIN parts : EntryIs(t, g, type, parts[k][1], parts[k][2], c[k])
            /\ type = "object" => DistinctNames(c)
  BY Zenon DEF ListIs, parts
<1>3. ASSUME ListIs(t, g, type, first, last, c) PROVE IsOne(t, type, first, last, c)
  <2> DEFINE e == c[1]
  <2>1. EntryIs(t, g, type, first, last, e)
    BY <1>1, <1>2, <1>3
  <2>2. c = << e >>
    <3>1. DOMAIN c = {1} /\ c = [k \in {1} |-> c[k]]
      BY <1>1, <1>2, <1>3
    <3>2. [k \in {1} |-> c[k]] = << c[1] >>
      OBVIOUS
    <3>3. QED
      BY <3>1, <3>2
  <2> HIDE DEF e
  <2>3. QED
    BY <2>1, <2>2 DEF IsOne, g
<1>4. ASSUME IsOne(t, type, first, last, c) PROVE ListIs(t, g, type, first, last, c)
  <2>1. PICK e : c = << e >> /\ EntryIs(t, g, type, first, last, e)
    BY <1>4 DEF IsOne, g
  <2>2. DOMAIN c = {1} /\ c[1] = e /\ c = [k \in {1} |-> c[k]]
    BY <2>1
  <2>3. DistinctNames(c)
    BY <2>2 DEF DistinctNames
  <2>4. \A k \in DOMAIN parts : EntryIs(t, g, type, parts[k][1], parts[k][2], c[k])
    BY <1>1, <2>1, <2>2
  <2>5. c = [k \in DOMAIN parts |-> c[k]]
    BY <1>1, <2>2
  <2>6. QED
    BY <1>2, <2>3, <2>4, <2>5
<1>5. QED
  BY <1>3, <1>4 DEF g

LEMMA ListOfMore ==
  ASSUME NEW T, NEW t \in Seq(T), NEW type \in {"array", "object"},
         NEW first, NEW last, << first, last >> \in Segments(t), NEW c, NEW m \in Nat,
         << m + 1, last >> \in Segments(t),
         EntriesOf(t)[<< first, last >>] = << << first, m - 1 >> >> \o EntriesOf(t)[<< m + 1, last >>]
  PROVE  ListIs(t, Denoted(t), type, first, last, c) <=> IsMore(t, type, first, m, last, c)
<1> DEFINE parts == EntriesOf(t)[<< first, last >>]
           rest == EntriesOf(t)[<< m + 1, last >>]
           g == Denoted(t)
           w == << first, m - 1 >>
           n == Len(rest)
<1>0. rest \in Seq(Segments(t))
  BY EntriesOfIs
<1>1. /\ DOMAIN parts = 1 .. n + 1 /\ n \in Nat /\ DOMAIN rest = 1 .. n
      /\ parts[1][1] = first /\ parts[1][2] = m - 1
      /\ \A k \in 1 .. n : parts[k + 1] = rest[k]
  <2>1. parts = << w >> \o rest
    OBVIOUS
  <2>2. w[1] = first /\ w[2] = m - 1
    OBVIOUS
  <2> HIDE DEF parts, w, rest
  <2>3. parts[1] = w /\ DOMAIN parts = 1 .. n + 1 /\ n \in Nat /\ DOMAIN rest = 1 .. n
        /\ \A k \in 1 .. n : parts[k + 1] = rest[k]
    BY <1>0, <2>1
  <2>4. QED
    BY <2>2, <2>3
<1> HIDE DEF parts, g, rest
<1>2. ListIs(t, g, type, first, last, c)
        <=> /\ c = [k \in DOMAIN parts |-> c[k]]
            /\ \A k \in DOMAIN parts : EntryIs(t, g, type, parts[k][1], parts[k][2], c[k])
            /\ type = "object" => DistinctNames(c)
  BY Zenon DEF ListIs, parts
<1>3. \A d : ListIs(t, g, type, m + 1, last, d)
               <=> /\ d = [k \in DOMAIN rest |-> d[k]]
                   /\ \A k \in DOMAIN rest : EntryIs(t, g, type, rest[k][1], rest[k][2], d[k])
                   /\ type = "object" => DistinctNames(d)
  BY Zenon DEF ListIs, rest
<1> HIDE DEF n
<1>4. ASSUME ListIs(t, g, type, first, last, c) PROVE IsMore(t, type, first, m, last, c)
  <2> DEFINE e == c[1]
             d == [k \in 1 .. n |-> c[k + 1]]
  <2>1. c = [k \in 1 .. n + 1 |-> c[k]] /\ n + 1 \in Nat
    BY <1>1, <1>2, <1>4
  <2>2. PICK D : c \in Seq(D) /\ \A k \in 1 .. n + 1 : c[k] \in D
    BY <2>1, AnySequence
  <2>3. e \in D /\ d \in Seq(D) /\ Len(d) = n /\ \A k \in 1 .. n : d[k] = c[k + 1]
    <3>1. 1 \in 1 .. n + 1 /\ \A k \in 1 .. n : k + 1 \in 1 .. n + 1
      BY <1>1
    <3>2. e \in D /\ \A k \in 1 .. n : c[k + 1] \in D
      BY <2>2, <3>1
    <3> HIDE DEF e
    <3>3. QED
      BY <1>1, <3>2
  <2>4. d = [k \in 1 .. n |-> d[k]]
    OBVIOUS
  <2> HIDE DEF d
  <2>5. c = << e >> \o d
    <3> DEFINE f == << e >> \o d
    <3>1. f = [k \in 1 .. n + 1 |-> f[k]] /\ f[1] = e /\ \A k \in 1 .. n : f[k + 1] = d[k]
      <4> HIDE DEF e
      <4>1. QED
        BY <1>1, <2>3
    <3> HIDE DEF f
    <3>2. \A k \in 1 .. n + 1 : f[k] = c[k]
      <4>1. ASSUME NEW k \in 1 .. n + 1 PROVE f[k] = c[k]
        <5>1. CASE k = 1
          BY <3>1, <5>1
        <5>2. CASE k # 1
          <6>1. k - 1 \in 1 .. n /\ (k - 1) + 1 = k
            BY <1>1, <5>2
          <6>2. f[(k - 1) + 1] = d[k - 1] /\ d[k - 1] = c[(k - 1) + 1]
            BY <2>3, <3>1, <6>1
          <6>3. QED
            BY <6>1, <6>2
        <5>3. QED
          BY <5>1, <5>2
      <4>2. QED
        BY <4>1
    <3>3. c = f
      BY <2>1, <3>1, <3>2
    <3>4. QED
      BY <3>3 DEF f
  <2>6. EntryIs(t, g, type, first, m - 1, e)
    <3>1. 1 \in DOMAIN parts
      BY <1>1
    <3>2. EntryIs(t, g, type, parts[1][1], parts[1][2], c[1])
      BY <1>2, <1>4, <3>1
    <3>3. QED
      BY <1>1, <3>2
  <2>7. \A k \in DOMAIN rest : EntryIs(t, g, type, rest[k][1], rest[k][2], d[k])
    <3>1. ASSUME NEW k \in 1 .. n PROVE EntryIs(t, g, type, rest[k][1], rest[k][2], d[k])
      <4>1. k + 1 \in DOMAIN parts /\ parts[k + 1] = rest[k] /\ d[k] = c[k + 1]
        BY <1>1, <2>3
      <4>2. EntryIs(t, g, type, parts[k + 1][1], parts[k + 1][2], c[k + 1])
        BY <1>2, <1>4, <4>1
      <4>3. QED
        BY <4>1, <4>2
    <3>2. QED
      BY <1>1, <3>1
  <2> HIDE DEF e
  <2>8. type = "object" => DistinctNames(d) /\ e[1] \notin NamesOf(d)
    <3>1. type = "object" => DistinctNames(<< e >> \o d)
      BY <1>2, <1>4, <2>5
    <3>2. QED
      BY <2>3, <3>1, NamesApart
  <2>9. ListIs(t, g, type, m + 1, last, d)
    BY <1>1, <1>3, <2>4, <2>7, <2>8
  <2>10. d = [k \in 1 .. Len(d) |-> d[k]] /\ Len(d) \in Nat
    BY <1>1, <2>3, <2>4
  <2>11. QED
    BY <2>5, <2>6, <2>8, <2>9, <2>10 DEF IsMore, g
<1>5. ASSUME IsMore(t, type, first, m, last, c) PROVE ListIs(t, g, type, first, last, c)
  <2>1. PICK e, d : /\ c = << e >> \o d /\ d = [k \in 1 .. Len(d) |-> d[k]] /\ Len(d) \in Nat
                    /\ EntryIs(t, g, type, first, m - 1, e)
                    /\ ListIs(t, g, type, m + 1, last, d)
                    /\ type = "object" => e[1] \notin NamesOf(d)
    BY <1>5 DEF IsMore, g
  <2>2. PICK D : d \in Seq(D) /\ \A k \in 1 .. Len(d) : d[k] \in D
    BY <2>1, AnySequence
  <2>3. /\ d = [k \in 1 .. n |-> d[k]]
        /\ \A k \in 1 .. n : EntryIs(t, g, type, rest[k][1], rest[k][2], d[k])
        /\ type = "object" => DistinctNames(d)
    BY <1>1, <1>3, <2>1
  <2>4. Len(d) = n
    <3>1. DOMAIN d = 1 .. n
      BY <2>3
    <3>2. QED
      BY <1>1, <2>2, <3>1
  <2> DEFINE G == D \cup {e}
  <2>5. d \in Seq(G) /\ e \in G
    <3>1. \A k \in 1 .. n : d[k] \in G
      BY <2>2, <2>4
    <3>2. e \in G
      OBVIOUS
    <3> HIDE DEF G
    <3>3. d \in Seq(G)
      BY <1>1, <2>3, <3>1, SequenceOf
    <3>4. QED
      BY <3>2, <3>3
  <2> HIDE DEF G
  <2>6. /\ c = [k \in 1 .. n + 1 |-> c[k]] /\ c[1] = e
        /\ \A k \in 1 .. n : c[k + 1] = d[k]
    <3>1. /\ c = [k \in 1 .. Len(d) + 1 |-> c[k]] /\ c[1] = e
          /\ \A k \in 1 .. Len(d) : c[k + 1] = d[k]
      BY <2>1, <2>5, Prepended, SMTT(30)
    <3>2. QED
      BY <2>4, <3>1, Zenon
  <2>7. type = "object" => DistinctNames(c)
    BY <2>1, <2>3, <2>5, NamesApart
  <2>8. ASSUME NEW k \in 1 .. n + 1 PROVE EntryIs(t, g, type, parts[k][1], parts[k][2], c[k])
    <3>1. CASE k = 1
      BY <1>1, <2>1, <2>6, <3>1
    <3>2. CASE k # 1
      <4>1. k - 1 \in 1 .. n /\ (k - 1) + 1 = k
        BY <1>1, <3>2
      <4>2. parts[k] = rest[k - 1] /\ c[k] = d[k - 1]
        BY <1>1, <2>6, <4>1
      <4>3. EntryIs(t, g, type, rest[k - 1][1], rest[k - 1][2], d[k - 1])
        BY <2>3, <4>1
      <4>4. QED
        BY <4>2, <4>3
    <3>3. QED
      BY <3>1, <3>2
  <2>9. QED
    BY <1>1, <1>2, <2>6, <2>7, <2>8
<1>6. QED
  BY <1>4, <1>5 DEF g

\* A list is one of these.
LEMMA ListCases ==
  ASSUME NEW T, NEW t \in Seq(T), NEW type \in {"array", "object"},
         NEW first, NEW last, << first, last >> \in Segments(t), NEW c,
         ListIs(t, Denoted(t), type, first, last, c)
  PROVE  \/ IsOne(t, type, first, last, c)
         \/ \E m \in first .. last : /\ t[m] = Comma /\ << m + 1, last >> \in Segments(t)
                                     /\ << first, m - 1 >> \in Segments(t)
                                     /\ IsMore(t, type, first, m, last, c)
<1>0. first \in Nat /\ last \in Nat
  BY SegmentIs
<1>1. CASE CommasIn(t, first, last) = {}
  <2>1. EntriesOf(t)[<< first, last >>] = << << first, last >> >>
    BY <1>1, EntryAlone, Zenon
  <2>2. QED
    BY <2>1, ListOfOne
<1>2. CASE CommasIn(t, first, last) # {}
  <2> DEFINE m == Min(CommasIn(t, first, last))
  <2>1. /\ m \in CommasIn(t, first, last) /\ \A j \in CommasIn(t, first, last) : m <= j
        /\ m \in Nat /\ first <= m /\ m <= last
        /\ << first, m - 1 >> \in Segments(t) /\ << m + 1, last >> \in Segments(t)
    BY <1>2, FirstComma
  <2>2. EntriesOf(t)[<< first, last >>] = << << first, m - 1 >> >> \o EntriesOf(t)[<< m + 1, last >>]
    <3>1. IsFirstComma(t, first, last, m)
      BY <2>1, Zenon DEF IsFirstComma
    <3>2. QED
      BY <1>0, <2>1, <3>1, EntriesCut, ZenonT(30)
  <2>3. t[m] = Comma
    BY <2>1 DEF CommasIn
  <2> HIDE DEF m
  <2>4. IsMore(t, type, first, m, last, c)
    BY <2>1, <2>2, ListOfMore
  <2>5. m \in first .. last
    BY <1>0, <2>1
  <2>6. QED
    BY <2>1, <2>3, <2>4, <2>5, Zenon
<1>3. QED
  BY <1>1, <1>2

(* What the parser finds is what the text denotes that it has read. *)

\* What a function of the parser finds is what the text denotes that it has read.
SoundValue(t, i, r) ==
  ~Fails(r) => /\ << i, r.next - 1 >> \in Segments(t)
               /\ Denoted(t)[<< i, r.next - 1 >>] = r.value

SoundList(t, type, i, r) ==
  ~Fails(r) => /\ << i, r.next - 2 >> \in Segments(t) /\ i <= r.next - 2
               /\ r.next - 1 <= Len(t) /\ t[r.next - 1] = CloseOf(type)
               /\ ListIs(t, Denoted(t), type, i, r.next - 2, r.value)

LEMMA ContainerMeans ==
  ASSUME NEW T, NEW t \in Seq(T), NEW type \in {"array", "object"},
         NEW first, NEW last, << first, last >> \in Segments(t), NEW c,
         ContainerIs(t, Denoted(t), type, first, last, c)
  PROVE  Denoted(t)[<< first, last >>] = << type, c >>
<1>1. IsDenoted(t, first, last, Denoted(t)[<< first, last >>])
  BY DenotedAt
<1>2. QED
  BY <1>1, Zenon DEF IsDenoted

LEMMA ScalarMeans ==
  ASSUME NEW T, NEW t \in Seq(T), NEW i \in 1 .. Len(t), t[i] \in DOMAIN Scalar
  PROVE  << i, i >> \in Segments(t) /\ Denoted(t)[<< i, i >>] = Scalar[t[i]]
<1>1. << i, i >> \in Segments(t)
  <2>1. i \in Int /\ 1 <= i /\ i <= Len(t) + 1 /\ 0 <= i /\ i <= Len(t)
    OBVIOUS
  <2>2. QED
    BY <2>1, SegmentFrom
<1>2. IsDenoted(t, i, i, Denoted(t)[<< i, i >>])
  BY <1>1, DenotedAt
<1>3. ScalarAt(t, i, i)
  BY DEF ScalarAt
<1>4. QED
  BY <1>1, <1>2, <1>3, Zenon DEF IsDenoted

LEMMA ContainerSound ==
  ASSUME NEW T, NEW t \in Seq(T), NEW type \in {"array", "object"},
         NEW i \in Nat, 1 <= i, NEW k \in Nat, i <= Len(t), t[i] = OpenOf(type),
         SoundList(t, type, i + 1, Parser(t)[<< type, i + 1, k + 1 >>])
  PROVE  SoundValue(t, i, ParseContainer(t, Parser(t), type, CloseOf(type), i, k))
<1> DEFINE inside == Parser(t)[<< type, i + 1, k + 1 >>]
           r == ParseContainer(t, Parser(t), type, CloseOf(type), i, k)
<1>0. Len(t) \in Nat /\ i + 1 \in Nat /\ k + 1 \in Nat
  OBVIOUS
<1>1. r = IF TokenAt(t, i + 1) = CloseOf(type) THEN [value |-> << type, << >> >>, next |-> i + 2]
          ELSE IF Fails(inside) THEN Failed
          ELSE [value |-> << type, inside.value >>, next |-> inside.next]
  BY ParseContainerIs
<1>2. inside \in Outcomes(t, type, i + 1, k + 1)
  BY <1>0, ParserCalls
<1>3. inside.next \in Nat
  BY <1>0, <1>2, OutcomeIs
<1>4. SoundList(t, type, i + 1, inside)
  OBVIOUS
<1> HIDE DEF r, inside
<1>5. SUFFICES ASSUME ~Fails(r)
               PROVE  << i, r.next - 1 >> \in Segments(t) /\ Denoted(t)[<< i, r.next - 1 >>] = r.value
  BY DEF SoundValue, r
<1>6. CASE TokenAt(t, i + 1) = CloseOf(type)
  <2>1. r.value = << type, << >> >> /\ r.next = i + 2
    BY <1>1, <1>6
  <2>2. i + 1 <= Len(t) /\ t[i + 1] = CloseOf(type)
    BY <1>6, SignsAre, TokenAtIs
  <2>3. i < i + 1 /\ r.next - 1 = i + 1 /\ << i, i + 1 >> \in Segments(t)
    <3>1. i \in Int /\ i + 1 \in Int /\ i <= Len(t) + 1 /\ 0 <= i + 1
      BY <1>0
    <3>2. << i, i + 1 >> \in Segments(t)
      BY <2>2, <3>1, SegmentFrom
    <3>3. QED
      BY <2>1, <3>2
  <2>4. ContainerIs(t, Denoted(t), type, i, i + 1, << >>)
    BY <2>2, <2>3, Zenon DEF ContainerIs
  <2>5. Denoted(t)[<< i, i + 1 >>] = << type, << >> >>
    BY <2>3, <2>4, ContainerMeans
  <2>6. QED
    BY <2>1, <2>3, <2>5
<1>7. CASE TokenAt(t, i + 1) # CloseOf(type)
  <2>1. ~Fails(inside)
    BY <1>1, <1>5, <1>7, OutcomeIs
  <2>2. r.value = << type, inside.value >> /\ r.next = inside.next
    BY <1>1, <1>7, <2>1
  <2> DEFINE last == inside.next - 1
  <2>3. /\ i + 1 <= last - 1 /\ last <= Len(t) /\ t[last] = CloseOf(type) /\ last \in Int
        /\ ListIs(t, Denoted(t), type, i + 1, last - 1, inside.value)
    <3>1. inside.next - 2 = last - 1
      BY <1>3
    <3>2. QED
      BY <1>3, <1>4, <2>1, <3>1 DEF SoundList
  <2> HIDE DEF last
  <2>4. i < last /\ last # i + 1
    BY <2>3
  <2>5. << i, last >> \in Segments(t)
    <3>1. i \in Int /\ i <= Len(t) + 1 /\ 0 <= last
      BY <1>0, <2>3
    <3>2. QED
      BY <2>3, <3>1, SegmentFrom
  <2>6. ContainerIs(t, Denoted(t), type, i, last, inside.value)
    BY <2>3, <2>4, Zenon DEF ContainerIs
  <2>7. Denoted(t)[<< i, last >>] = << type, inside.value >>
    BY <2>5, <2>6, ContainerMeans
  <2>8. QED
    BY <2>2, <2>5, <2>7 DEF last
<1>8. QED
  BY <1>6, <1>7

LEMMA ValueSound ==
  ASSUME NEW T, NEW t \in Seq(T), NEW i \in Nat, 1 <= i, NEW k \in Nat,
         \A type \in {"array", "object"} : i <= Len(t) =>
            SoundList(t, type, i + 1, Parser(t)[<< type, i + 1, k + 1 >>])
  PROVE  SoundValue(t, i, Parser(t)[<< "value", i, k >>])
<1> DEFINE r == Parser(t)[<< "value", i, k >>]
           token == TokenAt(t, i)
<1>0. Len(t) \in Nat
  OBVIOUS
<1>1. r = ParseValue(t, Parser(t), i, k)
  BY ParserCalls
<1>2. r = IF k > MaxNesting THEN Failed
          ELSE IF token \in DOMAIN Scalar THEN ParseScalar(t, i)
          ELSE IF token = OpenOf("object")
          THEN ParseContainer(t, Parser(t), "object", CloseOf("object"), i, k)
          ELSE IF token = OpenOf("array")
          THEN ParseContainer(t, Parser(t), "array", CloseOf("array"), i, k)
          ELSE Failed
  BY <1>1, ParseValueIs
<1>3. ASSUME NEW type \in {"array", "object"}, token = OpenOf(type)
      PROVE  SoundValue(t, i, ParseContainer(t, Parser(t), type, CloseOf(type), i, k))
  <2>1. i <= Len(t) /\ t[i] = OpenOf(type)
    BY <1>3, SignsAre, TokenAtIs
  <2>2. QED
    BY <2>1, ContainerSound
<1>4. ASSUME token \in DOMAIN Scalar PROVE SoundValue(t, i, ParseScalar(t, i))
  <2>1. i <= Len(t) /\ token = t[i]
    BY <1>4, SignsAre, TokenAtIs
  <2>2. i \in 1 .. Len(t)
    BY <1>0, <2>1
  <2>3. << i, i >> \in Segments(t) /\ Denoted(t)[<< i, i >>] = Scalar[t[i]]
    BY <1>4, <2>1, <2>2, ScalarMeans
  <2>4. ParseScalar(t, i).value = Scalar[t[i]] /\ ParseScalar(t, i).next - 1 = i
    BY DEF ParseScalar
  <2>5. QED
    BY <2>3, <2>4 DEF SoundValue
<1>5. SoundValue(t, i, Failed)
  BY OutcomeIs DEF SoundValue
<1>6. "array" \in {"array", "object"} /\ "object" \in {"array", "object"}
  OBVIOUS
<1> HIDE DEF r, token
<1>7. SoundValue(t, i, r)
  <2>1. CASE token \in DOMAIN Scalar
    BY <1>2, <1>4, <1>5, <2>1, Zenon
  <2>2. CASE token \notin DOMAIN Scalar /\ token = OpenOf("object")
    BY <1>2, <1>3, <1>5, <1>6, <2>2, Zenon
  <2>3. CASE token \notin DOMAIN Scalar /\ token # OpenOf("object") /\ token = OpenOf("array")
    BY <1>2, <1>3, <1>5, <1>6, <2>3, Zenon
  <2>4. CASE token \notin DOMAIN Scalar /\ token # OpenOf("object") /\ token # OpenOf("array")
    BY <1>2, <1>5, <2>4, Zenon
  <2>5. QED
    BY <2>1, <2>2, <2>3, <2>4
<1>8. QED
  BY <1>7 DEF r

\* The two ways on behind an entry.
LEMMA LastEntry ==
  ASSUME NEW T, NEW t \in Seq(T), NEW type \in {"array", "object"},
         NEW first, NEW last, << first, last >> \in Segments(t), NEW e,
         EntryIs(t, Denoted(t), type, first, last, e)
  PROVE  Closed(t, first, last) /\ ListIs(t, Denoted(t), type, first, last, << e >>)
<1>1. Closed(t, first, last)
  <2> DEFINE u == ValueSegment(type, first, last)
  <2>1. EntryValueAt(t, Denoted(t), u, Length(first, last), type, e)
    BY EntryValue
  <2>2. ClosedSegment(t, u)
    BY <2>1, DenotedClosed DEF EntryValueAt
  <2> HIDE DEF u
  <2>3. QED
    BY <2>2, EntryClosed DEF u
<1>2. EntriesOf(t)[<< first, last >>] = << << first, last >> >>
  BY <1>1, OneEntry
<1>3. IsOne(t, type, first, last, << e >>)
  BY DEF IsOne
<1>4. QED
  BY <1>1, <1>2, <1>3, ListOfOne

LEMMA EntryAndMore ==
  ASSUME NEW T, NEW t \in Seq(T), NEW type \in {"array", "object"},
         NEW first \in Nat, 1 <= first, NEW m \in Nat, first < m, NEW last \in Nat, m + 1 <= last, last <= Len(t), NEW e,
         t[m] = Comma, EntryIs(t, Denoted(t), type, first, m - 1, e),
         NEW D, NEW d \in Seq(D), ListIs(t, Denoted(t), type, m + 1, last, d),
         type = "object" => e[1] \notin NamesOf(d)
  PROVE  ListIs(t, Denoted(t), type, first, last, << e >> \o d)
<1>0. Len(t) \in Nat
  OBVIOUS
<1>1. << first, m - 1 >> \in Segments(t) /\ << m + 1, last >> \in Segments(t) /\ << first, last >> \in Segments(t)
  <2>1. /\ first \in Int /\ m - 1 \in Int /\ m + 1 \in Int /\ last \in Int
        /\ first <= Len(t) + 1 /\ 0 <= m - 1 /\ m - 1 <= Len(t) /\ 1 <= m + 1 /\ m + 1 <= Len(t) + 1 /\ 0 <= last
    BY <1>0
  <2>2. QED
    BY <2>1, SegmentFrom
<1>3. EntriesOf(t)[<< first, last >>] = << << first, m - 1 >> >> \o EntriesOf(t)[<< m + 1, last >>]
  <2>1. m <= last /\ t[m] = Comma /\ EntryIs(t, Denoted(t), type, first, m - 1, e)
    OBVIOUS
  <2> DEFINE a == m - 1
  <2>2. Closed(t, first, a)
    BY <1>1, <2>1, LastEntry
  <2>3. QED
    BY <1>1, <2>1, <2>2, CutFirst, ZenonT(30)
<1>4. d = [k \in 1 .. Len(d) |-> d[k]] /\ Len(d) \in Nat
  OBVIOUS
<1>5. IsMore(t, type, first, m, last, << e >> \o d)
  BY <1>4, Zenon DEF IsMore
<1>6. QED
  BY <1>1, <1>3, <1>5, ListOfMore

LEMMA ResultMade ==
  ASSUME NEW v, NEW n \in Nat, n # 0
  PROVE  LET r == [value |-> v, next |-> n] IN r.value = v /\ r.next = n /\ ~Fails(r)
BY DEF Fails

\* What a loop makes of an entry and of what is behind it.
LEMMA ListEndSound ==
  ASSUME NEW T, NEW t \in Seq(T), NEW type \in {"array", "object"},
         NEW i \in Nat, 1 <= i, NEW m \in Nat, i < m, m <= Len(t), NEW e,
         t[m] = CloseOf(type), EntryIs(t, Denoted(t), type, i, m - 1, e)
  PROVE  SoundList(t, type, i, [value |-> << e >>, next |-> m + 1])
<1>0. Len(t) \in Nat
  OBVIOUS
<1>1. << i, m - 1 >> \in Segments(t)
  <2>1. i \in Int /\ m - 1 \in Int /\ i <= Len(t) + 1 /\ 0 <= m - 1 /\ m - 1 <= Len(t)
    BY <1>0
  <2>2. QED
    BY <2>1, SegmentFrom
<1>2. ListIs(t, Denoted(t), type, i, m - 1, << e >>)
  BY <1>1, LastEntry
<1>3. (m + 1) - 2 = m - 1 /\ (m + 1) - 1 = m /\ i <= m - 1
  OBVIOUS
<1>4. QED
  BY <1>1, <1>2, <1>3 DEF SoundList

LEMMA ListMoreSound ==
  ASSUME NEW T, NEW t \in Seq(T), NEW type \in {"array", "object"},
         NEW i \in Nat, 1 <= i, NEW m \in Nat, i < m, NEW e,
         t[m] = Comma, EntryIs(t, Denoted(t), type, i, m - 1, e),
         NEW b, b.next \in Nat, NEW D, b.value \in Seq(D), SoundList(t, type, m + 1, b), ~Fails(b),
         type = "object" => e[1] \notin NamesOf(b.value)
  PROVE  SoundList(t, type, i, [value |-> << e >> \o b.value, next |-> b.next])
<1> DEFINE last == b.next - 2
           d == b.value
           r == [value |-> << e >> \o d, next |-> b.next]
<1>1. /\ m + 1 <= last /\ last + 1 <= Len(t) /\ t[last + 1] = CloseOf(type)
      /\ ListIs(t, Denoted(t), type, m + 1, last, d)
  <2>1. b.next - 1 = (b.next - 2) + 1
    OBVIOUS
  <2>2. QED
    BY <2>1 DEF SoundList
<1>2. last \in Nat /\ last <= Len(t) /\ Len(t) \in Nat /\ i <= last /\ d \in Seq(D)
  BY <1>1
<1>5. r.value = << e >> \o d /\ r.next - 2 = last /\ r.next - 1 = last + 1
  OBVIOUS
<1> HIDE DEF last, d, r
<1>3. ListIs(t, Denoted(t), type, i, last, << e >> \o d)
  <2>1. type = "object" => e[1] \notin NamesOf(d)
    BY DEF d
  <2>2. QED
    BY <1>1, <1>2, <2>1, EntryAndMore
<1>4. << i, last >> \in Segments(t)
  <2>1. i \in Int /\ last \in Int /\ i <= Len(t) + 1 /\ 0 <= last
    BY <1>2
  <2>2. QED
    BY <1>2, <2>1, SegmentFrom
<1>6. SoundList(t, type, i, r)
  BY <1>1, <1>2, <1>3, <1>4, <1>5 DEF SoundList
<1>7. QED
  BY <1>6 DEF r, d

LEMMA NotNoValue ==
  ASSUME NEW k \in Nat, NEW v \in ValuesAt(k)
  PROVE  v # NoValue /\ k <= MaxNesting /\ v \in Made(ValuesAt(k + 1)) /\ IsMade(v, ValuesAt(k + 1))
<1>1. k <= MaxNesting /\ v \in Made(ValuesAt(k + 1))
  BY ValuesAtIs
<1>2. QED
  BY <1>1, MadeType

LEMMA ItemsSound ==
  ASSUME NEW T, NEW t \in Seq(T), NEW i \in Nat, 1 <= i, NEW k \in Nat,
         SoundValue(t, i, Parser(t)[<< "value", i, k >>]),
         \A n \in Nat : i < n /\ n <= Len(t) => SoundList(t, "array", n + 1, Parser(t)[<< "array", n + 1, k >>])
  PROVE  SoundList(t, "array", i, Parser(t)[<< "array", i, k >>])
<1> DEFINE parse == Parser(t)
           new == parse[<< "value", i, k >>]
           behind == parse[<< "array", new.next + 1, k >>]
           r == parse[<< "array", i, k >>]
           A == ValuesAt(k)
<1>0. Len(t) \in Nat
  OBVIOUS
<1>f. Found("value", k) = A /\ Found("array", k) = Seq(A)
  BY DEF Found
<1>1. new \in Outcomes(t, "value", i, k)
  BY ParserCalls
<1>2. new.next \in Nat /\ (~Fails(new) => new.value \in A /\ i < new.next)
  BY <1>1, <1>f, OutcomeIs
<1>3. r = IF Fails(new) THEN Failed
          ELSE IF TokenAt(t, new.next) = CloseOf("array")
          THEN [value |-> << new.value >>, next |-> new.next + 1]
          ELSE IF TokenAt(t, new.next) # Comma \/ Fails(behind) THEN Failed
          ELSE [value |-> << new.value >> \o behind.value, next |-> behind.next]
  <2>1. CloseOf("array") = "]"
    BY Zenon DEF CloseOf
  <2>2. r = ParseItems(t, parse, i, k)
    BY ParserCalls
  <2>3. QED
    BY <2>1, <2>2, Zenon DEF ParseItems, Comma
<1>4. ASSUME ~Fails(new)
      PROVE  EntryIs(t, Denoted(t), "array", i, new.next - 1, new.value)
  <2>1. Denoted(t)[<< i, new.next - 1 >>] = new.value
    BY <1>4 DEF SoundValue
  <2>2. new.value # NoValue
    BY <1>2, <1>4, NotNoValue
  <2> HIDE DEF new
  <2>3. QED
    BY <2>1, <2>2, Zenon DEF EntryIs
<1>5. behind \in Outcomes(t, "array", new.next + 1, k)
  <2>1. new.next + 1 \in Nat
    BY <1>2
  <2> HIDE DEF new
  <2>2. QED
    BY <2>1, ParserCalls
<1>6. behind.next \in Nat /\ (~Fails(behind) => behind.value \in Seq(A))
  <2>1. new.next + 1 \in Nat
    BY <1>2
  <2>2. QED
    BY <1>5, <1>f, <2>1, OutcomeIs
<1>7. ~Fails(new) /\ new.next <= Len(t) => SoundList(t, "array", new.next + 1, behind)
  BY <1>2
<1>8. SoundList(t, "array", i, Failed)
  BY OutcomeIs DEF SoundList
<1>9. /\ "array" \in {"array", "object"} /\ "array" # "object"
  OBVIOUS
<1> DEFINE m == new.next
           e == new.value
<1>10. ASSUME ~Fails(new), TokenAt(t, m) = CloseOf("array")
       PROVE  SoundList(t, "array", i, [value |-> << e >>, next |-> m + 1])
  <2>1. m <= Len(t) /\ t[m] = CloseOf("array")
    BY <1>10, SignsAre, TokenAtIs
  <2>2. i < m /\ m \in Nat /\ EntryIs(t, Denoted(t), "array", i, m - 1, e)
    BY <1>2, <1>4, <1>10
  <2> HIDE DEF m, e
  <2>3. QED
    BY <1>9, <2>1, <2>2, ListEndSound
<1>11. ASSUME ~Fails(new), TokenAt(t, m) = Comma, ~Fails(behind)
       PROVE  SoundList(t, "array", i, [value |-> << e >> \o behind.value, next |-> behind.next])
  <2>1. m <= Len(t) /\ t[m] = Comma
    BY <1>11, SignsAre, TokenAtIs
  <2>2. i < m /\ m \in Nat /\ EntryIs(t, Denoted(t), "array", i, m - 1, e)
    BY <1>2, <1>4, <1>11
  <2>3. SoundList(t, "array", m + 1, behind) /\ behind.next \in Nat /\ behind.value \in Seq(A)
    BY <1>6, <1>7, <1>11, <2>1
  <2> HIDE DEF m, e, behind
  <2>4. QED
    BY <1>9, <1>11, <2>1, <2>2, <2>3, ListMoreSound
<1> HIDE DEF new, behind
<1>12. SoundList(t, "array", i, r)
  <2> HIDE DEF r
  <2>1. CASE Fails(new)
    BY <1>3, <1>8, <2>1, Zenon
  <2>2. CASE ~Fails(new) /\ TokenAt(t, new.next) = CloseOf("array")
    BY <1>3, <1>10, <2>2, Zenon
  <2>3. CASE ~Fails(new) /\ TokenAt(t, new.next) # CloseOf("array") /\ (TokenAt(t, new.next) # Comma \/ Fails(behind))
    BY <1>3, <1>8, <2>3, Zenon
  <2>4. CASE ~Fails(new) /\ TokenAt(t, new.next) # CloseOf("array") /\ TokenAt(t, new.next) = Comma /\ ~Fails(behind)
    BY <1>3, <1>11, <2>4, Zenon
  <2>5. QED
    BY <2>1, <2>2, <2>3, <2>4
<1>13. QED
  BY <1>12

LEMMA MembersSound ==
  ASSUME NEW T, NEW t \in Seq(T), NEW i \in Nat, 1 <= i, NEW k \in Nat,
         SoundValue(t, i + 2, Parser(t)[<< "value", i + 2, k >>]),
         \A n \in Nat : i < n /\ n <= Len(t) => SoundList(t, "object", n + 1, Parser(t)[<< "object", n + 1, k >>])
  PROVE  SoundList(t, "object", i, Parser(t)[<< "object", i, k >>])
<1> DEFINE parse == Parser(t)
           name == Content(Scalar[TokenAt(t, i)])
           new == parse[<< "value", i + 2, k >>]
           behind == parse[<< "object", new.next + 1, k >>]
           r == parse[<< "object", i, k >>]
           A == ValuesAt(k)
           ok == IsString(TokenAt(t, i)) /\ TokenAt(t, i + 1) = Colon /\ ~Fails(new)
<1>0. Len(t) \in Nat /\ i + 2 \in Nat
  OBVIOUS
<1>f. Found("value", k) = A /\ Found("object", k) = {c \in Seq(Strings \X A) : DistinctNames(c)}
  BY DEF Found
<1>1. new \in Outcomes(t, "value", i + 2, k)
  BY <1>0, ParserCalls
<1>2. new.next \in Nat /\ (~Fails(new) => new.value \in A /\ i + 2 < new.next)
  BY <1>0, <1>1, <1>f, OutcomeIs
<1>3. r = IF ~IsString(TokenAt(t, i)) \/ TokenAt(t, i + 1) # Colon \/ Fails(new) THEN Failed
          ELSE IF TokenAt(t, new.next) = CloseOf("object")
          THEN [value |-> << << name, new.value >> >>, next |-> new.next + 1]
          ELSE IF TokenAt(t, new.next) # Comma \/ Fails(behind) \/ name \in NamesOf(behind.value)
          THEN Failed
          ELSE [value |-> << << name, new.value >> >> \o behind.value, next |-> behind.next]
  <2>1. CloseOf("object") = "}"
    BY Zenon DEF CloseOf
  <2>2. r = ParseMembers(t, parse, i, k)
    BY ParserCalls
  <2>3. QED
    BY <2>1, <2>2, Zenon DEF ParseMembers, Comma, Colon
<1> DEFINE m == new.next
           e == << name, new.value >>
<1>4. ASSUME ok PROVE EntryIs(t, Denoted(t), "object", i, m - 1, e) /\ i < m /\ e[1] = name
  <2>1. Denoted(t)[<< i + 2, m - 1 >>] = new.value
    BY <1>4 DEF SoundValue
  <2>2. new.value # NoValue
    BY <1>2, <1>4, NotNoValue
  <2>3. IsString(t[i]) /\ TokenAt(t, i) = t[i]
    <3>1. TokenAt(t, i) \in DOMAIN Scalar
      BY <1>4 DEF IsString
    <3>2. i <= Len(t)
      BY <3>1, SignsAre, TokenAtIs
    <3>3. QED
      BY <1>4, <3>2, TokenAtIs
  <2>4. t[i + 1] = Colon
    BY <1>4, SignsAre, TokenAtIs
  <2>5. i + 2 <= m - 1 /\ i < m
    <3>1. new.next \in Nat /\ i + 2 < new.next
      BY <1>2, <1>4
    <3> HIDE DEF new
    <3>2. QED
      BY <3>1
  <2>6. e = << Content(Scalar[t[i]]), Denoted(t)[<< i + 2, m - 1 >>] >>
    BY <2>1, <2>3
  <2>7. "object" # "array" /\ e[1] = name
    OBVIOUS
  <2> HIDE DEF e, m
  <2>8. QED
    BY <2>1, <2>2, <2>3, <2>4, <2>5, <2>6, <2>7, Zenon DEF EntryIs
<1>5. behind \in Outcomes(t, "object", m + 1, k) /\ m + 1 \in Nat
  <2>1. m + 1 \in Nat
    BY <1>2
  <2> HIDE DEF m
  <2>2. QED
    BY <2>1, ParserCalls DEF m
<1>6. behind.next \in Nat /\ (~Fails(behind) => behind.value \in Seq(Strings \X A))
  <2>1. behind.next \in Nat /\ (~Fails(behind) => behind.value \in Found("object", k))
    BY <1>5, OutcomeIs
  <2>2. QED
    BY <1>f, <2>1
<1>7. i < m /\ m <= Len(t) => SoundList(t, "object", m + 1, behind)
  BY <1>2
<1>8. SoundList(t, "object", i, Failed)
  BY OutcomeIs DEF SoundList
<1>9. "object" \in {"array", "object"}
  OBVIOUS
<1>10. ASSUME ok, TokenAt(t, m) = CloseOf("object")
       PROVE  SoundList(t, "object", i, [value |-> << e >>, next |-> m + 1])
  <2>1. m <= Len(t) /\ t[m] = CloseOf("object")
    BY <1>10, SignsAre, TokenAtIs
  <2>2. i < m /\ m \in Nat /\ EntryIs(t, Denoted(t), "object", i, m - 1, e)
    BY <1>2, <1>4, <1>10
  <2> HIDE DEF m, e
  <2>3. QED
    BY <1>9, <2>1, <2>2, ListEndSound
<1>11. ASSUME ok, TokenAt(t, m) = Comma, ~Fails(behind), name \notin NamesOf(behind.value)
       PROVE  SoundList(t, "object", i, [value |-> << e >> \o behind.value, next |-> behind.next])
  <2>1. m <= Len(t) /\ t[m] = Comma
    BY <1>11, SignsAre, TokenAtIs
  <2>2. i < m /\ m \in Nat /\ EntryIs(t, Denoted(t), "object", i, m - 1, e)
    BY <1>2, <1>4, <1>11
  <2>3. SoundList(t, "object", m + 1, behind) /\ behind.next \in Nat /\ behind.value \in Seq(Strings \X A)
    BY <1>6, <1>7, <1>11, <2>1, <2>2
  <2>4. e[1] \notin NamesOf(behind.value)
    BY <1>4, <1>11
  <2> DEFINE B == Strings \X A
  <2>5. behind.value \in Seq(B)
    BY <2>3
  <2> HIDE DEF m, e, behind, B
  <2>6. QED
    BY <1>9, <1>11, <2>1, <2>2, <2>3, <2>4, <2>5, ListMoreSound
<1> HIDE DEF new, behind
<1>12. SoundList(t, "object", i, r)
  <2> HIDE DEF r, name
  <2>1. CASE ~ok
    BY <1>3, <1>8, <2>1, Zenon
  <2>2. CASE ok /\ TokenAt(t, new.next) = CloseOf("object")
    BY <1>3, <1>10, <2>2, Zenon
  <2>3. CASE /\ ok /\ TokenAt(t, new.next) # CloseOf("object")
             /\ TokenAt(t, new.next) # Comma \/ Fails(behind) \/ name \in NamesOf(behind.value)
    BY <1>3, <1>8, <2>3, Zenon
  <2>4. CASE /\ ok /\ TokenAt(t, new.next) # CloseOf("object") /\ TokenAt(t, new.next) = Comma
             /\ ~Fails(behind) /\ name \notin NamesOf(behind.value)
    BY <1>3, <1>11, <2>4, Zenon
  <2>5. QED
    BY <2>1, <2>2, <2>3, <2>4
<1>13. QED
  BY <1>12

(* What a text denotes, the parser finds, up to its deepest nesting. *)

\* What a text denotes, and the parser may find, it finds.
CompleteValue(t, i, k) ==
  \A n : << i, n >> \in Segments(t) /\ Denoted(t)[<< i, n >>] \in ValuesAt(k)
           => Parser(t)[<< "value", i, k >>] = [value |-> Denoted(t)[<< i, n >>], next |-> n + 1]

CompleteList(t, type, i, k) ==
  \A n, c : << i, n >> \in Segments(t) /\ n + 1 <= Len(t) /\ t[n + 1] = CloseOf(type)
              /\ ListIs(t, Denoted(t), type, i, n, c) /\ c \in Found(type, k)
              => Parser(t)[<< type, i, k >>] = [value |-> c, next |-> n + 2]

\* A list does not begin with the bracket that closes it.
LEMMA EntryBegins ==
  ASSUME NEW T, NEW t \in Seq(T), NEW type \in {"array", "object"},
         NEW first, NEW last, << first, last >> \in Segments(t), NEW e,
         EntryIs(t, Denoted(t), type, first, last, e)
  PROVE  first <= last /\ t[first] # CloseOf(type)
<1>0. first \in Nat /\ last \in Nat /\ 1 <= first /\ last <= Len(t) /\ Len(t) \in Nat
  BY SegmentIs
<1>1. Balanced(t, first, last)
  BY LastEntry DEF Closed
<1>2. first <= last /\ Level(t)[first] >= Level(t)[first - 1]
  BY <1>0, <1>1 DEF Balanced
<1>3. first \in 1 .. Len(t)
  BY <1>0, <1>2
<1>4. t[first] \notin Closers
  <2>1. Level(t)[first] \in Int /\ Level(t)[first - 1] \in Int
    BY <1>3, LevelAt
  <2>2. t[first] \in Closers => Level(t)[first] = Level(t)[first - 1] - 1
    BY <1>3, LevelAt
  <2>3. QED
    BY <1>2, <2>1, <2>2
<1>5. CloseOf(type) \in Closers
  BY DEF Closers
<1>6. QED
  BY <1>2, <1>4, <1>5

LEMMA ListBegins ==
  ASSUME NEW T, NEW t \in Seq(T), NEW type \in {"array", "object"},
         NEW first, NEW last, << first, last >> \in Segments(t), NEW c,
         ListIs(t, Denoted(t), type, first, last, c)
  PROVE  first <= last /\ t[first] # CloseOf(type)
<1>0. first \in Nat /\ last \in Nat
  BY SegmentIs
<1>1. CASE IsOne(t, type, first, last, c)
  <2>1. PICK e : EntryIs(t, Denoted(t), type, first, last, e)
    BY <1>1 DEF IsOne
  <2>2. QED
    BY <2>1, EntryBegins
<1>2. ASSUME NEW m \in first .. last, << first, m - 1 >> \in Segments(t), IsMore(t, type, first, m, last, c)
      PROVE  first <= last /\ t[first] # CloseOf(type)
  <2>1. PICK e : EntryIs(t, Denoted(t), type, first, m - 1, e)
    BY <1>2 DEF IsMore
  <2>2. first <= m - 1 /\ t[first] # CloseOf(type)
    BY <1>2, <2>1, EntryBegins
  <2>3. QED
    BY <1>0, <1>2, <2>2
<1>3. QED
  BY <1>1, <1>2, ListCases

LEMMA ContainerComplete ==
  ASSUME NEW T, NEW t \in Seq(T), NEW type \in {"array", "object"},
         NEW i \in Nat, NEW n \in Nat, << i, n >> \in Segments(t), NEW k \in Nat, NEW c,
         CompleteList(t, type, i + 1, k + 1),
         ContainerIs(t, Denoted(t), type, i, n, c), c \in Found(type, k + 1)
  PROVE  ParseContainer(t, Parser(t), type, CloseOf(type), i, k) = [value |-> << type, c >>, next |-> n + 1]
<1> DEFINE inside == Parser(t)[<< type, i + 1, k + 1 >>]
           r == ParseContainer(t, Parser(t), type, CloseOf(type), i, k)
<1>0. 1 <= i /\ n <= Len(t) /\ Len(t) \in Nat
  BY SegmentIs
<1>1. r = IF TokenAt(t, i + 1) = CloseOf(type) THEN [value |-> << type, << >> >>, next |-> i + 2]
          ELSE IF Fails(inside) THEN Failed
          ELSE [value |-> << type, inside.value >>, next |-> inside.next]
  BY ParseContainerIs
<1>2. /\ i < n /\ t[n] = CloseOf(type)
      /\ IF n = i + 1 THEN c = << >> ELSE ListIs(t, Denoted(t), type, i + 1, n - 1, c)
  BY Zenon DEF ContainerIs
<1>3. TokenAt(t, i + 1) = t[i + 1]
  <2>1. i + 1 <= Len(t)
    BY <1>0, <1>2
  <2>2. QED
    BY <2>1, TokenAtIs
<1>4. CASE n = i + 1
  <2>1. TokenAt(t, i + 1) = CloseOf(type) /\ c = << >>
    BY <1>2, <1>3, <1>4
  <2>2. i + 2 = n + 1
    BY <1>4
  <2>3. r = [value |-> << type, << >> >>, next |-> i + 2]
    BY <1>1, <2>1, Zenon
  <2>4. QED
    BY <2>1, <2>2, <2>3
<1>5. CASE n # i + 1
  <2>1. ListIs(t, Denoted(t), type, i + 1, n - 1, c)
    BY <1>2, <1>5
  <2>2. << i + 1, n - 1 >> \in Segments(t)
    <3>1. /\ i + 1 \in Int /\ 1 <= i + 1 /\ i + 1 <= Len(t) + 1
          /\ n - 1 \in Int /\ 0 <= n - 1 /\ n - 1 <= Len(t)
      BY <1>0, <1>2
    <3>2. QED
      BY <3>1, SegmentFrom
  <2>3. (n - 1) + 1 = n /\ (n - 1) + 2 = n + 1 /\ (n - 1) + 1 <= Len(t) /\ t[(n - 1) + 1] = CloseOf(type)
    BY <1>0, <1>2
  <2>4. inside = [value |-> c, next |-> n + 1]
    <3>1. inside = [value |-> c, next |-> (n - 1) + 2]
      BY <2>1, <2>2, <2>3, Zenon DEF CompleteList
    <3>2. QED
      BY <2>3, <3>1
  <2>5. TokenAt(t, i + 1) # CloseOf(type)
    BY <1>3, <2>1, <2>2, ListBegins
  <2>6. inside.value = c /\ inside.next = n + 1 /\ ~Fails(inside)
    <3> HIDE DEF inside
    <3>1. QED
      BY <2>4 DEF Fails
  <2> HIDE DEF inside, r
  <2>7. r = [value |-> << type, inside.value >>, next |-> inside.next]
    BY <1>1, <2>5, <2>6, Zenon
  <2>8. QED
    BY <2>6, <2>7 DEF r
<1>6. QED
  BY <1>4, <1>5

LEMMA ValueComplete ==
  ASSUME NEW T, NEW t \in Seq(T), NEW i \in Nat, 1 <= i, NEW k \in Nat,
         \A type \in {"array", "object"} : i <= Len(t) => CompleteList(t, type, i + 1, k + 1)
  PROVE  CompleteValue(t, i, k)
<1> SUFFICES ASSUME NEW n, << i, n >> \in Segments(t), Denoted(t)[<< i, n >>] \in ValuesAt(k)
             PROVE  Parser(t)[<< "value", i, k >>] = [value |-> Denoted(t)[<< i, n >>], next |-> n + 1]
  BY DEF CompleteValue
<1> DEFINE v == Denoted(t)[<< i, n >>]
           r == Parser(t)[<< "value", i, k >>]
           token == TokenAt(t, i)
<1>0. n \in Nat /\ n <= Len(t) /\ Len(t) \in Nat /\ MaxNesting \in Nat
  <2>1. MaxNesting \in Nat
    BY DocumentAssumption
  <2>2. QED
    BY <2>1, SegmentIs
<1>1. r = IF k > MaxNesting THEN Failed
          ELSE IF token \in DOMAIN Scalar THEN ParseScalar(t, i)
          ELSE IF token = OpenOf("object")
          THEN ParseContainer(t, Parser(t), "object", CloseOf("object"), i, k)
          ELSE IF token = OpenOf("array")
          THEN ParseContainer(t, Parser(t), "array", CloseOf("array"), i, k)
          ELSE Failed
  <2>1. r = ParseValue(t, Parser(t), i, k)
    BY ParserCalls
  <2>2. QED
    BY <2>1, ParseValueIs
<1>2. v # NoValue /\ k <= MaxNesting /\ IsMade(v, ValuesAt(k + 1))
  BY NotNoValue
<1>3. IsDenoted(t, i, n, v)
  BY DenotedAt
<1> HIDE DEF v, r
<1>4. ~(k > MaxNesting)
  BY <1>0, <1>2
<1>5. CASE ScalarAt(t, i, n)
  <2>1. i = n /\ t[i] \in DOMAIN Scalar /\ v = Scalar[t[i]]
    BY <1>3, <1>5, Zenon DEF IsDenoted, ScalarAt
  <2>2. token = t[i]
    BY <1>0, <2>1, TokenAtIs
  <2>3. r = ParseScalar(t, i)
    BY <1>1, <1>4, <2>1, <2>2, Zenon
  <2>4. QED
    BY <2>1, <2>3 DEF ParseScalar, v, r
<1>6. CASE ~ScalarAt(t, i, n)
  <2>0. PICK type \in {"array", "object"} : \E c : ContainerIs(t, Denoted(t), type, i, n, c) /\ v = << type, c >>
    BY <1>2, <1>3, <1>6, Zenon DEF IsDenoted
  <2>1. PICK c : ContainerIs(t, Denoted(t), type, i, n, c) /\ v = << type, c >>
    BY <2>0
  <2>2. i < n /\ t[i] = OpenOf(type)
    BY <2>1, Zenon DEF ContainerIs
  <2>3. i <= Len(t) /\ token = OpenOf(type)
    <3>1. i <= Len(t)
      BY <1>0, <2>2
    <3>2. QED
      BY <2>2, <3>1, TokenAtIs
  <2>4. c \in Found(type, k + 1)
    <3>1. Type(v) = type /\ Content(v) = c
      BY <2>1, TypeOfPair
    <3>2. /\ type = "array" => c \in Seq(ValuesAt(k + 1))
          /\ type = "object" => c \in Seq(Strings \X ValuesAt(k + 1)) /\ DistinctNames(c)
      BY <1>2, <3>1 DEF IsMade
    <3>3. type = "array" \/ type = "object"
      BY <2>1
    <3>4. QED
      BY <3>2, <3>3 DEF Found
  <2>5. ParseContainer(t, Parser(t), type, CloseOf(type), i, k) = [value |-> << type, c >>, next |-> n + 1]
    BY <1>0, <2>1, <2>3, <2>4, ContainerComplete
  <2>6. token \notin DOMAIN Scalar /\ (type = "array" => token # OpenOf("object"))
    BY <2>3, SignsAre
  <2>7. type = "array" \/ type = "object"
    BY <2>1
  <2>8. r = ParseContainer(t, Parser(t), type, CloseOf(type), i, k)
    <3>1. CASE type = "object"
      BY <1>1, <1>4, <2>3, <2>6, <3>1, Zenon
    <3>2. CASE type = "array"
      BY <1>1, <1>4, <2>3, <2>6, <3>2, Zenon
    <3>3. QED
      BY <2>7, <3>1, <3>2
  <2>9. QED
    BY <2>1, <2>5, <2>8 DEF v, r
<1>7. QED
  BY <1>5, <1>6

\* The content of a list that may be found: its first entry and the others.
LEMMA FoundOne ==
  ASSUME NEW k, NEW type \in {"array", "object"}, NEW e, << e >> \in Found(type, k)
  PROVE  /\ ValueOf(type, e) \in ValuesAt(k)
         /\ type = "object" => e = << e[1], e[2] >> /\ e[1] \in Strings
<1> DEFINE A == ValuesAt(k)
           c == << e >>
<1>1. c[1] = e /\ 1 \in DOMAIN c
  OBVIOUS
<1>2. CASE type = "array"
  <2>1. c \in Seq(A)
    BY <1>2 DEF Found
  <2> HIDE DEF c, A
  <2>2. e \in A
    BY <1>1, <2>1
  <2>3. ValueOf(type, e) = e /\ type # "object"
    BY <1>2 DEF ValueOf
  <2>4. QED
    BY <2>2, <2>3 DEF A
<1>3. CASE type = "object"
  <2> DEFINE B == Strings \X A
  <2>1. c \in Seq(B)
    BY <1>3 DEF Found
  <2> HIDE DEF c, B
  <2>2. e \in B
    BY <1>1, <2>1
  <2>3. ValueOf(type, e) = e[2]
    BY <1>3 DEF ValueOf
  <2>4. QED
    BY <2>2, <2>3 DEF B
<1>4. QED
  BY <1>2, <1>3

LEMMA FoundMore ==
  ASSUME NEW k, NEW type \in {"array", "object"}, NEW e, NEW d,
         d = [j \in 1 .. Len(d) |-> d[j]], Len(d) \in Nat,
         << e >> \o d \in Found(type, k), type = "object" => DistinctNames(d)
  PROVE  << e >> \in Found(type, k) /\ d \in Found(type, k)
<1> DEFINE c == << e >> \o d
           f == << e >>
           A == IF type = "array" THEN ValuesAt(k) ELSE Strings \X ValuesAt(k)
<1>1. c \in Seq(A)
  BY DEF Found
<1>2. PICK D : d \in Seq(D)
  BY AnySequence
<1> DEFINE G == D \cup {e}
<1>3. d \in Seq(G) /\ e \in G
  <2>1. \A j \in 1 .. Len(d) : d[j] \in G
    BY <1>2
  <2>2. e \in G
    OBVIOUS
  <2> HIDE DEF G
  <2>3. QED
    BY <2>1, <2>2, SequenceOf
<1> HIDE DEF G, A
<1>4. /\ c[1] = e /\ 1 \in DOMAIN c
      /\ \A j \in 1 .. Len(d) : c[j + 1] = d[j] /\ j + 1 \in DOMAIN c
  BY <1>3
<1> HIDE DEF c
<1>5. e \in A /\ \A j \in 1 .. Len(d) : d[j] \in A
  BY <1>1, <1>4
<1>6. d \in Seq(A)
  BY <1>5, SequenceOf
<1>7. f \in Seq(A) /\ DOMAIN f = {1}
  BY <1>5
<1> HIDE DEF f
<1>8. DistinctNames(f)
  BY <1>7 DEF DistinctNames
<1>9. QED
  BY <1>6, <1>7, <1>8 DEF Found, A, f

\* The first value of a list is found.
LEMMA EntryComplete ==
  ASSUME NEW T, NEW t \in Seq(T), NEW type \in {"array", "object"},
         NEW i \in Nat, NEW n \in Nat, << i, n >> \in Segments(t), NEW k \in Nat, NEW e,
         EntryIs(t, Denoted(t), type, i, n, e), << e >> \in Found(type, k),
         CompleteValue(t, IF type = "array" THEN i ELSE i + 2, k)
  PROVE  LET new == Parser(t)[<< "value", IF type = "array" THEN i ELSE i + 2, k >>] IN
         new = [value |-> ValueOf(type, e), next |-> n + 1]
<1> DEFINE j == IF type = "array" THEN i ELSE i + 2
           u == ValueSegment(type, i, n)
<1>1. u = << j, n >>
  <2>1. CASE type = "array"
    BY <2>1, Zenon DEF ValueSegment
  <2>2. CASE type # "array"
    BY <2>2, Zenon DEF ValueSegment
  <2>3. QED
    BY <2>1, <2>2
<1>2. EntryValueAt(t, Denoted(t), u, Length(i, n), type, e)
  BY EntryValue
<1>3. u \in Segments(t) /\ ValueOf(type, e) = Denoted(t)[u]
  BY <1>2 DEF EntryValueAt
<1>4. ValueOf(type, e) \in ValuesAt(k)
  BY FoundOne
<1> HIDE DEF u, j
<1>5. << j, n >> \in Segments(t) /\ Denoted(t)[<< j, n >>] \in ValuesAt(k) /\ ValueOf(type, e) = Denoted(t)[<< j, n >>]
  BY <1>1, <1>3, <1>4
<1>6. CompleteValue(t, j, k)
  BY DEF j
<1>7. Parser(t)[<< "value", j, k >>] = [value |-> ValueOf(type, e), next |-> n + 1]
  BY <1>5, <1>6, Zenon DEF CompleteValue
<1>8. QED
  BY <1>7 DEF j

LEMMA ItemsComplete ==
  ASSUME NEW T, NEW t \in Seq(T), NEW i \in Nat, 1 <= i, NEW k \in Nat,
         CompleteValue(t, i, k),
         \A n \in Nat : i < n /\ n <= Len(t) => CompleteList(t, "array", n + 1, k)
  PROVE  CompleteList(t, "array", i, k)
<1> DEFINE parse == Parser(t)
           new == parse[<< "value", i, k >>]
           r == parse[<< "array", i, k >>]
<1> SUFFICES ASSUME NEW n, NEW c, << i, n >> \in Segments(t), n + 1 <= Len(t), t[n + 1] = CloseOf("array"),
                    ListIs(t, Denoted(t), "array", i, n, c), c \in Found("array", k)
             PROVE  r = [value |-> c, next |-> n + 2]
  BY DEF CompleteList
<1>0. n \in Nat /\ n <= Len(t) /\ Len(t) \in Nat
  BY SegmentIs
<1>1. r = IF Fails(new) THEN Failed
          ELSE IF TokenAt(t, new.next) = CloseOf("array")
          THEN [value |-> << new.value >>, next |-> new.next + 1]
          ELSE IF TokenAt(t, new.next) # Comma \/ Fails(parse[<< "array", new.next + 1, k >>]) THEN Failed
          ELSE [value |-> << new.value >> \o parse[<< "array", new.next + 1, k >>].value,
                next |-> parse[<< "array", new.next + 1, k >>].next]
  <2>1. CloseOf("array") = "]"
    BY Zenon DEF CloseOf
  <2>2. r = ParseItems(t, parse, i, k)
    BY ParserCalls
  <2>3. QED
    BY <2>1, <2>2, Zenon DEF ParseItems, Comma
<1>a. "array" \in {"array", "object"} /\ "array" # "object" /\ \A e : ValueOf("array", e) = e
  BY DEF ValueOf
<1>2. ASSUME NEW e, NEW m \in Nat, << i, m >> \in Segments(t), EntryIs(t, Denoted(t), "array", i, m, e),
             << e >> \in Found("array", k)
      PROVE  new.value = e /\ new.next = m + 1 /\ ~Fails(new)
  <2>1. new = [value |-> e, next |-> m + 1]
    <3>1. LET w == Parser(t)[<< "value", IF "array" = "array" THEN i ELSE i + 2, k >>] IN
          w = [value |-> ValueOf("array", e), next |-> m + 1]
      BY <1>2, <1>a, EntryComplete
    <3>2. QED
      BY <1>a, <3>1
  <2> HIDE DEF new
  <2>2. QED
    BY <2>1 DEF Fails
<1>3. CASE IsOne(t, "array", i, n, c)
  <2>1. PICK e : c = << e >> /\ EntryIs(t, Denoted(t), "array", i, n, e)
    BY <1>3 DEF IsOne
  <2>2. new.value = e /\ new.next = n + 1 /\ ~Fails(new)
    BY <1>0, <1>2, <2>1
  <2>3. TokenAt(t, new.next) = CloseOf("array") /\ new.next + 1 = n + 2
    <3>1. TokenAt(t, n + 1) = CloseOf("array") /\ (n + 1) + 1 = n + 2
      BY <1>0, TokenAtIs
    <3> HIDE DEF new
    <3>2. QED
      BY <2>2, <3>1
  <2> HIDE DEF new, r
  <2>4. r = [value |-> << new.value >>, next |-> new.next + 1]
    BY <1>1, <2>2, <2>3, Zenon
  <2>5. QED
    BY <2>1, <2>2, <2>3, <2>4
<1>4. ASSUME NEW m \in i .. n, t[m] = Comma, << m + 1, n >> \in Segments(t), << i, m - 1 >> \in Segments(t),
             IsMore(t, "array", i, m, n, c)
      PROVE  r = [value |-> c, next |-> n + 2]
  <2>1. PICK e, d : /\ c = << e >> \o d /\ d = [j \in 1 .. Len(d) |-> d[j]] /\ Len(d) \in Nat
                    /\ EntryIs(t, Denoted(t), "array", i, m - 1, e)
                    /\ ListIs(t, Denoted(t), "array", m + 1, n, d)
    BY <1>4 DEF IsMore
  <2>2. << e >> \in Found("array", k) /\ d \in Found("array", k)
    BY <1>a, <2>1, FoundMore
  <2>3. m - 1 \in Nat /\ m \in Nat /\ m <= Len(t) /\ (m - 1) + 1 = m /\ i <= m - 1
    <3>1. m \in Nat /\ m <= n /\ i <= m
      BY <1>0
    <3>2. i <= m - 1
      BY <1>4, <1>a, <2>1, EntryBegins
    <3>3. QED
      BY <1>0, <3>1, <3>2
  <2>4. new.value = e /\ new.next = m /\ ~Fails(new)
    BY <1>2, <1>4, <2>1, <2>2, <2>3
  <2>5. TokenAt(t, m) = Comma /\ Comma # CloseOf("array")
    BY <1>4, <2>3, SignsAre, TokenAtIs
  <2>6. parse[<< "array", m + 1, k >>] = [value |-> d, next |-> n + 2]
    <3>1. CompleteList(t, "array", m + 1, k)
      BY <2>3
    <3>2. QED
      BY <1>4, <2>1, <2>2, <3>1, Zenon DEF CompleteList
  <2> DEFINE b == parse[<< "array", m + 1, k >>]
  <2>7. b.value = d /\ b.next = n + 2 /\ ~Fails(b)
    <3>1. b = [value |-> d, next |-> n + 2]
      BY <2>6
    <3> HIDE DEF b
    <3>2. QED
      BY <1>0, <3>1 DEF Fails
  <2>8. r = IF Fails(new) THEN Failed
            ELSE IF TokenAt(t, m) = CloseOf("array") THEN [value |-> << new.value >>, next |-> m + 1]
            ELSE IF TokenAt(t, m) # Comma \/ Fails(b) THEN Failed
            ELSE [value |-> << new.value >> \o b.value, next |-> b.next]
    BY <1>1, <2>4
  <2> HIDE DEF new, r, b
  <2>9. r = [value |-> << new.value >> \o b.value, next |-> b.next]
    BY <2>4, <2>5, <2>7, <2>8, Zenon
  <2>10. QED
    BY <2>1, <2>4, <2>7, <2>9
<1>5. QED
  <2> HIDE DEF r
  <2>1. \/ IsOne(t, "array", i, n, c)
        \/ \E m \in i .. n : /\ t[m] = Comma /\ << m + 1, n >> \in Segments(t)
                             /\ << i, m - 1 >> \in Segments(t) /\ IsMore(t, "array", i, m, n, c)
    BY <1>a, ListCases
  <2>2. QED
    BY <1>3, <1>4, <2>1

LEMMA MembersComplete ==
  ASSUME NEW T, NEW t \in Seq(T), NEW i \in Nat, 1 <= i, NEW k \in Nat,
         CompleteValue(t, i + 2, k),
         \A n \in Nat : i < n /\ n <= Len(t) => CompleteList(t, "object", n + 1, k)
  PROVE  CompleteList(t, "object", i, k)
<1> DEFINE parse == Parser(t)
           name == Content(Scalar[TokenAt(t, i)])
           new == parse[<< "value", i + 2, k >>]
           r == parse[<< "object", i, k >>]
           ok == IsString(TokenAt(t, i)) /\ TokenAt(t, i + 1) = Colon /\ ~Fails(new)
<1> SUFFICES ASSUME NEW n, NEW c, << i, n >> \in Segments(t), n + 1 <= Len(t), t[n + 1] = CloseOf("object"),
                    ListIs(t, Denoted(t), "object", i, n, c), c \in Found("object", k)
             PROVE  r = [value |-> c, next |-> n + 2]
  BY DEF CompleteList
<1>0. n \in Nat /\ n <= Len(t) /\ Len(t) \in Nat
  BY SegmentIs
<1>1. r = IF ~IsString(TokenAt(t, i)) \/ TokenAt(t, i + 1) # Colon \/ Fails(new) THEN Failed
          ELSE IF TokenAt(t, new.next) = CloseOf("object")
          THEN [value |-> << << name, new.value >> >>, next |-> new.next + 1]
          ELSE IF TokenAt(t, new.next) # Comma \/ Fails(parse[<< "object", new.next + 1, k >>])
                  \/ name \in NamesOf(parse[<< "object", new.next + 1, k >>].value)
          THEN Failed
          ELSE [value |-> << << name, new.value >> >> \o parse[<< "object", new.next + 1, k >>].value,
                next |-> parse[<< "object", new.next + 1, k >>].next]
  <2>1. CloseOf("object") = "}"
    BY Zenon DEF CloseOf
  <2>2. r = ParseMembers(t, parse, i, k)
    BY ParserCalls
  <2>3. QED
    BY <2>1, <2>2, Zenon DEF ParseMembers, Comma, Colon
<1>a. "object" \in {"array", "object"} /\ "array" # "object" /\ \A e : ValueOf("object", e) = e[2]
  BY DEF ValueOf
<1>2. ASSUME NEW e, NEW m \in Nat, << i, m >> \in Segments(t), EntryIs(t, Denoted(t), "object", i, m, e),
             << e >> \in Found("object", k)
      PROVE  ok /\ << name, new.value >> = e /\ name = e[1] /\ new.next = m + 1
  <2>1. new = [value |-> e[2], next |-> m + 1]
    <3>1. LET w == Parser(t)[<< "value", IF "object" = "array" THEN i ELSE i + 2, k >>] IN
          w = [value |-> ValueOf("object", e), next |-> m + 1]
      <4>1. (IF "object" = "array" THEN i ELSE i + 2) = i + 2
        BY <1>a
      <4>2. CompleteValue(t, IF "object" = "array" THEN i ELSE i + 2, k)
        BY <4>1
      <4>3. QED
        BY <1>2, <1>a, <4>2, EntryComplete
    <3>2. QED
      BY <1>a, <3>1
  <2> HIDE DEF new
  <2>2. new.value = e[2] /\ new.next = m + 1 /\ ~Fails(new)
    BY <2>1 DEF Fails
  <2>3. /\ i + 2 <= m /\ IsString(t[i]) /\ t[i + 1] = Colon
        /\ e = << Content(Scalar[t[i]]), Denoted(t)[<< i + 2, m >>] >>
    BY <1>2, <1>a, Zenon DEF EntryIs
  <2>4. TokenAt(t, i) = t[i] /\ TokenAt(t, i + 1) = t[i + 1]
    <3>1. m <= Len(t)
      BY <1>2, SegmentFrom
    <3>2. i <= Len(t) /\ i + 1 <= Len(t)
      BY <1>0, <2>3, <3>1
    <3>3. QED
      BY <3>2, TokenAtIs
  <2>5. name = e[1] /\ e = << e[1], e[2] >>
    BY <2>3, <2>4
  <2> HIDE DEF name
  <2>6. QED
    BY <2>2, <2>3, <2>4, <2>5
<1>3. CASE IsOne(t, "object", i, n, c)
  <2>1. PICK e : c = << e >> /\ EntryIs(t, Denoted(t), "object", i, n, e)
    BY <1>3 DEF IsOne
  <2>2. ok /\ << name, new.value >> = e /\ new.next = n + 1
    BY <1>0, <1>2, <2>1
  <2>3. TokenAt(t, new.next) = CloseOf("object") /\ new.next + 1 = n + 2
    <3>1. TokenAt(t, n + 1) = CloseOf("object") /\ (n + 1) + 1 = n + 2
      BY <1>0, TokenAtIs
    <3> HIDE DEF new
    <3>2. QED
      BY <2>2, <3>1
  <2> HIDE DEF new, r, name
  <2>4. r = [value |-> << << name, new.value >> >>, next |-> new.next + 1]
    BY <1>1, <2>2, <2>3, Zenon
  <2>5. QED
    BY <2>1, <2>2, <2>3, <2>4
<1>4. ASSUME NEW m \in i .. n, t[m] = Comma, << m + 1, n >> \in Segments(t), << i, m - 1 >> \in Segments(t),
             IsMore(t, "object", i, m, n, c)
      PROVE  r = [value |-> c, next |-> n + 2]
  <2>1. PICK e, d : /\ c = << e >> \o d /\ d = [j \in 1 .. Len(d) |-> d[j]] /\ Len(d) \in Nat
                    /\ EntryIs(t, Denoted(t), "object", i, m - 1, e)
                    /\ ListIs(t, Denoted(t), "object", m + 1, n, d)
                    /\ e[1] \notin NamesOf(d)
    BY <1>4 DEF IsMore
  <2>d. DistinctNames(d)
    BY <2>1, Zenon DEF ListIs
  <2>2. << e >> \in Found("object", k) /\ d \in Found("object", k)
    BY <1>a, <2>1, <2>d, FoundMore
  <2>3. m - 1 \in Nat /\ m \in Nat /\ m <= Len(t) /\ (m - 1) + 1 = m /\ i <= m - 1
    <3>1. m \in Nat /\ m <= n /\ i <= m
      BY <1>0
    <3>2. i <= m - 1
      BY <1>4, <1>a, <2>1, EntryBegins
    <3>3. QED
      BY <1>0, <3>1, <3>2
  <2>4. ok /\ << name, new.value >> = e /\ name = e[1] /\ new.next = m
    BY <1>2, <1>4, <2>1, <2>2, <2>3
  <2>5. TokenAt(t, m) = Comma /\ Comma # CloseOf("object")
    BY <1>4, <2>3, SignsAre, TokenAtIs
  <2>6. parse[<< "object", m + 1, k >>] = [value |-> d, next |-> n + 2]
    <3>1. CompleteList(t, "object", m + 1, k)
      BY <2>3
    <3>2. QED
      BY <1>4, <2>1, <2>2, <3>1, Zenon DEF CompleteList
  <2> DEFINE b == parse[<< "object", m + 1, k >>]
  <2>7. b.value = d /\ b.next = n + 2 /\ ~Fails(b)
    <3>1. b = [value |-> d, next |-> n + 2]
      BY <2>6
    <3> HIDE DEF b
    <3>2. QED
      BY <1>0, <3>1 DEF Fails
  <2>8. r = IF ~IsString(TokenAt(t, i)) \/ TokenAt(t, i + 1) # Colon \/ Fails(new) THEN Failed
            ELSE IF TokenAt(t, m) = CloseOf("object")
            THEN [value |-> << << name, new.value >> >>, next |-> m + 1]
            ELSE IF TokenAt(t, m) # Comma \/ Fails(b) \/ name \in NamesOf(b.value) THEN Failed
            ELSE [value |-> << << name, new.value >> >> \o b.value, next |-> b.next]
    BY <1>1, <2>4
  <2>9. name \notin NamesOf(b.value)
    <3> HIDE DEF b, name
    <3>1. QED
      BY <2>1, <2>4, <2>7
  <2> HIDE DEF new, r, b, name
  <2>10. r = [value |-> << << name, new.value >> >> \o b.value, next |-> b.next]
    BY <2>4, <2>5, <2>7, <2>8, <2>9, Zenon
  <2>11. QED
    BY <2>1, <2>4, <2>7, <2>10
<1>5. QED
  <2> HIDE DEF r
  <2>1. \/ IsOne(t, "object", i, n, c)
        \/ \E m \in i .. n : /\ t[m] = Comma /\ << m + 1, n >> \in Segments(t)
                             /\ << i, m - 1 >> \in Segments(t) /\ IsMore(t, "object", i, m, n, c)
    BY <1>a, ListCases
  <2>2. QED
    BY <1>3, <1>4, <2>1

(* The two together, for every call of the parser. *)

\* A call of the parser finds what the text denotes there, and nothing else.
Exact(t, mode, i, k) ==
  IF mode = "value" THEN SoundValue(t, i, Parser(t)[<< "value", i, k >>]) /\ CompleteValue(t, i, k)
  ELSE SoundList(t, mode, i, Parser(t)[<< mode, i, k >>]) /\ CompleteList(t, mode, i, k)

ExactBelow(t, mode, i) ==
  \A other_mode \in {"value", "array", "object"} : \A j \in Nat, k \in Nat :
     1 <= j /\ CallRank(t, other_mode, j) < CallRank(t, mode, i) => Exact(t, other_mode, j, k)

LEMMA CallExact ==
  ASSUME NEW T, NEW t \in Seq(T), NEW mode \in {"value", "array", "object"}, NEW i \in Nat, 1 <= i, NEW k \in Nat,
         ExactBelow(t, mode, i)
  PROVE  Exact(t, mode, i, k)
<1>0. Len(t) \in Nat /\ i + 1 \in Nat /\ i + 2 \in Nat /\ k + 1 \in Nat /\ 1 <= i + 1 /\ 1 <= i + 2
  OBVIOUS
<1>1. ASSUME NEW other_mode \in {"value", "array", "object"}, NEW j \in Nat, NEW l \in Nat, 1 <= j,
             CallRank(t, other_mode, j) < CallRank(t, mode, i)
      PROVE  Exact(t, other_mode, j, l)
  BY <1>1, Zenon DEF ExactBelow
<1>2. CASE mode = "value"
  <2>1. ASSUME NEW type \in {"array", "object"}, i <= Len(t)
        PROVE  SoundList(t, type, i + 1, Parser(t)[<< type, i + 1, k + 1 >>]) /\ CompleteList(t, type, i + 1, k + 1)
    <3>1. CallRank(t, type, i + 1) < CallRank(t, "value", i)
      BY <2>1, CallRankIs
    <3>2. Exact(t, type, i + 1, k + 1)
      BY <1>0, <1>1, <1>2, <3>1
    <3>3. type # "value"
      OBVIOUS
    <3>4. QED
      BY <3>2, <3>3, Zenon DEF Exact
  <2>2. SoundValue(t, i, Parser(t)[<< "value", i, k >>])
    BY <2>1, ValueSound
  <2>3. CompleteValue(t, i, k)
    BY <2>1, ValueComplete
  <2>4. QED
    BY <1>2, <2>2, <2>3, Zenon DEF Exact
<1>3. ASSUME mode # "value", NEW n \in Nat, i < n, n <= Len(t)
      PROVE  SoundList(t, mode, n + 1, Parser(t)[<< mode, n + 1, k >>]) /\ CompleteList(t, mode, n + 1, k)
  <2>1. CallRank(t, mode, n + 1) < CallRank(t, mode, i)
    BY <1>3, CallRankIs
  <2>2. n + 1 \in Nat /\ 1 <= n + 1
    OBVIOUS
  <2>3. Exact(t, mode, n + 1, k)
    BY <1>1, <2>1, <2>2
  <2>4. QED
    BY <1>3, <2>3, Zenon DEF Exact
<1>4. ASSUME mode # "value"
      PROVE  /\ SoundValue(t, i, Parser(t)[<< "value", i, k >>]) /\ CompleteValue(t, i, k)
             /\ SoundValue(t, i + 2, Parser(t)[<< "value", i + 2, k >>]) /\ CompleteValue(t, i + 2, k)
  <2>1. CallRank(t, "value", i) < CallRank(t, mode, i) /\ CallRank(t, "value", i + 2) < CallRank(t, mode, i)
    BY <1>4, CallRankIs
  <2>2. Exact(t, "value", i, k) /\ Exact(t, "value", i + 2, k)
    BY <1>0, <1>1, <2>1
  <2>3. QED
    BY <2>2, Zenon DEF Exact
<1>5. CASE mode = "array"
  <2>0. mode # "value"
    BY <1>5
  <2>1. \A n \in Nat : i < n /\ n <= Len(t) =>
          /\ SoundList(t, "array", n + 1, Parser(t)[<< "array", n + 1, k >>])
          /\ CompleteList(t, "array", n + 1, k)
    BY <1>3, <1>5, <2>0
  <2>2. SoundList(t, "array", i, Parser(t)[<< "array", i, k >>])
    BY <1>4, <2>0, <2>1, ItemsSound
  <2>3. CompleteList(t, "array", i, k)
    BY <1>4, <2>0, <2>1, ItemsComplete
  <2>4. QED
    BY <1>5, <2>0, <2>2, <2>3, Zenon DEF Exact
<1>6. CASE mode = "object"
  <2>0. mode # "value"
    BY <1>6
  <2>1. \A n \in Nat : i < n /\ n <= Len(t) =>
          /\ SoundList(t, "object", n + 1, Parser(t)[<< "object", n + 1, k >>])
          /\ CompleteList(t, "object", n + 1, k)
    BY <1>3, <1>6, <2>0
  <2>2. SoundList(t, "object", i, Parser(t)[<< "object", i, k >>])
    BY <1>4, <2>0, <2>1, MembersSound
  <2>3. CompleteList(t, "object", i, k)
    BY <1>4, <2>0, <2>1, MembersComplete
  <2>4. QED
    BY <1>6, <2>0, <2>2, <2>3, Zenon DEF Exact
<1>7. QED
  BY <1>2, <1>5, <1>6

LEMMA ParserExact ==
  ASSUME NEW T, NEW t \in Seq(T)
  PROVE  \A mode \in {"value", "array", "object"} : \A i \in Nat, k \in Nat : 1 <= i => Exact(t, mode, i, k)
<1> DEFINE Good(call) == 1 <= call[2] => Exact(t, call[1], call[2], call[3])
           U == {call \in Calls : Good(call)}
           rank == [call \in Calls |-> CallRank(t, call[1], call[2])]
<1>1. rank \in Ranks(Calls) /\ \A call \in Calls : rank[call] = CallRank(t, call[1], call[2])
  BY CallIs, CallRankIs DEF Ranks
<1> HIDE DEF rank
<1>2. ASSUME NEW call \in Calls, \A q \in Calls : rank[q] < rank[call] => q \in U PROVE call \in U
  <2> DEFINE m == call[1]
             i == call[2]
             k == call[3]
  <2>1. i \in Nat /\ k \in Nat /\ m \in {"value", "array", "object"}
    BY CallIs
  <2>2. ASSUME NEW mode \in {"value", "array", "object"}, NEW j \in Nat, NEW l \in Nat, 1 <= j,
               CallRank(t, mode, j) < CallRank(t, m, i)
        PROVE  Exact(t, mode, j, l)
    <3> DEFINE q == << mode, j, l >>
    <3>1. q \in Calls /\ q[1] = mode /\ q[2] = j /\ q[3] = l
      BY DEF Calls
    <3> HIDE DEF q
    <3>2. rank[q] < rank[call]
      BY <1>1, <2>2, <3>1
    <3>3. QED
      BY <1>2, <2>2, <3>1, <3>2
  <2> HIDE DEF m, i, k
  <2>3. ExactBelow(t, m, i)
    BY <2>2 DEF ExactBelow
  <2>4. 1 <= i => Exact(t, m, i, k)
    BY <2>1, <2>3, CallExact
  <2>5. QED
    BY <2>4 DEF m, i, k
<1>3. Calls \subseteq U
  <2> HIDE DEF U
  <2>1. QED
    BY <1>1, <1>2, RankInduction
<1>4. ASSUME NEW mode \in {"value", "array", "object"}, NEW i \in Nat, NEW k \in Nat, 1 <= i
      PROVE  Exact(t, mode, i, k)
  <2> DEFINE q == << mode, i, k >>
  <2>1. q \in Calls /\ q[1] = mode /\ q[2] = i /\ q[3] = k
    BY DEF Calls
  <2> HIDE DEF q
  <2>2. QED
    BY <1>3, <1>4, <2>1
<1>5. QED
  BY <1>4

(* Texts on disk, and what is loaded of them. *)

\* The values that a text begins with.
ValuesOf(t) == {Denoted(t)[<< 1, n >>] : n \in 0 .. Len(t)} \ {NoValue}

LEMMA LegalIs == \A v : Legal(v) <=> v \in ValuesAt(0)
<1>1. MaxNesting \in Nat
  BY DocumentAssumption
<1>2. 0 <= MaxNesting /\ MaxNesting - 0 = MaxNesting
  BY <1>1
<1>3. ValuesAt(0) = Nested[MaxNesting]
  BY <1>2, Zenon DEF ValuesAt
<1>4. QED
  BY <1>3, Zenon DEF Legal

LEMMA ParseExact ==
  ASSUME NEW T, NEW t \in Seq(T)
  PROVE  IF \E v \in ValuesOf(t) : Legal(v) THEN Legal(Parse(t)) /\ Parse(t) \in ValuesOf(t)
         ELSE Parse(t) = NoValue
<1> DEFINE r == Parser(t)[<< "value", 1, 0 >>]
<1>0. Len(t) \in Nat /\ Parse(t) = r.value
  BY DEF Parse
<1>1. SoundValue(t, 1, r) /\ CompleteValue(t, 1, 0)
  <2>1. Exact(t, "value", 1, 0)
    BY ParserExact
  <2>2. QED
    BY <2>1, Zenon DEF Exact
<1>2. ASSUME NEW v \in ValuesOf(t), Legal(v) PROVE Parse(t) = v
  <2>1. PICK n \in 0 .. Len(t) : v = Denoted(t)[<< 1, n >>]
    BY <1>2 DEF ValuesOf
  <2>2. << 1, n >> \in Segments(t)
    <3>1. 1 \in Int /\ n \in Int /\ 1 <= 1 /\ 1 <= Len(t) + 1 /\ 0 <= n /\ n <= Len(t)
      BY <1>0
    <3>2. QED
      BY <3>1, SegmentFrom
  <2>3. Denoted(t)[<< 1, n >>] \in ValuesAt(0)
    BY <1>2, <2>1, LegalIs
  <2>4. r = [value |-> v, next |-> n + 1]
    BY <1>1, <2>1, <2>2, <2>3, Zenon DEF CompleteValue
  <2> HIDE DEF r
  <2>5. QED
    BY <1>0, <2>4
<1>3. ASSUME Parse(t) # NoValue PROVE Parse(t) \in ValuesOf(t) /\ Legal(Parse(t))
  <2>1. r \in Outcomes(t, "value", 1, 0)
    BY ParserCalls
  <2> HIDE DEF r
  <2>2. ~Fails(r)
    <3>1. Fails(r) => r = Failed
      BY <2>1, OutcomeIs
    <3>2. Failed.value = NoValue
      BY DEF Failed
    <3>3. QED
      BY <1>0, <1>3, <3>1, <3>2
  <2>3. r.value \in Found("value", 0) /\ r.next \in Nat
    BY <2>1, <2>2, OutcomeIs
  <2>4. Legal(r.value)
    BY <2>3, LegalIs DEF Found
  <2>5. << 1, r.next - 1 >> \in Segments(t) /\ Denoted(t)[<< 1, r.next - 1 >>] = r.value
    BY <1>1, <2>2 DEF SoundValue
  <2>6. r.next - 1 \in 0 .. Len(t)
    BY <1>0, <2>3, <2>5, SegmentFrom
  <2>7. QED
    BY <1>0, <1>3, <2>4, <2>5, <2>6 DEF ValuesOf
<1> HIDE DEF r
<1>4. CASE \E v \in ValuesOf(t) : Legal(v)
  <2>1. PICK v \in ValuesOf(t) : Legal(v)
    BY <1>4
  <2>2. Parse(t) = v
    BY <1>2, <2>1
  <2>3. QED
    BY <1>4, <2>1, <2>2
<1>5. CASE ~\E v \in ValuesOf(t) : Legal(v)
  BY <1>3, <1>5
<1>6. QED
  BY <1>4, <1>5

\* What is on disk, whole, cut short or edited.
FileInv == step \in {"saved", "edited"} => file \in Seq(Tokens)

LEMMA FilesAreTexts == DocSpec => []FileInv
<1>1. DocInit => FileInv
  BY DEF DocInit, FileInv
<1>2. DocInv /\ DocInv' /\ FileInv /\ [DocNext]_docVars => FileInv'
  <2> SUFFICES ASSUME DocInv, DocInv', FileInv, [DocNext]_docVars PROVE FileInv'
    OBVIOUS
  <2>0. Writable \subseteq Tokens
    BY Zenon DEF Writable, Tokens
  <2>1. CASE Save
    <3>1. value \in Trees
      <4>1. value \in Documents
        BY <2>1 DEF Save
      <4>2. QED
        BY <4>1, DocumentAssumption
    <3> DEFINE whole == Serialize[value]
    <3>2. whole \in Seq(Tokens)
      <4>1. whole \in Seq(Writable)
        BY <3>1, SerializeIs
      <4> HIDE DEF whole
      <4>2. QED
        BY <2>0, <4>1
    <3>3. PICK n \in 0 .. Len(whole) : file' = SubSeq(whole, 1, n)
      BY <2>1 DEF Save
    <3> HIDE DEF whole
    <3>4. file' \in Seq(Tokens)
      BY <3>2, <3>3
    <3>5. QED
      BY <3>4 DEF FileInv
  <2>2. CASE Edit
    <3>1. file \in Seq(Tokens)
      BY <2>2 DEF Edit, FileInv
    <3>2. PICK i \in DOMAIN file :
             \/ file' = RemoveAt(file, i)
             \/ \E token \in Tokens : file' = ReplaceAt(file, i, token) \/ file' = InsertAt(file, i, token)
      BY <2>2 DEF Edit
    <3>i. i \in 1 .. Len(file) /\ Len(file) \in Nat
      BY <3>1
    <3>3. RemoveAt(file, i) \in Seq(Tokens)
      BY <3>1, <3>i DEF RemoveAt
    <3>4. ASSUME NEW token \in Tokens
          PROVE  ReplaceAt(file, i, token) \in Seq(Tokens) /\ InsertAt(file, i, token) \in Seq(Tokens)
      <4>1. ReplaceAt(file, i, token) \in Seq(Tokens)
        BY <3>1, <3>i DEF ReplaceAt
      <4>2. InsertAt(file, i, token) \in Seq(Tokens)
        BY <3>1, <3>i DEF InsertAt
      <4>3. QED
        BY <4>1, <4>2
    <3>5. file' \in Seq(Tokens)
      BY <3>2, <3>3, <3>4
    <3>6. QED
      BY <3>5 DEF FileInv
  <2>3. CASE Load
    BY <2>3 DEF Load, FileInv
  <2>4. CASE Compare
    BY <2>4 DEF Compare, FileInv
  <2>5. CASE UNCHANGED docVars
    BY <2>5 DEF FileInv, docVars
  <2>6. QED
    BY <2>1, <2>2, <2>3, <2>4, <2>5 DEF DocNext
<1>3. QED
  BY <1>1, <1>2, DocumentInvariant, PTL DEF DocSpec

\* Of a text that was edited, as of any other, the value is loaded that it begins with.
THEOREM GrammarIsParsed == DocSpec => []ParsesTheGrammar
<1>1. FileInv => ParsesTheGrammar
  <2>1. SUFFICES ASSUME FileInv, step \in {"saved", "edited"}
                 PROVE  IF \E v \in ValuesOf(file) : Legal(v)
                        THEN Legal(Parse(file)) /\ Parse(file) \in ValuesOf(file)
                        ELSE Parse(file) = NoValue
    BY Zenon DEF ParsesTheGrammar, ValuesOf
  <2>2. file \in Seq(Tokens)
    BY <2>1 DEF FileInv
  <2>3. QED
    BY <2>2, ParseExact
<1>2. QED
  BY <1>1, FilesAreTexts, PTL
=============================================================================
