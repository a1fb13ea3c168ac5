----------------------------- MODULE ParsonProofs ---------------------------
(***************************************************************************)
(* Proofs about parson: who owns its values, for any number of values,     *)
(* names and steps; what its strings mean, for literals of any pieces and  *)
(* length; and what removing the comments leaves of a text of any bits.    *)
(* The lemmas on induction have no operator among their parameters: what   *)
(* an induction is about is given as a set of numbers, and a recursion as  *)
(* the function that makes its next value.                                 *)
(***************************************************************************)
EXTENDS JsonHeap, JsonString, WellFoundedInduction, SequenceTheorems,
        FiniteSetTheorems, TLAPS

Kinds == {"free", "leaf", "object", "array"}

LEMMA MemberType ==
  ASSUME TypeOK, NEW c \in Values
  PROVE  /\ members[c] \in Seq(Member) /\ Size(c) \in Nat
         /\ \A k \in 1..Size(c) : members[c][k] \in Member /\ members[c][k].val \in Values
         /\ Children(c) \subseteq Values
<1>1. members[c] \in Seq(Member) /\ Size(c) \in Nat
  BY DEF TypeOK, Size
<1>2. \A k \in 1..Size(c) : members[c][k] \in Member
  BY <1>1, ElementOfSeq DEF Size
<1>3. QED
  BY <1>1, <1>2 DEF Children, Member

LEMMA GrownType ==
  ASSUME TypeOK, NEW c \in Values
  PROVE  /\ Grown(c) \in Nat /\ Grown(c) >= cap[c]
         /\ Size(c) <= cap[c] => Size(c) + 1 <= Grown(c)
<1>1. cap[c] \in Nat /\ StartCap \in Nat /\ StartCap >= 1 /\ Size(c) \in Nat
  BY HeapAssumption, MemberType DEF TypeOK
<1>2. QED
  BY <1>1 DEF Grown

LEMMA SubtreeType == ASSUME NEW v PROVE Subtree(v) \subseteq Values
  BY DEF Subtree

(* The lists of members the operations write are lists of members. *)
LEMMA AppendType ==
  ASSUME TypeOK, NEW c \in Values, NEW n \in Names \cup {NULL}, NEW v \in Values
  PROVE  LET ms == Append(members[c], [name |-> n, val |-> v])
         IN  /\ ms \in Seq(Member) /\ Len(ms) = Size(c) + 1
             /\ ms[Size(c) + 1] = [name |-> n, val |-> v]
             /\ \A i \in 1..Size(c) : ms[i] = members[c][i]
<1>1. members[c] \in Seq(Member) /\ [name |-> n, val |-> v] \in Member
  BY MemberType DEF Member
<1>2. QED
  BY <1>1, AppendProperties DEF Size

LEMMA OverwriteType ==
  ASSUME TypeOK, NEW c \in Values, NEW k \in 1..Size(c), NEW m \in Member
  PROVE  LET ms == [members[c] EXCEPT ![k] = m]
         IN  /\ ms \in Seq(Member) /\ Len(ms) = Size(c)
             /\ ms[k] = m
             /\ \A i \in 1..Size(c) \ {k} : ms[i] = members[c][i]
<1>1. members[c] \in Seq(Member)
  BY MemberType
<1>2. QED
  BY <1>1, ExceptSeq DEF Size

(* Removal from slot k: "from" says which old slot each new one comes from. *)
LEMMA ShortenType ==
  ASSUME TypeOK, NEW c \in Values, NEW k \in 1..Size(c),
         NEW from \in [1..(Size(c) - 1) -> 1..Size(c)]
  PROVE  LET ms == [j \in 1..(Size(c) - 1) |-> members[c][from[j]]]
         IN  /\ ms \in Seq(Member) /\ Len(ms) = Size(c) - 1
             /\ \A i \in 1..(Size(c) - 1) : ms[i] = members[c][from[i]]
<1>1. Size(c) - 1 \in Nat
  BY MemberType
<1>2. \A j \in 1..(Size(c) - 1) : members[c][from[j]] \in Member
  BY MemberType
<1>3. QED
  BY <1>1, <1>2, IsASeq

LEMMA CommitType ==
  ASSUME TypeOK, NEW D, NEW c \in Values \cup {NULL}, NEW ms \in Seq(Member),
         NEW k \in Nat, NEW v, NEW t \in Kinds, Commit(D, c, ms, k, v, t)
  PROVE  TypeOK'
<1>1. <<>> \in Seq(Member)
  OBVIOUS
<1>2. kind' \in [Values -> Kinds] /\ parent' \in [Values -> Values \cup {NULL}]
  BY DEF TypeOK, Commit, Kinds
<1>3. members' \in [Values -> Seq(Member)] /\ cap' \in [Values -> Nat]
  BY <1>1 DEF TypeOK, Commit
<1>4. held' \subseteq Values
  BY DEF TypeOK, Commit
<1>5. QED
  BY <1>2, <1>3, <1>4 DEF TypeOK, Kinds

-----------------------------------------------------------------------------
(***************************************************************************)
(* What json_value_free(v) visits.                                         *)
(***************************************************************************)
LEMMA SubtreeSelf == ASSUME NEW v \in Values PROVE v \in Subtree(v)
  BY DEF Subtree

LEMMA SubtreeClosed ==
  ASSUME TypeOK, NEW v, NEW x \in Subtree(v)
  PROVE  Children(x) \subseteq Subtree(v)
<1>1. x \in Values
  BY SubtreeType
<1>2. Children(x) \subseteq Values
  BY <1>1, MemberType
<1>3. QED
  BY <1>2 DEF Subtree

LEMMA SubtreeLeast ==
  ASSUME NEW v, NEW S \in SUBSET Values, v \in S, \A x \in S : Children(x) \subseteq S
  PROVE  Subtree(v) \subseteq S
  BY DEF Subtree

(* All but the root are held inside. *)
LEMMA SubtreeHeld ==
  ASSUME TypeOK, NEW v \in Values, NEW w \in Subtree(v), w # v
  PROVE  \E y \in Subtree(v) : w \in Children(y)
<1> SUFFICES ASSUME \A y \in Subtree(v) : w \notin Children(y) PROVE FALSE
  OBVIOUS
<1> DEFINE S == Subtree(v) \ {w}
<1>1. S \in SUBSET Values /\ v \in S
  BY SubtreeType, SubtreeSelf
<1>2. \A x \in S : Children(x) \subseteq S
  BY SubtreeClosed
<1>3. Subtree(v) \subseteq S
  BY <1>1, <1>2, SubtreeLeast
<1>4. QED
  BY <1>3

-----------------------------------------------------------------------------
(***************************************************************************)
(* The forest: free blocks are blank, members are alive and know their     *)
(* container, sit in one slot and are not the client's; and no set of      *)
(* values is held entirely from within, so that nothing contains itself.   *)
(***************************************************************************)
FreeIsBlank == \A v \in Values : kind[v] = "free" => members[v] = <<>> /\ v \notin held

OneSlot ==
  \A c \in Values : \A j, k \in 1..Size(c) : members[c][j].val = members[c][k].val => j = k

NotTheClients == \A c \in Values : Children(c) \cap held = {}

Rooted ==
  \A S \in SUBSET Values :
    (\A x \in S : \E y \in S : x \in Children(y)) => S = {}

Forest ==
  /\ FreeIsBlank /\ NoDanglingMember /\ ParentKnown
  /\ OneSlot /\ NotTheClients /\ Rooted

LEMMA ForestOwns == Forest /\ TypeOK => OwnedOnce
<1> SUFFICES ASSUME Forest, TypeOK, NEW c \in Values, NEW d \in Values,
                    NEW j \in 1..MaxMembers, NEW k \in 1..MaxMembers,
                    j <= Size(c), k <= Size(d), members[c][j].val = members[d][k].val
             PROVE  c = d /\ j = k /\ members[c][j].val \notin held
  BY DEF OwnedOnce
<1>1. j \in 1..Size(c) /\ k \in 1..Size(d)
  BY MemberType, HeapAssumption
<1>2. members[c][j].val \in Children(c) /\ members[c][j].val \in Children(d)
  BY <1>1 DEF Children
<1>3. c = d
  BY <1>2 DEF Forest, ParentKnown
<1>4. QED
  BY <1>1, <1>2, <1>3 DEF Forest, OneSlot, NotTheClients

(* A container is in no subtree of its members. *)
LEMMA NoCycle ==
  ASSUME TypeOK, Forest, NEW c \in Values, NEW x \in Children(c)
  PROVE  c \notin Subtree(x)
<1> SUFFICES ASSUME c \in Subtree(x) PROVE FALSE
  OBVIOUS
<1>1. x \in Values
  BY MemberType
<1>2. \A w \in Subtree(x) : \E y \in Subtree(x) : w \in Children(y)
  BY <1>1, SubtreeHeld
<1>3. Subtree(x) \in SUBSET Values /\ x \in Subtree(x)
  BY <1>1, SubtreeType, SubtreeSelf
<1>4. QED
  BY <1>2, <1>3 DEF Forest, Rooted

(* Nothing outside of D and c points into D. *)
Cut(D, c) == \A e \in Values : e \notin D /\ e # c => Children(e) \cap D = {}

LEMMA CutSubtree ==
  ASSUME TypeOK, Forest, NEW x \in Values, NEW c,
         \A e \in Values : x \in Children(e) => e = c
  PROVE  Cut(Subtree(x), c)
<1> SUFFICES ASSUME NEW e \in Values, e \notin Subtree(x), e # c,
                    NEW w \in Children(e), w \in Subtree(x)
             PROVE  FALSE
  BY DEF Cut
<1>1. w # x
  OBVIOUS
<1>2. PICK y \in Subtree(x) : w \in Children(y)
  BY <1>1, SubtreeHeld
<1>3. y = e
  BY <1>2, SubtreeType DEF Forest, ParentKnown
<1>4. QED
  BY <1>2, <1>3

LEMMA CutMember ==
  ASSUME TypeOK, Forest, NEW c \in Values, NEW x \in Children(c)
  PROVE  /\ Cut(Subtree(x), c)
         /\ c \notin Subtree(x)
         /\ \A w \in Children(c) : w # x => w \notin Subtree(x)
<1>1. x \in Values /\ \A e \in Values : x \in Children(e) => e = c
  BY MemberType DEF Forest, ParentKnown
<1>2. Cut(Subtree(x), c)
  BY <1>1, CutSubtree
<1>3. c \notin Subtree(x)
  BY NoCycle
<1>4. ASSUME NEW w \in Children(c), w # x, w \in Subtree(x) PROVE FALSE
  <2>1. PICK y \in Subtree(x) : w \in Children(y)
    BY <1>1, <1>4, SubtreeHeld
  <2>2. y = c
    BY <2>1, <1>4, SubtreeType DEF Forest, ParentKnown
  <2>3. QED
    BY <2>1, <2>2, <1>3
<1>5. QED
  BY <1>2, <1>3, <1>4

(* A value no container holds is in the subtree of no other one. *)
LEMMA LooseOutside ==
  ASSUME TypeOK, Forest, NEW v \in Values, NEW x \in Values, v # x,
         \A e \in Values : v \notin Children(e)
  PROVE  v \notin Subtree(x)
  BY SubtreeHeld, SubtreeType

-----------------------------------------------------------------------------
(***************************************************************************)
(* The writes of an operation keep the forest: c loses members and may get *)
(* v, which nobody held, and D is freed.                                   *)
(***************************************************************************)

(* One new edge, from c to v, makes no cycle when c is not below v. *)
LEMMA RootedStep ==
  ASSUME TypeOK, Rooted, NEW c, NEW v,
         \A e \in Values : Children(e)' \subseteq Children(e) \cup {v},
         \A e \in Values : e # c => Children(e)' \subseteq Children(e),
         c \notin Subtree(v)
  PROVE  Rooted'
<1> SUFFICES ASSUME NEW S \in SUBSET Values,
                    \A x \in S : \E y \in S : x \in Children(y)'
             PROVE  S = {}
  BY DEF Rooted
<1>1. CASE c \in S /\ v \in S
  <2> DEFINE T == S \ Subtree(v)
  <2>1. v \in Subtree(v)
    BY <1>1, SubtreeSelf
  <2>2. ASSUME NEW t \in T PROVE \E y \in T : t \in Children(y)
    <3>1. PICK y \in S : t \in Children(y)'
      OBVIOUS
    <3>2. t \in Children(y)
      BY <3>1, <2>1
    <3>3. y \notin Subtree(v)
      BY <3>2, SubtreeClosed
    <3>4. QED
      BY <3>2, <3>3
  <2>3. T = {}
    BY <2>2 DEF Rooted
  <2>4. QED
    BY <2>3, <1>1
<1>2. CASE ~(c \in S /\ v \in S)
  <2>1. ASSUME NEW x \in S PROVE \E y \in S : x \in Children(y)
    BY <1>2
  <2>2. QED
    BY <2>1 DEF Rooted
<1>3. QED
  BY <1>1, <1>2

Loose(v) == \A e \in Values : v \notin Children(e)

(* What Commit(D, c, ms, k, v, t) needs of its arguments. *)
Sound(D, c, ms, v, t) ==
  /\ D \subseteq Values /\ Cut(D, c) /\ c \notin D /\ v \notin D
  /\ c \in Values => kind[c] # "free"
  /\ v \in Values => Loose(v) /\ c \notin Subtree(v) /\ c # v /\ t # "free"
  /\ \A i \in 1..Len(ms) :
       ms[i].val \notin D /\ (ms[i].val = v \/ (c \in Values /\ ms[i].val \in Children(c)))
  /\ \A i, j \in 1..Len(ms) : ms[i].val = ms[j].val => i = j

LEMMA CommitForest ==
  ASSUME TypeOK, Forest, NEW D, NEW c \in Values \cup {NULL}, NEW ms \in Seq(Member),
         NEW k \in Nat, NEW v \in Values \cup {NULL}, NEW t \in Kinds,
         Sound(D, c, ms, v, t), Commit(D, c, ms, k, v, t)
  PROVE  Forest'
<1> DEFINE vals == {ms[i].val : i \in 1..Len(ms)}
<1>0. NULL \notin Values
  BY HeapAssumption
<1>1. \A e \in Values : members'[e] = IF e \in D THEN <<>> ELSE IF e = c THEN ms ELSE members[e]
  BY DEF Commit
<1>2. \A e \in Values : Children(e)' = IF e \in D THEN {} ELSE IF e = c THEN vals ELSE Children(e)
  BY <1>1 DEF Children, Size
<1>3. vals \cap D = {} /\ vals \subseteq {v} \cup (IF c \in Values THEN Children(c) ELSE {})
  BY DEF Sound
<1> HIDE DEF vals
<1>12. vals \subseteq Values
  <2>1. \A i \in 1..Len(ms) : ms[i] \in Member
    BY ElementOfSeq
  <2>2. QED
    BY <2>1 DEF Member, vals
<1>4. FreeIsBlank'
  <2>1. \A x \in Values : x # c /\ x # v /\ x \notin D => kind'[x] = kind[x]
    BY DEF Commit
  <2>2. c \in Values => kind'[c] # "free"
    BY DEF Commit, Sound
  <2>3. v \in Values => kind'[v] # "free"
    BY DEF Commit, Sound
  <2>4. held' = held \ (D \cup {v})
    BY DEF Commit
  <2>5. QED
    BY <1>1, <2>1, <2>2, <2>3, <2>4 DEF Forest, FreeIsBlank
<1>5. NoDanglingMember'
  <2> SUFFICES ASSUME NEW e \in Values, NEW w \in Children(e)'
               PROVE  kind'[e] # "free" /\ kind'[w] # "free"
    BY DEF NoDanglingMember, Alive
  <2>1. e \notin D /\ w \notin D
    BY <1>2, <1>3 DEF Sound, Cut
  <2>2. w \in Values
    BY <1>2, <1>12, MemberType
  <2>3. \A x \in Values : x \notin D /\ kind[x] # "free" => kind'[x] # "free"
    BY DEF Commit, Sound
  <2>4. v \in Values => kind'[v] # "free"
    BY DEF Commit, Sound
  <2>5. kind[e] # "free"
    BY <1>2, <2>1 DEF Forest, NoDanglingMember, Alive, Sound
  <2>6. w = v \/ kind[w] # "free"
    BY <1>2, <1>3, <2>1 DEF Forest, NoDanglingMember, Alive
  <2>7. QED
    BY <2>1, <2>2, <2>3, <2>4, <2>5, <2>6
<1>6. ParentKnown'
  <2> SUFFICES ASSUME NEW e \in Values, NEW w \in Children(e)'
               PROVE  parent'[w] = e
    BY DEF ParentKnown
  <2>1. e \notin D /\ w \notin D
    BY <1>2, <1>3 DEF Sound, Cut
  <2>2. w \in Values
    BY <1>2, <1>12, MemberType
  <2>3. parent'[w] = IF w = v THEN c ELSE parent[w]
    BY <2>1, <2>2 DEF Commit
  <2>4. w = v => e = c
    BY <1>2, <2>1, <2>2 DEF Sound, Loose
  <2>5. w # v => w \in Children(e)
    BY <1>2, <1>3, <2>1
  <2>6. QED
    BY <2>3, <2>4, <2>5 DEF Forest, ParentKnown
<1>7. OneSlot'
  BY <1>1 DEF Forest, OneSlot, Sound, Size
<1>8. NotTheClients'
  BY <1>2, <1>3 DEF Forest, NotTheClients, Commit
<1>9. Rooted'
  <2>1. \A e \in Values : Children(e)' \subseteq Children(e) \cup {v}
    BY <1>2, <1>3
  <2>2. \A e \in Values : e # c => Children(e)' \subseteq Children(e)
    BY <1>2
  <2>3. CASE v \in Values
    BY <2>1, <2>2, <2>3, RootedStep DEF Sound, Forest
  <2>4. CASE v \notin Values
    <3>1. \A e \in Values : Children(e)' \subseteq Children(e)
      BY <1>2, <1>3, <1>12, <2>4
    <3>2. QED
      BY <3>1 DEF Forest, Rooted
  <2>5. QED
    BY <2>3, <2>4
<1>10. QED
  BY <1>4, <1>5, <1>6, <1>7, <1>8, <1>9 DEF Forest

-----------------------------------------------------------------------------
(***************************************************************************)
(* Every operation but three is such a write: c keeps what is not freed,   *)
(* gets v if there is one, and stays within the capacity it is given.      *)
(***************************************************************************)
Write(D, c, ms, k, v, t) ==
  /\ Commit(D, c, ms, k, v, t)
  /\ c \in Values \cup {NULL} /\ ms \in Seq(Member) /\ k \in Nat
  /\ v \in Values \cup {NULL} /\ t \in Kinds
  /\ v \in Values => t = kind[v] \/ kind[v] = "free"
  /\ Sound(D, c, ms, v, t)
  /\ WithinCapacity => Len(ms) <= k
  /\ NamesUnique /\ c \in Values /\ kind[c] = "object"
       => \A i, j \in 1..Len(ms) : ms[i].name = ms[j].name => i = j
  /\ \A d \in D : Children(d) \subseteq D
  /\ c \in Values => \A w \in Children(c) : w \in D \/ \E i \in 1..Len(ms) : ms[i].val = w
  /\ v \in Values => c \in Values /\ \E i \in 1..Len(ms) : ms[i].val = v

Written == \E D, c, ms, k, v, t : Write(D, c, ms, k, v, t)

(* v, of kind t from now on, can become a member of c. *)
Ready(c, v, t) ==
  /\ v \in Values /\ Loose(v) /\ c \notin Subtree(v) /\ c # v
  /\ t \in Kinds \ {"free"} /\ (t = kind[v] \/ kind[v] = "free")

LEMMA PassedIsReady ==
  ASSUME TypeOK, Forest, NEW c \in Values, NEW v \in Values, CanPass(c, v), parent[v] = NULL
  PROVE  Ready(c, v, kind[v])
<1>1. Loose(v)
  BY HeapAssumption DEF Forest, ParentKnown, Loose
<1>2. c # v
  BY SubtreeSelf DEF CanPass
<1>3. QED
  BY <1>1, <1>2 DEF Ready, CanPass, Alive, TypeOK, Kinds

LEMMA FreeIsReady ==
  ASSUME TypeOK, Forest, NEW c \in Values, NEW v \in Values,
         kind[v] = "free", kind[c] # "free", NEW t \in Kinds \ {"free"}
  PROVE  Ready(c, v, t)
<1>1. Loose(v)
  BY DEF Forest, NoDanglingMember, Alive, Loose
<1>2. Children(v) = {}
  BY DEF Forest, FreeIsBlank, Children, Size
<1>3. Subtree(v) \subseteq {v}
  BY <1>2, SubtreeLeast, ZenonT(40)
<1>4. QED
  BY <1>1, <1>3 DEF Ready

LEMMA AppendWrites ==
  ASSUME TypeOK, Forest, NEW c \in Values, kind[c] # "free",
         NEW n \in Names \cup {NULL}, NEW v, NEW t, Ready(c, v, t),
         kind[c] = "object" => Slots(c, n) = {},
         Commit({}, c, Append(members[c], [name |-> n, val |-> v]), Grown(c), v, t)
  PROVE  Written
<1> DEFINE ms == Append(members[c], [name |-> n, val |-> v])
<1>0. v \in Values /\ Size(c) \in Nat
  BY MemberType DEF Ready
<1>1. /\ ms \in Seq(Member) /\ Len(ms) = Size(c) + 1
      /\ ms[Size(c) + 1] = [name |-> n, val |-> v]
      /\ \A i \in 1..Size(c) : ms[i] = members[c][i]
  BY <1>0, AppendType
<1> HIDE DEF ms
<1>2. \A i \in 1..Len(ms) : i = Size(c) + 1 \/ i \in 1..Size(c)
  BY <1>0, <1>1
<1>3. \A i \in 1..Size(c) : ms[i].val \in Children(c) /\ ms[i].val # v
  BY <1>0, <1>1 DEF Children, Ready, Loose
<1>4. Sound({}, c, ms, v, t)
  <2>1. \A i \in 1..Len(ms) : ms[i].val = v \/ ms[i].val \in Children(c)
    BY <1>1, <1>2, <1>3
  <2>2. ASSUME NEW i \in 1..Len(ms), NEW j \in 1..Len(ms), ms[i].val = ms[j].val PROVE i = j
    <3>1. CASE i \in 1..Size(c) /\ j \in 1..Size(c)
      BY <1>1, <2>2, <3>1 DEF Forest, OneSlot
    <3>2. CASE ~(i \in 1..Size(c) /\ j \in 1..Size(c))
      BY <1>1, <1>2, <1>3, <2>2, <3>2
    <3>3. QED
      BY <3>1, <3>2
  <2>3. QED
    BY <1>0, <2>1, <2>2 DEF Sound, Cut, Ready
<1>5. WithinCapacity => Len(ms) <= Grown(c)
  BY <1>1, GrownType DEF WithinCapacity
<1>6. ASSUME NamesUnique, kind[c] = "object",
             NEW i \in 1..Len(ms), NEW j \in 1..Len(ms), ms[i].name = ms[j].name
      PROVE  i = j
  <2>1. \A l \in 1..Size(c) : ms[l].name # n
    BY <1>1, <1>6 DEF Slots
  <2>2. CASE i \in 1..Size(c) /\ j \in 1..Size(c)
    BY <1>1, <1>6, <2>2 DEF NamesUnique
  <2>3. CASE ~(i \in 1..Size(c) /\ j \in 1..Size(c))
    BY <1>1, <1>2, <1>6, <2>1, <2>3
  <2>4. QED
    BY <2>2, <2>3
<1>7. \A w \in Children(c) : \E i \in 1..Len(ms) : ms[i].val = w
  BY <1>0, <1>1 DEF Children
<1>8. \E i \in 1..Len(ms) : ms[i].val = v
  BY <1>0, <1>1
<1>9. Write({}, c, ms, Grown(c), v, t)
  BY <1>0, <1>1, <1>4, <1>5, <1>6, <1>7, <1>8, GrownType DEF Write, Ready, ms
<1>10. QED
  BY <1>9 DEF Written

LEMMA OverwriteWrites ==
  ASSUME TypeOK, Forest, NEW c \in Values, kind[c] # "free", NEW k \in 1..Size(c),
         NEW v, NEW t, Ready(c, v, t),
         NEW m \in Member, m.val = v, m.name = members[c][k].name,
         Commit(Subtree(members[c][k].val), c, [members[c] EXCEPT ![k] = m], cap[c], v, t)
  PROVE  Written
<1> DEFINE ms == [members[c] EXCEPT ![k] = m]
           x == members[c][k].val
<1>1. /\ ms \in Seq(Member) /\ Len(ms) = Size(c) /\ ms[k] = m
      /\ \A i \in 1..Size(c) \ {k} : ms[i] = members[c][i]
  BY OverwriteType
<1> HIDE DEF ms
<1>2. v \in Values /\ x \in Children(c) /\ x \in Values
  BY MemberType DEF Ready, Children
<1>3. Cut(Subtree(x), c) /\ c \notin Subtree(x)
      /\ \A w \in Children(c) : w # x => w \notin Subtree(x)
  BY <1>2, CutMember
<1>4. v \notin Subtree(x)
  BY <1>2, LooseOutside DEF Ready, Loose
<1>5. \A i \in 1..Size(c) \ {k} : ms[i].val \in Children(c) /\ ms[i].val # x /\ ms[i].val # v
  <2>1. \A i \in 1..Size(c) \ {k} : ms[i].val \in Children(c)
    BY <1>1 DEF Children
  <2>2. QED
    BY <1>1, <1>2, <2>1 DEF Forest, OneSlot, Ready, Loose
<1> HIDE DEF x
<1>6. Sound(Subtree(x), c, ms, v, t)
  <2>1. ASSUME NEW i \in 1..Len(ms)
        PROVE  ms[i].val \notin Subtree(x) /\ (ms[i].val = v \/ ms[i].val \in Children(c))
    <3>1. CASE i = k
      BY <1>1, <1>4, <3>1
    <3>2. CASE i # k
      BY <1>1, <1>3, <1>5, <3>2
    <3>3. QED
      BY <3>1, <3>2
  <2>2. ASSUME NEW i \in 1..Len(ms), NEW j \in 1..Len(ms), ms[i].val = ms[j].val PROVE i = j
    <3>1. CASE i # k /\ j # k
      BY <1>1, <2>2, <3>1 DEF Forest, OneSlot
    <3>2. CASE i = k \/ j = k
      BY <1>1, <1>5, <2>2, <3>2
    <3>3. QED
      BY <3>1, <3>2
  <2>3. QED
    BY <1>2, <1>3, <1>4, <2>1, <2>2, SubtreeType DEF Sound, Ready
<1>7. cap[c] \in Nat /\ (WithinCapacity => Len(ms) <= cap[c])
  BY <1>1 DEF WithinCapacity, TypeOK
<1>8. ASSUME NamesUnique, kind[c] = "object",
             NEW i \in 1..Len(ms), NEW j \in 1..Len(ms), ms[i].name = ms[j].name
      PROVE  i = j
  <2>1. \A l \in 1..Size(c) : ms[l].name = members[c][l].name
    BY <1>1
  <2>2. QED
    BY <1>1, <1>8, <2>1 DEF NamesUnique
<1>9. \A d \in Subtree(x) : Children(d) \subseteq Subtree(x)
  BY SubtreeClosed
<1>10. ASSUME NEW w \in Children(c) PROVE w \in Subtree(x) \/ \E i \in 1..Len(ms) : ms[i].val = w
  <2>1. PICK i \in 1..Size(c) : members[c][i].val = w
    BY DEF Children
  <2>2. CASE i = k
    BY <1>2, <2>1, <2>2, SubtreeSelf DEF x
  <2>3. CASE i # k
    BY <1>1, <2>1, <2>3
  <2>4. QED
    BY <2>2, <2>3
<1>11. \E i \in 1..Len(ms) : ms[i].val = v
  BY <1>1
<1>12. Write(Subtree(x), c, ms, cap[c], v, t)
  BY <1>1, <1>2, <1>6, <1>7, <1>8, <1>9, <1>10, <1>11 DEF Write, Ready, ms, x
<1>13. QED
  BY <1>12 DEF Written

(* The slots of c but k are filled from its old slots but k, each once. *)
AllBut(c, k, from) ==
  /\ from \in [1..(Size(c) - 1) -> 1..Size(c)]
  /\ \A i, j \in 1..(Size(c) - 1) : from[i] = from[j] => i = j
  /\ \A i \in 1..(Size(c) - 1) : from[i] # k
  /\ \A l \in 1..Size(c) : l # k => \E i \in 1..(Size(c) - 1) : from[i] = l

LEMMA ShortenWrites ==
  ASSUME TypeOK, Forest, NEW c \in Values, kind[c] # "free", NEW k \in 1..Size(c),
         NEW from, AllBut(c, k, from),
         Commit(Subtree(members[c][k].val), c,
                [j \in 1..(Size(c) - 1) |-> members[c][from[j]]], cap[c], NULL, "free")
  PROVE  Written
<1> DEFINE ms == [j \in 1..(Size(c) - 1) |-> members[c][from[j]]]
           x == members[c][k].val
<1>0. /\ from \in [1..(Size(c) - 1) -> 1..Size(c)]
      /\ \A i, j \in 1..(Size(c) - 1) : from[i] = from[j] => i = j
      /\ \A i \in 1..(Size(c) - 1) : from[i] # k
      /\ \A l \in 1..Size(c) : l # k => \E i \in 1..(Size(c) - 1) : from[i] = l
  BY DEF AllBut
<1>1. /\ ms \in Seq(Member) /\ Len(ms) = Size(c) - 1
      /\ \A i \in 1..(Size(c) - 1) : ms[i] = members[c][from[i]]
  BY <1>0, ShortenType
<1> HIDE DEF ms
<1>2. NULL \notin Values /\ x \in Children(c) /\ x \in Values /\ Size(c) \in Nat
  BY MemberType, HeapAssumption DEF Children
<1>3. Cut(Subtree(x), c) /\ c \notin Subtree(x)
      /\ \A w \in Children(c) : w # x => w \notin Subtree(x)
  BY <1>2, CutMember
<1>4. \A i \in 1..Len(ms) : ms[i].val \in Children(c) /\ ms[i].val # x
  <2>1. \A i \in 1..Len(ms) : ms[i].val \in Children(c)
    BY <1>0, <1>1 DEF Children
  <2>2. QED
    BY <1>0, <1>1, <2>1 DEF Forest, OneSlot
<1>5. \A d \in Subtree(x) : Children(d) \subseteq Subtree(x)
  BY SubtreeClosed
<1> HIDE DEF x
<1>6. Sound(Subtree(x), c, ms, NULL, "free")
  <2>1. ASSUME NEW i \in 1..Len(ms), NEW j \in 1..Len(ms), ms[i].val = ms[j].val PROVE i = j
    <3>1. i \in 1..(Size(c) - 1) /\ j \in 1..(Size(c) - 1)
      BY <1>1
    <3>2. from[i] \in 1..Size(c) /\ from[j] \in 1..Size(c)
      BY <1>0, <3>1
    <3>3. from[i] = from[j]
      BY <1>1, <2>1, <3>1, <3>2 DEF Forest, OneSlot
    <3>4. QED
      BY <1>0, <3>1, <3>3
  <2>2. NULL \notin Subtree(x)
    BY <1>2, SubtreeType
  <2>3. QED
    BY <1>2, <1>3, <1>4, <2>1, <2>2, SubtreeType DEF Sound
<1>7. cap[c] \in Nat /\ (WithinCapacity => Len(ms) <= cap[c])
  BY <1>1, <1>2 DEF WithinCapacity, TypeOK
<1>8. ASSUME NamesUnique, kind[c] = "object",
             NEW i \in 1..Len(ms), NEW j \in 1..Len(ms), ms[i].name = ms[j].name
      PROVE  i = j
  <2>1. i \in 1..(Size(c) - 1) /\ j \in 1..(Size(c) - 1)
    BY <1>1
  <2>2. from[i] \in 1..Size(c) /\ from[j] \in 1..Size(c)
    BY <1>0, <2>1
  <2>3. from[i] = from[j]
    BY <1>1, <1>8, <2>1, <2>2 DEF NamesUnique
  <2>4. QED
    BY <1>0, <2>1, <2>3
<1>9. ASSUME NEW w \in Children(c) PROVE w \in Subtree(x) \/ \E i \in 1..Len(ms) : ms[i].val = w
  <2>1. PICK l \in 1..Size(c) : members[c][l].val = w
    BY DEF Children
  <2>2. CASE l = k
    BY <1>2, <2>1, <2>2, SubtreeSelf DEF x
  <2>3. CASE l # k
    BY <1>0, <1>1, <2>1, <2>3
  <2>4. QED
    BY <2>2, <2>3
<1>10. Write(Subtree(x), c, ms, cap[c], NULL, "free")
  BY <1>1, <1>2, <1>5, <1>6, <1>7, <1>8, <1>9 DEF Write, Kinds, ms, x
<1>11. QED
  BY <1>10 DEF Written

-----------------------------------------------------------------------------
(***************************************************************************)
(* The operations that are such a write.                                   *)
(***************************************************************************)
LEMMA FreeWrites ==
  ASSUME TypeOK, Forest, NEW v \in Values, FreeValue(v)
  PROVE  Written
<1>1. NULL \notin Values /\ v \in held
  BY HeapAssumption DEF FreeValue
<1>2. \A e \in Values : v \notin Children(e)
  BY <1>1 DEF Forest, NotTheClients
<1>3. Cut(Subtree(v), NULL)
  BY <1>2, CutSubtree
<1>4. <<>> \in Seq(Member) /\ Len(<<>>) = 0 /\ Subtree(v) \subseteq Values
  BY SubtreeType
<1>5. Sound(Subtree(v), NULL, <<>>, NULL, "free")
  BY <1>1, <1>3, <1>4 DEF Sound
<1>6. \A d \in Subtree(v) : Children(d) \subseteq Subtree(v)
  BY SubtreeClosed
<1>7. Write(Subtree(v), NULL, <<>>, 0, NULL, "free")
  BY <1>1, <1>4, <1>5, <1>6 DEF Write, FreeValue, Kinds
<1>8. QED
  BY <1>7 DEF Written

LEMMA ClearWrites ==
  ASSUME TypeOK, Forest, NEW c \in Values, Clear(c)
  PROVE  Written
<1>1. NULL \notin Values /\ kind[c] # "free" /\ Children(c) \subseteq Values
  BY HeapAssumption, MemberType DEF Clear
<1>2. Subtrees(c) \subseteq Values
  BY SubtreeType DEF Subtrees
<1>3. Cut(Subtrees(c), c)
  <2> SUFFICES ASSUME NEW e \in Values, e \notin Subtrees(c), e # c
               PROVE  Children(e) \cap Subtrees(c) = {}
    BY DEF Cut
  <2>1. ASSUME NEW x \in Children(c) PROVE Children(e) \cap Subtree(x) = {}
    <3>1. e \notin Subtree(x)
      BY DEF Subtrees
    <3>2. QED
      BY <3>1, CutMember DEF Cut
  <2>2. QED
    BY <2>1 DEF Subtrees
<1>4. c \notin Subtrees(c)
  BY NoCycle DEF Subtrees
<1>5. \A d \in Subtrees(c) : Children(d) \subseteq Subtrees(c)
  BY SubtreeClosed DEF Subtrees
<1>6. \A w \in Children(c) : w \in Subtrees(c)
  BY <1>1, SubtreeSelf DEF Subtrees
<1>7. <<>> \in Seq(Member) /\ Len(<<>>) = 0 /\ cap[c] \in Nat
  BY DEF TypeOK
<1>8. Sound(Subtrees(c), c, <<>>, NULL, "free")
  BY <1>1, <1>2, <1>3, <1>4, <1>7 DEF Sound
<1>9. Write(Subtrees(c), c, <<>>, cap[c], NULL, "free")
  BY <1>1, <1>5, <1>6, <1>7, <1>8 DEF Write, Clear, Kinds
<1>10. QED
  BY <1>9 DEF Written

LEMMA PutWrites ==
  ASSUME TypeOK, Forest, NEW o \in Values, kind[o] # "free", NEW n \in Names,
         NEW v, NEW t, Ready(o, v, t), Put(o, n, v, t)
  PROVE  Written
<1>1. ASSUME NEW k \in Slots(o, n),
             Commit(Subtree(members[o][k].val), o,
                    [members[o] EXCEPT ![k] = [name |-> n, val |-> v]], cap[o], v, t)
      PROVE  Written
  <2> DEFINE m == [name |-> n, val |-> v]
  <2>1. m \in Member /\ m.val = v /\ m.name = n
    BY DEF Member, Ready
  <2>2. k \in 1..Size(o) /\ members[o][k].name = n
    BY DEF Slots
  <2>3. QED
    BY <1>1, <2>1, <2>2, OverwriteWrites
<1>2. CASE /\ Slots(o, n) = {}
           /\ Commit({}, o, Append(members[o], [name |-> n, val |-> v]), Grown(o), v, t)
  BY <1>2, AppendWrites
<1>3. QED
  BY <1>1, <1>2 DEF Put

LEMMA SetWrites ==
  ASSUME TypeOK, Forest, NEW o \in Values, NEW v \in Values, NEW n \in Names,
         SetValue(o, n, v) \/ SetLeaf(o, n, v)
  PROVE  Written
<1>1. CASE SetValue(o, n, v)
  BY <1>1, PassedIsReady, PutWrites DEF SetValue
<1>2. CASE SetLeaf(o, n, v)
  BY <1>2, FreeIsReady, PutWrites DEF SetLeaf, Kinds
<1>3. QED
  BY <1>1, <1>2

LEMMA AppendItemWrites ==
  ASSUME TypeOK, Forest, NEW a \in Values, NEW v \in Values,
         AppendValue(a, v) \/ AppendLeaf(a, v)
  PROVE  Written
<1>1. CASE AppendValue(a, v)
  BY <1>1, PassedIsReady, AppendWrites DEF AppendValue
<1>2. CASE AppendLeaf(a, v)
  BY <1>2, FreeIsReady, AppendWrites DEF AppendLeaf, Kinds
<1>3. QED
  BY <1>1, <1>2

LEMMA ReplaceWrites ==
  ASSUME TypeOK, Forest, NEW a \in Values, NEW v \in Values, NEW k \in 1..MaxMembers,
         ReplaceValue(a, k, v)
  PROVE  Written
<1> DEFINE m == [name |-> members[a][k].name, val |-> v]
<1>1. k \in 1..Size(a) /\ kind[a] # "free"
  BY MemberType, HeapAssumption DEF ReplaceValue
<1>2. members[a] \in Seq(Member) /\ members[a][k] \in Member
  BY <1>1, MemberType
<1>3. m \in Member /\ m.val = v /\ m.name = members[a][k].name
  BY <1>2 DEF Member
<1>4. [members[a] EXCEPT ![k].val = v] = [members[a] EXCEPT ![k] = m]
  <2>1. [members[a][k] EXCEPT !.val = v] = m
    BY <1>2 DEF Member
  <2>2. QED
    BY <2>1
<1>5. Ready(a, v, kind[v])
  BY PassedIsReady DEF ReplaceValue
<1>6. Commit(Subtree(members[a][k].val), a, [members[a] EXCEPT ![k] = m], cap[a], v, kind[v])
  BY <1>4 DEF ReplaceValue
<1>7. QED
  BY <1>1, <1>3, <1>5, <1>6, OverwriteWrites

LEMMA RemoveMemberWrites ==
  ASSUME TypeOK, Forest, NEW o \in Values, NEW n \in Names, RemoveMember(o, n)
  PROVE  Written
<1>1. PICK k \in Slots(o, n) :
       Commit(Subtree(members[o][k].val), o,
              [j \in 1..(Size(o) - 1) |-> IF j = k THEN members[o][Size(o)] ELSE members[o][j]],
              cap[o], NULL, "free")
  BY DEF RemoveMember
<1>2. k \in 1..Size(o) /\ Size(o) \in Nat /\ kind[o] # "free"
  BY MemberType DEF Slots, RemoveMember
<1> DEFINE from == [j \in 1..(Size(o) - 1) |-> IF j = k THEN Size(o) ELSE j]
<1>3. from \in [1..(Size(o) - 1) -> 1..Size(o)]
  BY <1>2
<1>4. \A i, j \in 1..(Size(o) - 1) : from[i] = from[j] => i = j
  BY <1>2
<1>5. \A i \in 1..(Size(o) - 1) : from[i] # k
  BY <1>2
<1>6. ASSUME NEW l \in 1..Size(o), l # k PROVE \E i \in 1..(Size(o) - 1) : from[i] = l
  <2>1. CASE l = Size(o)
    <3>1. k \in 1..(Size(o) - 1) /\ from[k] = l
      BY <1>2, <1>6, <2>1
    <3>2. QED
      BY <3>1
  <2>2. CASE l # Size(o)
    <3>1. l \in 1..(Size(o) - 1) /\ from[l] = l
      BY <1>2, <1>6, <2>2
    <3>2. QED
      BY <3>1
  <2>3. QED
    BY <2>1, <2>2
<1>7. [j \in 1..(Size(o) - 1) |-> IF j = k THEN members[o][Size(o)] ELSE members[o][j]]
        = [j \in 1..(Size(o) - 1) |-> members[o][from[j]]]
  OBVIOUS
<1> HIDE DEF from
<1>8. Commit(Subtree(members[o][k].val), o,
             [j \in 1..(Size(o) - 1) |-> members[o][from[j]]], cap[o], NULL, "free")
  BY <1>1, <1>7, Zenon
<1>9. AllBut(o, k, from)
  BY <1>3, <1>4, <1>5, <1>6 DEF AllBut
<1>10. QED
  BY <1>2, <1>8, <1>9, ShortenWrites

LEMMA RemoveItemWrites ==
  ASSUME TypeOK, Forest, NEW a \in Values, NEW k \in 1..MaxMembers, RemoveItem(a, k)
  PROVE  Written
<1>1. Commit(Subtree(members[a][k].val), a,
             [j \in 1..(Size(a) - 1) |-> members[a][IF j < k THEN j ELSE j + 1]],
             cap[a], NULL, "free")
  BY DEF RemoveItem
<1>2. k \in 1..Size(a) /\ Size(a) \in Nat /\ kind[a] # "free"
  BY MemberType, HeapAssumption DEF RemoveItem
<1> DEFINE from == [j \in 1..(Size(a) - 1) |-> IF j < k THEN j ELSE j + 1]
<1>3. from \in [1..(Size(a) - 1) -> 1..Size(a)]
  BY <1>2
<1>4. \A i, j \in 1..(Size(a) - 1) : from[i] = from[j] => i = j
  BY <1>2
<1>5. \A i \in 1..(Size(a) - 1) : from[i] # k
  BY <1>2
<1>6. ASSUME NEW l \in 1..Size(a), l # k PROVE \E i \in 1..(Size(a) - 1) : from[i] = l
  <2>1. CASE l < k
    <3>1. l \in 1..(Size(a) - 1) /\ from[l] = l
      BY <1>2, <1>6, <2>1
    <3>2. QED
      BY <3>1
  <2>2. CASE l > k
    <3>1. l - 1 \in 1..(Size(a) - 1) /\ from[l - 1] = l
      BY <1>2, <1>6, <2>2
    <3>2. QED
      BY <3>1
  <2>3. QED
    BY <1>2, <1>6, <2>1, <2>2
<1>7. [j \in 1..(Size(a) - 1) |-> members[a][IF j < k THEN j ELSE j + 1]]
        = [j \in 1..(Size(a) - 1) |-> members[a][from[j]]]
  OBVIOUS
<1> HIDE DEF from
<1>8. Commit(Subtree(members[a][k].val), a,
             [j \in 1..(Size(a) - 1) |-> members[a][from[j]]], cap[a], NULL, "free")
  BY <1>1, <1>7, Zenon
<1>9. AllBut(a, k, from)
  BY <1>3, <1>4, <1>5, <1>6 DEF AllBut
<1>10. QED
  BY <1>2, <1>8, <1>9, ShortenWrites

-----------------------------------------------------------------------------
(***************************************************************************)
(* The inductive invariant, and that a write keeps it and loses nothing.   *)
(***************************************************************************)
IInv == TypeOK /\ Forest /\ NamesUnique /\ WithinCapacity

LosesNothing == \A v \in Values : v \in Lost' \ Lost => kind[v] = "free"

LEMMA WriteKeeps ==
  ASSUME IInv, Written
  PROVE  IInv' /\ LosesNothing
<1>1. PICK D, c, ms, k, v, t : Write(D, c, ms, k, v, t)
  BY DEF Written
<1>2. /\ Commit(D, c, ms, k, v, t) /\ Sound(D, c, ms, v, t)
      /\ c \in Values \cup {NULL} /\ ms \in Seq(Member) /\ k \in Nat
      /\ v \in Values \cup {NULL} /\ t \in Kinds
  BY <1>1 DEF Write
<1>3. TypeOK'
  BY <1>2, CommitType DEF IInv
<1>4. Forest'
  BY <1>2, CommitForest DEF IInv
<1>5. \A e \in Values : members'[e] = IF e \in D THEN <<>> ELSE IF e = c THEN ms ELSE members[e]
  BY <1>2 DEF Commit
<1>6. \A e \in Values : cap'[e] = IF e \in D THEN 0 ELSE IF e = c THEN k ELSE cap[e]
  BY <1>2 DEF Commit
<1>7. \A e \in Values : kind'[e] = IF e \in D THEN "free" ELSE IF e = v THEN t ELSE kind[e]
  BY <1>2 DEF Commit
<1>8. NamesUnique'
  <2> SUFFICES ASSUME NEW e \in Values, kind'[e] = "object",
                      NEW i \in 1..Len(members'[e]), NEW j \in 1..Len(members'[e]),
                      members'[e][i].name = members'[e][j].name
               PROVE  i = j
    BY DEF NamesUnique, Size
  <2>1. e \notin D
    BY <1>7
  <2>2. CASE e = c
    <3>1. kind[c] = "object"
      BY <1>2, <1>7, <2>1, <2>2 DEF Sound
    <3>2. QED
      BY <1>1, <1>5, <2>1, <2>2, <3>1 DEF Write, IInv
  <2>3. CASE e # c
    <3>1. members'[e] = members[e]
      BY <1>5, <2>1, <2>3
    <3>2. kind[e] = "object" \/ kind[e] = "free"
      BY <1>1, <1>7, <2>1 DEF Write
    <3>3. CASE kind[e] = "free"
      BY <3>1, <3>3 DEF IInv, Forest, FreeIsBlank
    <3>4. CASE kind[e] = "object"
      BY <3>1, <3>4 DEF IInv, NamesUnique, Size
    <3>5. QED
      BY <3>2, <3>3, <3>4
  <2>4. QED
    BY <2>2, <2>3
<1>9. WithinCapacity'
  BY <1>1, <1>5, <1>6 DEF IInv, WithinCapacity, Size, Write
<1>10. ASSUME NEW x \in Values, x \in Lost', x \notin Lost PROVE kind[x] = "free"
  <2> SUFFICES ASSUME kind[x] # "free" PROVE FALSE
    OBVIOUS
  <2>1. x \notin D /\ x \notin held' /\ \A e \in Values : x \notin Children(e)'
    BY <1>7, <1>10 DEF Lost, Alive
  <2>2. \A e \in Values : Children(e)' = {members'[e][i].val : i \in 1..Len(members'[e])}
    BY DEF Children, Size
  <2>3. CASE x \in held
    <3>1. x = v
      BY <1>2, <2>1, <2>3 DEF Commit
    <3>2. c \in Values /\ c \notin D /\ \E i \in 1..Len(ms) : ms[i].val = x
      BY <1>1, <1>2, <3>1 DEF Write, Sound
    <3>3. QED
      BY <1>5, <2>1, <2>2, <3>2
  <2>4. ASSUME NEW e \in Values, x \in Children(e) PROVE FALSE
    <3>1. e \notin D
      BY <1>1, <2>1, <2>4 DEF Write
    <3>2. e # c
      <4> SUFFICES ASSUME e = c PROVE FALSE
        OBVIOUS
      <4>1. \E i \in 1..Len(ms) : ms[i].val = x
        BY <1>1, <2>1, <2>4 DEF Write
      <4>2. QED
        BY <1>5, <2>1, <2>2, <3>1, <4>1
    <3>3. QED
      BY <1>5, <2>1, <2>2, <2>4, <3>1, <3>2 DEF Children, Size
  <2>5. QED
    BY <1>10, <2>3, <2>4 DEF Lost, Alive
<1>11. QED
  BY <1>3, <1>4, <1>8, <1>9, <1>10 DEF IInv, LosesNothing

-----------------------------------------------------------------------------
(***************************************************************************)
(* The operations that put nothing into a container: a value is made, or   *)
(* an allocation fails.                                                    *)
(***************************************************************************)
Quiet ==
  /\ members' = members
  /\ \A x \in Values : kind'[x] = kind[x] \/ (kind[x] = "free" /\ kind'[x] # "free")
  /\ \A x \in Values : parent'[x] = parent[x] \/ Loose(x)
  /\ held \subseteq held'
  /\ \A x \in held' \ held : kind[x] = "free" /\ kind'[x] # "free"
  /\ \A x \in Values : cap'[x] >= cap[x]

LEMMA QuietKeeps ==
  ASSUME IInv, TypeOK', Quiet
  PROVE  IInv' /\ LosesNothing
<1>1. \A e \in Values : Children(e)' = Children(e) /\ Children(e) \subseteq Values
  BY MemberType DEF Children, Size, Quiet, IInv
<1>2. FreeIsBlank'
  BY DEF IInv, Forest, FreeIsBlank, Quiet, TypeOK
<1>3. NoDanglingMember'
  BY <1>1 DEF IInv, Forest, NoDanglingMember, Alive, Quiet
<1>4. ParentKnown'
  BY <1>1 DEF IInv, Forest, ParentKnown, Quiet, Loose
<1>5. OneSlot'
  BY DEF IInv, Forest, OneSlot, Quiet, Size
<1>6. NotTheClients'
  BY <1>1 DEF IInv, Forest, NotTheClients, NoDanglingMember, Alive, Quiet
<1>7. Rooted'
  BY <1>1 DEF IInv, Forest, Rooted
<1>8. NamesUnique'
  <2> SUFFICES ASSUME NEW e \in Values, kind'[e] = "object",
                      NEW i \in 1..Size(e), NEW j \in 1..Size(e),
                      members[e][i].name = members[e][j].name
               PROVE  i = j
    BY DEF NamesUnique, Quiet, Size
  <2>1. CASE kind[e] = "free"
    BY <2>1 DEF IInv, Forest, FreeIsBlank, Size
  <2>2. CASE kind[e] # "free"
    BY <2>2 DEF IInv, NamesUnique, Quiet
  <2>3. QED
    BY <2>1, <2>2
<1>9. WithinCapacity'
  <2> SUFFICES ASSUME NEW e \in Values PROVE Size(e) <= cap'[e]
    BY DEF WithinCapacity, Quiet, Size
  <2>1. Size(e) \in Nat /\ cap[e] \in Nat /\ cap'[e] \in Nat
    BY MemberType DEF IInv, TypeOK
  <2>2. Size(e) <= cap[e] /\ cap[e] <= cap'[e]
    BY DEF IInv, WithinCapacity, Quiet
  <2>3. QED
    BY <2>1, <2>2
<1>10. LosesNothing
  BY <1>1 DEF LosesNothing, Lost, Alive, Quiet
<1>11. QED
  BY <1>2, <1>3, <1>4, <1>5, <1>6, <1>7, <1>8, <1>9, <1>10 DEF IInv, Forest

LEMMA AddFailsType ==
  ASSUME TypeOK, NEW c \in Values, AddFails(c)
  PROVE  cap' \in [Values -> Nat] /\ \A x \in Values : cap'[x] >= cap[x]
<1>1. Grown(c) \in Nat /\ Grown(c) >= cap[c]
  BY GrownType
<1>2. cap \in [Values -> Nat]
  BY DEF TypeOK
<1>3. CASE cap' = cap
  BY <1>2, <1>3
<1>4. CASE cap' = [cap EXCEPT ![c] = Grown(c)]
  BY <1>1, <1>2, <1>4
<1>5. QED
  BY <1>3, <1>4 DEF AddFails

LEMMA NewValueKeeps ==
  ASSUME IInv, NEW v \in Values, NEW t \in {"leaf", "object", "array"}, NewValue(v, t)
  PROVE  IInv' /\ LosesNothing
<1>1. TypeOK'
  BY DEF IInv, TypeOK, NewValue
<1>2. Loose(v)
  BY DEF IInv, Forest, NoDanglingMember, Alive, Loose, NewValue
<1>3. Quiet
  BY <1>2 DEF Quiet, NewValue, IInv, TypeOK
<1>4. QED
  BY <1>1, <1>3, QuietKeeps

LEMMA SetValueFailsKeeps ==
  ASSUME IInv, NEW o \in Values, NEW n \in Names, NEW v \in Values, SetValueFails(o, n, v)
  PROVE  IInv' /\ LosesNothing
<1>1. cap' \in [Values -> Nat] /\ \A x \in Values : cap'[x] >= cap[x]
  BY AddFailsType DEF SetValueFails, IInv
<1>2. TypeOK' /\ Quiet
  BY <1>1 DEF IInv, TypeOK, Quiet, SetValueFails
<1>3. QED
  BY <1>2, QuietKeeps

LEMMA SetLeafFailsKeeps ==
  ASSUME IInv, NEW o \in Values, NEW n \in Names, NEW v \in Values, SetLeafFails(o, n, v)
  PROVE  IInv' /\ LosesNothing
<1>1. cap' \in [Values -> Nat] /\ \A x \in Values : cap'[x] >= cap[x]
  BY AddFailsType DEF SetLeafFails, IInv
<1>2. Loose(v)
  BY DEF IInv, Forest, NoDanglingMember, Alive, Loose, SetLeafFails
<1>3. TypeOK' /\ Quiet
  BY <1>1, <1>2 DEF IInv, TypeOK, Quiet, SetLeafFails
<1>4. QED
  BY <1>3, QuietKeeps

LEMMA DotSetUndoneKeeps ==
  ASSUME IInv, NEW o \in Values, NEW n \in Names, NEW v \in Values, NEW w \in Values,
         DotSetUndone(o, n, v, w)
  PROVE  IInv' /\ LosesNothing
<1>1. cap' \in [Values -> Nat] /\ \A x \in Values : cap'[x] >= cap[x]
  BY AddFailsType DEF DotSetUndone, IInv
<1>2. Loose(v)
  BY PassedIsReady DEF IInv, DotSetUndone, Ready
<1>3. TypeOK' /\ Quiet
  BY <1>1, <1>2 DEF IInv, TypeOK, Quiet, DotSetUndone
<1>4. QED
  BY <1>3, QuietKeeps

-----------------------------------------------------------------------------
(***************************************************************************)
(* json_object_dotset_value() adds two pointers: from the new object w to  *)
(* v, and from o to w.                                                     *)
(***************************************************************************)
LEMMA DotSetKeeps ==
  ASSUME IInv, NEW o \in Values, NEW n \in Names, NEW m \in Names,
         NEW v \in Values, NEW w \in Values, DotSet(o, n, m, v, w)
  PROVE  IInv' /\ LosesNothing
<1> DEFINE one == <<[name |-> m, val |-> v]>>
           ms == Append(members[o], [name |-> n, val |-> w])
<1>1. TypeOK /\ Forest
  BY DEF IInv
<1>2. /\ kind[o] = "object" /\ kind[w] = "free" /\ kind[v] # "free"
      /\ o # w /\ v # w /\ o # v /\ o \notin Subtree(v)
  BY SubtreeSelf DEF DotSet, CanPass, Alive
<1>3. Loose(v) /\ Loose(w)
  BY <1>1, <1>2, PassedIsReady DEF DotSet, Ready, Forest, NoDanglingMember, Alive, Loose
<1>4. members[w] = <<>> /\ w \notin held
  BY <1>1, <1>2 DEF Forest, FreeIsBlank
<1>5. one \in Seq(Member) /\ Len(one) = 1 /\ one[1] = [name |-> m, val |-> v]
  BY DEF Member
<1>6. /\ ms \in Seq(Member) /\ Len(ms) = Size(o) + 1 /\ Size(o) \in Nat
      /\ ms[Size(o) + 1] = [name |-> n, val |-> w]
      /\ \A i \in 1..Size(o) : ms[i] = members[o][i]
  BY <1>1, AppendType, MemberType
<1> HIDE DEF one, ms
<1>7. \A e \in Values : members'[e] = IF e = w THEN one ELSE IF e = o THEN ms ELSE members[e]
  BY <1>1, <1>2 DEF DotSet, TypeOK, one, ms
<1>8. \A e \in Values : kind'[e] = IF e = w THEN "object" ELSE kind[e]
  BY <1>1 DEF DotSet, TypeOK
<1>9. \A e \in Values : parent'[e] = IF e = w THEN o ELSE IF e = v THEN w ELSE parent[e]
  BY <1>1, <1>2 DEF DotSet, TypeOK
<1>10. held' = held \ {v}
  BY DEF DotSet
<1>11. \A e \in Values : Children(e)' = IF e = w THEN {v}
                                        ELSE IF e = o THEN Children(o) \cup {w} ELSE Children(e)
  <2>1. \A e \in Values : Children(e)' = {members'[e][i].val : i \in 1..Len(members'[e])}
    BY DEF Children, Size
  <2>2. Children(w)' = {v}
    <3>1. Children(w)' = {one[i].val : i \in {1}}
      BY <1>5, <1>7, <2>1
    <3>2. QED
      BY <1>5, <3>1
  <2>3. Children(o)' = Children(o) \cup {w}
    <3>1. Children(o)' = {ms[i].val : i \in 1..(Size(o) + 1)}
      BY <1>2, <1>6, <1>7, <2>1
    <3>2. 1..(Size(o) + 1) = 1..Size(o) \cup {Size(o) + 1}
      BY <1>6
    <3>3. Children(o)' = {ms[i].val : i \in 1..Size(o)} \cup {ms[Size(o) + 1].val}
      BY <3>1, <3>2
    <3>4. {ms[i].val : i \in 1..Size(o)} = Children(o)
      BY <1>6 DEF Children
    <3>5. QED
      BY <1>6, <3>3, <3>4
  <2>4. \A e \in Values : e # w /\ e # o => Children(e)' = Children(e)
    BY <1>7 DEF Children, Size
  <2>5. QED
    BY <1>2, <2>2, <2>3, <2>4
<1>12. TypeOK'
  <2>1. Grown(o) \in Nat /\ StartCap \in Nat
    BY <1>1, GrownType, HeapAssumption
  <2>2. members' \in [Values -> Seq(Member)]
    BY <1>1, <1>5, <1>6 DEF TypeOK, DotSet, one, ms
  <2>3. QED
    BY <1>1, <2>1, <2>2 DEF TypeOK, DotSet
<1>13. FreeIsBlank'
  BY <1>1, <1>2, <1>7, <1>8, <1>10 DEF Forest, FreeIsBlank
<1>14. NoDanglingMember'
  <2> SUFFICES ASSUME NEW e \in Values, NEW x \in Children(e)'
               PROVE  kind'[e] # "free" /\ kind'[x] # "free"
    BY DEF NoDanglingMember, Alive
  <2>1. e = w \/ e = o \/ kind[e] # "free"
    BY <1>1, <1>11 DEF Forest, NoDanglingMember, Alive
  <2>2. x \in Values /\ (x = w \/ x = v \/ kind[x] # "free")
    BY <1>1, <1>11, MemberType DEF Forest, NoDanglingMember, Alive
  <2>3. QED
    BY <1>2, <1>8, <2>1, <2>2
<1>15. ParentKnown'
  BY <1>1, <1>2, <1>3, <1>9, <1>11, MemberType, SMTT(40) DEF Forest, ParentKnown, Loose
<1>16. OneSlot'
  <2> SUFFICES ASSUME NEW e \in Values,
                      NEW i \in 1..Len(members'[e]), NEW j \in 1..Len(members'[e]),
                      members'[e][i].val = members'[e][j].val
               PROVE  i = j
    BY DEF OneSlot, Size
  <2>1. CASE e = w
    BY <1>5, <1>7, <2>1
  <2>2. CASE e = o
    <3>1. \A l \in 1..Size(o) : ms[l].val # w
      BY <1>3, <1>6 DEF Loose, Children
    <3>2. CASE i \in 1..Size(o) /\ j \in 1..Size(o)
      BY <1>1, <1>2, <1>6, <1>7, <2>2, <3>2 DEF Forest, OneSlot
    <3>3. CASE ~(i \in 1..Size(o) /\ j \in 1..Size(o))
      BY <1>2, <1>6, <1>7, <2>2, <3>1, <3>3
    <3>4. QED
      BY <3>2, <3>3
  <2>3. CASE e # w /\ e # o
    BY <1>1, <1>7, <2>3 DEF Forest, OneSlot, Size
  <2>4. QED
    BY <2>1, <2>2, <2>3
<1>17. NotTheClients'
  BY <1>1, <1>3, <1>4, <1>10, <1>11 DEF Forest, NotTheClients
<1>18. Rooted'
  <2> SUFFICES ASSUME NEW S \in SUBSET Values, \A x \in S : \E y \in S : x \in Children(y)'
               PROVE  S = {}
    BY DEF Rooted
  <2>1. v \in Subtree(v)
    BY SubtreeSelf
  <2> DEFINE T == S \ (Subtree(v) \cup {w})
  <2>2. ASSUME NEW t \in T PROVE \E y \in T : t \in Children(y)
    <3>1. PICK y \in S : t \in Children(y)'
      OBVIOUS
    <3>2. y # w /\ t \in Children(y)
      BY <1>11, <2>1, <3>1
    <3>3. y \notin Subtree(v)
      BY <1>1, <3>2, SubtreeClosed
    <3>4. QED
      BY <3>2, <3>3
  <2>3. T = {}
    BY <1>1, <2>2 DEF Forest, Rooted
  <2>4. o \notin S
    BY <1>2, <2>3
  <2>5. w \notin S
    BY <1>2, <1>3, <1>11, <2>4 DEF Loose
  <2>6. \A x \in S : \E y \in S : x \in Children(y)
    BY <1>11, <2>4, <2>5
  <2>7. QED
    BY <1>1, <2>6 DEF Forest, Rooted
<1>19. NamesUnique'
  <2> SUFFICES ASSUME NEW e \in Values, kind'[e] = "object",
                      NEW i \in 1..Len(members'[e]), NEW j \in 1..Len(members'[e]),
                      members'[e][i].name = members'[e][j].name
               PROVE  i = j
    BY DEF NamesUnique, Size
  <2>1. CASE e = w
    BY <1>5, <1>7, <2>1
  <2>2. CASE e = o
    <3>1. \A l \in 1..Size(o) : ms[l].name # n
      BY <1>6 DEF DotSet, Slots
    <3>2. CASE i \in 1..Size(o) /\ j \in 1..Size(o)
      BY <1>2, <1>6, <1>7, <2>2, <3>2, SMTT(40) DEF IInv, NamesUnique
    <3>3. CASE ~(i \in 1..Size(o) /\ j \in 1..Size(o))
      BY <1>2, <1>6, <1>7, <2>2, <3>1, <3>3
    <3>4. QED
      BY <3>2, <3>3
  <2>3. CASE e # w /\ e # o
    BY <1>7, <1>8, <2>3 DEF IInv, NamesUnique, Size
  <2>4. QED
    BY <2>1, <2>2, <2>3
<1>20. WithinCapacity'
  <2>1. \A e \in Values : cap'[e] = IF e = o THEN Grown(o) ELSE IF e = w THEN StartCap ELSE cap[e]
    BY <1>1, <1>2 DEF DotSet, TypeOK
  <2>2. Size(o) + 1 <= Grown(o) /\ 1 <= StartCap
    BY <1>1, GrownType, HeapAssumption DEF IInv, WithinCapacity
  <2> SUFFICES ASSUME NEW e \in Values PROVE Len(members'[e]) <= cap'[e]
    BY DEF WithinCapacity, Size
  <2>3. CASE e = w
    BY <1>2, <1>5, <1>7, <2>1, <2>2, <2>3
  <2>4. CASE e = o
    BY <1>2, <1>6, <1>7, <2>1, <2>2, <2>4
  <2>5. CASE e # w /\ e # o
    BY <1>7, <2>1, <2>5 DEF IInv, WithinCapacity, Size
  <2>6. QED
    BY <2>3, <2>4, <2>5
<1>21. LosesNothing
  <2>1. ASSUME NEW x \in Values, x \in Lost', kind[x] # "free" PROVE x \in Lost
    <3>1. x \notin held' /\ \A e \in Values : x \notin Children(e)'
      BY <2>1 DEF Lost
    <3>2. x # v /\ \A e \in Values : x \notin Children(e)
      <4>1. x # v
        BY <1>11, <3>1
      <4>2. Children(w) = {}
        BY <1>4 DEF Children, Size
      <4>3. QED
        BY <1>11, <3>1, <4>1, <4>2
    <3>3. QED
      BY <1>10, <2>1, <3>1, <3>2 DEF Lost, Alive
  <2>2. QED
    BY <2>1 DEF LosesNothing
<1>22. QED
  BY <1>12, <1>13, <1>14, <1>15, <1>16, <1>17, <1>18, <1>19, <1>20, <1>21 DEF IInv, Forest

-----------------------------------------------------------------------------
LEMMA IInvInit == ASSUME Init PROVE IInv
<1>1. TypeOK
  BY DEF Init, TypeOK
<1>2. \A c \in Values : Children(c) = {} /\ Size(c) = 0
  BY DEF Init, Children, Size
<1>3. Forest
  BY <1>2 DEF Init, Forest, FreeIsBlank, NoDanglingMember, ParentKnown, OneSlot,
              NotTheClients, Rooted
<1>4. NamesUnique /\ WithinCapacity
  BY <1>2 DEF Init, NamesUnique, WithinCapacity
<1>5. QED
  BY <1>1, <1>3, <1>4 DEF IInv

LEMMA IInvNext == ASSUME IInv, Next PROVE IInv' /\ LosesNothing
<1>0. TypeOK /\ Forest
  BY DEF IInv
<1>1. ASSUME NEW v \in Values, FreeValue(v) PROVE IInv' /\ LosesNothing
  BY <1>0, <1>1, FreeWrites, WriteKeeps
<1>2. ASSUME NEW v \in Values, NEW t \in {"leaf", "object", "array"}, NewValue(v, t)
      PROVE  IInv' /\ LosesNothing
  BY <1>2, NewValueKeeps
<1>3. ASSUME NEW o \in Values, NEW v \in Values, NEW n \in Names,
             SetValue(o, n, v) \/ SetLeaf(o, n, v)
      PROVE  IInv' /\ LosesNothing
  BY <1>0, <1>3, SetWrites, WriteKeeps
<1>4. ASSUME NEW o \in Values, NEW v \in Values, NEW n \in Names,
             SetValueFails(o, n, v) \/ SetLeafFails(o, n, v)
      PROVE  IInv' /\ LosesNothing
  BY <1>4, SetValueFailsKeeps, SetLeafFailsKeeps
<1>5. ASSUME NEW o \in Values, NEW n \in Names, RemoveMember(o, n) PROVE IInv' /\ LosesNothing
  BY <1>0, <1>5, RemoveMemberWrites, WriteKeeps
<1>6. ASSUME NEW c \in Values, Clear(c) PROVE IInv' /\ LosesNothing
  BY <1>0, <1>6, ClearWrites, WriteKeeps
<1>7. ASSUME NEW a \in Values, NEW v \in Values, AppendValue(a, v) \/ AppendLeaf(a, v)
      PROVE  IInv' /\ LosesNothing
  BY <1>0, <1>7, AppendItemWrites, WriteKeeps
<1>8. ASSUME NEW a \in Values, NEW v \in Values, NEW k \in 1..MaxMembers, ReplaceValue(a, k, v)
      PROVE  IInv' /\ LosesNothing
  BY <1>0, <1>8, ReplaceWrites, WriteKeeps
<1>9. ASSUME NEW a \in Values, NEW k \in 1..MaxMembers, RemoveItem(a, k)
      PROVE  IInv' /\ LosesNothing
  BY <1>0, <1>9, RemoveItemWrites, WriteKeeps
<1>10. ASSUME NEW o \in Values, NEW v \in Values, NEW w \in Values, NEW n \in Names,
              DotSetUndone(o, n, v, w)
       PROVE  IInv' /\ LosesNothing
  BY <1>10, DotSetUndoneKeeps
<1>11. ASSUME NEW o \in Values, NEW v \in Values, NEW w \in Values,
              NEW n \in Names, NEW m \in Names, DotSet(o, n, m, v, w)
       PROVE  IInv' /\ LosesNothing
  BY <1>11, DotSetKeeps
<1>12. QED
  BY <1>1, <1>2, <1>3, <1>4, <1>5, <1>6, <1>7, <1>8, <1>9, <1>10, <1>11, Zenon DEF Next

LEMMA IInvStutters == ASSUME IInv, UNCHANGED vars PROVE IInv' /\ LosesNothing
<1>1. /\ kind' = kind /\ parent' = parent /\ members' = members
      /\ cap' = cap /\ held' = held
  BY DEF vars
<1>2. TypeOK' /\ Quiet
  BY <1>1 DEF IInv, TypeOK, Quiet
<1>3. QED
  BY <1>2, QuietKeeps

(* The heap of parson.c is always a forest of well-formed containers. *)
THEOREM HeapInvariant == Spec => []IInv
<1>1. Init => IInv
  BY IInvInit
<1>2. IInv /\ [Next]_vars => IInv'
  BY IInvNext, IInvStutters
<1>3. QED
  BY <1>1, <1>2, PTL DEF Spec

(* Type correctness: every operation writes values of the declared kinds. *)
THEOREM HeapTypeCorrect == Spec => []TypeOK
<1>1. IInv => TypeOK
  BY DEF IInv
<1>2. QED
  BY <1>1, HeapInvariant, PTL

(* No container points to freed memory, whatever is freed, replaced, removed *)
(* or cleared, and whichever allocation fails.                               *)
THEOREM HeapNoDangling == Spec => []NoDanglingMember
<1>1. IInv => NoDanglingMember
  BY DEF IInv, Forest
<1>2. QED
  BY <1>1, HeapInvariant, PTL

(* A value has one owner, the client or one slot of one container, so that *)
(* json_value_free() frees no value twice.                                 *)
THEOREM HeapOwnedOnce == Spec => []OwnedOnce
<1>1. IInv => OwnedOnce
  BY ForestOwns DEF IInv
<1>2. QED
  BY <1>1, HeapInvariant, PTL

(* json_value_get_parent() of a member is the container that holds it. *)
THEOREM HeapParentKnown == Spec => []ParentKnown
<1>1. IInv => ParentKnown
  BY DEF IInv, Forest
<1>2. QED
  BY <1>1, HeapInvariant, PTL

(* Sets, removals and failed allocations never give an object two members *)
(* of one name.                                                           *)
THEOREM HeapNamesUnique == Spec => []NamesUnique
<1>1. IInv => NamesUnique
  BY DEF IInv
<1>2. QED
  BY <1>1, HeapInvariant, PTL

(* No container outgrows its arrays, whatever StartCap and the doublings. *)
THEOREM HeapWithinCapacity == Spec => []WithinCapacity
<1>1. IInv => WithinCapacity
  BY DEF IInv
<1>2. QED
  BY <1>1, HeapInvariant, PTL

(* No operation loses a value that was there before it, even one whose *)
(* allocation fails half-way.                                          *)
THEOREM HeapLosesNothing == Spec => NothingLost
<1>1. IInv /\ [Next]_vars => [LosesNothing]_vars
  BY IInvNext
<1>2. Spec => [][LosesNothing]_vars
  BY <1>1, HeapInvariant, PTL DEF Spec
<1>3. QED
  BY <1>2, PTL DEF NothingLost, LosesNothing

-----------------------------------------------------------------------------
(* Induction over data *)

LessThan == {pair \in Nat \X Nat : pair[1] < pair[2]}

(* A set of natural numbers has a least element. *)
LEMMA LeastNumber ==
  ASSUME NEW T \in SUBSET Nat, T # {}
  PROVE  \E n \in T : \A m \in T : n <= m
<1>1. IsWellFoundedOn(LessThan, Nat)
  BY NatLessThanWellFounded DEF OpToRel, LessThan
<1>2. PICK n \in T : \A m \in T : <<m, n>> \notin LessThan
  BY <1>1, WFMin
<1>3. ASSUME NEW m \in T PROVE n <= m
  <2>1. ~(m < n)
    BY <1>2 DEF LessThan
  <2>2. QED
    BY <2>1
<1>4. QED
  BY <1>3

(* A set that has 0, and with any number the next, has all of them. *)
LEMMA AllNumbers ==
  ASSUME NEW T, 0 \in T, \A n \in Nat : n \in T => n + 1 \in T
  PROVE  Nat \subseteq T
<1> SUFFICES ASSUME Nat \ T # {} PROVE FALSE
  OBVIOUS
<1>1. PICK n \in Nat \ T : \A m \in Nat \ T : n <= m
  BY LeastNumber
<1>2. n - 1 \in Nat /\ n - 1 \in T
  BY <1>1
<1>3. QED
  BY <1>1, <1>2

(* A set that has n, and with any number up to n the one before, has all *)
(* up to n.                                                              *)
LEMMA AllNumbersDown ==
  ASSUME NEW T, NEW n \in Nat, n \in T, \A k \in 1..n : k \in T => k - 1 \in T
  PROVE  0..n \subseteq T
<1> DEFINE D == {k \in Nat : k <= n => n - k \in T}
<1>1. 0 \in D
  OBVIOUS
<1>2. ASSUME NEW k \in Nat, k \in D PROVE k + 1 \in D
  <2>1. CASE k + 1 <= n
    <3>1. n - k \in T /\ n - k \in 1..n
      BY <1>2, <2>1
    <3>2. (n - k) - 1 \in T
      BY <3>1
    <3>3. QED
      BY <3>2, <2>1
  <2>2. QED
    BY <2>1
<1> HIDE DEF D
<1>3. Nat \subseteq D
  BY <1>1, <1>2, AllNumbers
<1>4. ASSUME NEW k \in 0..n PROVE k \in T
  <2>1. n - k \in D /\ n - k <= n /\ n - (n - k) = k
    BY <1>3
  <2>2. QED
    BY <2>1 DEF D
<1>5. QED
  BY <1>4

(* The ways to go on from a value in T at a number, and to compute a value *)
(* at an argument from the function defined so far.  They have names for a *)
(* prover to know the lemmas below apply.                                  *)
Steps(T) == [Nat \X T -> T]
Bodies(S, V) == [S \X [S -> V] -> V]
Ranks(S) == [S -> Nat]

(* What is computed at an argument depends on those of smaller rank only. *)
Descending(S, V, rank, value) ==
  \A i \in S : \A g, h \in [S -> V] :
    (\A j \in S : rank[j] < rank[i] => g[j] = h[j]) => value[<<i, g>>] = value[<<i, h>>]

(* A first value and a way to go on from any value make a function. *)
LEMMA Recursion ==
  ASSUME NEW T, NEW c \in T, NEW step \in Steps(T)
  PROVE  \E f \in [Nat -> T] : f[0] = c /\ \A n \in Nat : f[n + 1] = step[<<n, f[n]>>]
<1> USE DEF Steps
<1> DEFINE Upto(n) == {g \in [0..n -> T] :
                         g[0] = c /\ \A i \in 0..n - 1 : g[i + 1] = step[<<i, g[i]>>]}
           Have == {n \in Nat : Upto(n) # {}}
           Agree == {n \in Nat : \A k, l \in Nat : n <= k /\ n <= l =>
                       \A g \in Upto(k), h \in Upto(l) : g[n] = h[n]}
           f == [n \in Nat |-> (CHOOSE g \in Upto(n) : TRUE)[n]]
<1>1. Nat \subseteq Have
  <2>1. [i \in 0..0 |-> c] \in Upto(0)
    OBVIOUS
  <2>2. ASSUME NEW n \in Nat, n \in Have PROVE n + 1 \in Have
    <3>1. PICK g \in Upto(n) : TRUE
      BY <2>2
    <3> DEFINE h == [i \in 0..n + 1 |-> IF i = n + 1 THEN step[<<n, g[n]>>] ELSE g[i]]
    <3>2. /\ g \in [0..n -> T] /\ g[0] = c
          /\ \A i \in 0..n - 1 : g[i + 1] = step[<<i, g[i]>>]
      BY <3>1
    <3>3. step[<<n, g[n]>>] \in T
      BY <3>2
    <3>4. h \in [0..n + 1 -> T] /\ h[0] = c
      BY <3>2, <3>3
    <3>5. ASSUME NEW i \in 0..(n + 1) - 1 PROVE h[i + 1] = step[<<i, h[i]>>]
      <4>1. CASE i = n
        <5>1. h[n + 1] = step[<<n, g[n]>>] /\ h[n] = g[n]
          OBVIOUS
        <5>2. QED
          BY <4>1, <5>1
      <4>2. CASE i # n
        <5>1. i \in 0..n - 1 /\ i + 1 \in 0..n /\ i \in 0..n
          BY <4>2
        <5>2. h[i + 1] = g[i + 1] /\ h[i] = g[i]
          BY <5>1
        <5>3. QED
          BY <5>1, <5>2, <3>2
      <4>3. QED
        BY <4>1, <4>2
    <3>6. h \in Upto(n + 1)
      BY <3>4, <3>5
    <3> HIDE DEF Upto
    <3>7. n + 1 \in Nat /\ Upto(n + 1) # {}
      BY <3>6
    <3>8. QED
      BY <3>7
  <2>3. 0 \in Have
    BY <2>1
  <2> HIDE DEF Have
  <2>4. QED
    BY <2>2, <2>3, AllNumbers
<1>2. Nat \subseteq Agree
  <2>1. 0 \in Agree
    OBVIOUS
  <2>2. ASSUME NEW n \in Nat, n \in Agree PROVE n + 1 \in Agree
    <3>1. SUFFICES ASSUME NEW k \in Nat, NEW l \in Nat, n + 1 <= k, n + 1 <= l,
                          NEW g \in Upto(k), NEW h \in Upto(l)
                   PROVE  g[n + 1] = h[n + 1]
      BY SMTT(40)
    <3>2. g[n] = h[n]
      BY <2>2, <3>1, SMTT(40)
    <3>3. n \in 0..k - 1 /\ n \in 0..l - 1
      BY <3>1
    <3>4. g[n + 1] = step[<<n, g[n]>>] /\ h[n + 1] = step[<<n, h[n]>>]
      BY <3>3
    <3>5. QED
      BY <3>2, <3>4
  <2> HIDE DEF Agree
  <2>3. QED
    BY <2>1, <2>2, AllNumbers
<1>3. ASSUME NEW n \in Nat
      PROVE  \E g \in Upto(n) : f[n] = g[n]
  <2>1. Upto(n) # {}
    BY <1>1
  <2>2. (CHOOSE g \in Upto(n) : TRUE) \in Upto(n)
    BY <2>1
  <2>3. QED
    BY <2>2
<1> HIDE DEF f
<1>4. ASSUME NEW n \in Nat PROVE f[n] \in T
  BY <1>3
<1>5. f \in [Nat -> T]
  BY <1>4 DEF f
<1>6. f[0] = c
  BY <1>3
<1>7. ASSUME NEW n \in Nat PROVE f[n + 1] = step[<<n, f[n]>>]
  <2>1. PICK g \in Upto(n) : f[n] = g[n]
    BY <1>3
  <2>2. PICK h \in Upto(n + 1) : f[n + 1] = h[n + 1]
    <3>1. n + 1 \in Nat
      OBVIOUS
    <3> HIDE DEF Upto
    <3>2. QED
      BY <1>3, <3>1
  <2>3. g[n] = h[n]
    <3>1. n + 1 \in Nat /\ n <= n /\ n <= n + 1
      OBVIOUS
    <3> HIDE DEF Upto
    <3>2. \A k, l \in Nat : n <= k /\ n <= l =>
             \A gg \in Upto(k), hh \in Upto(l) : gg[n] = hh[n]
      BY <1>2
    <3>3. QED
      BY <3>1, <3>2, <2>1, <2>2
  <2>4. h[n + 1] = step[<<n, h[n]>>]
    BY <2>2
  <2>5. QED
    BY <2>1, <2>2, <2>3, <2>4
<1>8. QED
  BY <1>5, <1>6, <1>7

(* A set that has an element whenever it has all of smaller rank has all.  *)
LEMMA RankInduction ==
  ASSUME NEW S, NEW rank \in Ranks(S), NEW T,
         \A i \in S : (\A j \in S : rank[j] < rank[i] => j \in T) => i \in T
  PROVE  S \subseteq T
<1> DEFINE U == {n \in Nat : \A i \in S : rank[i] < n => i \in T}
<1>1. \A i \in S : rank[i] \in Nat
  BY DEF Ranks
<1>2. 0 \in U
  BY <1>1
<1>3. ASSUME NEW n \in Nat, n \in U PROVE n + 1 \in U
  <2>1. SUFFICES ASSUME NEW i \in S, rank[i] < n + 1 PROVE i \in T
    OBVIOUS
  <2>2. ASSUME NEW j \in S, rank[j] < rank[i] PROVE j \in T
    <3>1. rank[j] < n
      BY <1>1, <2>1, <2>2
    <3>2. QED
      BY <1>3, <3>1
  <2>3. QED
    BY <2>2
<1> HIDE DEF U
<1>4. Nat \subseteq U
  BY <1>2, <1>3, AllNumbers
<1>5. ASSUME NEW i \in S PROVE i \in T
  <2>1. rank[i] + 1 \in U /\ rank[i] < rank[i] + 1
    BY <1>1, <1>4
  <2>2. QED
    BY <2>1 DEF U
<1>6. QED
  BY <1>5

\* The functions whose value at each argument is one of those allowed there.
Into(S, V, R) == {g \in [S -> V] : \A i \in S : g[i] \in R[i]}

\* Ways to compute the value at an argument from such a function, as one of those
\* allowed there; what is computed depends on the arguments of smaller rank only.
BodiesInto(S, V, R) ==
  {value \in [S \X Into(S, V, R) -> V] : \A i \in S : \A g \in Into(S, V, R) : value[<<i, g>>] \in R[i]}

DescendingInto(S, V, R, rank, value) ==
  \A i \in S : \A g, h \in Into(S, V, R) :
    (\A j \in S : rank[j] < rank[i] => g[j] = h[j]) => value[<<i, g>>] = value[<<i, h>>]

(* A function may be defined by recursion when the value at an argument is *)
(* computed from the values at arguments of smaller rank.                  *)
LEMMA RecursiveFunctionInto ==
  ASSUME NEW S, NEW V, NEW R, NEW start \in Into(S, V, R), NEW rank \in Ranks(S),
         NEW value \in BodiesInto(S, V, R), DescendingInto(S, V, R, rank, value)
  PROVE  \E f \in Into(S, V, R) : f = [i \in S |-> value[<<i, f>>]]
<1> DEFINE F == Into(S, V, R)
<1>a. \A i \in S : \A g \in F : value[<<i, g>>] \in V /\ value[<<i, g>>] \in R[i]
  BY DEF BodiesInto
<1>b. \A g : g \in F <=> g \in [S -> V] /\ \A i \in S : g[i] \in R[i]
  BY DEF Into
<1>c. \A i \in S : \A g, h \in F :
        (\A j \in S : rank[j] < rank[i] => g[j] = h[j]) => value[<<i, g>>] = value[<<i, h>>]
  BY DEF DescendingInto
<1>d. rank \in [S -> Nat] /\ start \in F
  BY DEF Ranks
<1> HIDE DEF F
<1> DEFINE step == [p \in Nat \X F |-> [i \in S |-> value[<<i, p[2]>>]]]
<1>1. /\ step \in [Nat \X F -> F]
      /\ \A n \in Nat : \A g \in F : step[<<n, g>>] = [i \in S |-> value[<<i, g>>]]
  <2>1. ASSUME NEW g \in F PROVE [i \in S |-> value[<<i, g>>]] \in F
    BY <1>a, <1>b
  <2>2. QED
    BY <2>1
<1> HIDE DEF step
<1>2. PICK h \in [Nat -> F] : \A n \in Nat : h[n + 1] = step[<<n, h[n]>>]
  <2>1. step \in Steps(F)
    BY <1>1 DEF Steps
  <2>2. \E h \in [Nat -> F] : h[0] = start /\ \A n \in Nat : h[n + 1] = step[<<n, h[n]>>]
    BY <2>1, <1>d, Recursion
  <2>3. QED
    BY <2>2
<1>3. ASSUME NEW n \in Nat, NEW i \in S
      PROVE  h[n] \in F /\ h[n + 1][i] = value[<<i, h[n]>>]
  <2>1. h[n] \in F /\ h[n + 1] = step[<<n, h[n]>>]
    BY <1>2
  <2>2. step[<<n, h[n]>>] = [j \in S |-> value[<<j, h[n]>>]]
    BY <1>1, <2>1
  <2>3. QED
    BY <2>1, <2>2
<1> DEFINE Settled == {n \in Nat : \A i \in S : rank[i] < n => h[n][i] = h[rank[i] + 1][i]}
<1>4. 0 \in Settled
  BY <1>d
<1>5. ASSUME NEW n \in Nat, \A m \in 0..n : m \in Settled PROVE n + 1 \in Settled
  <2>1. SUFFICES ASSUME NEW i \in S, rank[i] < n + 1 PROVE h[n + 1][i] = h[rank[i] + 1][i]
    OBVIOUS
  <2> DEFINE r == rank[i]
  <2>2. r \in Nat /\ r <= n /\ r \in 0..n /\ n \in 0..n
    BY <2>1, <1>d
  <2>3. ASSUME NEW j \in S, rank[j] < r PROVE h[n][j] = h[r][j]
    <3>1. rank[j] \in Nat /\ rank[j] < n
      BY <2>2, <2>3, <1>d
    <3>2. h[n][j] = h[rank[j] + 1][j]
      BY <1>5, <2>2, <3>1
    <3>3. h[r][j] = h[rank[j] + 1][j]
      BY <1>5, <2>2, <2>3
    <3>4. QED
      BY <3>2, <3>3
  <2>4. value[<<i, h[n]>>] = value[<<i, h[r]>>]
    <3>1. h[n] \in F /\ h[r] \in F
      BY <1>3, <2>2
    <3>2. QED
      BY <1>c, <2>3, <3>1
  <2>5. QED
    BY <1>3, <2>2, <2>4
<1> HIDE DEF Settled
<1>6. \A n \in Nat : n \in Settled
  <2> DEFINE T == {n \in Nat : \A m \in 0..n : m \in Settled}
  <2>1. 0 \in T
    BY <1>4
  <2>2. ASSUME NEW n \in Nat, n \in T PROVE n + 1 \in T
    <3>1. n + 1 \in Settled
      BY <1>5, <2>2
    <3>2. ASSUME NEW m \in 0..n + 1 PROVE m \in Settled
      <4>1. m \in 0..n \/ m = n + 1
        OBVIOUS
      <4>2. QED
        BY <2>2, <3>1, <4>1
    <3>3. QED
      BY <3>2
  <2>3. ASSUME NEW n \in Nat, n \in T PROVE n \in Settled
    BY <2>3
  <2> HIDE DEF T
  <2>4. QED
    BY <2>1, <2>2, <2>3, AllNumbers
<1> DEFINE f == [i \in S |-> h[rank[i] + 1][i]]
<1>7. f \in F
  <2>1. ASSUME NEW i \in S PROVE f[i] \in V /\ f[i] \in R[i]
    <3>1. rank[i] + 1 \in Nat
      BY <1>d
    <3>2. h[rank[i] + 1] \in F
      BY <1>3, <3>1
    <3>3. QED
      BY <1>b, <3>2
  <2>2. QED
    BY <1>b, <2>1
<1>8. ASSUME NEW i \in S PROVE f[i] = value[<<i, f>>]
  <2>1. rank[i] \in Nat
    BY <1>d
  <2>2. ASSUME NEW j \in S, rank[j] < rank[i] PROVE f[j] = h[rank[i]][j]
    BY <1>6, <2>1, <2>2 DEF Settled
  <2>3. value[<<i, f>>] = value[<<i, h[rank[i]]>>]
    BY <1>3, <1>7, <1>c, <2>1, <2>2, ZenonT(40)
  <2>4. QED
    BY <1>3, <2>1, <2>3
<1> HIDE DEF f
<1>9. f = [i \in S |-> value[<<i, f>>]]
  BY <1>7, <1>8, <1>b
<1>10. QED
  BY <1>7, <1>9 DEF F

(* The same, with all values allowed at every argument. *)
LEMMA RecursiveFunction ==
  ASSUME NEW S, NEW V, NEW v \in V, NEW rank \in Ranks(S), NEW value \in Bodies(S, V),
         Descending(S, V, rank, value)
  PROVE  \E f \in [S -> V] : f = [i \in S |-> value[<<i, f>>]]
<1> DEFINE R == [i \in S |-> V]
           start == [i \in S |-> v]
<1>1. Into(S, V, R) = [S -> V]
  BY DEF Into
<1>2. start \in Into(S, V, R)
  BY <1>1
<1>3. value \in BodiesInto(S, V, R)
  BY <1>1 DEF Bodies, BodiesInto
<1>4. DescendingInto(S, V, R, rank, value)
  BY <1>1 DEF Descending, DescendingInto
<1> HIDE DEF R, start
<1>5. QED
  BY <1>1, <1>2, <1>3, <1>4, RecursiveFunctionInto
-----------------------------------------------------------------------------
(* Surrogates and UTF-8 *)

\* parse_utf16() combines any lead and any trail surrogate into a code point
\* above the ones a single escape can name.
THEOREM PairsAreCodePoints ==
    ASSUME NEW lead \in Nat, IsLead(lead), NEW trail \in Nat, IsTrail(trail)
    PROVE  Combine(lead, trail) \in CodePoint /\ Combine(lead, trail) >= 65536
BY DEF Combine, IsLead, IsTrail, CodePoint

\* No two pairs of surrogates mean the same code point.
THEOREM PairsAreDistinct ==
    ASSUME NEW l1 \in Nat, IsLead(l1), NEW t1 \in Nat, IsTrail(t1),
           NEW l2 \in Nat, IsLead(l2), NEW t2 \in Nat, IsTrail(t2),
           Combine(l1, t1) = Combine(l2, t2)
    PROVE  l1 = l2 /\ t1 = t2
BY DEF Combine, IsLead, IsTrail

\* The bytes parse_utf16() writes for a code point are bytes that
\* verify_utf8_sequence() accepts, over their whole length, and they mean the
\* code point: what the parser makes of escapes is valid UTF-8.
THEOREM EscapesAreUtf8 ==
    ASSUME NEW cp \in CodePoint
    PROVE  /\ Encode(cp) \in Seq(Byte)
           /\ Verified(Encode(cp), 1)
           /\ Announced(Encode(cp)[1]) = Len(Encode(cp))
           /\ Decode(Encode(cp), 1, Len(Encode(cp))) = cp
<1> DEFINE e == Encode(cp)
<1>0. cp \in Nat /\ cp <= 1114111 /\ ~IsLead(cp) /\ ~IsTrail(cp)
  BY DEF CodePoint
<1>1. CASE cp < 128
  <2>1. e = << cp >>
    BY <1>1 DEF Encode
  <2>2. /\ e \in Seq(Byte) /\ Len(e) = 1 /\ e[1] = cp
    BY <2>1, <1>0, <1>1 DEF Byte
  <2>3. Announced(e[1]) = 1 /\ Decode(e, 1, 1) = cp
    BY <2>2, <1>0, <1>1 DEF Announced, Decode
  <2> QED BY <2>2, <2>3, <1>0, <1>1 DEF Verified
<1>2. CASE cp >= 128 /\ cp < 2048
  <2> DEFINE a == 192 + ((cp \div 64) % 32)
             b == 128 + (cp % 64)
  <2>1. e = << a, b >>
    BY <1>0, <1>2 DEF Encode
  <2>2. /\ a \in Nat /\ 194 <= a /\ a <= 223
        /\ b \in Nat /\ 128 <= b /\ b <= 191
        /\ 64 * (a % 32) + (b % 64) = cp
    BY <1>0, <1>2
  <2> HIDE DEF a, b
  <2>3. /\ e \in Seq(Byte) /\ Len(e) = 2 /\ e[1] = a /\ e[2] = b
    BY <2>1, <2>2 DEF Byte
  <2>4. Announced(e[1]) = 2 /\ Decode(e, 1, 2) = cp
    BY <2>2, <2>3 DEF Announced, Decode
  <2> QED BY <2>2, <2>3, <2>4, <1>0, <1>2 DEF Verified, IsCont
<1>3. CASE cp >= 2048 /\ cp < 65536
  <2> DEFINE a == 224 + ((cp \div 4096) % 16)
             b == 128 + ((cp \div 64) % 64)
             c == 128 + (cp % 64)
  <2>1. e = << a, b, c >>
    BY <1>0, <1>3 DEF Encode
  <2>2. /\ a \in Nat /\ 224 <= a /\ a <= 239
        /\ b \in Nat /\ 128 <= b /\ b <= 191
        /\ c \in Nat /\ 128 <= c /\ c <= 191
        /\ 4096 * (a % 16) + 64 * (b % 64) + (c % 64) = cp
    BY <1>0, <1>3
  <2> HIDE DEF a, b, c
  <2>3. /\ e \in Seq(Byte) /\ Len(e) = 3 /\ e[1] = a /\ e[2] = b /\ e[3] = c
    BY <2>1, <2>2 DEF Byte
  <2>4. Announced(e[1]) = 3 /\ Decode(e, 1, 3) = cp
    BY <2>2, <2>3 DEF Announced, Decode
  <2> QED BY <2>2, <2>3, <2>4, <1>0, <1>3 DEF Verified, IsCont
<1>4. CASE cp >= 65536
  <2> DEFINE a == 240 + ((cp \div 262144) % 8)
             b == 128 + ((cp \div 4096) % 64)
             c == 128 + ((cp \div 64) % 64)
             d == 128 + (cp % 64)
  <2>1. e = << a, b, c, d >>
    BY <1>0, <1>4 DEF Encode
  <2>2. /\ a \in Nat /\ 240 <= a /\ a <= 244
        /\ b \in Nat /\ 128 <= b /\ b <= 191
        /\ c \in Nat /\ 128 <= c /\ c <= 191
        /\ d \in Nat /\ 128 <= d /\ d <= 191
        /\ 262144 * (a % 8) + 4096 * (b % 64) + 64 * (c % 64) + (d % 64) = cp
    BY <1>0, <1>4
  <2> HIDE DEF a, b, c, d
  <2>3. /\ e \in Seq(Byte) /\ Len(e) = 4
        /\ e[1] = a /\ e[2] = b /\ e[3] = c /\ e[4] = d
    BY <2>1, <2>2 DEF Byte
  <2>4. Announced(e[1]) = 4 /\ Decode(e, 1, 4) = cp
    BY <2>2, <2>3, SMTT(40) DEF Announced, Decode
  <2> QED BY <2>2, <2>3, <2>4, <1>0, <1>4 DEF Verified, IsCont
<1> QED BY <1>0, <1>1, <1>2, <1>3, <1>4

-----------------------------------------------------------------------------
(* Flattening: the values so far, and where each part lies in the whole.   *)

LEMMA ConcatIs ==
  ASSUME NEW T, NEW a \in Seq(T), NEW b \in Seq(T)
  PROVE  /\ a \o b \in Seq(T) /\ Len(a \o b) = Len(a) + Len(b)
         /\ Len(a) \in Nat /\ Len(b) \in Nat
         /\ \A i \in 1 .. Len(a) : (a \o b)[i] = a[i]
         /\ \A i \in 1 .. Len(b) : (a \o b)[Len(a) + i] = b[i]
  OBVIOUS

\* FlattenSeq() joins the sequences one after the other.
LEMMA FlattenSteps ==
  ASSUME NEW T, NEW s \in Seq(Seq(T))
  PROVE  \E acc \in [0 .. Len(s) -> Seq(T)] :
            /\ acc[0] = << >> /\ acc[Len(s)] = FlattenSeq(s)
            /\ \A k \in 1 .. Len(s) : acc[k] = acc[k - 1] \o s[k]
<1> DEFINE n == Len(s)
           S == 1 .. n
           V == Seq(T)
           rank == [i \in S |-> i]
           body == [p \in S \X [S -> V] |->
                        IF p[1] = 1 THEN s[p[1]] ELSE p[2][p[1] - 1] \o s[p[1]]]
           flatten == CHOOSE f : f = [i \in S |-> IF i = 1 THEN s[i] ELSE f[i - 1] \o s[i]]
<1>1. /\ n \in Nat /\ << >> \in V /\ \A i \in S : i \in 1 .. n /\ s[i] \in V
      /\ \A i \in S : i # 1 => i - 1 \in S
      /\ \A a, b \in V : a \o b \in V
  OBVIOUS
<1>2. \E f \in [S -> V] : f = [i \in S |-> IF i = 1 THEN s[i] ELSE f[i - 1] \o s[i]]
  <2> HIDE DEF S, V
  <2>1. ASSUME NEW i \in S, NEW g \in [S -> V]
        PROVE  /\ body[<<i, g>>] = (IF i = 1 THEN s[i] ELSE g[i - 1] \o s[i])
               /\ (IF i = 1 THEN s[i] ELSE g[i - 1] \o s[i]) \in V
    <3>1. i # 1 => g[i - 1] \in V
      BY <1>1
    <3>2. (IF i = 1 THEN s[i] ELSE g[i - 1] \o s[i]) \in V
      BY <1>1, <3>1
    <3>3. QED
      BY <3>2
  <2>2. body \in Bodies(S, V)
    BY <2>1 DEF Bodies
  <2>3. rank \in Ranks(S)
    BY <1>1 DEF Ranks
  <2>4. Descending(S, V, rank, body)
    <3> SUFFICES ASSUME NEW i \in S, NEW g \in [S -> V], NEW h \in [S -> V],
                        \A j \in S : rank[j] < rank[i] => g[j] = h[j]
                 PROVE  body[<<i, g>>] = body[<<i, h>>]
      BY DEF Descending
    <3>1. ASSUME i # 1 PROVE g[i - 1] = h[i - 1]
      <4>1. i - 1 \in S /\ i \in Int
        BY <1>1, <3>1
      <4>2. rank[i - 1] < rank[i]
        BY <4>1
      <4>3. QED
        BY <4>1, <4>2
    <3>2. /\ body[<<i, g>>] = (IF i = 1 THEN s[i] ELSE g[i - 1] \o s[i])
          /\ body[<<i, h>>] = (IF i = 1 THEN s[i] ELSE h[i - 1] \o s[i])
      BY <2>1
    <3> HIDE DEF body
    <3>3. QED
      BY <3>1, <3>2
  <2> HIDE DEF body, rank
  <2>5. PICK f \in [S -> V] : f = [i \in S |-> body[<<i, f>>]]
    BY <1>1, <2>2, <2>3, <2>4, RecursiveFunction
  <2>6. [i \in S |-> body[<<i, f>>]] = [i \in S |-> IF i = 1 THEN s[i] ELSE f[i - 1] \o s[i]]
    BY <2>1, SMTT(40)
  <2>7. QED
    BY <2>5, <2>6
<1>3. flatten = [i \in S |-> IF i = 1 THEN s[i] ELSE flatten[i - 1] \o s[i]]
  BY <1>2, Zenon
<1>4. FlattenSeq(s) = IF n = 0 THEN s ELSE flatten[n]
  BY DEF FlattenSeq
<1> HIDE DEF flatten
<1> DEFINE acc == [k \in 0 .. n |-> IF k = 0 THEN << >> ELSE flatten[k]]
<1>5. ASSUME NEW k \in S PROVE acc[k] = acc[k - 1] \o s[k]
  <2>1. flatten[k] = IF k = 1 THEN s[k] ELSE flatten[k - 1] \o s[k]
    BY <1>3
  <2>2. acc[k] = flatten[k] /\ acc[k - 1] = (IF k = 1 THEN << >> ELSE flatten[k - 1])
    BY <1>1
  <2>3. k = 1 => << >> \o s[k] = s[k]
    BY <1>1
  <2>4. QED
    BY <2>1, <2>2, <2>3
<1>6. acc[0] = << >> /\ acc[n] = FlattenSeq(s)
  BY <1>1, <1>4
<1> HIDE DEF acc
<1>7. \A k \in 0 .. n : acc[k] \in V
  <2> DEFINE Good == {k \in Nat : k <= n => acc[k] \in V}
  <2>1. 0 \in Good
    BY <1>1, <1>6
  <2>2. ASSUME NEW k \in Nat, k \in Good PROVE k + 1 \in Good
    <3>1. SUFFICES ASSUME k + 1 <= n PROVE acc[k + 1] \in V
      OBVIOUS
    <3>2. k + 1 \in S /\ (k + 1) - 1 = k /\ acc[k] \in V
      BY <1>1, <2>2, <3>1
    <3>3. acc[k + 1] = acc[k] \o s[k + 1] /\ s[k + 1] \in V
      BY <1>1, <1>5, <3>2
    <3> HIDE DEF V
    <3>4. QED
      BY <1>1, <3>2, <3>3
  <2> HIDE DEF Good
  <2>3. Nat \subseteq Good
    BY <2>1, <2>2, AllNumbers
  <2>4. QED
    BY <2>3, <1>1 DEF Good
<1>8. acc \in [0 .. n -> V]
  BY <1>7 DEF acc
<1>9. QED
  BY <1>5, <1>6, <1>8

\* A sum of lengths never falls.
Sums(n) == [0 .. n -> Nat]

LEMMA NeverFalls ==
  ASSUME NEW n \in Nat, NEW at \in Sums(n), \A k \in 1 .. n : at[k - 1] <= at[k],
         NEW a \in 0 .. n, NEW b \in 0 .. n, a <= b
  PROVE  at[a] <= at[b]
<1> USE DEF Sums
<1> DEFINE Above == {k \in Nat : a + k <= n => at[a] <= at[a + k]}
<1>1. 0 \in Above
  OBVIOUS
<1>2. ASSUME NEW k \in Nat, k \in Above PROVE k + 1 \in Above
  <2>1. SUFFICES ASSUME a + (k + 1) <= n PROVE at[a] <= at[a + (k + 1)]
    OBVIOUS
  <2>2. /\ a + (k + 1) \in 1 .. n /\ (a + (k + 1)) - 1 = a + k /\ a + k \in 0 .. n
        /\ a + (k + 1) \in 0 .. n
    BY <2>1
  <2>3. at[a] <= at[a + k] /\ at[a + k] <= at[a + (k + 1)]
    BY <1>2, <2>1, <2>2
  <2>4. at[a] \in Nat /\ at[a + k] \in Nat /\ at[a + (k + 1)] \in Nat
    BY <2>2
  <2>5. QED
    BY <2>3, <2>4
<1> HIDE DEF Above
<1>3. Nat \subseteq Above
  BY <1>1, <1>2, AllNumbers
<1>4. b - a \in Nat /\ a + (b - a) = b
  OBVIOUS
<1>5. b - a \in Above
  BY <1>3, <1>4
<1>6. QED
  BY <1>4, <1>5 DEF Above

\* Where the parts of a flattened sequence lie.
LEMMA FlattenPlaces ==
  ASSUME NEW T, NEW s \in Seq(Seq(T))
  PROVE  /\ FlattenSeq(s) \in Seq(T)
         /\ \E at \in [0 .. Len(s) -> Nat] :
              /\ at[0] = 0 /\ at[Len(s)] = Len(FlattenSeq(s))
              /\ \A k \in 1 .. Len(s) :
                   /\ at[k] = at[k - 1] + Len(s[k])
                   /\ \A j \in 1 .. Len(s[k]) : FlattenSeq(s)[at[k - 1] + j] = s[k][j]
<1> DEFINE n == Len(s)
<1>1. n \in Nat /\ \A k \in 1 .. n : s[k] \in Seq(T) /\ Len(s[k]) \in Nat
  OBVIOUS
<1>2. PICK acc \in [0 .. n -> Seq(T)] :
         /\ acc[0] = << >> /\ acc[n] = FlattenSeq(s)
         /\ \A k \in 1 .. n : acc[k] = acc[k - 1] \o s[k]
  BY FlattenSteps
<1> DEFINE at == [k \in 0 .. n |-> Len(acc[k])]
<1>3. at \in [0 .. n -> Nat] /\ at[0] = 0 /\ at[n] = Len(FlattenSeq(s))
  BY <1>1, <1>2
<1>a. at \in Sums(n)
  BY <1>3 DEF Sums
<1> HIDE DEF n
<1>4. ASSUME NEW k \in 1 .. n
      PROVE  /\ k \in 0 .. n /\ k - 1 \in 0 .. n /\ at[k] = at[k - 1] + Len(s[k])
             /\ at[k - 1] = Len(acc[k - 1]) /\ at[k] = Len(acc[k])
             /\ acc[k - 1] \in Seq(T) /\ acc[k] = acc[k - 1] \o s[k]
  <2>1. k \in 0 .. n /\ k - 1 \in 0 .. n
    BY <1>1
  <2>2. acc[k - 1] \in Seq(T) /\ acc[k] = acc[k - 1] \o s[k]
    BY <1>2, <2>1
  <2>3. at[k - 1] = Len(acc[k - 1]) /\ at[k] = Len(acc[k])
    BY <2>1
  <2>4. Len(acc[k - 1] \o s[k]) = Len(acc[k - 1]) + Len(s[k])
    BY <1>1, <2>2
  <2>5. QED
    BY <2>1, <2>2, <2>3, <2>4
<1> HIDE DEF at
<1>5. ASSUME NEW k \in 1 .. n PROVE at[k - 1] <= at[k] /\ at[k - 1] \in Nat
  <2>1. at[k - 1] \in Nat /\ Len(s[k]) \in Nat
    BY <1>1, <1>3, <1>4
  <2>2. at[k] = at[k - 1] + Len(s[k])
    BY <1>4
  <2>3. QED
    BY <2>1, <2>2
<1> DEFINE Kept(m) == \A k \in 1 .. m : \A j \in 1 .. Len(s[k]) : acc[m][at[k - 1] + j] = s[k][j]
           Good == {m \in Nat : m <= n => Kept(m)}
<1>6. 0 \in Good
  OBVIOUS
<1>7. ASSUME NEW m \in Nat, m \in Good PROVE m + 1 \in Good
  <2> HIDE DEF Kept
  <2>0. SUFFICES ASSUME m + 1 <= n PROVE Kept(m + 1)
    OBVIOUS
  <2>1. SUFFICES ASSUME NEW k \in 1 .. m + 1, NEW j \in 1 .. Len(s[k])
                 PROVE  acc[m + 1][at[k - 1] + j] = s[k][j]
    BY DEF Kept
  <2>2. m + 1 \in 1 .. n /\ (m + 1) - 1 = m /\ m \in 0 .. n
    BY <1>1, <2>0
  <2>3. /\ acc[m + 1] = acc[m] \o s[m + 1] /\ acc[m] \in Seq(T) /\ Len(acc[m]) = at[m]
        /\ s[m + 1] \in Seq(T)
    BY <1>1, <1>4, <2>2
  <2>4. CASE k = m + 1
    <3>1. at[k - 1] = Len(acc[m]) /\ Len(acc[m]) \in Nat
      BY <2>2, <2>3, <2>4
    <3>a. j \in 1 .. Len(s[m + 1])
      BY <2>1, <2>4
    <3>2. (acc[m] \o s[m + 1])[Len(acc[m]) + j] = s[m + 1][j]
      <4> DEFINE a == acc[m]
                 b == s[m + 1]
      <4>1. a \in Seq(T) /\ b \in Seq(T) /\ j \in 1 .. Len(b)
        BY <2>3, <3>a
      <4> HIDE DEF a, b
      <4>2. (a \o b)[Len(a) + j] = b[j]
        BY <4>1, ConcatIs
      <4>3. QED
        BY <4>2 DEF a, b
    <3>3. QED
      BY <2>3, <2>4, <3>1, <3>2
  <2>5. CASE k # m + 1
    <3>1. k \in 1 .. m /\ k \in 1 .. n /\ k \in 0 .. n /\ k - 1 \in 0 .. n
      BY <1>1, <2>1, <2>2, <2>5
    <3>2. acc[m][at[k - 1] + j] = s[k][j]
      <4>1. m <= n
        BY <1>1, <2>0
      <4>2. Kept(m)
        BY <1>7, <4>1
      <4>3. QED
        BY <2>1, <3>1, <4>2 DEF Kept
    <3>3. at[k] <= at[m]
      <4>1. k <= m
        BY <3>1
      <4>2. QED
        BY <1>1, <1>a, <1>5, <2>2, <3>1, <4>1, NeverFalls
    <3>4. at[k] = at[k - 1] + Len(s[k]) /\ at[k - 1] \in Nat /\ Len(s[k]) \in Nat
      BY <1>1, <1>3, <1>4, <3>1
    <3>5. at[k - 1] + j \in 1 .. Len(acc[m])
      <4> DEFINE x == at[k - 1]
                 y == at[m]
                 l == Len(s[k])
      <4>1. at[k] = x + l /\ x \in Nat /\ l \in Nat /\ at[k] <= y /\ y = Len(acc[m]) /\ j \in 1 .. l
        BY <1>1, <1>3, <1>4, <2>1, <2>2, <2>3, <3>3, <3>4
      <4>2. y \in Nat
        BY <2>3, <4>1, SMTT(30)
      <4> HIDE DEF x, y, l
      <4>3. x + j \in 1 .. y
        BY <4>1, <4>2
      <4>4. QED
        BY <4>1, <4>3 DEF x
    <3>6. (acc[m] \o s[m + 1])[at[k - 1] + j] = acc[m][at[k - 1] + j]
      BY <2>3, <3>5, ConcatIs, ZenonT(40)
    <3>7. QED
      BY <2>3, <3>2, <3>6
  <2>6. QED
    BY <2>4, <2>5
<1> HIDE DEF Good
<1>8. Nat \subseteq Good
  BY <1>6, <1>7, AllNumbers
<1>9. Kept(n)
  BY <1>1, <1>8 DEF Good
<1>10. FlattenSeq(s) \in Seq(T)
  BY <1>1, <1>2
<1>11. QED
  BY <1>2, <1>3, <1>4, <1>9, <1>10 DEF n

-----------------------------------------------------------------------------
(* Where the pieces of a literal lie in the text.                          *)

Ordinary(c) == c \in Nat /\ c # 0 /\ c # Quote /\ c # Backslash

LEMMA EscapesAre ==
  /\ LetterU \notin DOMAIN Escapes /\ 0 \notin DOMAIN Escapes
  /\ DOMAIN Escapes = {Quote, Backslash, Slash, 98, 102, LetterN, 114, 116}
  /\ \A c \in DOMAIN Escapes : c \in 1 .. 255 /\ Escapes[c] \in 1 .. 255
BY DEF Escapes, Quote, Backslash, Slash, LetterN, LetterU, Newline

\* An escape of one letter means one byte other than the NUL.
LEMMA EscapeMeans ==
  ASSUME NEW c \in DOMAIN Escapes
  PROVE  << Escapes[c] >> \in Seq(Nat) /\ Escapes[c] \in Nat /\ Escapes[c] >= 1 /\ Escapes[c] <= 127
<1> DEFINE e == Escapes[c]
<1>1. e \in Nat /\ e >= 1 /\ e <= 127
  BY DEF Escapes, Quote, Backslash, Slash, LetterN, LetterU, Newline
<1> HIDE DEF e
<1>2. << e >> \in Seq(Nat)
  BY <1>1
<1>3. QED
  BY <1>1, <1>2 DEF e

LEMMA PlainIs == \A c \in Plain : c \in Byte /\ c \in Nat /\ c >= 32 /\ Ordinary(c)
  BY DEF Plain, Ordinary, Byte, Quote, Backslash

\* A piece is a run of ordinary characters, or a backslash with what is behind it.
LEMMA PieceShape ==
  ASSUME NEW p, IsPiece(p)
  PROVE  LET n == Len(p.chars) IN
         /\ p.chars \in Seq(Nat) /\ n \in Nat /\ n >= 1
         /\ \/ \A j \in 1 .. n : Ordinary(p.chars[j])
            \/ /\ n >= 2 /\ p.chars[1] = Backslash /\ p.chars[2] \in Nat /\ p.chars[2] # 0
               /\ \A j \in 3 .. n : Ordinary(p.chars[j])
<1> USE DEF Quote, Backslash, LetterU, Ordinary
<1>1. CASE IsRaw(p)
  <2>1. p.chars \in Seq(Plain) /\ p.chars # << >>
    BY <1>1 DEF IsRaw
  <2>2. /\ Len(p.chars) \in Nat /\ Len(p.chars) >= 1
        /\ p.chars = [j \in 1 .. Len(p.chars) |-> p.chars[j]]
        /\ \A j \in 1 .. Len(p.chars) : p.chars[j] \in Plain
    BY <2>1
  <2>3. \A j \in 1 .. Len(p.chars) : p.chars[j] \in Nat /\ Ordinary(p.chars[j])
    BY <2>2, PlainIs
  <2>4. p.chars \in Seq(Nat)
    BY <2>2, <2>3
  <2>5. QED
    BY <2>2, <2>3, <2>4
<1>2. CASE IsEscape(p)
  <2>1. PICK c \in DOMAIN Escapes : p.chars = << Backslash, c >>
    BY <1>2 DEF IsEscape
  <2>2. c \in 1 .. 255
    BY EscapesAre
  <2>3. QED
    BY <2>1, <2>2
<1>3. CASE IsUnit(p)
  <2>1. p.unit \in Nat /\ p.chars = << Backslash, LetterU, 256 + p.unit >>
    BY <1>3 DEF IsUnit, Hex
  <2> DEFINE h == 256 + p.unit
  <2>2. h \in Nat /\ h >= 256
    BY <2>1
  <2> HIDE DEF h
  <2>3. QED
    BY <2>1, <2>2 DEF h
<1>4. CASE IsMalformed(p)
  <2>1. CASE \E c \in 1 .. 31 : p.chars = << c >>
    BY <2>1
  <2>2. CASE \E c \in (1 .. 255) \ (DOMAIN Escapes \cup {LetterU}) : p.chars = << Backslash, c >>
    BY <2>2
  <2>3. CASE \E c \in (1 .. 255) \ (Digits \cup {Quote, Backslash}) :
                p.chars = << Backslash, LetterU, c >>
    BY <2>3
  <2>4. QED
    BY <1>4, <2>1, <2>2, <2>3 DEF IsMalformed
<1>5. QED
  BY <1>1, <1>2, <1>3, <1>4 DEF IsPiece

IsPieces(ps) ==
  /\ Len(ps) \in Nat /\ DOMAIN ps = 1 .. Len(ps)
  /\ \A k \in 1 .. Len(ps) : IsPiece(ps[k])

\* The k-th piece of ps begins at at[k] in t, and the closing quote is behind the last.
Layout(t, ps, at) ==
  /\ t \in Seq(Nat) /\ t[1] = Quote
  /\ at[1] = 2 /\ t[at[Len(ps) + 1]] = Quote
  /\ \A k \in 1 .. Len(ps) + 1 : at[k] \in 2 .. Len(t) /\ at[k] <= at[Len(ps) + 1]
  /\ \A k \in 1 .. Len(ps) :
       /\ at[k + 1] = at[k] + Len(ps[k].chars)
       /\ \A j \in 1 .. Len(ps[k].chars) : t[at[k] + j - 1] = ps[k].chars[j]

LEMMA LayoutExists ==
  ASSUME NEW ps, IsPieces(ps), NEW rest \in Seq(Nat)
  PROVE  /\ Quoted(Chars(ps)) \in Seq(Nat)
         /\ \E at : /\ Layout(Quoted(Chars(ps)) \o rest, ps, at)
                    /\ at[Len(ps) + 1] = Len(Quoted(Chars(ps)))
<1> DEFINE n == Len(ps)
           s == [k \in 1 .. n |-> ps[k].chars]
           c == Chars(ps)
           q == Quoted(c)
           t == q \o rest
<1>1. n \in Nat /\ s \in Seq(Seq(Nat)) /\ Len(s) = n /\ c = FlattenSeq(s)
  <2>1. n \in Nat /\ DOMAIN ps = 1 .. n /\ \A k \in 1 .. n : ps[k].chars \in Seq(Nat)
    BY PieceShape DEF IsPieces
  <2>2. QED
    BY <2>1 DEF Chars
<1>2. \A k \in 1 .. n : s[k] = ps[k].chars
  OBVIOUS
<1> HIDE DEF s, c
<1>3. c \in Seq(Nat)
  BY <1>1, FlattenPlaces
<1>4. PICK off \in [0 .. n -> Nat] :
         /\ off[0] = 0 /\ off[n] = Len(c)
         /\ \A k \in 1 .. n : /\ off[k] = off[k - 1] + Len(s[k])
                              /\ \A j \in 1 .. Len(s[k]) : c[off[k - 1] + j] = s[k][j]
  <2>1. \E off \in [0 .. Len(s) -> Nat] :
           /\ off[0] = 0 /\ off[Len(s)] = Len(FlattenSeq(s))
           /\ \A k \in 1 .. Len(s) :
                /\ off[k] = off[k - 1] + Len(s[k])
                /\ \A j \in 1 .. Len(s[k]) : FlattenSeq(s)[off[k - 1] + j] = s[k][j]
    BY <1>1, FlattenPlaces
  <2> HIDE DEF n
  <2>2. QED
    BY <1>1, <2>1
<1>5. /\ q \in Seq(Nat) /\ Len(q) = Len(c) + 2 /\ Len(c) \in Nat
      /\ \A i \in 1 .. Len(c) : q[i + 1] = c[i]
      /\ q[1] = Quote /\ q[Len(c) + 2] = Quote
  BY <1>3 DEF Quoted, Quote
<1> HIDE DEF q
<1>6. /\ t \in Seq(Nat) /\ Len(t) = Len(q) + Len(rest) /\ Len(rest) \in Nat
      /\ \A i \in 1 .. Len(q) : t[i] = q[i]
  BY <1>5, ConcatIs, ZenonT(40)
<1>a. Len(c) \in Nat /\ Len(q) = Len(c) + 2 /\ Len(t) \in Nat /\ Len(c) + 2 <= Len(t)
  BY <1>5, <1>6
<1> DEFINE at == [k \in 1 .. n + 1 |-> off[k - 1] + 2]
<1> HIDE DEF t, n
<1>7. ASSUME NEW k \in 1 .. n + 1
      PROVE  k - 1 \in 0 .. n /\ off[k - 1] \in Nat /\ at[k] = off[k - 1] + 2
  BY <1>1, <1>4
<1>8. at[1] = 2 /\ at[n + 1] = Len(c) + 2
  <2>1. 1 \in 1 .. n + 1 /\ n + 1 \in 1 .. n + 1 /\ (n + 1) - 1 = n
    BY <1>1
  <2>2. QED
    BY <1>4, <1>7, <2>1
<1> HIDE DEF at
<1>9. ASSUME NEW k \in 1 .. n + 1 PROVE at[k] \in 2 .. Len(t) /\ at[k] <= at[n + 1]
  <2>1. off[k - 1] <= off[n]
    <3>1. off \in Sums(n)
      BY <1>4 DEF Sums
    <3>2. ASSUME NEW m \in 1 .. n PROVE off[m - 1] <= off[m]
      <4>1. off[m] = off[m - 1] + Len(s[m]) /\ Len(s[m]) \in Nat
        BY <1>1, <1>4
      <4>2. m - 1 \in 0 .. n /\ off[m - 1] \in Nat
        BY <1>1, <1>4
      <4>3. QED
        BY <4>1, <4>2
    <3>3. k - 1 <= n /\ n \in 0 .. n /\ k - 1 \in 0 .. n
      BY <1>1
    <3>4. QED
      BY <1>1, <3>1, <3>2, <3>3, NeverFalls
  <2>2. off[k - 1] \in Nat /\ at[k] = off[k - 1] + 2 /\ off[n] = Len(c)
    BY <1>4, <1>7
  <2>3. QED
    BY <1>a, <1>8, <2>1, <2>2
<1>10. t[1] = Quote /\ t[at[n + 1]] = Quote
  BY <1>5, <1>6, <1>8
<1>11. ASSUME NEW k \in 1 .. n
       PROVE  /\ at[k + 1] = at[k] + Len(ps[k].chars)
              /\ \A j \in 1 .. Len(ps[k].chars) : t[at[k] + j - 1] = ps[k].chars[j]
  <2>1. k \in 1 .. n + 1 /\ k + 1 \in 1 .. n + 1 /\ (k + 1) - 1 = k
    BY <1>1
  <2>2. at[k] = off[k - 1] + 2 /\ at[k + 1] = off[k] + 2 /\ off[k - 1] \in Nat /\ off[k] \in Nat
    <3>1. off[(k + 1) - 1] \in Nat /\ at[k + 1] = off[(k + 1) - 1] + 2
      BY <1>7, <2>1
    <3>2. QED
      BY <1>7, <2>1, <3>1
  <2>3. off[k] = off[k - 1] + Len(s[k]) /\ Len(s[k]) \in Nat
    BY <1>1, <1>4
  <2>4. ASSUME NEW j \in 1 .. Len(s[k]) PROVE t[at[k] + j - 1] = s[k][j]
    <3>1. c[off[k - 1] + j] = s[k][j]
      BY <1>4
    <3>2. at[k + 1] <= at[n + 1]
      BY <1>9, <2>1
    <3>3. off[k - 1] + j \in 1 .. Len(c)
      <4>1. off[k] <= Len(c)
        BY <1>a, <1>8, <2>2, <3>2
      <4>2. off[k - 1] \in Nat /\ off[k - 1] + Len(s[k]) <= Len(c)
        BY <2>2, <2>3, <4>1
      <4>3. j \in Nat /\ 1 <= j /\ j <= Len(s[k])
        BY <2>3
      <4>4. QED
        BY <1>a, <2>3, <4>2, <4>3, SMTT(40)
    <3>4. q[(off[k - 1] + j) + 1] = c[off[k - 1] + j]
      BY <1>5, <3>3
    <3>5. at[k] + j - 1 = (off[k - 1] + j) + 1 /\ (off[k - 1] + j) + 1 \in 1 .. Len(q)
      <4>1. j \in Nat /\ off[k - 1] \in Nat /\ at[k] = off[k - 1] + 2
        BY <2>2, <2>3
      <4>2. off[k - 1] + j >= 1 /\ off[k - 1] + j <= Len(c)
        BY <1>a, <3>3
      <4>3. at[k] + j - 1 = (off[k - 1] + j) + 1
        BY <4>1
      <4>4. Len(q) \in Nat /\ (off[k - 1] + j) + 1 <= Len(q)
        BY <1>a, <4>1, <4>2
      <4>5. QED
        BY <4>1, <4>2, <4>3, <4>4
    <3>6. QED
      BY <1>6, <3>1, <3>4, <3>5
  <2>5. at[k + 1] = at[k] + Len(s[k])
    BY <1>1, <2>2, <2>3
  <2>6. s[k] = ps[k].chars
    BY <1>2
  <2>7. QED
    BY <2>4, <2>5, <2>6
<1>12. Layout(t, ps, at)
  BY <1>6, <1>8, <1>9, <1>10, <1>11 DEF Layout, n
<1>13. at[n + 1] = Len(q)
  BY <1>a, <1>8
<1>14. QED
  BY <1>5, <1>12, <1>13 DEF t, q, n, c

-----------------------------------------------------------------------------
(* skip_quotes()                                                           *)

\* How much of n characters is left at i.
Left(n, i) == IF i <= n THEN n + 1 - i ELSE 0

LEMMA LeftFalls ==
  ASSUME NEW n \in Nat, NEW i \in Nat, NEW k \in Nat, i < k
  PROVE  Left(n, i) \in Nat /\ (i <= n => Left(n, k) < Left(n, i))
  BY DEF Left

SkipBody(t, j, skip) ==
  IF CharAt(t, j) = 0 THEN 0
  ELSE IF t[j] = Quote THEN j + 1
  ELSE IF t[j] # Backslash THEN skip[j + 1]
  ELSE IF CharAt(t, j + 1) = 0 THEN 0 ELSE skip[j + 2]

LEMMA SkipStep ==
  ASSUME NEW t \in Seq(Nat), NEW j \in Nat
  PROVE  SkipQuotes(t, j) =
           IF CharAt(t, j) = 0 THEN 0
           ELSE IF t[j] = Quote THEN j + 1
           ELSE IF t[j] # Backslash THEN SkipQuotes(t, j + 1)
           ELSE IF CharAt(t, j + 1) = 0 THEN 0 ELSE SkipQuotes(t, j + 2)
<1> DEFINE rank == [i \in Nat |-> Left(Len(t), i)]
           body == [p \in Nat \X [Nat -> Nat] |-> SkipBody(t, p[1], p[2])]
           skip == CHOOSE f : f = [i \in Nat |-> SkipBody(t, i, f)]
<1>1. ASSUME NEW i \in Nat, NEW g \in [Nat -> Nat]
      PROVE  body[<<i, g>>] = SkipBody(t, i, g) /\ SkipBody(t, i, g) \in Nat
  <2>1. 0 \in Nat /\ i + 1 \in Nat /\ g[i + 1] \in Nat /\ g[i + 2] \in Nat
    BY SMTT(30)
  <2>2. SkipBody(t, i, g) \in {0, i + 1, g[i + 1], g[i + 2]}
    BY Zenon DEF SkipBody
  <2>3. SkipBody(t, i, g) \in Nat
    BY <2>1, <2>2
  <2>4. QED
    BY <2>3
<1>2. body \in Bodies(Nat, Nat)
  BY <1>1 DEF Bodies
<1>3. rank \in Ranks(Nat)
  <2>1. ASSUME NEW i \in Nat PROVE Left(Len(t), i) \in Nat
    BY LeftFalls, i + 1 \in Nat, i < i + 1, Len(t) \in Nat
  <2>2. QED
    BY <2>1 DEF Ranks
<1>4. Descending(Nat, Nat, rank, body)
  <2>0. SUFFICES ASSUME NEW i \in Nat, NEW g \in [Nat -> Nat], NEW h \in [Nat -> Nat],
                        \A k \in Nat : rank[k] < rank[i] => g[k] = h[k]
                 PROVE  body[<<i, g>>] = body[<<i, h>>]
    BY DEF Descending
  <2>1. ASSUME CharAt(t, i) # 0 PROVE g[i + 1] = h[i + 1] /\ g[i + 2] = h[i + 2]
    <3>1. Len(t) \in Nat /\ i <= Len(t)
      BY <2>1 DEF CharAt
    <3>2. i + 1 \in Nat /\ i + 2 \in Nat /\ i < i + 1 /\ i < i + 2
      OBVIOUS
    <3>3. rank[i + 1] < rank[i] /\ rank[i + 2] < rank[i]
      BY <3>1, <3>2, LeftFalls
    <3>4. QED
      BY <2>0, <3>2, <3>3
  <2>2. SkipBody(t, i, g) = SkipBody(t, i, h)
    BY <2>1 DEF SkipBody
  <2>3. QED
    BY <1>1, <2>2
<1> HIDE DEF body, rank
<1>5. PICK f \in [Nat -> Nat] : f = [i \in Nat |-> body[<<i, f>>]]
  <2> DEFINE N == Nat
  <2>1. 0 \in N /\ rank \in Ranks(N) /\ body \in Bodies(N, N) /\ Descending(N, N, rank, body)
    BY <1>2, <1>3, <1>4
  <2> HIDE DEF N
  <2>2. \E f \in [N -> N] : f = [i \in N |-> body[<<i, f>>]]
    BY <2>1, RecursiveFunction
  <2>3. QED
    BY <2>2 DEF N
<1>6. [i \in Nat |-> body[<<i, f>>]] = [i \in Nat |-> SkipBody(t, i, f)]
  BY <1>1
<1>7. skip = [i \in Nat |-> SkipBody(t, i, skip)]
  BY <1>5, <1>6
<1>8. \A i : SkipQuotes(t, i) = skip[i]
  BY DEF SkipQuotes, SkipBody
<1> HIDE DEF skip
<1>9. skip[j] = SkipBody(t, j, skip)
  BY <1>7
<1>10. QED
  BY <1>8, <1>9 DEF SkipBody

\* Ordinary characters are passed one by one.
LEMMA SkipRun ==
  ASSUME NEW t \in Seq(Nat), NEW a \in Nat, NEW b \in Nat, a <= b, 1 <= a, b <= Len(t),
         \A i \in a .. b - 1 : Ordinary(t[i])
  PROVE  SkipQuotes(t, a) = SkipQuotes(t, b)
<1> DEFINE Same == {m \in Nat : a + m <= b => SkipQuotes(t, a) = SkipQuotes(t, a + m)}
<1>1. 0 \in Same
  OBVIOUS
<1>2. ASSUME NEW m \in Nat, m \in Same PROVE m + 1 \in Same
  <2>1. SUFFICES ASSUME a + (m + 1) <= b PROVE SkipQuotes(t, a) = SkipQuotes(t, a + (m + 1))
    OBVIOUS
  <2>2. a + m \in a .. b - 1 /\ a + m \in Nat /\ a + m <= Len(t) /\ a + (m + 1) = (a + m) + 1
    BY <2>1
  <2>3. SkipQuotes(t, a) = SkipQuotes(t, a + m)
    BY <1>2, <2>1
  <2>4. Ordinary(t[a + m])
    BY <2>2
  <2>5. SkipQuotes(t, a + m) = SkipQuotes(t, (a + m) + 1)
    BY <2>2, <2>4, SkipStep DEF CharAt, Ordinary
  <2>6. QED
    BY <2>2, <2>3, <2>5
<1> HIDE DEF Same
<1>3. Nat \subseteq Same
  BY <1>1, <1>2, AllNumbers
<1>4. b - a \in Nat /\ a + (b - a) = b
  OBVIOUS
<1>5. b - a \in Same
  BY <1>3, <1>4
<1>6. QED
  BY <1>4, <1>5 DEF Same

\* A piece is passed as a whole.
LEMMA SkipPiece ==
  ASSUME NEW t, NEW ps, NEW at, IsPieces(ps), Layout(t, ps, at), NEW k \in 1 .. Len(ps)
  PROVE  SkipQuotes(t, at[k]) = SkipQuotes(t, at[k + 1])
<1> DEFINE c == ps[k].chars
           a == at[k]
           b == at[k + 1]
<1>1. t \in Seq(Nat) /\ Len(t) \in Nat
  BY DEF Layout
<1>2. /\ c \in Seq(Nat) /\ Len(c) \in Nat /\ Len(c) >= 1
      /\ \/ \A j \in 1 .. Len(c) : Ordinary(c[j])
         \/ /\ Len(c) >= 2 /\ c[1] = Backslash /\ c[2] \in Nat /\ c[2] # 0
            /\ \A j \in 3 .. Len(c) : Ordinary(c[j])
  BY PieceShape DEF IsPieces
<1>3. a \in 2 .. Len(t) /\ b \in 2 .. Len(t) /\ b = a + Len(c)
  <2>1. k \in 1 .. Len(ps) + 1 /\ k + 1 \in 1 .. Len(ps) + 1
    BY DEF IsPieces
  <2>2. QED
    BY <2>1 DEF Layout
<1>4. \A j \in 1 .. Len(c) : t[a + j - 1] = c[j]
  BY DEF Layout
<1> HIDE DEF a, b, c
<1>5. ASSUME NEW i \in a .. b - 1 PROVE (i - a) + 1 \in 1 .. Len(c) /\ t[i] = c[(i - a) + 1]
  <2>1. (i - a) + 1 \in 1 .. Len(c) /\ a + ((i - a) + 1) - 1 = i
    BY <1>1, <1>2, <1>3
  <2>2. QED
    BY <1>4, <2>1
<1>6. CASE \A j \in 1 .. Len(c) : Ordinary(c[j])
  <2>1. \A i \in a .. b - 1 : Ordinary(t[i])
    BY <1>5, <1>6
  <2>2. a \in Nat /\ b \in Nat /\ a <= b /\ 1 <= a /\ b <= Len(t)
    BY <1>1, <1>2, <1>3, SMTT(40)
  <2>3. SkipQuotes(t, a) = SkipQuotes(t, b)
    BY <1>1, <2>1, <2>2, SkipRun
  <2>4. QED
    BY <2>3 DEF a, b
<1>7. CASE /\ Len(c) >= 2 /\ c[1] = Backslash /\ c[2] \in Nat /\ c[2] # 0
           /\ \A j \in 3 .. Len(c) : Ordinary(c[j])
  <2>1. /\ a \in Nat /\ a + 2 \in Nat /\ b \in Nat /\ a + 2 <= b /\ 1 <= a + 2 /\ b <= Len(t)
        /\ a \in a .. b - 1 /\ a + 1 \in a .. b - 1 /\ a <= Len(t) /\ a + 1 <= Len(t)
        /\ (a - a) + 1 = 1 /\ ((a + 1) - a) + 1 = 2
    <3>1. a \in Nat /\ 2 <= a /\ b \in Nat /\ b <= Len(t) /\ b = a + Len(c)
      BY <1>1, <1>3
    <3>2. a + 2 <= b
      BY <1>2, <1>7, <3>1
    <3>3. QED
      BY <1>1, <3>1, <3>2
  <2>2. t[a] = Backslash /\ t[a + 1] # 0
    <3>1. t[a] = c[1]
      BY <1>5, <2>1
    <3>2. t[a + 1] = c[2]
      BY <1>5, <2>1
    <3>3. QED
      BY <1>7, <3>1, <3>2
  <2>3. SkipQuotes(t, a) = SkipQuotes(t, a + 2)
    <3>1. CharAt(t, a) = Backslash /\ CharAt(t, a + 1) # 0
      BY <2>1, <2>2 DEF CharAt
    <3>2. a \in Nat /\ Backslash # 0 /\ Backslash # Quote
      BY <2>1 DEF Backslash, Quote
    <3>3. SkipQuotes(t, a) =
            IF CharAt(t, a) = 0 THEN 0
            ELSE IF t[a] = Quote THEN a + 1
            ELSE IF t[a] # Backslash THEN SkipQuotes(t, a + 1)
            ELSE IF CharAt(t, a + 1) = 0 THEN 0 ELSE SkipQuotes(t, a + 2)
      BY <1>1, <3>2, SkipStep
    <3>4. t[a] = Backslash
      BY <2>2
    <3>5. QED
      BY <3>1, <3>2, <3>3, <3>4, Zenon
  <2>4. ASSUME NEW i \in a + 2 .. b - 1 PROVE Ordinary(t[i])
    <3>1. i \in a .. b - 1 /\ (i - a) + 1 \in 3 .. Len(c)
      BY <1>2, <1>3, <2>1
    <3>2. QED
      BY <1>5, <1>7, <3>1
  <2>5. SkipQuotes(t, a + 2) = SkipQuotes(t, b)
    BY <1>1, <2>1, <2>4, SkipRun
  <2>6. QED
    BY <2>3, <2>5 DEF a, b
<1>8. QED
  BY <1>2, <1>6, <1>7

\* skip_quotes() goes from the first piece to behind the closing quote.
LEMMA SkipLiteral ==
  ASSUME NEW t, NEW ps, NEW at, IsPieces(ps), Layout(t, ps, at)
  PROVE  SkipQuotes(t, 2) = at[Len(ps) + 1] + 1
<1> DEFINE n == Len(ps)
           Same == {k \in Nat : k + 1 <= n + 1 => SkipQuotes(t, 2) = SkipQuotes(t, at[k + 1])}
<1>1. n \in Nat /\ t \in Seq(Nat) /\ Len(t) \in Nat
  BY DEF IsPieces, Layout
<1>2. 0 \in Same
  BY DEF Layout
<1>3. ASSUME NEW k \in Nat, k \in Same PROVE k + 1 \in Same
  <2>1. SUFFICES ASSUME (k + 1) + 1 <= n + 1
                 PROVE  SkipQuotes(t, 2) = SkipQuotes(t, at[(k + 1) + 1])
    OBVIOUS
  <2>2. k + 1 \in 1 .. n /\ k + 1 <= n + 1
    BY <1>1, <2>1
  <2>3. SkipQuotes(t, at[k + 1]) = SkipQuotes(t, at[(k + 1) + 1])
    BY <2>2, SkipPiece
  <2>4. QED
    BY <1>3, <2>2, <2>3
<1> HIDE DEF Same
<1>4. n \in Same
  BY <1>1, <1>2, <1>3, AllNumbers
<1>5. SkipQuotes(t, 2) = SkipQuotes(t, at[n + 1])
  BY <1>1, <1>4 DEF Same
<1>6. at[n + 1] \in 2 .. Len(t) /\ t[at[n + 1]] = Quote
  <2>1. n + 1 \in 1 .. n + 1
    BY <1>1
  <2>2. QED
    BY <2>1 DEF Layout
<1>7. SkipQuotes(t, at[n + 1]) = at[n + 1] + 1
  BY <1>1, <1>6, SkipStep DEF CharAt, Quote
<1>8. QED
  BY <1>5, <1>7

-----------------------------------------------------------------------------
(* process_string()                                                        *)

LEMMA SeqGrows ==
  ASSUME NEW A, NEW B, A \subseteq B, NEW s \in Seq(A)
  PROVE  s \in Seq(B)
<1>1. Len(s) \in Nat /\ s = [i \in 1 .. Len(s) |-> s[i]] /\ \A i \in 1 .. Len(s) : s[i] \in A
  OBVIOUS
<1>2. \A i \in 1 .. Len(s) : s[i] \in B
  BY <1>1
<1>3. QED
  BY <1>1, <1>2

LEMMA BytesAreInts ==
  /\ NoString \in Seq(Int) /\ NoString \notin Seq(Nat)
  /\ Seq(Nat) \subseteq Seq(Int) /\ Seq(Byte) \subseteq Seq(Nat)
<1>1. NoString \in Seq(Int)
  BY DEF NoString
<1>2. NoString \notin Seq(Nat)
  <2>1. ASSUME NoString \in Seq(Nat) PROVE NoString[1] \in Nat
    BY <2>1 DEF NoString
  <2>2. NoString[1] \notin Nat
    BY DEF NoString
  <2>3. QED
    BY <2>1, <2>2
<1>3. Seq(Nat) \subseteq Seq(Int)
  <2>1. Nat \subseteq Int
    OBVIOUS
  <2>2. QED
    BY <2>1, SeqGrows
<1>4. Seq(Byte) \subseteq Seq(Nat)
  <2>1. Byte \subseteq Nat
    BY DEF Byte
  <2>2. QED
    BY <2>1, SeqGrows
<1>5. QED
  BY <1>1, <1>2, <1>3, <1>4

LEMMA Associates ==
  \A a, b, c \in Seq(Int) : a \o (b \o c) = (a \o b) \o c
<1> SUFFICES ASSUME NEW a \in Seq(Int), NEW b \in Seq(Int), NEW c \in Seq(Int)
             PROVE  a \o (b \o c) = (a \o b) \o c
  OBVIOUS
<1>1. /\ a \o (b \o c) \in Seq(Int) /\ (a \o b) \o c \in Seq(Int)
      /\ Len(a \o (b \o c)) = Len((a \o b) \o c)
  OBVIOUS
<1>2. ASSUME NEW i \in 1 .. Len(a \o (b \o c)) PROVE (a \o (b \o c))[i] = ((a \o b) \o c)[i]
  OBVIOUS
<1>3. QED
  BY <1>1, <1>2, SeqEqual

LEMMA JoinedIs ==
  ASSUME NEW c \in Seq(Int)
  PROVE  /\ Joined(NoString, c) = NoString
         /\ \A a \in Seq(Int) : Joined(a, c) \in Seq(Int) /\ Joined(a, NoString) = NoString
         /\ \A a \in Seq(Nat) : c \in Seq(Nat) => Joined(a, c) = a \o c
         /\ Joined(<< >>, c) = c
         /\ \A a, b \in Seq(Nat) : a \o b \in Seq(Nat) /\ Joined(a, Joined(b, c)) = Joined(a \o b, c)
<1> USE BytesAreInts
<1>1. Joined(NoString, c) = NoString
  BY DEF Joined
<1>2. ASSUME NEW a \in Seq(Int) PROVE Joined(a, c) \in Seq(Int) /\ Joined(a, NoString) = NoString
  <2>1. a \o c \in Seq(Int)
    OBVIOUS
  <2>2. QED
    BY <2>1 DEF Joined
<1>3. ASSUME NEW a \in Seq(Nat), c \in Seq(Nat) PROVE Joined(a, c) = a \o c
  BY <1>3 DEF Joined
<1>4. Joined(<< >>, c) = c
  <2>1. << >> \o c = c /\ << >> # NoString
    BY DEF NoString
  <2>2. QED
    BY <2>1 DEF Joined
<1>5. ASSUME NEW a \in Seq(Nat), NEW b \in Seq(Nat)
      PROVE  a \o b \in Seq(Nat) /\ Joined(a, Joined(b, c)) = Joined(a \o b, c)
  <2>1. a \o b \in Seq(Nat) /\ a # NoString /\ b # NoString /\ a \o b # NoString
    <3>1. a \o b \in Seq(Nat)
      OBVIOUS
    <3>2. QED
      BY <3>1
  <2>2. CASE c = NoString
    <3>1. Joined(b, c) = NoString /\ Joined(a \o b, c) = NoString /\ Joined(a, NoString) = NoString
      BY <2>2 DEF Joined
    <3>2. QED
      BY <2>1, <3>1
  <2>3. CASE c # NoString
    <3>1. Joined(b, c) = b \o c /\ Joined(a \o b, c) = (a \o b) \o c
      BY <2>1, <2>3 DEF Joined
    <3>2. b \o c # NoString
      <4>1. CASE b = << >>
        <5>1. b \o c = c
          BY <4>1
        <5>2. QED
          BY <2>3, <5>1
      <4>2. CASE b # << >>
        <5>1. 1 \in 1 .. Len(b) /\ b[1] \in Nat
          BY <4>2
        <5>2. b \in Seq(Int)
          OBVIOUS
        <5>3. (b \o c)[1] = b[1]
          BY <5>1, <5>2, ConcatIs
        <5>4. NoString[1] \notin Nat
          BY DEF NoString
        <5>5. QED
          BY <5>1, <5>3, <5>4
      <4>3. QED
        BY <4>1, <4>2
    <3>3. Joined(a, b \o c) = a \o (b \o c)
      BY <2>1, <3>2 DEF Joined
    <3>4. a \o (b \o c) = (a \o b) \o c
      <4>1. a \in Seq(Int) /\ b \in Seq(Int)
        OBVIOUS
      <4>2. QED
        BY <4>1, Associates, ZenonT(40)
    <3>5. QED
      BY <2>1, <3>1, <3>3, <3>4
  <2>4. QED
    BY <2>2, <2>3
<1>6. QED
  BY <1>1, <1>2, <1>3, <1>4, <1>5

LEMMA EncodeIs ==
  /\ \A cp \in CodePoint : Encode(cp) \in Seq(Byte) /\ Encode(cp) \in Seq(Nat)
  /\ \A lead, trail \in Nat : IsLead(lead) /\ IsTrail(trail) => Combine(lead, trail) \in CodePoint
  /\ \A u \in Nat : IsLead(u) \/ IsTrail(u) => u \notin CodePoint
  /\ \A u \in Nat : ~(IsLead(u) /\ IsTrail(u))
  /\ \A u \in Nat : u <= 65535 /\ u \notin CodePoint => IsLead(u) \/ IsTrail(u)
<1>1. \A cp \in CodePoint : Encode(cp) \in Seq(Byte) /\ Encode(cp) \in Seq(Nat)
  BY EscapesAreUtf8, BytesAreInts
<1>2. \A lead, trail \in Nat : IsLead(lead) /\ IsTrail(trail) => Combine(lead, trail) \in CodePoint
  BY PairsAreCodePoints
<1>3. QED
  BY <1>1, <1>2 DEF IsLead, IsTrail, CodePoint

\* One escape \uXXXX of the parser writes bytes and goes on behind itself.
LEMMA Utf16Is ==
  ASSUME NEW t \in Seq(Nat), NEW i \in Nat, i >= 1
  PROVE  Utf16(t, i).bytes \in Seq(Int) /\ Utf16(t, i).next \in Nat /\ Utf16(t, i).next >= i
<1> DEFINE u == CharAt(t, i + 1) - 256
           v == CharAt(t, i + 4) - 256
           pair == /\ IsLead(u) /\ CharAt(t, i + 2) = Backslash /\ CharAt(t, i + 3) = LetterU
                   /\ IsTrail(v)
<1>1. Utf16(t, i) = IF pair THEN [bytes |-> Encode(Combine(u, v)), next |-> i + 5]
                    ELSE IF u \in CodePoint THEN [bytes |-> Encode(u), next |-> i + 2]
                    ELSE [bytes |-> NoString, next |-> i]
  BY DEF Utf16
<1>2. u \in Int /\ v \in Int
  BY DEF CharAt
<1> HIDE DEF u, v
<1>3. CASE pair
  <2>1. u \in Nat /\ v \in Nat
    BY <1>2, <1>3 DEF IsLead, IsTrail
  <2>2. Encode(Combine(u, v)) \in Seq(Int)
    BY <1>3, <2>1, EncodeIs, BytesAreInts
  <2>3. QED
    BY <1>1, <1>3, <2>2
<1>4. CASE ~pair /\ u \in CodePoint
  <2>1. Encode(u) \in Seq(Int)
    BY <1>4, EncodeIs, BytesAreInts
  <2> HIDE DEF pair
  <2>2. QED
    BY <1>1, <1>4, <2>1
<1>5. CASE ~pair /\ u \notin CodePoint
  <2> HIDE DEF pair
  <2>1. QED
    BY <1>1, <1>5, BytesAreInts
<1>6. QED
  BY <1>3, <1>4, <1>5

LEMMA TurnIs ==
  ASSUME NEW t \in Seq(Nat), NEW i \in Nat, i >= 1, i <= Len(t)
  PROVE  Turn(t, i).bytes \in Seq(Int) /\ Turn(t, i).next \in Nat /\ Turn(t, i).next > i
<1>1. t[i] \in Nat /\ << t[i] >> \in Seq(Int) /\ NoString \in Seq(Int)
  BY BytesAreInts
<1>2. CASE t[i] # Backslash
  <2>1. Turn(t, i) = [bytes |-> IF t[i] < 32 THEN NoString ELSE << t[i] >>, next |-> i + 1]
    BY <1>2 DEF Turn
  <2>2. (IF t[i] < 32 THEN NoString ELSE << t[i] >>) \in Seq(Int)
    BY <1>1
  <2>3. QED
    BY <2>1, <2>2
<1>3. CASE t[i] = Backslash /\ CharAt(t, i + 1) \in DOMAIN Escapes
  <2> DEFINE c == CharAt(t, i + 1)
  <2>2. i + 1 <= Len(t)
    <3>1. 0 \notin DOMAIN Escapes
      BY EscapesAre
    <3>2. QED
      BY <1>3, <3>1 DEF CharAt
  <2>3. c = t[i + 1]
    BY <2>2 DEF CharAt
  <2>4. << Escapes[c] >> \in Seq(Int)
    <3> HIDE DEF c
    <3>1. c \in DOMAIN Escapes
      BY <1>3 DEF c
    <3>2. QED
      BY <3>1, EscapeMeans, BytesAreInts
  <2>5. Turn(t, i) = [bytes |-> << Escapes[c] >>, next |-> i + 2]
    BY <1>3, <2>3 DEF Turn
  <2> HIDE DEF c
  <2>6. QED
    BY <2>4, <2>5
<1>4. CASE t[i] = Backslash /\ CharAt(t, i + 1) \notin DOMAIN Escapes /\ CharAt(t, i + 1) = LetterU
  <2>1. Turn(t, i) = Utf16(t, i + 1)
    BY <1>4 DEF Turn
  <2>2. i + 1 \in Nat /\ i + 1 >= 1
    OBVIOUS
  <2>3. QED
    BY <2>1, <2>2, Utf16Is
<1>5. CASE t[i] = Backslash /\ CharAt(t, i + 1) \notin DOMAIN Escapes /\ CharAt(t, i + 1) # LetterU
  <2>1. Turn(t, i) = [bytes |-> NoString, next |-> i + 1]
    BY <1>5 DEF Turn
  <2>2. QED
    BY <1>1, <2>1
<1>6. QED
  BY <1>2, <1>3, <1>4, <1>5

ProcessBody(t, end, j, process) ==
  IF j >= end THEN << >> ELSE Joined(Turn(t, j).bytes, process[Turn(t, j).next])

LEMMA ProcessStep ==
  ASSUME NEW t \in Seq(Nat), NEW end \in Nat, end <= Len(t) + 1, NEW j \in Nat \ {0}
  PROVE  /\ ProcessString(t, j, end) \in Seq(Int)
         /\ ProcessString(t, j, end) =
              IF j >= end THEN << >>
              ELSE Joined(Turn(t, j).bytes, ProcessString(t, Turn(t, j).next, end))
         /\ j < end => /\ j <= Len(t) /\ Turn(t, j).bytes \in Seq(Int)
                       /\ Turn(t, j).next \in Nat \ {0} /\ Turn(t, j).next > j
<1> DEFINE S == Nat \ {0}
           V == Seq(Int)
           rank == [i \in S |-> Left(end, i)]
           body == [p \in S \X [S -> V] |-> ProcessBody(t, end, p[1], p[2])]
           process == CHOOSE f : f = [i \in S |-> ProcessBody(t, end, i, f)]
<1>1. ASSUME NEW i \in S, i < end
      PROVE  /\ i <= Len(t) /\ Turn(t, i).bytes \in V /\ Turn(t, i).next \in S
             /\ Turn(t, i).next > i /\ rank[Turn(t, i).next] < rank[i]
  <2>1. i \in Nat /\ i >= 1 /\ i <= Len(t) /\ i <= end
    BY <1>1
  <2>2. /\ Turn(t, i).bytes \in Seq(Int) /\ Turn(t, i).next \in Nat /\ Turn(t, i).next > i
    BY <2>1, TurnIs
  <2> DEFINE k == Turn(t, i).next
  <2>3. k \in Nat /\ i < k /\ k \in S
    BY <2>1, <2>2
  <2> HIDE DEF k
  <2>4. Left(end, k) < Left(end, i)
    BY <2>1, <2>3, LeftFalls
  <2>5. rank[k] < rank[i]
    BY <2>3, <2>4
  <2>6. QED
    BY <2>1, <2>2, <2>3, <2>5 DEF k
<1>2. ASSUME NEW i \in S, NEW g \in [S -> V]
      PROVE  body[<<i, g>>] = ProcessBody(t, end, i, g) /\ ProcessBody(t, end, i, g) \in V
  <2>1. ASSUME i < end PROVE Joined(Turn(t, i).bytes, g[Turn(t, i).next]) \in V
    <3>1. Turn(t, i).bytes \in V /\ g[Turn(t, i).next] \in V
      BY <1>1, <2>1
    <3>2. QED
      BY <3>1, JoinedIs
  <2>2. << >> \in V
    OBVIOUS
  <2>3. ProcessBody(t, end, i, g) \in V
    BY <2>1, <2>2 DEF ProcessBody
  <2>4. QED
    BY <2>3
<1>3. body \in Bodies(S, V)
  BY <1>2 DEF Bodies
<1>4. rank \in Ranks(S)
  <2>1. ASSUME NEW i \in S PROVE Left(end, i) \in Nat
    BY DEF Left
  <2>2. QED
    BY <2>1 DEF Ranks
<1>5. Descending(S, V, rank, body)
  <2>0. SUFFICES ASSUME NEW i \in S, NEW g \in [S -> V], NEW h \in [S -> V],
                        \A k \in S : rank[k] < rank[i] => g[k] = h[k]
                 PROVE  body[<<i, g>>] = body[<<i, h>>]
    BY DEF Descending
  <2>1. ASSUME i < end PROVE g[Turn(t, i).next] = h[Turn(t, i).next]
    BY <1>1, <2>0, <2>1
  <2>2. ProcessBody(t, end, i, g) = ProcessBody(t, end, i, h)
    BY <2>1, SMTT(40) DEF ProcessBody
  <2>3. QED
    BY <1>2, <2>2
<1>6. << >> \in V
  OBVIOUS
<1>7. PICK f \in [S -> V] : f = [i \in S |-> body[<<i, f>>]]
  <2> HIDE DEF S, V, body, rank
  <2>1. QED
    BY <1>3, <1>4, <1>5, <1>6, RecursiveFunction
<1>8. [i \in S |-> body[<<i, f>>]] = [i \in S |-> ProcessBody(t, end, i, f)]
  BY <1>2
<1>9. process = [i \in S |-> ProcessBody(t, end, i, process)]
  <2> HIDE DEF S, V, body, rank
  <2>1. QED
    BY <1>7, <1>8
<1>10. \A i : ProcessString(t, i, end) = process[i]
  BY DEF ProcessString, ProcessBody
<1> HIDE DEF process
<1>11. ASSUME NEW i \in S PROVE process[i] = ProcessBody(t, end, i, process)
  BY <1>9
<1> DEFINE Good == {m \in Nat : \A i \in S : rank[i] <= m => process[i] \in V}
<1>12. ASSUME NEW i \in S, i >= end PROVE process[i] \in V
  BY <1>6, <1>11, <1>12 DEF ProcessBody
<1>13. 0 \in Good
  <2>1. ASSUME NEW i \in S, rank[i] <= 0 PROVE i >= end
    BY <2>1 DEF Left
  <2>2. QED
    BY <1>12, <2>1
<1>14. ASSUME NEW m \in Nat, m \in Good PROVE m + 1 \in Good
  <2>1. SUFFICES ASSUME NEW i \in S, rank[i] <= m + 1, i < end PROVE process[i] \in V
    BY <1>12
  <2> DEFINE k == Turn(t, i).next
  <2>2. k \in S /\ rank[k] < rank[i] /\ Turn(t, i).bytes \in V
    BY <1>1, <2>1
  <2> HIDE DEF k
  <2>3. rank[k] \in Nat /\ rank[i] \in Nat
    BY <1>4, <2>2 DEF Ranks
  <2> HIDE DEF rank, V
  <2>4. process[k] \in V
    BY <1>14, <2>1, <2>2, <2>3
  <2>5. process[i] = Joined(Turn(t, i).bytes, process[k])
    BY <1>11, <2>1 DEF ProcessBody, k
  <2>6. QED
    BY <2>2, <2>4, <2>5, JoinedIs, ZenonT(40) DEF V
<1> HIDE DEF Good
<1>15. Nat \subseteq Good
  BY <1>13, <1>14, AllNumbers
<1>16. process[j] \in V
  <2>1. rank[j] \in Nat /\ rank[j] <= rank[j]
    BY <1>4 DEF Ranks
  <2> HIDE DEF rank, V
  <2>2. QED
    BY <1>15, <2>1 DEF Good
<1>17. QED
  BY <1>1, <1>10, <1>11, <1>16 DEF ProcessBody

LEMMA CopyGrows ==
  ASSUME NEW c \in Seq(Nat), NEW m \in Nat, m + 1 <= Len(c)
  PROVE  /\ SubSeq(c, 1, m) \in Seq(Nat) /\ << c[m + 1] >> \in Seq(Nat)
         /\ SubSeq(c, 1, m + 1) = SubSeq(c, 1, m) \o << c[m + 1] >>
<1>1. /\ SubSeq(c, 1, m) \in Seq(Nat) /\ << c[m + 1] >> \in Seq(Nat)
      /\ SubSeq(c, 1, m + 1) \in Seq(Nat) /\ Len(SubSeq(c, 1, m + 1)) = m + 1
      /\ Len(SubSeq(c, 1, m)) = m
  OBVIOUS
<1>2. /\ SubSeq(c, 1, m) \o << c[m + 1] >> \in Seq(Nat)
      /\ Len(SubSeq(c, 1, m) \o << c[m + 1] >>) = m + 1
  BY <1>1
<1>3. ASSUME NEW i \in 1 .. m + 1
      PROVE  SubSeq(c, 1, m + 1)[i] = (SubSeq(c, 1, m) \o << c[m + 1] >>)[i]
  BY <1>1, SMTT(40)
<1>4. QED
  BY <1>1, <1>2, <1>3, SeqEqual

\* Characters that need no escape are copied one by one.
LEMMA ProcessRun ==
  ASSUME NEW t \in Seq(Nat), NEW end \in Nat, end <= Len(t) + 1, NEW a \in Nat \ {0},
         NEW c \in Seq(Nat), a + Len(c) <= end,
         \A j \in 1 .. Len(c) : t[a + j - 1] = c[j] /\ c[j] >= 32 /\ c[j] # Backslash
  PROVE  ProcessString(t, a, end) = Joined(c, ProcessString(t, a + Len(c), end))
<1> DEFINE P(i) == ProcessString(t, i, end)
           Copy(m) == SubSeq(c, 1, m)
           Copied == {m \in Nat : m <= Len(c) => P(a) = Joined(Copy(m), P(a + m))}
<1>1. Len(c) \in Nat
  OBVIOUS
<1>2. ASSUME NEW m \in Nat PROVE a + m \in Nat \ {0} /\ P(a + m) \in Seq(Int)
  <2>1. a + m \in Nat \ {0}
    OBVIOUS
  <2>2. QED
    BY <2>1, ProcessStep
<1>3. 0 \in Copied
  <2>1. Copy(0) = << >> /\ a + 0 = a
    OBVIOUS
  <2>a. P(a + 0) \in Seq(Int)
    BY <1>2
  <2> HIDE DEF P, Copy
  <2>2. P(a) = Joined(Copy(0), P(a + 0))
    BY <2>1, <2>a, JoinedIs
  <2>3. QED
    BY <2>2
<1>4. ASSUME NEW m \in Nat, m \in Copied PROVE m + 1 \in Copied
  <2>1. SUFFICES ASSUME m + 1 <= Len(c) PROVE P(a) = Joined(Copy(m + 1), P(a + (m + 1)))
    OBVIOUS
  <2> DEFINE x == c[m + 1]
             i == a + m
  <2>2. m + 1 \in 1 .. Len(c) /\ a + (m + 1) - 1 = i /\ i < end /\ m <= Len(c)
    BY <1>1, <2>1
  <2>3. x \in Nat /\ x >= 32 /\ x # Backslash /\ t[i] = x
    <3>1. t[a + (m + 1) - 1] = c[m + 1]
      BY <2>2
    <3>2. QED
      BY <2>2, <3>1, SMTT(40)
  <2>4. Copy(m) \in Seq(Nat) /\ << x >> \in Seq(Nat) /\ Copy(m) \o << x >> = Copy(m + 1)
    BY <2>1, CopyGrows
  <2>5. P(a) = Joined(Copy(m), P(i))
    BY <1>4, <2>2
  <2>6. i \in Nat \ {0} /\ i + 1 = a + (m + 1) /\ m + 1 \in Nat
    OBVIOUS
  <2> HIDE DEF x, i, Copy
  <2>7. Turn(t, i).bytes = << x >> /\ Turn(t, i).next = i + 1
    BY <2>3 DEF Turn
  <2>8. P(i) = Joined(<< x >>, P(i + 1))
    <3>1. ~(i >= end)
      BY <2>2, <2>6
    <3>2. P(i) = Joined(Turn(t, i).bytes, P(Turn(t, i).next))
      BY <2>6, <3>1, ProcessStep
    <3> HIDE DEF P
    <3>3. QED
      BY <2>7, <3>2
  <2>9. P(i + 1) \in Seq(Int)
    BY <1>2, <2>6
  <2> HIDE DEF P
  <2>10. Joined(Copy(m), Joined(<< x >>, P(i + 1))) = Joined(Copy(m) \o << x >>, P(i + 1))
    BY <2>4, <2>9, JoinedIs, ZenonT(40)
  <2>11. QED
    BY <2>4, <2>5, <2>6, <2>8, <2>10
<1> HIDE DEF Copied
<1>5. Len(c) \in Copied
  BY <1>1, <1>3, <1>4, AllNumbers
<1>6. Copy(Len(c)) = c
  OBVIOUS
<1> HIDE DEF Copy, P
<1>7. P(a) = Joined(Copy(Len(c)), P(a + Len(c)))
  BY <1>1, <1>5 DEF Copied
<1>8. QED
  BY <1>6, <1>7 DEF P

LEMMA PieceAt ==
  ASSUME NEW t, NEW ps, NEW at, IsPieces(ps), Layout(t, ps, at), NEW k \in 1 .. Len(ps)
  PROVE  LET a == at[k]
             c == ps[k].chars
             end == at[Len(ps) + 1]
         IN  /\ t \in Seq(Nat) /\ Len(t) \in Nat /\ end \in Nat /\ end <= Len(t)
             /\ a \in Nat \ {0} /\ c \in Seq(Nat) /\ Len(c) \in Nat /\ Len(c) >= 1
             /\ at[k + 1] = a + Len(c) /\ a + Len(c) <= end /\ a < end
             /\ \A j \in 1 .. Len(c) : CharAt(t, a + j - 1) = c[j] /\ t[a + j - 1] = c[j]
<1> DEFINE a == at[k]
           c == ps[k].chars
           n == Len(ps)
           end == at[n + 1]
<1>1. c \in Seq(Nat) /\ Len(c) \in Nat /\ Len(c) >= 1
  BY PieceShape DEF IsPieces
<1>2. n \in Nat /\ k \in 1 .. n + 1 /\ k + 1 \in 1 .. n + 1 /\ n + 1 \in 1 .. n + 1
  BY DEF IsPieces
<1>3. /\ t \in Seq(Nat) /\ a \in 2 .. Len(t) /\ at[k + 1] <= end /\ end \in 2 .. Len(t)
      /\ at[k + 1] = a + Len(c)
  BY <1>2 DEF Layout
<1>4. \A j \in 1 .. Len(c) : t[a + j - 1] = c[j]
  BY DEF Layout
<1> HIDE DEF a, c, end, n
<1>5. Len(t) \in Nat /\ a \in Nat \ {0} /\ end \in Nat /\ end <= Len(t) /\ a + Len(c) <= end /\ a < end
  <2>1. Len(t) \in Nat
    BY <1>3
  <2>2. QED
    BY <1>1, <1>3, <2>1
<1>6. ASSUME NEW j \in 1 .. Len(c) PROVE CharAt(t, a + j - 1) = c[j]
  <2>1. a + j - 1 <= Len(t)
    BY <1>1, <1>5
  <2>2. QED
    BY <1>4, <2>1 DEF CharAt
<1>7. QED
  BY <1>1, <1>3, <1>4, <1>5, <1>6 DEF a, c, n, end

\* The bytes and the unit of a piece.
LEMMA PieceMeans ==
  ASSUME NEW p, IsPiece(p)
  PROVE  /\ p.unit \in Nat /\ (p.means = NoString \/ p.means \in Seq(Nat))
         /\ IsLead(p.unit) \/ IsTrail(p.unit) => IsUnit(p) /\ p.means = NoString
<1>1. CASE IsRaw(p)
  <2>1. p.means \in Seq(Nat)
    BY <1>1, PieceShape DEF IsRaw
  <2>2. QED
    BY <1>1, <2>1 DEF IsRaw, IsLead, IsTrail
<1>2. CASE IsEscape(p)
  <2>1. p.means \in Seq(Nat)
    BY <1>2, EscapeMeans DEF IsEscape
  <2>2. QED
    BY <1>2, <2>1 DEF IsEscape, IsLead, IsTrail
<1>3. CASE IsUnit(p)
  <2>1. p.unit \in Nat /\ p.means = IF p.unit \in CodePoint THEN Encode(p.unit) ELSE NoString
    BY <1>3 DEF IsUnit
  <2>2. p.unit \in CodePoint => Encode(p.unit) \in Seq(Nat)
    BY EncodeIs
  <2>3. IsLead(p.unit) \/ IsTrail(p.unit) => p.unit \notin CodePoint
    BY <2>1, EncodeIs
  <2>4. QED
    BY <1>3, <2>1, <2>2, <2>3
<1>4. CASE IsMalformed(p)
  BY <1>4 DEF IsMalformed, IsLead, IsTrail
<1>5. QED
  BY <1>1, <1>2, <1>3, <1>4 DEF IsPiece

NextIsTrail(ps, k) == k < Len(ps) /\ IsTrail(ps[k + 1].unit)

\* The parser sees the escape of a trail surrogate where one is written.
TrailSeen(t, i) ==
  CharAt(t, i) = Backslash /\ CharAt(t, i + 1) = LetterU /\ IsTrail(CharAt(t, i + 2) - 256)

LEMMA UnitAt ==
  ASSUME NEW t, NEW ps, NEW at, IsPieces(ps), Layout(t, ps, at), NEW k \in 1 .. Len(ps),
         IsUnit(ps[k])
  PROVE  /\ ps[k].unit \in Nat /\ at[k + 1] = at[k] + 3
         /\ t[at[k]] = Backslash /\ CharAt(t, at[k]) = Backslash
         /\ CharAt(t, at[k] + 1) = LetterU /\ CharAt(t, at[k] + 2) = 256 + ps[k].unit
<1> DEFINE a == at[k]
           c == ps[k].chars
           u == ps[k].unit
<1>1. u \in Nat /\ c = << Backslash, LetterU, 256 + u >>
  BY DEF IsUnit, Hex
<1>2. /\ a \in Nat /\ at[k + 1] = a + Len(c)
      /\ \A j \in 1 .. Len(c) : CharAt(t, a + j - 1) = c[j] /\ t[a + j - 1] = c[j]
  BY PieceAt
<1> HIDE DEF a, c, u
<1>3. Len(c) = 3 /\ c[1] = Backslash /\ c[2] = LetterU /\ c[3] = 256 + u
  BY <1>1
<1>4. 1 \in 1 .. Len(c) /\ 2 \in 1 .. Len(c) /\ 3 \in 1 .. Len(c)
  BY <1>3
<1>5. a + 1 - 1 = a /\ a + 2 - 1 = a + 1 /\ a + 3 - 1 = a + 2
  BY <1>2
<1>6. /\ CharAt(t, a) = c[1] /\ t[a] = c[1] /\ CharAt(t, a + 1) = c[2] /\ CharAt(t, a + 2) = c[3]
  BY <1>2, <1>4, <1>5
<1>7. QED
  BY <1>1, <1>2, <1>3, <1>6 DEF a, c, u

LEMMA TrailAt ==
  ASSUME NEW t, NEW ps, NEW at, IsPieces(ps), Layout(t, ps, at), NEW k \in 1 .. Len(ps)
  PROVE  TrailSeen(t, at[k]) <=> IsTrail(ps[k].unit)
<1> DEFINE a == at[k]
           c == ps[k].chars
<1>1. /\ a \in Nat /\ Len(c) \in Nat /\ Len(c) >= 1
      /\ \A j \in 1 .. Len(c) : CharAt(t, a + j - 1) = c[j]
  BY PieceAt, SMTT(40)
<1> HIDE DEF a, c
<1>2. /\ CharAt(t, a) = c[1]
      /\ Len(c) >= 2 => CharAt(t, a + 1) = c[2]
      /\ Len(c) >= 3 => CharAt(t, a + 2) = c[3]
  <2>1. a + 1 - 1 = a /\ a + 2 - 1 = a + 1 /\ a + 3 - 1 = a + 2 /\ 1 \in 1 .. Len(c)
    BY <1>1
  <2>2. (Len(c) >= 2 => 2 \in 1 .. Len(c)) /\ (Len(c) >= 3 => 3 \in 1 .. Len(c))
    BY <1>1
  <2>3. QED
    BY <1>1, <2>1, <2>2
<1>3. CASE IsUnit(ps[k])
  <2>1. /\ ps[k].unit \in Nat /\ CharAt(t, a) = Backslash
        /\ CharAt(t, a + 1) = LetterU /\ CharAt(t, a + 2) = 256 + ps[k].unit
    BY <1>3, UnitAt DEF a
  <2> DEFINE u == ps[k].unit
  <2>2. u \in Nat /\ CharAt(t, a + 2) = 256 + u
    BY <2>1
  <2> HIDE DEF u
  <2>3. CharAt(t, a + 2) - 256 = u
    BY <2>2
  <2>4. QED
    BY <2>1, <2>3 DEF TrailSeen, a, u
<1>4. CASE ~IsUnit(ps[k])
  <2>1. ~IsTrail(ps[k].unit)
    BY <1>4, PieceMeans DEF IsPieces
  <2>2. IsRaw(ps[k]) \/ IsEscape(ps[k]) \/ IsMalformed(ps[k])
    BY <1>4 DEF IsPieces, IsPiece
  <2>3. CASE IsRaw(ps[k])
    <3>1. c[1] \in Plain
      BY <1>1, <2>3 DEF IsRaw, c
    <3>2. c[1] # Backslash
      BY <3>1 DEF Plain
    <3>3. QED
      BY <1>2, <2>1, <3>2 DEF TrailSeen, a
  <2>4. CASE IsEscape(ps[k])
    <3>1. PICK e \in DOMAIN Escapes : c = << Backslash, e >>
      BY <2>4 DEF IsEscape, c
    <3>2. CharAt(t, a + 1) # LetterU
      BY <1>2, <3>1, EscapesAre, SMTT(40)
    <3>3. QED
      BY <2>1, <3>2 DEF TrailSeen, a
  <2>5. CASE IsMalformed(ps[k])
    <3>1. CASE \E e \in 1 .. 31 : c = << e >>
      <4>1. CharAt(t, a) # Backslash
        BY <1>2, <3>1 DEF Backslash
      <4>2. QED
        BY <2>1, <4>1 DEF TrailSeen, a
    <3>2. CASE \E e \in (1 .. 255) \ (DOMAIN Escapes \cup {LetterU}) : c = << Backslash, e >>
      <4>1. CharAt(t, a + 1) # LetterU
        BY <1>2, <3>2
      <4>2. QED
        BY <2>1, <4>1 DEF TrailSeen, a
    <3>3. CASE \E e \in (1 .. 255) \ (Digits \cup {Quote, Backslash}) :
                  c = << Backslash, LetterU, e >>
      <4>1. PICK e \in 1 .. 255 : c = << Backslash, LetterU, e >>
        BY <3>3
      <4>2. CharAt(t, a + 2) = e
        BY <1>2, <4>1
      <4>3. ~IsTrail(CharAt(t, a + 2) - 256)
        BY <4>2 DEF IsTrail
      <4>4. QED
        BY <2>1, <4>3 DEF TrailSeen, a
    <3>4. QED
      BY <2>5, <3>1, <3>2, <3>3 DEF IsMalformed, c
  <2>6. QED
    BY <2>2, <2>3, <2>4, <2>5
<1>5. QED
  BY <1>3, <1>4

LEMMA TrailNext ==
  ASSUME NEW t, NEW ps, NEW at, IsPieces(ps), Layout(t, ps, at), NEW k \in 1 .. Len(ps)
  PROVE  TrailSeen(t, at[k + 1]) <=> NextIsTrail(ps, k)
<1>1. Len(ps) \in Nat
  BY DEF IsPieces
<1>2. CASE k < Len(ps)
  <2>1. k + 1 \in 1 .. Len(ps)
    BY <1>1, <1>2
  <2>2. QED
    BY <1>2, <2>1, TrailAt DEF NextIsTrail
<1>3. CASE k = Len(ps)
  <2>1. Len(ps) + 1 \in 1 .. Len(ps) + 1
    BY <1>1
  <2>2. t[at[Len(ps) + 1]] = Quote /\ at[Len(ps) + 1] <= Len(t)
    BY <2>1 DEF Layout
  <2>3. CharAt(t, at[k + 1]) # Backslash
    BY <1>3, <2>2 DEF CharAt, Quote, Backslash
  <2>4. QED
    BY <1>3, <2>3 DEF TrailSeen, NextIsTrail
<1>4. QED
  BY <1>1, <1>2, <1>3

LEMMA TurnAtUnit ==
  ASSUME NEW t, NEW a \in Nat, t[a] = Backslash, CharAt(t, a + 1) = LetterU
  PROVE  LET u == CharAt(t, a + 2) - 256
         IN  /\ IsLead(u) /\ TrailSeen(t, a + 3) =>
                  /\ Turn(t, a).bytes = Encode(Combine(u, CharAt(t, a + 5) - 256))
                  /\ Turn(t, a).next = a + 6
             /\ ~(IsLead(u) /\ TrailSeen(t, a + 3)) =>
                  IF u \in CodePoint THEN Turn(t, a).bytes = Encode(u) /\ Turn(t, a).next = a + 3
                  ELSE Turn(t, a).bytes = NoString
<1>1. Turn(t, a) = Utf16(t, a + 1)
  BY EscapesAre DEF Turn
<1>2. /\ (a + 1) + 1 = a + 2 /\ (a + 1) + 2 = a + 3 /\ (a + 1) + 3 = a + 4 /\ (a + 1) + 4 = a + 5
      /\ (a + 1) + 5 = a + 6 /\ (a + 3) + 1 = a + 4 /\ (a + 3) + 2 = a + 5
  OBVIOUS
<1> DEFINE u == CharAt(t, a + 2) - 256
           v == CharAt(t, a + 5) - 256
           pair == IsLead(u) /\ TrailSeen(t, a + 3)
<1>3. Utf16(t, a + 1) = IF pair THEN [bytes |-> Encode(Combine(u, v)), next |-> a + 6]
                        ELSE IF u \in CodePoint THEN [bytes |-> Encode(u), next |-> a + 3]
                        ELSE [bytes |-> NoString, next |-> a + 1]
  BY <1>2 DEF Utf16, TrailSeen
<1> HIDE DEF pair
<1>4. CASE pair
  BY <1>1, <1>3, <1>4 DEF pair
<1>5. CASE ~pair
  BY <1>1, <1>3, <1>5 DEF pair
<1>6. QED
  BY <1>4, <1>5

\* The escapes of a lead and a trail surrogate are read as one code point.
LEMMA ReadPair ==
  ASSUME NEW t, NEW ps, NEW at, IsPieces(ps), Layout(t, ps, at), NEW k \in 1 .. Len(ps),
         IsLead(ps[k].unit), NextIsTrail(ps, k)
  PROVE  LET end == at[Len(ps) + 1]
             bytes == Encode(Combine(ps[k].unit, ps[k + 1].unit))
         IN  /\ bytes \in Seq(Nat)
             /\ ProcessString(t, at[k], end) = Joined(bytes, ProcessString(t, at[k + 2], end))
<1> DEFINE a == at[k]
           end == at[Len(ps) + 1]
           u == ps[k].unit
           v == ps[k + 1].unit
<1>1. Len(ps) \in Nat /\ k \in Nat
  BY DEF IsPieces
<1>2. k + 1 \in 1 .. Len(ps)
  BY <1>1 DEF NextIsTrail
<1>3. IsUnit(ps[k]) /\ IsUnit(ps[k + 1])
  BY <1>2, PieceMeans DEF IsPieces, NextIsTrail
<1>4. /\ u \in Nat /\ at[k + 1] = a + 3 /\ t[a] = Backslash
      /\ CharAt(t, a + 1) = LetterU /\ CharAt(t, a + 2) = 256 + u
  BY <1>3, UnitAt
<1>5. v \in Nat /\ at[(k + 1) + 1] = at[k + 1] + 3 /\ CharAt(t, at[k + 1] + 2) = 256 + v
  BY <1>2, <1>3, UnitAt
<1>6. /\ t \in Seq(Nat) /\ Len(t) \in Nat /\ end \in Nat /\ end <= Len(t)
      /\ a \in Nat \ {0} /\ a < end
  BY PieceAt
<1>7. TrailSeen(t, at[k + 1])
  BY TrailNext
<1>8. IsLead(u) /\ IsTrail(v)
  BY DEF NextIsTrail
<1>9. Encode(Combine(u, v)) \in Seq(Nat)
  BY <1>4, <1>5, <1>8, EncodeIs
<1> HIDE DEF a, end, u, v
<1>10. at[k + 2] = a + 6 /\ TrailSeen(t, a + 3) /\ CharAt(t, a + 5) = 256 + v
  <2>1. (k + 1) + 1 = k + 2
    BY <1>1
  <2>2. at[k + 2] = (a + 3) + 3 /\ CharAt(t, (a + 3) + 2) = 256 + v
    BY <1>4, <1>5, <2>1
  <2>3. (a + 3) + 3 = a + 6 /\ (a + 3) + 2 = a + 5
    BY <1>6
  <2>4. QED
    BY <1>4, <1>7, <2>2, <2>3
<1>11. u = CharAt(t, a + 2) - 256 /\ v = CharAt(t, a + 5) - 256
  BY <1>4, <1>5, <1>10, SMTT(40)
<1>12. Turn(t, a).bytes = Encode(Combine(u, CharAt(t, a + 5) - 256)) /\ Turn(t, a).next = a + 6
  <2>1. a \in Nat
    BY <1>6
  <2>2. LET w == CharAt(t, a + 2) - 256
        IN  IsLead(w) /\ TrailSeen(t, a + 3) =>
              /\ Turn(t, a).bytes = Encode(Combine(w, CharAt(t, a + 5) - 256))
              /\ Turn(t, a).next = a + 6
    BY <1>4, <2>1, TurnAtUnit
  <2>3. QED
    BY <1>8, <1>10, <1>11, <2>2
<1>13. ProcessString(t, a, end) = Joined(Turn(t, a).bytes, ProcessString(t, Turn(t, a).next, end))
  <2>1. ~(a >= end) /\ end <= Len(t) + 1
    BY <1>6
  <2>2. QED
    BY <1>6, <2>1, ProcessStep
<1>14. QED
  BY <1>9, <1>10, <1>11, <1>12, <1>13 DEF a, end, u, v

\* Every other piece is read as what it means; NoString is no string.
LEMMA ReadSingle ==
  ASSUME NEW t, NEW ps, NEW at, IsPieces(ps), Layout(t, ps, at), NEW k \in 1 .. Len(ps),
         ~(IsLead(ps[k].unit) /\ NextIsTrail(ps, k))
  PROVE  LET end == at[Len(ps) + 1]
         IN  /\ ps[k].means # NoString =>
                  ProcessString(t, at[k], end) = Joined(ps[k].means, ProcessString(t, at[k + 1], end))
             /\ ps[k].means = NoString => ProcessString(t, at[k], end) = NoString
<1> DEFINE a == at[k]
           c == ps[k].chars
           end == at[Len(ps) + 1]
<1>a. /\ t \in Seq(Nat) /\ Len(t) \in Nat /\ end \in Nat /\ end <= Len(t)
      /\ a \in Nat \ {0} /\ c \in Seq(Nat) /\ Len(c) \in Nat /\ Len(c) >= 1
  BY PieceAt
<1>b. at[k + 1] = a + Len(c) /\ a + Len(c) <= end /\ a < end
  BY PieceAt
<1>c. \A j \in 1 .. Len(c) : CharAt(t, a + j - 1) = c[j] /\ t[a + j - 1] = c[j]
  BY PieceAt
<1>1. /\ t \in Seq(Nat) /\ Len(t) \in Nat /\ end \in Nat /\ end <= Len(t)
      /\ a \in Nat \ {0} /\ c \in Seq(Nat) /\ Len(c) \in Nat /\ Len(c) >= 1
      /\ at[k + 1] = a + Len(c) /\ a + Len(c) <= end /\ a < end
      /\ \A j \in 1 .. Len(c) : CharAt(t, a + j - 1) = c[j] /\ t[a + j - 1] = c[j]
  BY <1>a, <1>b, <1>c
<1> DEFINE P(i) == ProcessString(t, i, end)
<1> HIDE DEF a, c, end, P
<1>2. P(a) = Joined(Turn(t, a).bytes, P(Turn(t, a).next))
  <2>1. ~(a >= end) /\ end <= Len(t) + 1
    BY <1>1
  <2>2. QED
    BY <1>1, <2>1, ProcessStep DEF P
<1>3. ASSUME Turn(t, a).bytes = NoString PROVE P(a) = NoString
  BY <1>2, <1>3 DEF Joined
<1>4. /\ CharAt(t, a) = c[1] /\ t[a] = c[1]
      /\ Len(c) >= 2 => CharAt(t, a + 1) = c[2] /\ t[a + 1] = c[2]
      /\ Len(c) >= 3 => CharAt(t, a + 2) = c[3]
  <2>1. a + 1 - 1 = a /\ a + 2 - 1 = a + 1 /\ a + 3 - 1 = a + 2 /\ 1 \in 1 .. Len(c)
    BY <1>1
  <2>2. (Len(c) >= 2 => 2 \in 1 .. Len(c)) /\ (Len(c) >= 3 => 3 \in 1 .. Len(c))
    BY <1>1
  <2>3. QED
    BY <1>1, <2>1, <2>2
<1>5. CASE IsRaw(ps[k])
  <2>1. c \in Seq(Plain) /\ ps[k].means = c
    BY <1>5 DEF IsRaw, c
  <2>2. \A j \in 1 .. Len(c) : c[j] \in Plain
    BY <2>1
  <2>3. \A j \in 1 .. Len(c) : t[a + j - 1] = c[j] /\ c[j] >= 32 /\ c[j] # Backslash
    BY <1>1, <2>2, PlainIs DEF Ordinary
  <2>4. end <= Len(t) + 1
    BY <1>1
  <2>5. P(a) = Joined(c, P(a + Len(c)))
    BY <1>1, <2>3, <2>4, ProcessRun DEF P
  <2>6. c # NoString
    BY <1>1, BytesAreInts
  <2>7. QED
    BY <1>1, <2>1, <2>5, <2>6 DEF P, a, end
<1>6. CASE IsEscape(ps[k])
  <2>1. PICK e \in DOMAIN Escapes : c = << Backslash, e >> /\ ps[k].means = << Escapes[e] >>
    BY <1>6 DEF IsEscape, c
  <2>2. Len(c) = 2 /\ t[a] = Backslash /\ t[a + 1] = e /\ CharAt(t, a + 1) = e
    BY <1>4, <2>1
  <2>3. Turn(t, a).bytes = << Escapes[e] >> /\ Turn(t, a).next = a + 2
    BY <2>2 DEF Turn
  <2>4. << Escapes[e] >> # NoString
    BY EscapeMeans, BytesAreInts
  <2>5. QED
    BY <1>1, <1>2, <2>1, <2>2, <2>3, <2>4 DEF P, a, end
<1>7. CASE IsUnit(ps[k])
  <2> DEFINE u == ps[k].unit
  <2>1. /\ u \in Nat /\ at[k + 1] = a + 3 /\ t[a] = Backslash
        /\ CharAt(t, a + 1) = LetterU /\ CharAt(t, a + 2) = 256 + u
    BY <1>7, UnitAt DEF a
  <2>2. ps[k].means = IF u \in CodePoint THEN Encode(u) ELSE NoString
    BY <1>7 DEF IsUnit
  <2>3. TrailSeen(t, at[k + 1]) <=> NextIsTrail(ps, k)
    BY TrailNext
  <2>a. IsLead(u) => ~NextIsTrail(ps, k)
    OBVIOUS
  <2> HIDE DEF u
  <2>4. ~(IsLead(u) /\ TrailSeen(t, a + 3)) /\ u = CharAt(t, a + 2) - 256
    BY <2>1, <2>3, <2>a
  <2>5. IF u \in CodePoint THEN Turn(t, a).bytes = Encode(u) /\ Turn(t, a).next = a + 3
        ELSE Turn(t, a).bytes = NoString
    <3>1. a \in Nat
      BY <1>1
    <3>2. LET w == CharAt(t, a + 2) - 256
          IN  ~(IsLead(w) /\ TrailSeen(t, a + 3)) =>
                IF w \in CodePoint THEN Turn(t, a).bytes = Encode(w) /\ Turn(t, a).next = a + 3
                ELSE Turn(t, a).bytes = NoString
      BY <2>1, <3>1, TurnAtUnit
    <3>3. QED
      BY <2>4, <3>2
  <2>6. CASE u \in CodePoint
    <3>1. Encode(u) # NoString
      BY <2>6, EncodeIs, BytesAreInts
    <3>2. QED
      BY <1>2, <2>1, <2>2, <2>5, <2>6, <3>1 DEF P, a, end
  <2>7. CASE u \notin CodePoint
    BY <1>3, <2>2, <2>5, <2>7 DEF P, a, end
  <2>8. QED
    BY <2>6, <2>7
<1>8. CASE IsMalformed(ps[k])
  <2>1. Turn(t, a).bytes = NoString
    <3>1. CASE \E e \in 1 .. 31 : c = << e >>
      <4>1. t[a] # Backslash /\ t[a] < 32
        BY <1>4, <3>1 DEF Backslash
      <4>2. QED
        BY <4>1 DEF Turn
    <3>2. CASE \E e \in (1 .. 255) \ (DOMAIN Escapes \cup {LetterU}) : c = << Backslash, e >>
      <4>1. t[a] = Backslash /\ CharAt(t, a + 1) \notin DOMAIN Escapes /\ CharAt(t, a + 1) # LetterU
        BY <1>4, <3>2
      <4>2. QED
        BY <4>1 DEF Turn
    <3>3. CASE \E e \in (1 .. 255) \ (Digits \cup {Quote, Backslash}) :
                  c = << Backslash, LetterU, e >>
      <4>1. PICK e \in 1 .. 255 : c = << Backslash, LetterU, e >>
        BY <3>3
      <4>2. t[a] = Backslash /\ CharAt(t, a + 1) = LetterU /\ CharAt(t, a + 2) = e
        BY <1>4, <4>1
      <4> DEFINE u == CharAt(t, a + 2) - 256
      <4>3. a \in Nat
        BY <1>1
      <4>a. u = e - 256
        BY <4>2
      <4>4. ~(IsLead(u) /\ TrailSeen(t, a + 3)) =>
              IF u \in CodePoint THEN Turn(t, a).bytes = Encode(u) /\ Turn(t, a).next = a + 3
              ELSE Turn(t, a).bytes = NoString
        BY <4>2, <4>3, TurnAtUnit
      <4> HIDE DEF u
      <4>5. ~IsLead(u) /\ u \notin CodePoint
        BY <4>a DEF IsLead, CodePoint
      <4>6. QED
        BY <4>4, <4>5
    <3>4. QED
      BY <1>8, <3>1, <3>2, <3>3 DEF IsMalformed, c
  <2>2. QED
    BY <1>3, <1>8, <2>1, SMTT(40) DEF IsMalformed, P, a, end
<1>9. QED
  BY <1>5, <1>6, <1>7, <1>8 DEF IsPieces, IsPiece

\* A piece that is malformed, or half of a pair.
IsBad(ps, k) == ps[k].means = NoString /\ ~Paired(ps, k)

\* The parser may come to the k-th piece: it is not the trail of a pair.
Fresh(ps, k) == ~(k > 1 /\ k <= Len(ps) /\ IsTrail(ps[k].unit) /\ IsLead(ps[k - 1].unit))

LEMMA GoodMeaning ==
  ASSUME NEW ps, IsPieces(ps), NEW k \in 1 .. Len(ps), ~IsBad(ps, k)
  PROVE  MeaningOf(ps, k) \in Seq(Nat)
<1>1. Len(ps) \in Nat /\ k \in Nat
  BY DEF IsPieces
<1>2. /\ ps[k].unit \in Nat /\ (ps[k].means = NoString \/ ps[k].means \in Seq(Nat))
      /\ IsLead(ps[k].unit) \/ IsTrail(ps[k].unit) => ps[k].means = NoString
  BY PieceMeans DEF IsPieces
<1>3. CASE IsLead(ps[k].unit)
  <2>1. ~IsTrail(ps[k].unit)
    BY <1>2, <1>3, EncodeIs
  <2>2. k < Len(ps) /\ IsTrail(ps[k + 1].unit)
    BY <1>2, <1>3, <2>1 DEF IsBad, Paired
  <2>3. k + 1 \in 1 .. Len(ps)
    BY <1>1, <2>2
  <2>4. ps[k + 1].unit \in Nat
    BY <2>3, PieceMeans DEF IsPieces
  <2>5. Encode(Combine(ps[k].unit, ps[k + 1].unit)) \in Seq(Nat)
    BY <1>2, <1>3, <2>2, <2>4, EncodeIs
  <2>6. QED
    BY <1>3, <2>5 DEF MeaningOf
<1>4. CASE ~IsLead(ps[k].unit) /\ IsTrail(ps[k].unit)
  BY <1>4 DEF MeaningOf
<1>5. CASE ~IsLead(ps[k].unit) /\ ~IsTrail(ps[k].unit)
  <2>1. ps[k].means # NoString
    BY <1>5 DEF IsBad, Paired
  <2>2. QED
    BY <1>2, <1>5, <2>1 DEF MeaningOf
<1>6. QED
  BY <1>3, <1>4, <1>5

\* The pieces before the b-th are good, and acc[k] is what the first k of them mean.
MeantUpTo(ps, b, acc) ==
  /\ acc[0] = << >> /\ \A k \in 0 .. Len(ps) : acc[k] \in Seq(Nat)
  /\ \A k \in 1 .. b - 1 : ~IsBad(ps, k) /\ acc[k] = acc[k - 1] \o MeaningOf(ps, k)

\* process_string() has read the pieces before a fresh one as what they mean.
LEMMA ReadUpTo ==
  ASSUME NEW t, NEW ps, NEW at, IsPieces(ps), Layout(t, ps, at),
         NEW b \in 1 .. Len(ps) + 1, Fresh(ps, b),
         NEW acc, MeantUpTo(ps, b, acc)
  PROVE  LET end == at[Len(ps) + 1]
         IN  ProcessString(t, 2, end) = Joined(acc[b - 1], ProcessString(t, at[b], end))
<1>0. /\ acc[0] = << >> /\ \A k \in 0 .. Len(ps) : acc[k] \in Seq(Nat)
      /\ \A k \in 1 .. b - 1 : ~IsBad(ps, k) /\ acc[k] = acc[k - 1] \o MeaningOf(ps, k)
  BY DEF MeantUpTo
<1> DEFINE n == Len(ps)
           end == at[n + 1]
           P(i) == ProcessString(t, i, end)
           Told(k) == Fresh(ps, k) => P(2) = Joined(acc[k - 1], P(at[k]))
           Good == {k \in Nat : \A j \in 1 .. k + 1 : j <= b => Told(j)}
<1>1. n \in Nat /\ t \in Seq(Nat) /\ Len(t) \in Nat /\ b \in Nat /\ b <= n + 1
  BY DEF IsPieces, Layout
<1>2. ASSUME NEW k \in 1 .. n + 1
      PROVE  P(at[k]) \in Seq(Int)
  <2>1. n + 1 \in 1 .. n + 1
    BY <1>1
  <2>2. at[k] \in 2 .. Len(t) /\ end \in 2 .. Len(t)
    BY <2>1 DEF Layout
  <2> HIDE DEF end
  <2>3. at[k] \in Nat \ {0} /\ end \in Nat /\ end <= Len(t) + 1
    BY <1>1, <2>2, SMTT(40)
  <2>4. QED
    BY <1>1, <2>3, ProcessStep
<1>3. at[1] = 2
  BY DEF Layout
<1>4. Told(1)
  <2>1. P(2) \in Seq(Int)
    <3>1. 1 \in 1 .. n + 1
      BY <1>1
    <3>2. QED
      BY <1>2, <1>3, <3>1
  <2> HIDE DEF P
  <2>2. Joined(<< >>, P(2)) = P(2)
    BY <2>1, JoinedIs
  <2>3. 1 - 1 = 0
    OBVIOUS
  <2>4. QED
    BY <1>0, <1>3, <2>2, <2>3
<1>5. 0 \in Good
  <2> HIDE DEF Told
  <2>1. QED
    BY <1>4
<1> HIDE DEF P
<1>6. ASSUME NEW k \in Nat, k \in Good PROVE k + 1 \in Good
  <2>1. SUFFICES ASSUME k + 2 <= b, Fresh(ps, k + 2) PROVE P(2) = Joined(acc[k + 1], P(at[k + 2]))
    <3>1. ASSUME NEW j \in 1 .. (k + 1) + 1, j <= b PROVE Told(j)
      <4>1. CASE j \in 1 .. k + 1
        BY <1>6, <3>1, <4>1
      <4>2. CASE j = k + 2
        <5>1. j - 1 = k + 1
          BY <4>2
        <5>2. Fresh(ps, j) => P(2) = Joined(acc[k + 1], P(at[j]))
          BY <2>1, <3>1, <4>2
        <5>3. QED
          BY <5>1, <5>2
      <4>3. QED
        BY <4>1, <4>2
    <3> HIDE DEF Told
    <3>2. QED
      BY <3>1
  <2> DEFINE i == k + 1
  <2>2. /\ i \in Nat /\ i \in 1 .. n /\ i \in 1 .. b - 1 /\ i <= b /\ i - 1 = k /\ i + 1 = k + 2
        /\ i \in 1 .. n + 1 /\ i + 1 \in 1 .. n + 1 /\ i \in 0 .. n /\ k \in 0 .. n
    BY <1>1, <2>1
  <2>3. Fresh(ps, i + 1)
    BY <2>1, <2>2
  <2>4. /\ ~IsBad(ps, i) /\ acc[i] = acc[k] \o MeaningOf(ps, i) /\ MeaningOf(ps, i) \in Seq(Nat)
        /\ acc[k] \in Seq(Nat)
    BY <1>0, <2>2, GoodMeaning
  <2>5. Told(i)
    BY <1>6, <2>2
  <2>6. /\ ps[i].unit \in Nat
        /\ IsLead(ps[i].unit) \/ IsTrail(ps[i].unit) => ps[i].means = NoString
    BY <2>2, PieceMeans DEF IsPieces
  <2>7. P(at[i + 1]) \in Seq(Int)
    BY <1>2, <2>2
  <2> HIDE DEF i
  <2>8. CASE Fresh(ps, i)
    <3>1. ~(IsLead(ps[i].unit) /\ NextIsTrail(ps, i))
      <4>1. SUFFICES ASSUME IsLead(ps[i].unit), NextIsTrail(ps, i) PROVE FALSE
        OBVIOUS
      <4>2. i + 1 > 1 /\ i + 1 <= n /\ (i + 1) - 1 = i
        BY <1>1, <2>2, <4>1 DEF NextIsTrail
      <4>3. QED
        BY <2>3, <4>1, <4>2 DEF Fresh, NextIsTrail
    <3>2. ps[i].means # NoString
      <4>1. i <= n
        BY <1>1, <2>2
      <4>2. QED
        BY <2>4, <2>8, <3>1, <4>1 DEF IsBad, Paired, Fresh, NextIsTrail
    <3>3. MeaningOf(ps, i) = ps[i].means
      BY <2>6, <3>2 DEF MeaningOf
    <3>4. P(at[i]) = Joined(ps[i].means, P(at[i + 1]))
      BY <2>2, <3>1, <3>2, ReadSingle DEF P
    <3>5. P(2) = Joined(acc[k], P(at[i]))
      BY <2>2, <2>5, <2>8
    <3>6. Joined(acc[k], Joined(ps[i].means, P(at[i + 1]))) = Joined(acc[k] \o ps[i].means, P(at[i + 1]))
      BY <2>4, <2>7, <3>3, JoinedIs
    <3>7. QED
      BY <2>2, <2>4, <3>3, <3>4, <3>5, <3>6 DEF i
  <2>9. CASE ~Fresh(ps, i)
    <3> DEFINE h == i - 1
               bytes == Encode(Combine(ps[h].unit, ps[i].unit))
    <3>1. i > 1 /\ i <= n /\ IsTrail(ps[i].unit) /\ IsLead(ps[h].unit)
      BY <2>9 DEF Fresh
    <3>2. /\ h \in Nat /\ h \in 1 .. n /\ h \in 1 .. b - 1 /\ h + 1 = i /\ h + 2 = i + 1 /\ h = k
          /\ h - 1 \in 0 .. n /\ h < n /\ h \in 1 .. k + 1 /\ h <= b
      <4>1. h = k /\ i = k + 1 /\ k >= 1 /\ k + 1 <= n /\ k + 1 <= b - 1
        BY <1>1, <2>2, <3>1 DEF i
      <4>2. h \in Nat /\ h >= 1 /\ h + 1 = i /\ h + 2 = i + 1
        BY <4>1
      <4> HIDE DEF h
      <4>3. QED
        BY <1>1, <4>1, <4>2
    <3> HIDE DEF h
    <3>3. ps[h].unit \in Nat
      BY <3>2, PieceMeans DEF IsPieces
    <3>4. Fresh(ps, h)
      BY <3>1, <3>3, EncodeIs DEF Fresh
    <3>5. NextIsTrail(ps, h)
      BY <3>1, <3>2 DEF NextIsTrail
    <3>6. bytes \in Seq(Nat) /\ P(at[h]) = Joined(bytes, P(at[h + 2]))
      BY <3>1, <3>2, <3>5, ReadPair DEF P
    <3>7. MeaningOf(ps, h) = bytes /\ MeaningOf(ps, i) = << >>
      BY <2>6, <3>1, <3>2, EncodeIs DEF MeaningOf
    <3>8. acc[h] = acc[h - 1] \o bytes /\ acc[h - 1] \in Seq(Nat) /\ acc[i] = acc[h]
      <4>1. acc[h] = acc[h - 1] \o bytes /\ acc[h - 1] \in Seq(Nat)
        BY <1>0, <3>2, <3>7
      <4>2. acc[k] \o << >> = acc[k]
        BY <2>4
      <4>3. QED
        BY <2>4, <3>2, <3>7, <4>1, <4>2
    <3>9. P(2) = Joined(acc[h - 1], P(at[h]))
      <4>1. Told(h)
        BY <1>6, <3>2
      <4>2. QED
        BY <3>4, <4>1
    <3> HIDE DEF bytes
    <3>10. Joined(acc[h - 1], Joined(bytes, P(at[i + 1]))) = Joined(acc[h - 1] \o bytes, P(at[i + 1]))
      BY <2>7, <3>6, <3>8, JoinedIs
    <3>11. QED
      BY <2>2, <3>2, <3>6, <3>8, <3>9, <3>10 DEF i
  <2>10. QED
    BY <2>8, <2>9
<1> HIDE DEF Good, Told
<1>7. Nat \subseteq Good
  BY <1>5, <1>6, AllNumbers
<1>8. Told(b)
  <2>1. b - 1 \in Nat /\ b \in 1 .. (b - 1) + 1 /\ b <= b
    BY <1>1
  <2>2. QED
    BY <1>7, <2>1 DEF Good
<1>9. QED
  BY <1>8 DEF Told, P

\* What the pieces mean in front of the b-th.
LEMMA MeaningsBefore ==
  ASSUME NEW ps, IsPieces(ps), NEW b \in 1 .. Len(ps) + 1, \A k \in 1 .. b - 1 : ~IsBad(ps, k)
  PROVE  \E acc : /\ MeantUpTo(ps, b, acc)
                  /\ b = Len(ps) + 1 =>
                       acc[Len(ps)] = FlattenSeq([i \in DOMAIN ps |-> MeaningOf(ps, i)])
<1> DEFINE n == Len(ps)
           m == [i \in 1 .. n |-> IF i < b THEN MeaningOf(ps, i) ELSE << >>]
<1>1. n \in Nat /\ b \in Nat /\ b <= n + 1 /\ DOMAIN ps = 1 .. n
  BY DEF IsPieces
<1>2. ASSUME NEW i \in 1 .. n PROVE m[i] \in Seq(Nat)
  <2>1. CASE i < b
    <3>1. i \in 1 .. b - 1
      BY <1>1, <2>1
    <3>2. QED
      BY <2>1, <3>1, GoodMeaning
  <2>2. CASE ~(i < b)
    BY <2>2
  <2>3. QED
    BY <2>1, <2>2
<1>3. \A i \in 1 .. b - 1 : i \in 1 .. n /\ m[i] = MeaningOf(ps, i)
  BY <1>1
<1>4. m \in Seq(Seq(Nat)) /\ Len(m) = n
  BY <1>1, <1>2
<1>5. b = n + 1 => m = [i \in DOMAIN ps |-> MeaningOf(ps, i)]
  BY <1>1
<1> HIDE DEF m
<1>6. PICK acc \in [0 .. Len(m) -> Seq(Nat)] :
         /\ acc[0] = << >> /\ acc[Len(m)] = FlattenSeq(m)
         /\ \A k \in 1 .. Len(m) : acc[k] = acc[k - 1] \o m[k]
  BY <1>4, FlattenSteps
<1> HIDE DEF n
<1>7. ASSUME NEW k \in 1 .. b - 1 PROVE acc[k] = acc[k - 1] \o MeaningOf(ps, k)
  BY <1>3, <1>4, <1>6
<1>8. \A k \in 0 .. n : acc[k] \in Seq(Nat)
  BY <1>4, <1>6
<1>9. b = n + 1 => acc[n] = FlattenSeq([i \in DOMAIN ps |-> MeaningOf(ps, i)])
  BY <1>4, <1>5, <1>6
<1>10. QED
  BY <1>6, <1>7, <1>8, <1>9 DEF n, MeantUpTo

\* process_string() reads a literal as what its pieces mean, if they are all good.
LEMMA ProcessLiteral ==
  ASSUME NEW t, NEW ps, NEW at, IsPieces(ps), Layout(t, ps, at)
  PROVE  LET string == ProcessString(t, 2, at[Len(ps) + 1])
             meaning == FlattenSeq([i \in DOMAIN ps |-> MeaningOf(ps, i)])
         IN  /\ Wellformed(ps) => string = meaning /\ meaning \in Seq(Nat)
             /\ ~Wellformed(ps) => string = NoString
<1> DEFINE n == Len(ps)
           end == at[n + 1]
           P(i) == ProcessString(t, i, end)
           meaning == FlattenSeq([i \in DOMAIN ps |-> MeaningOf(ps, i)])
           B == {k \in 1 .. n : IsBad(ps, k)}
<1>1. n \in Nat /\ DOMAIN ps = 1 .. n
  BY DEF IsPieces
<1>2. Wellformed(ps) <=> B = {}
  BY <1>1 DEF Wellformed, IsBad
<1>3. CASE B = {}
  <2> DEFINE b == n + 1
  <2>1. b \in 1 .. n + 1 /\ b - 1 = n /\ b = n + 1
    BY <1>1
  <2>a. \A k \in 1 .. b - 1 : ~IsBad(ps, k)
    BY <1>3, <2>1
  <2>b. Fresh(ps, b)
    BY <1>1 DEF Fresh
  <2> HIDE DEF b
  <2>2. PICK acc : MeantUpTo(ps, b, acc) /\ acc[n] = meaning
    BY <2>1, <2>a, MeaningsBefore
  <2>3. P(2) = Joined(acc[b - 1], P(at[b]))
    BY <2>1, <2>2, <2>b, ReadUpTo
  <2>4. P(end) = << >>
    <3>1. end \in 2 .. Len(t) /\ t \in Seq(Nat)
      BY <2>1 DEF Layout
    <3> HIDE DEF end
    <3>2. end \in Nat \ {0} /\ end <= Len(t) + 1 /\ end >= end /\ end \in Nat
      BY <3>1
    <3>3. QED
      BY <3>1, <3>2, ProcessStep
  <2>5. n \in 0 .. n /\ acc[n] \in Seq(Nat) /\ << >> \in Seq(Nat) /\ << >> \in Seq(Int)
    BY <1>1, <2>2 DEF MeantUpTo
  <2> HIDE DEF P, meaning
  <2>6. Joined(acc[n], << >>) = acc[n] \o << >>
    BY <2>5, JoinedIs
  <2>7. acc[n] \o << >> = acc[n]
    BY <2>5
  <2>8. P(2) = meaning
    BY <2>1, <2>2, <2>3, <2>4, <2>6, <2>7
  <2>9. QED
    BY <1>2, <1>3, <2>2, <2>5, <2>8 DEF P, meaning
<1>4. CASE B # {}
  <2>1. PICK b \in B : \A k \in B : b <= k
    <3>1. B \in SUBSET Nat
      BY <1>1
    <3> HIDE DEF B
    <3>2. QED
      BY <1>4, <3>1, LeastNumber
  <2>2. /\ b \in 1 .. n /\ b \in 1 .. n + 1 /\ b - 1 \in 0 .. n /\ b \in Nat /\ b - 1 \in Nat
        /\ IsBad(ps, b)
    BY <1>1, <2>1
  <2>3. ASSUME NEW k \in 1 .. b - 1 PROVE ~IsBad(ps, k)
    <3>1. k \in 1 .. n /\ ~(b <= k)
      BY <1>1, <2>2
    <3>2. QED
      BY <2>1, <3>1
  <2>4. Fresh(ps, b)
    BY <2>2 DEF Fresh, IsBad, Paired
  <2>5. PICK acc : MeantUpTo(ps, b, acc)
    BY <2>2, <2>3, MeaningsBefore
  <2>6. P(2) = Joined(acc[b - 1], P(at[b]))
    BY <2>2, <2>4, <2>5, ReadUpTo
  <2>7. P(at[b]) = NoString
    <3>1. ~(IsLead(ps[b].unit) /\ NextIsTrail(ps, b)) /\ ps[b].means = NoString
      BY <2>2 DEF IsBad, Paired, NextIsTrail
    <3>2. QED
      BY <2>2, <3>1, ReadSingle
  <2> HIDE DEF P
  <2>8. P(2) = NoString
    BY <2>6, <2>7 DEF Joined
  <2>9. QED
    BY <1>2, <1>4, <2>8 DEF P
<1>5. QED
  BY <1>3, <1>4

\* A literal of any good or bad pieces, with anything behind it.
LEMMA LiteralRead ==
  ASSUME NEW ps, IsPieces(ps), NEW rest \in Seq(Nat)
  PROVE  ReadAs(ps, rest)
<1> DEFINE q == Quoted(Chars(ps))
           t == q \o rest
           meaning == FlattenSeq([i \in DOMAIN ps |-> MeaningOf(ps, i)])
<1>1. PICK at : Layout(t, ps, at) /\ at[Len(ps) + 1] = Len(q)
  BY LayoutExists
<1> DEFINE end == at[Len(ps) + 1]
<1>2. /\ Len(ps) + 1 \in 1 .. Len(ps) + 1 /\ t \in Seq(Nat) /\ t[1] = Quote
      /\ end \in 2 .. Len(t)
  BY <1>1 DEF IsPieces, Layout
<1>3. SkipQuotes(t, 2) = end + 1
  BY <1>1, SkipLiteral
<1>4. /\ Wellformed(ps) => ProcessString(t, 2, end) = meaning /\ meaning \in Seq(Nat)
      /\ ~Wellformed(ps) => ProcessString(t, 2, end) = NoString
  BY <1>1, ProcessLiteral
<1>5. end = Len(q)
  BY <1>1
<1> HIDE DEF t, end, meaning, q
<1>6. CharAt(t, 1) = Quote /\ (end + 1) - 1 = end /\ end + 1 # 0
  <2>1. Len(t) \in Nat /\ 1 <= Len(t) /\ end \in Nat
    BY <1>2
  <2>2. QED
    BY <1>2, <2>1 DEF CharAt
<1>7. GetQuotedString(t) =
        IF ProcessString(t, 2, end) = NoString THEN [string |-> NoString, next |-> end + 1]
        ELSE [string |-> CString(ProcessString(t, 2, end)), next |-> end + 1]
  BY <1>3, <1>6 DEF GetQuotedString
<1>8. CASE Wellformed(ps)
  <2>1. meaning # NoString
    BY <1>4, <1>8, BytesAreInts
  <2>2. GetQuotedString(t) = [string |-> CString(meaning), next |-> Len(q) + 1]
    BY <1>4, <1>5, <1>7, <1>8, <2>1
  <2>3. QED
    BY <1>8, <2>2 DEF ReadAs, Meaning, meaning, t, q
<1>9. CASE ~Wellformed(ps)
  <2>1. GetQuotedString(t) = [string |-> NoString, next |-> Len(q) + 1]
    BY <1>4, <1>5, <1>7, <1>9
  <2>2. QED
    BY <1>9, <2>1 DEF ReadAs, t, q
<1>10. QED
  BY <1>8, <1>9

-----------------------------------------------------------------------------
(* The literals that StringSpec writes.                                    *)

PiecesAreThere == pieces \in Seq(Pieces)

LEMMA PiecesStay == StringSpec => []PiecesAreThere
<1>1. StringInit => PiecesAreThere
  BY DEF StringInit, PiecesAreThere
<1>2. PiecesAreThere /\ [StringNext]_texts => PiecesAreThere'
  BY DEF PiecesAreThere, StringNext, TypePiece, TypeBit, texts
<1>3. QED
  BY <1>1, <1>2, PTL DEF StringSpec

LEMMA PiecesAre ==
  ASSUME PiecesAreThere
  PROVE  IsPieces(pieces)
<1>1. /\ Len(pieces) \in Nat /\ DOMAIN pieces = 1 .. Len(pieces)
      /\ \A k \in 1 .. Len(pieces) : pieces[k] \in Pieces
  BY DEF PiecesAreThere
<1>2. QED
  BY <1>1, PiecesAssumption DEF IsPieces

\* For any pieces, and literals of any length: skip_quotes() and process_string()
\* agree where a literal ends, and get_quoted_string() returns what its pieces mean,
\* or refuses it because of a malformed one.
THEOREM LiteralsAreRead == StringSpec => []QuotedStringRead
<1>1. ASSUME PiecesAreThere PROVE QuotedStringRead
  <2>1. SUFFICES ASSUME NEW rest \in {<< >>, << Quote >>, << Backslash, LetterU, Hex(0) >>}
                 PROVE  ReadAs(pieces, rest)
    BY DEF QuotedStringRead
  <2>2. rest \in Seq(Nat)
    <3>1. << >> \in Seq(Nat) /\ << 34 >> \in Seq(Nat) /\ << 92, 117, 256 >> \in Seq(Nat)
      OBVIOUS
    <3>2. Hex(0) = 256
      BY DEF Hex
    <3>3. QED
      BY <2>1, <3>1, <3>2 DEF Quote, Backslash, LetterU
  <2>3. QED
    BY <1>1, <2>2, PiecesAre, LiteralRead
<1>2. QED
  BY <1>1, PiecesStay, PTL

-----------------------------------------------------------------------------
(* What is read is valid UTF-8.                                            *)

\* The bytes of one code point.
OneSequence(x) ==
  x \in Seq(Byte) /\ x # << >> /\ Verified(x, 1) /\ Announced(x[1]) = Len(x)

LEMMA SequenceIs ==
  ASSUME NEW x, OneSequence(x)
  PROVE  /\ Len(x) \in 1 .. 4 /\ x \in Seq(Nat)
         /\ \A j \in 1 .. Len(x) : x[j] \in Nat /\ (j > 1 => IsCont(x[j])) /\ (x[j] = 0 => Len(x) = 1)
<1>1. x \in Seq(Byte) /\ Len(x) \in Nat /\ Len(x) >= 1
  BY DEF OneSequence
<1>a. x \in Seq(Nat)
  BY <1>1, BytesAreInts
<1>2. \A j \in 1 .. Len(x) : x[j] \in Nat
  BY <1>a
<1>3. Len(x) = Announced(x[1])
  BY DEF OneSequence
<1>4. x[1] \in Nat
  BY <1>1, <1>2
<1>5. Announced(x[1]) \in {0, 1, 2, 3, 4} /\ (x[1] = 0 => Announced(x[1]) = 1)
  BY <1>4 DEF Announced
<1>6. Len(x) \in 1 .. 4 /\ (x[1] = 0 => Len(x) = 1)
  BY <1>1, <1>3, <1>5
<1>7. \A k \in 1 .. Len(x) - 1 : IsCont(x[1 + k])
  BY <1>3 DEF OneSequence, Verified
<1>8. ASSUME NEW j \in 1 .. Len(x) PROVE (j > 1 => IsCont(x[j])) /\ (x[j] = 0 => Len(x) = 1)
  <2>1. CASE j = 1
    BY <1>6, <2>1
  <2>2. CASE j > 1
    <3>1. j - 1 \in 1 .. Len(x) - 1 /\ 1 + (j - 1) = j
      BY <1>1, <2>2
    <3>2. IsCont(x[j])
      BY <1>7, <3>1
    <3>3. QED
      BY <3>2 DEF IsCont
  <2>3. QED
    BY <1>1, <2>1, <2>2
<1>9. QED
  BY <1>2, <1>6, <1>8, <1>a

LEMMA DecodeSame ==
  ASSUME NEW s, NEW x, NEW i, NEW j, NEW n,
         s[i] = x[j], n # 1 => s[i + 1] = x[j + 1],
         n \notin {1, 2} => s[i + 2] = x[j + 2],
         n \notin {1, 2, 3} => s[i + 3] = x[j + 3]
  PROVE  Decode(s, i, n) = Decode(x, j, n)
<1>1. CASE n = 1
  BY <1>1, SMT DEF Decode
<1>2. CASE n # 1 /\ n = 2
  BY <1>2, SMT DEF Decode
<1>3. CASE n # 1 /\ n # 2 /\ n = 3
  BY <1>3, SMT DEF Decode
<1>4. CASE n # 1 /\ n # 2 /\ n # 3
  <2>1. s[i + 1] = x[j + 1] /\ s[i + 2] = x[j + 2] /\ s[i + 3] = x[j + 3]
    BY <1>4
  <2>2. QED
    BY <1>4, <2>1, SMT DEF Decode
<1>5. QED
  BY <1>1, <1>2, <1>3, <1>4

\* The same bytes form a sequence wherever they stand.
StandsAt(s, off, x) == off + Len(x) <= Len(s) /\ \A j \in 1 .. Len(x) : s[off + j] = x[j]

LEMMA SequenceInside ==
  ASSUME NEW s \in Seq(Nat), NEW off \in Nat, NEW x, OneSequence(x), StandsAt(s, off, x)
  PROVE  Verified(s, off + 1) /\ Announced(s[off + 1]) = Len(x)
<1> DEFINE n == Len(x)
<1>1. n \in 1 .. 4 /\ 1 \in 1 .. n
  <2>1. n \in 1 .. 4
    BY SequenceIs
  <2> HIDE DEF n
  <2>2. QED
    BY <2>1
<1>a. \A j \in 1 .. n : s[off + j] = x[j]
  BY DEF StandsAt
<1>2. s[off + 1] = x[1] /\ Announced(s[off + 1]) = n /\ n # 0
  BY <1>1 DEF OneSequence, StandsAt
<1>3. ASSUME NEW k \in 1 .. n - 1
      PROVE  (off + 1) + k <= Len(s) /\ IsCont(s[(off + 1) + k])
  <2>1. 1 + k \in 1 .. n /\ 1 + k > 1 /\ off + (1 + k) = (off + 1) + k
    BY <1>1
  <2>2. IsCont(x[1 + k]) /\ s[off + (1 + k)] = x[1 + k]
    BY <2>1, SequenceIs DEF StandsAt
  <2>3. Len(s) \in Nat /\ off + (1 + k) <= Len(s)
    BY <1>1, <2>1 DEF StandsAt
  <2>4. QED
    BY <2>1, <2>2, <2>3
<1>4. Decode(s, off + 1, n) = Decode(x, 1, n)
  <2>1. /\ n >= 2 => s[off + 2] = x[2]
        /\ n >= 3 => s[off + 3] = x[3]
        /\ n >= 4 => s[off + 4] = x[4]
    <3>1. (n >= 2 => 2 \in 1 .. n) /\ (n >= 3 => 3 \in 1 .. n) /\ (n >= 4 => 4 \in 1 .. n)
      <4> HIDE DEF n
      <4>1. QED
        BY <1>1
    <3> HIDE DEF n
    <3>2. QED
      BY <1>a, <3>1
  <2>2. (off + 1) + 1 = off + 2 /\ (off + 1) + 2 = off + 3 /\ (off + 1) + 3 = off + 4
    OBVIOUS
  <2>3. /\ n # 1 => s[(off + 1) + 1] = x[1 + 1]
        /\ n \notin {1, 2} => s[(off + 1) + 2] = x[1 + 2]
        /\ n \notin {1, 2, 3} => s[(off + 1) + 3] = x[1 + 3]
    BY <1>1, <2>1, <2>2
  <2> HIDE DEF n
  <2>4. QED
    <3>1. s[off + 1] = x[1]
      BY <1>2
    <3> DEFINE i == off + 1
               j == 1
    <3>2. /\ s[i] = x[j]
          /\ n # 1 => s[i + 1] = x[j + 1]
          /\ n \notin {1, 2} => s[i + 2] = x[j + 2]
          /\ n \notin {1, 2, 3} => s[i + 3] = x[j + 3]
      BY <2>3, <3>1
    <3> HIDE DEF i, j
    <3>3. Decode(s, i, n) = Decode(x, j, n)
      BY <3>2, DecodeSame
    <3>4. QED
      BY <3>3 DEF i, j
<1> DEFINE cp == Decode(x, 1, n)
<1>5. /\ (n > 1 => cp >= 128) /\ (n > 2 => cp >= 2048) /\ (n > 3 => cp >= 65536)
      /\ cp <= 1114111 /\ ~IsLead(cp) /\ ~IsTrail(cp)
  BY DEF OneSequence, Verified
<1> HIDE DEF n, cp
<1>6. Verified(s, off + 1)
  BY <1>2, <1>3, <1>4, <1>5 DEF Verified, cp
<1>7. QED
  BY <1>2, <1>6 DEF n

\* is_valid_utf8() goes from a verified sequence to what is behind it.
StopBody(s, i, stop) ==
  IF i <= Len(s) /\ Verified(s, i) THEN stop[i + Announced(s[i])] ELSE i

LEMMA ValidStep ==
  ASSUME NEW s \in Seq(Nat)
  PROVE  \E stop : /\ ValidUtf8(s) <=> stop[1] = Len(s) + 1
                   /\ \A i \in Nat : stop[i] = StopBody(s, i, stop)
<1> DEFINE rank == [i \in Nat |-> Left(Len(s), i)]
           body == [p \in Nat \X [Nat -> Nat] |-> StopBody(s, p[1], p[2])]
           stop == CHOOSE f : f = [i \in Nat |-> StopBody(s, i, f)]
<1>1. ASSUME NEW i \in Nat, i <= Len(s), Verified(s, i)
      PROVE  i + Announced(s[i]) \in Nat /\ rank[i + Announced(s[i])] < rank[i]
  <2> DEFINE m == Announced(s[i])
             k == i + m
  <2>1. m \in {0, 1, 2, 3, 4} /\ m # 0
    BY <1>1 DEF Announced, Verified
  <2> HIDE DEF m
  <2>2. k \in Nat /\ i < k /\ Len(s) \in Nat
    BY <2>1
  <2> HIDE DEF k
  <2>3. Left(Len(s), k) < Left(Len(s), i)
    BY <1>1, <2>2, LeftFalls
  <2>4. QED
    BY <2>2, <2>3 DEF k, m
<1>2. ASSUME NEW i \in Nat, NEW g \in [Nat -> Nat]
      PROVE  body[<<i, g>>] = StopBody(s, i, g) /\ StopBody(s, i, g) \in Nat
  <2>1. i <= Len(s) /\ Verified(s, i) => g[i + Announced(s[i])] \in Nat
    BY <1>1
  <2>2. StopBody(s, i, g) \in Nat
    BY <2>1 DEF StopBody
  <2>3. QED
    BY <2>2
<1>3. body \in Bodies(Nat, Nat)
  BY <1>2 DEF Bodies
<1>4. rank \in Ranks(Nat)
  <2>1. ASSUME NEW i \in Nat PROVE Left(Len(s), i) \in Nat
    BY LeftFalls, i + 1 \in Nat, i < i + 1, Len(s) \in Nat
  <2>2. QED
    BY <2>1 DEF Ranks
<1>5. Descending(Nat, Nat, rank, body)
  <2>0. SUFFICES ASSUME NEW i \in Nat, NEW g \in [Nat -> Nat], NEW h \in [Nat -> Nat],
                        \A k \in Nat : rank[k] < rank[i] => g[k] = h[k]
                 PROVE  body[<<i, g>>] = body[<<i, h>>]
    BY DEF Descending
  <2>1. i <= Len(s) /\ Verified(s, i) => g[i + Announced(s[i])] = h[i + Announced(s[i])]
    BY <1>1, <2>0
  <2>2. StopBody(s, i, g) = StopBody(s, i, h)
    BY <2>1 DEF StopBody
  <2>3. QED
    BY <1>2, <2>2
<1> HIDE DEF body, rank
<1>6. PICK f \in [Nat -> Nat] : f = [i \in Nat |-> body[<<i, f>>]]
  <2> DEFINE N == Nat
  <2>1. 0 \in N /\ rank \in Ranks(N) /\ body \in Bodies(N, N) /\ Descending(N, N, rank, body)
    BY <1>3, <1>4, <1>5
  <2> HIDE DEF N
  <2>2. \E f \in [N -> N] : f = [i \in N |-> body[<<i, f>>]]
    BY <2>1, RecursiveFunction
  <2>3. QED
    BY <2>2 DEF N
<1>7. [i \in Nat |-> body[<<i, f>>]] = [i \in Nat |-> StopBody(s, i, f)]
  BY <1>2
<1>8. stop = [i \in Nat |-> StopBody(s, i, stop)]
  BY <1>6, <1>7
<1>9. ValidUtf8(s) <=> stop[1] = Len(s) + 1
  BY DEF ValidUtf8, StopBody
<1> HIDE DEF stop
<1>10. QED
  BY <1>8, <1>9

\* A string is valid UTF-8 when it can be cut into sequences: the k-th of them is
\* behind position cut[k - 1], if there is any between that and cut[k].
LEMMA ValidCut ==
  ASSUME NEW s \in Seq(Nat), NEW n \in Nat, NEW cut \in Sums(n), cut[0] = 0, cut[n] = Len(s),
         \A k \in 1 .. n :
            \/ cut[k] = cut[k - 1]
            \/ /\ cut[k - 1] + 1 <= Len(s) /\ Verified(s, cut[k - 1] + 1)
               /\ cut[k] = cut[k - 1] + Announced(s[cut[k - 1] + 1])
  PROVE  ValidUtf8(s)
<1>1. PICK stop : /\ ValidUtf8(s) <=> stop[1] = Len(s) + 1
                  /\ \A i \in Nat : stop[i] = StopBody(s, i, stop)
  BY ValidStep
<1> DEFINE Ends == {k \in 0 .. n : stop[cut[k] + 1] = Len(s) + 1}
<1>2. Len(s) \in Nat /\ \A k \in 0 .. n : cut[k] \in Nat
  BY DEF Sums
<1>3. n \in Ends
  <2>1. Len(s) + 1 \in Nat /\ ~(Len(s) + 1 <= Len(s))
    BY <1>2
  <2>2. stop[Len(s) + 1] = Len(s) + 1
    BY <1>1, <2>1 DEF StopBody
  <2>3. cut[n] + 1 = Len(s) + 1 /\ n \in 0 .. n
    OBVIOUS
  <2>4. stop[cut[n] + 1] = Len(s) + 1
    BY <2>2, <2>3
  <2>5. QED
    BY <2>3, <2>4
<1>4. ASSUME NEW k \in 1 .. n, k \in Ends PROVE k - 1 \in Ends
  <2> DEFINE i == cut[k - 1] + 1
  <2>1. k - 1 \in 0 .. n /\ k \in 0 .. n /\ cut[k - 1] \in Nat /\ i \in Nat
    BY <1>2
  <2>2. stop[cut[k] + 1] = Len(s) + 1
    BY <1>4
  <2>3. CASE cut[k] = cut[k - 1]
    BY <2>1, <2>2, <2>3
  <2>4. CASE /\ i <= Len(s) /\ Verified(s, i)
             /\ cut[k] = cut[k - 1] + Announced(s[i])
    <3>1. stop[i] = stop[i + Announced(s[i])]
      <4> HIDE DEF i
      <4>1. stop[i] = StopBody(s, i, stop)
        BY <1>1, <2>1
      <4>2. QED
        BY <2>4, <4>1 DEF StopBody
    <3>2. Announced(s[i]) \in Nat
      BY DEF Announced
    <3>3. cut[k] + 1 = i + Announced(s[i])
      BY <2>1, <2>4, <3>2
    <3>4. QED
      BY <2>1, <2>2, <3>1, <3>3
  <2>5. QED
    BY <2>3, <2>4
<1> HIDE DEF Ends
<1>5. 0 \in Ends
  <2>1. 0 .. n \subseteq Ends
    BY <1>3, <1>4, AllNumbersDown
  <2>2. QED
    BY <2>1
<1>6. stop[1] = Len(s) + 1
  <2>1. stop[cut[0] + 1] = Len(s) + 1
    BY <1>5 DEF Ends
  <2>2. cut[0] + 1 = 1
    OBVIOUS
  <2>3. QED
    BY <2>1, <2>2
<1>7. QED
  BY <1>1, <1>6

\* A string ends before its first NUL.
LEMMA CStringIs ==
  ASSUME NEW s \in Seq(Nat)
  PROVE  \E m \in 0 .. Len(s) :
            /\ CString(s) \in Seq(Nat) /\ Len(CString(s)) = m
            /\ \A i \in 1 .. m : CString(s)[i] = s[i] /\ s[i] # 0
            /\ m < Len(s) => s[m + 1] = 0
            /\ m = Len(s) => CString(s) = s
<1>1. Len(s) \in Nat /\ DOMAIN s = 1 .. Len(s)
  OBVIOUS
<1>2. CASE \A i \in 1 .. Len(s) : s[i] # 0
  <2>1. CString(s) = s
    BY <1>2 DEF CString, Contains
  <2>2. Len(s) \in 0 .. Len(s)
    BY <1>1
  <2>3. QED
    BY <1>2, <2>1, <2>2
<1>3. CASE ~\A i \in 1 .. Len(s) : s[i] # 0
  <2> DEFINE Z == {i \in DOMAIN s : s[i] = 0}
  <2>1. Z # {} /\ Z \in SUBSET Nat
    BY <1>1, <1>3
  <2>2. CString(s) = SubSeq(s, 1, Min(Z) - 1)
    BY <1>3 DEF CString, Contains
  <2> HIDE DEF Z
  <2>3. Min(Z) \in Z /\ \A i \in Z : Min(Z) <= i
    <3>1. \E z \in Z : \A i \in Z : z <= i
      BY <2>1, LeastNumber
    <3>2. QED
      BY <3>1 DEF Min
  <2> DEFINE z == Min(Z)
             m == z - 1
  <2>4. z \in Nat /\ z >= 1 /\ z <= Len(s) /\ s[z] = 0
    BY <1>1, <2>3 DEF Z
  <2>5. \A i \in 1 .. Len(s) : s[i] = 0 => z <= i
    BY <1>1, <2>3 DEF Z
  <2> HIDE DEF z
  <2>6. m \in 0 .. Len(s) /\ m < Len(s) /\ m + 1 = z
    BY <1>1, <2>4
  <2> HIDE DEF m
  <2>7. /\ SubSeq(s, 1, m) \in Seq(Nat) /\ Len(SubSeq(s, 1, m)) = m
        /\ \A i \in 1 .. m : SubSeq(s, 1, m)[i] = s[i]
    BY <2>6
  <2>8. ASSUME NEW i \in 1 .. m PROVE s[i] # 0
    <3>1. i \in 1 .. Len(s) /\ ~(z <= i)
      BY <1>1, <2>4, <2>6
    <3>2. QED
      BY <2>5, <3>1
  <2>9. CString(s) = SubSeq(s, 1, m)
    BY <2>2 DEF m, z
  <2>10. QED
    BY <2>4, <2>6, <2>7, <2>8, <2>9
<1>4. QED
  BY <1>2, <1>3

LEMMA OneByte ==
  ASSUME NEW b \in Nat, b <= 127
  PROVE  OneSequence(<< b >>)
<1>1. << b >> \in Seq(Byte) /\ << b >> # << >> /\ Len(<< b >>) = 1 /\ << b >>[1] = b
  BY DEF Byte
<1>2. Announced(b) = 1 /\ Decode(<< b >>, 1, 1) = b
  BY <1>1 DEF Announced, Decode
<1>3. ~IsLead(b) /\ ~IsTrail(b) /\ b <= 1114111
  BY DEF IsLead, IsTrail
<1>4. Verified(<< b >>, 1)
  BY <1>1, <1>2, <1>3 DEF Verified
<1>5. QED
  BY <1>1, <1>2, <1>4 DEF OneSequence

LEMMA EncodeSequence ==
  ASSUME NEW cp \in CodePoint
  PROVE  OneSequence(Encode(cp))
<1> DEFINE x == Encode(cp)
<1>1. x \in Seq(Byte) /\ Verified(x, 1) /\ Announced(x[1]) = Len(x)
  BY EscapesAreUtf8
<1> HIDE DEF x
<1>2. Announced(x[1]) # 0
  BY <1>1 DEF Verified
<1>3. x # << >>
  BY <1>1, <1>2
<1>4. QED
  BY <1>1, <1>3 DEF OneSequence, x

LEMMA MeaningSequence ==
  ASSUME NEW ps \in Seq(Pieces), NEW k \in 1 .. Len(ps), ~IsBad(ps, k)
  PROVE  MeaningOf(ps, k) = << >> \/ OneSequence(MeaningOf(ps, k))
<1> DEFINE p == ps[k]
<1>0. IsPieces(ps) /\ p \in Pieces /\ Len(ps) \in Nat
  <2>1. Len(ps) \in Nat /\ DOMAIN ps = 1 .. Len(ps) /\ \A i \in 1 .. Len(ps) : ps[i] \in Pieces
    OBVIOUS
  <2>2. QED
    BY <2>1, PiecesAssumption DEF IsPieces
<1>1. CASE IsLead(p.unit)
  <2>1. p.unit \in Nat /\ p.means = NoString
    BY <1>0, <1>1, PieceMeans DEF IsPieces
  <2>2. k < Len(ps) /\ IsTrail(ps[k + 1].unit)
    BY <1>1, <2>1, EncodeIs DEF IsBad, Paired
  <2>3. k + 1 \in 1 .. Len(ps)
    BY <1>0, <2>2
  <2>4. ps[k + 1].unit \in Nat
    BY <1>0, <2>3, PieceMeans DEF IsPieces
  <2>5. Combine(p.unit, ps[k + 1].unit) \in CodePoint
    BY <1>1, <2>1, <2>2, <2>4, EncodeIs
  <2>6. QED
    BY <1>1, <2>5, EncodeSequence DEF MeaningOf
<1>2. CASE ~IsLead(p.unit) /\ IsTrail(p.unit)
  BY <1>2 DEF MeaningOf
<1>3. CASE ~IsLead(p.unit) /\ ~IsTrail(p.unit)
  <2>1. p.means # NoString /\ MeaningOf(ps, k) = p.means
    BY <1>3 DEF IsBad, Paired, MeaningOf
  <2> HIDE DEF p
  <2>2. CASE IsRaw(p)
    <3>1. Plain \subseteq Byte
      BY DEF Plain
    <3>2. p.chars \in Seq(Byte) /\ p.chars # << >> /\ p.means = p.chars
      BY <2>2, <3>1, SeqGrows DEF IsRaw
    <3>3. Verified(p.chars, 1) /\ Announced(p.chars[1]) = Len(p.chars)
      BY <1>0, <2>2, PiecesAssumption
    <3>4. QED
      BY <2>1, <3>2, <3>3 DEF OneSequence
  <2>3. CASE IsEscape(p)
    <3>1. PICK c \in DOMAIN Escapes : p.means = << Escapes[c] >>
      BY <2>3 DEF IsEscape
    <3>2. Escapes[c] \in Nat /\ Escapes[c] <= 127
      BY EscapeMeans
    <3>3. QED
      BY <2>1, <3>1, <3>2, OneByte
  <2>4. CASE IsUnit(p)
    <3>1. p.unit \in CodePoint /\ p.means = Encode(p.unit)
      BY <2>1, <2>4 DEF IsUnit
    <3>2. QED
      BY <2>1, <3>1, EncodeSequence
  <2>5. CASE IsMalformed(p)
    BY <2>1, <2>5 DEF IsMalformed
  <2>6. IsPiece(p)
    BY <1>0, PiecesAssumption
  <2>7. QED
    BY <2>2, <2>3, <2>4, <2>5, <2>6 DEF IsPiece
<1>4. QED
  BY <1>1, <1>2, <1>3

\* What a good literal means is bytes other than the NUL, and valid UTF-8: a first
\* NUL, which an escape may have named, is a sequence of its own.
LEMMA MeaningIsUtf8 ==
  ASSUME NEW ps \in Seq(Pieces), Wellformed(ps)
  PROVE  /\ Meaning(ps) \in Seq(Byte) /\ ValidUtf8(Meaning(ps))
         /\ \A i \in 1 .. Len(Meaning(ps)) : Meaning(ps)[i] # 0
<1> DEFINE n == Len(ps)
           M == [i \in 1 .. n |-> MeaningOf(ps, i)]
           F == FlattenSeq(M)
           s == CString(F)
<1>1. n \in Nat /\ DOMAIN ps = 1 .. n
  OBVIOUS
<1>2. ASSUME NEW k \in 1 .. n
      PROVE  M[k] \in Seq(Byte) /\ (M[k] = << >> \/ OneSequence(M[k]))
  <2>1. ~IsBad(ps, k)
    BY <1>1 DEF Wellformed, IsBad
  <2>2. M[k] = << >> \/ OneSequence(M[k])
    BY <2>1, MeaningSequence
  <2> HIDE DEF M
  <2>3. << >> \in Seq(Byte)
    OBVIOUS
  <2>4. QED
    BY <2>2, <2>3 DEF OneSequence
<1>3. M \in Seq(Seq(Byte)) /\ Len(M) = n
  BY <1>1, <1>2
<1>4. Meaning(ps) = s
  BY <1>1 DEF Meaning
<1> HIDE DEF M, F, n
<1>5. F \in Seq(Byte)
  BY <1>3, FlattenPlaces DEF F
<1>6. PICK at \in [0 .. n -> Nat] :
         /\ at[0] = 0 /\ at[n] = Len(F)
         /\ \A k \in 1 .. n : /\ at[k] = at[k - 1] + Len(M[k])
                              /\ \A j \in 1 .. Len(M[k]) : F[at[k - 1] + j] = M[k][j]
  <2>1. \E at \in [0 .. Len(M) -> Nat] :
           /\ at[0] = 0 /\ at[Len(M)] = Len(FlattenSeq(M))
           /\ \A k \in 1 .. Len(M) :
                /\ at[k] = at[k - 1] + Len(M[k])
                /\ \A j \in 1 .. Len(M[k]) : FlattenSeq(M)[at[k - 1] + j] = M[k][j]
    BY <1>3, FlattenPlaces, ZenonT(40)
  <2>2. QED
    BY <1>3, <2>1 DEF F
<1>7. ASSUME NEW k \in 1 .. n
      PROVE  /\ k \in 0 .. n /\ k - 1 \in 0 .. n /\ at[k] \in Nat /\ at[k - 1] \in Nat
             /\ Len(M[k]) \in Nat /\ at[k] = at[k - 1] + Len(M[k]) /\ at[k - 1] <= at[k]
  <2>1. k \in 0 .. n /\ k - 1 \in 0 .. n
    BY <1>1
  <2>2. at[k] \in Nat /\ at[k - 1] \in Nat /\ Len(M[k]) \in Nat
    BY <1>2, <1>6, <2>1
  <2>3. at[k] = at[k - 1] + Len(M[k])
    BY <1>6
  <2>4. QED
    BY <2>1, <2>2, <2>3
<1>8. F \in Seq(Nat) /\ Len(F) \in Nat
  BY <1>5, BytesAreInts
<1>9. PICK m \in 0 .. Len(F) :
         /\ s \in Seq(Nat) /\ Len(s) = m
         /\ \A i \in 1 .. m : s[i] = F[i] /\ F[i] # 0
         /\ m < Len(F) => F[m + 1] = 0
         /\ m = Len(F) => s = F
  BY <1>8, CStringIs
<1> HIDE DEF s
<1>10. PICK K \in 0 .. n : at[K] = m
  <2>1. CASE m = Len(F)
    <3>1. n \in 0 .. n
      BY <1>1
    <3>2. QED
      BY <1>6, <2>1, <3>1
  <2>2. CASE m < Len(F)
    <3> DEFINE T == {k \in 0 .. n : m + 1 <= at[k]}
    <3>1. n \in T /\ T \in SUBSET Nat
      <4>1. m + 1 <= at[n] /\ n \in 0 .. n
        BY <1>1, <1>6, <1>8, <2>2
      <4>2. QED
        BY <1>1, <4>1
    <3>2. PICK k \in T : \A j \in T : k <= j
      <4> HIDE DEF T
      <4>1. QED
        BY <3>1, LeastNumber
    <3>3. k \in 0 .. n /\ m + 1 <= at[k] /\ m \in Nat
      BY <1>9
    <3>4. k \in 1 .. n
      <4>1. k # 0
        BY <1>6, <3>3
      <4>2. QED
        BY <1>1, <3>3, <4>1
    <3>5. k - 1 \in 0 .. n /\ ~(m + 1 <= at[k - 1])
      <4>1. k - 1 \in 0 .. n /\ ~(k <= k - 1)
        BY <1>1, <3>4
      <4>2. QED
        BY <3>2, <4>1
    <3> DEFINE j == (m + 1) - at[k - 1]
    <3>6. j \in 1 .. Len(M[k]) /\ at[k - 1] + j = m + 1
      <4>1. at[k - 1] \in Nat /\ Len(M[k]) \in Nat /\ at[k] = at[k - 1] + Len(M[k])
        BY <1>7, <3>4
      <4>2. QED
        BY <3>3, <3>5, <4>1
    <3> HIDE DEF j
    <3>7. M[k][j] = 0
      <4>1. F[at[k - 1] + j] = M[k][j]
        BY <1>6, <3>4, <3>6
      <4>2. F[m + 1] = 0
        BY <1>9, <2>2
      <4>3. QED
        BY <3>6, <4>1, <4>2
    <3>8. Len(M[k]) = 1
      <4>1. M[k] # << >>
        BY <3>6
      <4>2. OneSequence(M[k])
        BY <1>2, <3>4, <4>1
      <4>3. QED
        BY <3>6, <3>7, <4>2, SequenceIs
    <3>9. at[k - 1] = m
      <4>1. j = 1
        BY <3>6, <3>8
      <4>2. at[k - 1] \in Nat
        BY <1>7, <3>4
      <4>3. QED
        BY <3>3, <3>6, <4>1, <4>2
    <3>10. QED
      BY <3>5, <3>9
  <2>3. m \in 0 .. Len(F)
    OBVIOUS
  <2>4. QED
    BY <1>8, <2>1, <2>2, <2>3
<1> DEFINE cut == [k \in 0 .. K |-> at[k]]
<1>11. ASSUME NEW k \in 1 .. K
       PROVE  /\ k \in 1 .. n /\ cut[k] = at[k] /\ cut[k - 1] = at[k - 1]
              /\ at[k] <= Len(s)
  <2>1. k \in 1 .. n /\ k \in 0 .. K /\ k - 1 \in 0 .. K /\ k \in 0 .. n /\ k <= K
    BY <1>1
  <2>2. at \in Sums(n)
    BY <1>6 DEF Sums
  <2>3. \A i \in 1 .. n : at[i - 1] <= at[i]
    BY <1>7
  <2>4. at[k] <= at[K]
    BY <1>1, <2>1, <2>2, <2>3, NeverFalls
  <2>5. QED
    BY <1>9, <1>10, <2>1, <2>4
<1>12. /\ cut \in Sums(K) /\ cut[0] = 0 /\ cut[K] = Len(s) /\ K \in Nat
  <2>1. K \in Nat /\ 0 \in 0 .. K /\ K \in 0 .. K /\ \A k \in 0 .. K : k \in 0 .. n
    BY <1>1
  <2>2. QED
    BY <1>6, <1>9, <1>10, <2>1 DEF Sums
<1> HIDE DEF cut
<1>13. ASSUME NEW k \in 1 .. K
       PROVE  \/ cut[k] = cut[k - 1]
              \/ /\ cut[k - 1] + 1 <= Len(s) /\ Verified(s, cut[k - 1] + 1)
                 /\ cut[k] = cut[k - 1] + Announced(s[cut[k - 1] + 1])
  <2> DEFINE x == M[k]
             off == at[k - 1]
  <2>1. /\ k \in 1 .. n /\ cut[k] = at[k] /\ cut[k - 1] = off /\ at[k] <= Len(s)
    BY <1>11
  <2>2. off \in Nat /\ Len(x) \in Nat /\ at[k] = off + Len(x)
    BY <1>7, <2>1
  <2>3. x = << >> \/ OneSequence(x)
    BY <1>2, <2>1
  <2>4. \A j \in 1 .. Len(x) : F[off + j] = x[j]
    BY <1>6, <2>1
  <2> HIDE DEF x, off
  <2>5. CASE x = << >>
    <3>1. Len(x) = 0
      BY <2>5
    <3>2. at[k] = off
      BY <2>2, <3>1
    <3>3. QED
      BY <2>1, <3>2
  <2>6. CASE OneSequence(x)
    <3>1. Len(x) >= 1
      <4> DEFINE l == Len(x)
      <4>1. l \in 1 .. 4
        BY <2>6, SequenceIs
      <4> HIDE DEF l
      <4>2. l >= 1
        BY <4>1
      <4>3. QED
        BY <4>2 DEF l
    <3>2. off + Len(x) <= Len(s)
      BY <2>1, <2>2
    <3>3. ASSUME NEW j \in 1 .. Len(x) PROVE s[off + j] = x[j]
      <4>1. off + j \in 1 .. m
        <5>1. off + Len(x) <= m /\ m \in Nat
          BY <1>9, <3>2
        <5>2. QED
          BY <2>2, <5>1
      <4>2. s[off + j] = F[off + j]
        BY <1>9, <4>1
      <4>3. QED
        BY <2>4, <4>2
    <3>4. StandsAt(s, off, x)
      BY <3>2, <3>3 DEF StandsAt
    <3>5. Verified(s, off + 1) /\ Announced(s[off + 1]) = Len(x)
      BY <1>9, <2>2, <2>6, <3>4, SequenceInside
    <3>6. off + 1 <= Len(s)
      <4>1. Len(s) \in Nat
        BY <1>9
      <4>2. QED
        BY <2>2, <3>1, <3>2, <4>1
    <3>7. QED
      BY <2>1, <2>2, <3>5, <3>6
  <2>7. QED
    BY <2>3, <2>5, <2>6
<1>14. ValidUtf8(s)
  BY <1>9, <1>12, <1>13, ValidCut
<1>15. s \in Seq(Byte) /\ \A i \in 1 .. Len(s) : s[i] # 0
  <2>1. ASSUME NEW i \in 1 .. Len(s) PROVE s[i] \in Byte /\ s[i] # 0
    <3>1. i \in 1 .. m /\ i \in 1 .. Len(F)
      BY <1>8, <1>9
    <3>2. F[i] \in Byte
      BY <1>5, <3>1
    <3>3. QED
      BY <1>9, <3>1, <3>2
  <2>2. s = [i \in 1 .. Len(s) |-> s[i]] /\ Len(s) \in Nat
    BY <1>9
  <2>3. QED
    BY <2>1, <2>2
<1>16. QED
  BY <1>4, <1>14, <1>15

-----------------------------------------------------------------------------
(* What the serializer writes is a literal of good pieces.                 *)

HasEscape(b) == \E c \in DOMAIN Escapes : Escapes[c] = b

WrittenAs(b) ==
  [chars |-> Escaped(b), means |-> << b >>, unit |-> IF b < 32 /\ ~HasEscape(b) THEN b ELSE 0]

LEMMA WrittenAsIs ==
  ASSUME NEW b \in Nat, b >= 1, b <= 255
  PROVE  /\ IsPiece(WrittenAs(b)) /\ WrittenAs(b).means = << b >>
         /\ ~IsLead(WrittenAs(b).unit) /\ ~IsTrail(WrittenAs(b).unit)
<1> DEFINE p == WrittenAs(b)
<1>1. p.chars = Escaped(b) /\ p.means = << b >> /\ p.unit = IF b < 32 /\ ~HasEscape(b) THEN b ELSE 0
  BY DEF WrittenAs
<1> HIDE DEF p
<1>2. ~IsLead(p.unit) /\ ~IsTrail(p.unit)
  <2>1. p.unit \in Nat /\ p.unit < 32
    BY <1>1
  <2> DEFINE u == p.unit
  <2>2. u \in Nat /\ u < 32
    BY <2>1
  <2> HIDE DEF u
  <2>3. ~IsLead(u) /\ ~IsTrail(u)
    BY <2>2 DEF IsLead, IsTrail
  <2>4. QED
    BY <2>3 DEF u
<1>3. CASE HasEscape(b)
  <2> DEFINE c == CHOOSE c \in DOMAIN Escapes : Escapes[c] = b
  <2>1. c \in DOMAIN Escapes /\ Escapes[c] = b
    BY <1>3 DEF HasEscape
  <2>2. Escaped(b) = << Backslash, c >>
    BY <1>3 DEF HasEscape, Escaped
  <2> HIDE DEF c
  <2>3. p.chars = << Backslash, c >> /\ p.means = << Escapes[c] >> /\ p.unit = 0
    BY <1>1, <1>3, <2>1, <2>2
  <2>4. IsEscape(p)
    BY <2>1, <2>3 DEF IsEscape
  <2>5. QED
    BY <1>1, <1>2, <2>4 DEF IsPiece, p
<1>4. CASE ~HasEscape(b) /\ b < 32
  <2>2. Escaped(b) = << Backslash, LetterU, Hex(b) >>
    BY <1>4 DEF HasEscape, Escaped
  <2>3. b \in CodePoint /\ Encode(b) = << b >> /\ b <= 65535
    BY <1>4 DEF CodePoint, Encode, IsLead, IsTrail
  <2>4. p.unit = b /\ p.chars = << Backslash, LetterU, Hex(b) >> /\ p.means = << b >>
    BY <1>1, <1>4, <2>2
  <2>5. IsUnit(p)
    BY <2>3, <2>4 DEF IsUnit
  <2>6. QED
    BY <1>1, <1>2, <2>5 DEF IsPiece, p
<1>5. CASE ~HasEscape(b) /\ ~(b < 32)
  <2>1. Escaped(b) = << b >>
    BY <1>5 DEF HasEscape, Escaped
  <2>2. b # Quote /\ b # Backslash
    <3>1. /\ Escapes[Quote] = Quote /\ Escapes[Backslash] = Backslash
          /\ Quote \in DOMAIN Escapes /\ Backslash \in DOMAIN Escapes
      BY DEF Escapes, LetterN, Newline, Quote, Backslash, Slash
    <3>2. QED
      BY <1>5, <3>1 DEF HasEscape
  <2>3. b \in Plain
    BY <1>5, <2>2 DEF Plain, Byte
  <2>4. p.chars = << b >> /\ p.means = << b >> /\ p.unit = 0
    BY <1>1, <1>5, <2>1
  <2>5. << b >> \in Seq(Plain) /\ << b >> # << >>
    BY <2>3
  <2>6. IsRaw(p)
    BY <2>4, <2>5 DEF IsRaw
  <2>7. QED
    BY <1>1, <1>2, <2>6 DEF IsPiece, p
<1>6. QED
  BY <1>3, <1>4, <1>5

\* Flattening single elements changes nothing.
LEMMA FlattenSingles ==
  ASSUME NEW s \in Seq(Nat)
  PROVE  FlattenSeq([i \in 1 .. Len(s) |-> << s[i] >>]) = s
<1> DEFINE n == Len(s)
           M == [i \in 1 .. n |-> << s[i] >>]
           F == FlattenSeq(M)
<1>1. n \in Nat /\ M \in Seq(Seq(Nat)) /\ Len(M) = n
  OBVIOUS
<1>2. \A i \in 1 .. n : M[i] = << s[i] >> /\ Len(M[i]) = 1 /\ M[i][1] = s[i]
  OBVIOUS
<1> HIDE DEF M, n
<1>3. PICK at \in [0 .. Len(M) -> Nat] :
         /\ at[0] = 0 /\ at[Len(M)] = Len(F)
         /\ \A k \in 1 .. Len(M) :
              /\ at[k] = at[k - 1] + Len(M[k])
              /\ \A j \in 1 .. Len(M[k]) : F[at[k - 1] + j] = M[k][j]
  BY <1>1, FlattenPlaces, ZenonT(40)
<1>4. F \in Seq(Nat)
  BY <1>1, FlattenPlaces
<1> HIDE DEF F
<1> DEFINE Good == {k \in Nat : k <= n => at[k] = k}
<1>5. 0 \in Good
  BY <1>3
<1>6. ASSUME NEW k \in Nat, k \in Good PROVE k + 1 \in Good
  <2>1. SUFFICES ASSUME k + 1 <= n PROVE at[k + 1] = k + 1
    OBVIOUS
  <2>2. k + 1 \in 1 .. n /\ (k + 1) - 1 = k /\ k <= n
    BY <1>1, <2>1
  <2>3. at[k + 1] = at[k] + Len(M[k + 1]) /\ Len(M[k + 1]) = 1 /\ at[k] = k
    BY <1>1, <1>2, <1>3, <1>6, <2>2
  <2>4. QED
    BY <2>3
<1> HIDE DEF Good
<1>7. ASSUME NEW k \in Nat, k <= n PROVE at[k] = k
  <2>1. k \in Good
    BY <1>5, <1>6, AllNumbers
  <2>2. QED
    BY <1>7, <2>1 DEF Good
<1>8. Len(F) = n
  BY <1>1, <1>3, <1>7
<1>9. ASSUME NEW i \in 1 .. n PROVE F[i] = s[i]
  <2>1. i - 1 \in Nat /\ i - 1 <= n /\ (i - 1) + 1 = i
    BY <1>1
  <2>2. at[i - 1] = i - 1
    BY <1>7, <2>1
  <2>3. 1 \in 1 .. Len(M[i]) /\ M[i][1] = s[i]
    BY <1>2
  <2>4. F[at[i - 1] + 1] = M[i][1]
    BY <1>1, <1>3, <2>3
  <2>5. QED
    BY <2>1, <2>2, <2>3, <2>4
<1>10. F = s
  BY <1>4, <1>8, <1>9, SeqEqual DEF n
<1>11. QED
  BY <1>10 DEF F, M, n

\* What the serializer writes for a string is read as that string.
LEMMA WrittenRead ==
  ASSUME NEW s \in Seq(Byte), \A i \in 1 .. Len(s) : s[i] # 0
  PROVE  GetQuotedString(SerializeString(s)) =
           [string |-> s, next |-> Len(SerializeString(s)) + 1]
<1> DEFINE n == Len(s)
           ps == [i \in 1 .. n |-> WrittenAs(s[i])]
<1>1. n \in Nat /\ DOMAIN s = 1 .. n /\ s \in Seq(Nat) /\ \A i \in 1 .. n : s[i] \in Byte
  BY BytesAreInts
<1>2. ASSUME NEW i \in 1 .. n
      PROVE  /\ IsPiece(ps[i]) /\ ps[i].means = << s[i] >> /\ ps[i].chars = Escaped(s[i])
             /\ ~IsLead(ps[i].unit) /\ ~IsTrail(ps[i].unit) /\ ps[i].means # NoString
  <2> DEFINE b == s[i]
  <2>1. ps[i] = WrittenAs(b) /\ b \in Byte /\ b # 0
    BY <1>1
  <2>2. WrittenAs(b).chars = Escaped(b)
    BY DEF WrittenAs
  <2> HIDE DEF b
  <2>3. b \in Nat /\ b >= 1 /\ b <= 255
    BY <2>1 DEF Byte
  <2>4. << b >> # NoString
    BY <2>3 DEF NoString
  <2> HIDE DEF ps
  <2>5. QED
    BY <2>1, <2>2, <2>3, <2>4, WrittenAsIs DEF b
<1>3. DOMAIN ps = 1 .. n /\ Len(ps) = n
  BY <1>1
<1> HIDE DEF ps, n
<1>4. IsPieces(ps)
  BY <1>1, <1>2, <1>3 DEF IsPieces
<1>5. Wellformed(ps)
  BY <1>2, <1>3 DEF Wellformed
<1>6. Chars(ps) = FlattenSeq([i \in DOMAIN s |-> Escaped(s[i])])
  <2>1. [i \in DOMAIN ps |-> ps[i].chars] = [i \in DOMAIN s |-> Escaped(s[i])]
    BY <1>1, <1>2, <1>3
  <2>2. QED
    BY <2>1 DEF Chars
<1>7. Meaning(ps) = s
  <2>1. [i \in DOMAIN ps |-> MeaningOf(ps, i)] = [i \in 1 .. n |-> << s[i] >>]
    BY <1>2, <1>3 DEF MeaningOf
  <2>2. FlattenSeq([i \in DOMAIN ps |-> MeaningOf(ps, i)]) = s
    BY <1>1, <2>1, FlattenSingles DEF n
  <2>3. CString(s) = s
    BY DEF CString, Contains
  <2>4. QED
    BY <2>2, <2>3 DEF Meaning
<1>8. ReadAs(ps, << >>)
  <2>1. << >> \in Seq(Nat)
    OBVIOUS
  <2>2. QED
    BY <1>4, <2>1, LiteralRead
<1>9. Quoted(Chars(ps)) \o << >> = Quoted(Chars(ps))
  <2>1. << >> \in Seq(Nat)
    OBVIOUS
  <2>2. Quoted(Chars(ps)) \in Seq(Nat)
    BY <1>4, <2>1, LayoutExists
  <2>3. QED
    BY <2>2
<1>10. SerializeString(s) = Quoted(Chars(ps))
  BY <1>6 DEF SerializeString
<1>11. QED
  BY <1>5, <1>7, <1>8, <1>9, <1>10 DEF ReadAs

\* For any pieces, and literals of any length: what get_quoted_string() returns for a
\* good literal is valid UTF-8, and what json_serialize_string() writes for it is read
\* back as the same string.
THEOREM StringsRoundTrip == StringSpec => []StringRoundTrip
<1>1. ASSUME PiecesAreThere PROVE StringRoundTrip
  <2>1. SUFFICES ASSUME Wellformed(pieces)
                 PROVE  /\ ValidUtf8(Meaning(pieces))
                        /\ GetQuotedString(SerializeString(Meaning(pieces))) =
                             [string |-> Meaning(pieces),
                              next   |-> Len(SerializeString(Meaning(pieces))) + 1]
    BY DEF StringRoundTrip
  <2>2. pieces \in Seq(Pieces)
    BY <1>1 DEF PiecesAreThere
  <2>3. /\ Meaning(pieces) \in Seq(Byte) /\ ValidUtf8(Meaning(pieces))
        /\ \A i \in 1 .. Len(Meaning(pieces)) : Meaning(pieces)[i] # 0
    BY <2>1, <2>2, MeaningIsUtf8
  <2>4. QED
    BY <2>3, WrittenRead
<1>2. QED
  BY <1>1, PiecesStay, PTL

-----------------------------------------------------------------------------
(* remove_comments()                                                       *)

\* The states of its loop: where it is, whether in a string, whether behind a backslash.
States == (Nat \ {0}) \X BOOLEAN \X BOOLEAN

Token(token) == token \in Seq(Nat) /\ Len(token) >= 1

Ends(t, open, close, i) == {j \in i + Len(open) .. Len(t) : IsAt(t, j, close)}

RestBody(t, open, close, at, rest) ==
  LET i == at[1]
      inString == at[2]
      escaped == at[3]
      next == Min(Ends(t, open, close, i)) + Len(close)
  IN  IF i > Len(t) THEN << >>
      ELSE IF t[i] = Backslash /\ ~escaped
      THEN << t[i] >> \o rest[<< i + 1, inString, TRUE >>]
      ELSE IF t[i] = Quote /\ ~escaped
      THEN << t[i] >> \o rest[<< i + 1, ~inString, FALSE >>]
      ELSE IF inString \/ ~IsAt(t, i, open)
      THEN << t[i] >> \o rest[<< i + 1, inString, FALSE >>]
      ELSE IF Ends(t, open, close, i) = {} THEN Spaces(Len(open)) \o SubSeq(t, i + Len(open), Len(t))
      ELSE Spaces(next - i) \o rest[<< next, FALSE, FALSE >>]

LEMMA StatesAre ==
  ASSUME NEW i \in Nat, i >= 1, NEW inString \in BOOLEAN, NEW escaped \in BOOLEAN
  PROVE  << i, inString, escaped >> \in States
BY DEF States

LEMMA RestStates ==
  ASSUME NEW t \in Seq(Nat), NEW open, Token(open), NEW close, Token(close),
         NEW at \in States, at[1] <= Len(t)
  PROVE  LET i == at[1]
             ends == Ends(t, open, close, i)
         IN  /\ i \in Nat /\ i >= 1 /\ at[2] \in BOOLEAN /\ at[3] \in BOOLEAN
             /\ << i + 1, at[2], TRUE >> \in States /\ << i + 1, at[2], FALSE >> \in States
             /\ << i + 1, ~at[2], FALSE >> \in States
             /\ ends # {} => /\ Min(ends) + Len(close) \in Nat
                             /\ Min(ends) + Len(close) > i
                             /\ << Min(ends) + Len(close), FALSE, FALSE >> \in States
<1> DEFINE i == at[1]
           ends == Ends(t, open, close, i)
<1>1. i \in Nat /\ i >= 1 /\ at[2] \in BOOLEAN /\ at[3] \in BOOLEAN
  BY DEF States
<1>2. << i + 1, at[2], TRUE >> \in States /\ << i + 1, at[2], FALSE >> \in States
  <2>1. i + 1 \in Nat /\ i + 1 >= 1
    BY <1>1
  <2>2. QED
    BY <1>1, <2>1, StatesAre, Zenon
<1>3. << i + 1, ~at[2], FALSE >> \in States
  <2>1. i + 1 \in Nat /\ i + 1 >= 1
    BY <1>1
  <2>2. (~at[2]) \in BOOLEAN
    OBVIOUS
  <2>3. QED
    BY <2>1, <2>2, StatesAre, Zenon
<1>4. ASSUME ends # {}
      PROVE  /\ Min(ends) + Len(close) \in Nat
             /\ Min(ends) + Len(close) > i
  <2>1. ends \in SUBSET Nat /\ \A j \in ends : j \in Nat /\ j > i
    <3>1. Len(open) \in Nat /\ Len(open) >= 1 /\ Len(t) \in Nat
      BY DEF Token
    <3>2. QED
      BY <1>1, <3>1 DEF Ends
  <2>2. \E x \in ends : \A y \in ends : x <= y
    BY <1>4, <2>1, LeastNumber
  <2>3. Min(ends) \in ends
    BY <2>2 DEF Min
  <2>4. Len(close) \in Nat
    BY DEF Token
  <2>5. Min(ends) \in Nat /\ Min(ends) > i /\ Len(close) >= 1
    BY <2>1, <2>3 DEF Token
  <2> DEFINE m == Min(ends)
             l == Len(close)
  <2>6. m \in Nat /\ m > i /\ l \in Nat /\ l >= 1
    BY <2>4, <2>5
  <2> HIDE DEF ends, i, m, l
  <2>7. m + l \in Nat /\ m + l > i
    BY <1>1, <2>6
  <2>8. QED
    BY <2>7 DEF m, l
<1>5. ends # {} => << Min(ends) + Len(close), FALSE, FALSE >> \in States
  <2>1. ends # {} => /\ Min(ends) + Len(close) \in Nat
                     /\ Min(ends) + Len(close) >= 1
    BY <1>1, <1>4
  <2>2. QED
    BY <2>1, StatesAre, Zenon
<1> HIDE DEF ends
<1>6. QED
  BY <1>1, <1>2, <1>3, <1>4, <1>5 DEF ends

\* Is rest what the loop leaves from each state on?
Leaves(t, open, close, rest) ==
  \A at \in States : rest[at] = RestBody(t, open, close, at, rest)

LEMMA SpacesAre ==
  ASSUME NEW n \in Nat
  PROVE  /\ Spaces(n) \in Seq(Nat) /\ Len(Spaces(n)) = n
         /\ \A k \in 1 .. n : Spaces(n)[k] = Space
BY DEF Spaces, Space

LEMMA RestBodyIs ==
  ASSUME NEW t \in Seq(Nat), NEW open, Token(open), NEW close, Token(close),
         NEW at \in States, NEW g \in [States -> Seq(Nat)]
  PROVE  RestBody(t, open, close, at, g) \in Seq(Nat)
<1> DEFINE i == at[1]
           V == Seq(Nat)
           ends == Ends(t, open, close, i)
           next == Min(ends) + Len(close)
<1>1. /\ i \in Nat /\ i >= 1 /\ Len(t) \in Nat /\ Len(open) \in Nat /\ Len(open) >= 1
      /\ << >> \in V /\ \A a, b \in V : a \o b \in V
  BY DEF States, Token
<1>2. CASE i > Len(t)
  BY <1>1, <1>2 DEF RestBody
<1>3. CASE i <= Len(t)
  <2>1. /\ << i + 1, at[2], TRUE >> \in States /\ << i + 1, at[2], FALSE >> \in States
        /\ << i + 1, ~at[2], FALSE >> \in States
        /\ ends # {} => next \in Nat /\ next > i /\ << next, FALSE, FALSE >> \in States
    BY <1>3, RestStates
  <2>2. << t[i] >> \in V
    BY <1>1, <1>3
  <2>3. Spaces(Len(open)) \in V /\ SubSeq(t, i + Len(open), Len(t)) \in V
    <3>1. Spaces(Len(open)) \in V
      BY <1>1, SpacesAre
    <3> DEFINE k == i + Len(open)
    <3>2. k \in Nat /\ k >= 1
      BY <1>1
    <3> HIDE DEF k
    <3>3. SubSeq(t, k, Len(t)) \in Seq(Nat)
      BY <1>1, <3>2
    <3>4. QED
      BY <3>1, <3>3 DEF k
  <2>4. ends # {} => Spaces(next - i) \in V
    <3> HIDE DEF next, i
    <3>1. ends # {} => next - i \in Nat
      BY <2>1, <1>1
    <3>2. QED
      BY <3>1, SpacesAre
  <2>5. /\ g[<< i + 1, at[2], TRUE >>] \in V /\ g[<< i + 1, at[2], FALSE >>] \in V
        /\ g[<< i + 1, ~at[2], FALSE >>] \in V
        /\ ends # {} => g[<< next, FALSE, FALSE >>] \in V
    <3> HIDE DEF next, i, ends
    <3>1. \A x \in States : g[x] \in V
      OBVIOUS
    <3> HIDE DEF V
    <3>2. QED
      BY <2>1, <3>1, Zenon
  <2>6. RestBody(t, open, close, at, g) \in
          {<< >>, << t[i] >> \o g[<< i + 1, at[2], TRUE >>], << t[i] >> \o g[<< i + 1, ~at[2], FALSE >>],
           << t[i] >> \o g[<< i + 1, at[2], FALSE >>],
           Spaces(Len(open)) \o SubSeq(t, i + Len(open), Len(t))}
        \/ /\ ends # {}
           /\ RestBody(t, open, close, at, g) = Spaces(next - i) \o g[<< next, FALSE, FALSE >>]
    BY Zenon DEF RestBody
  <2> HIDE DEF V, next, ends, i
  <2>7. QED
    BY <1>1, <2>2, <2>3, <2>4, <2>5, <2>6, ZenonT(40) DEF V
<1>4. QED
  BY <1>1, <1>2, <1>3

LEMMA RestExists ==
  ASSUME NEW t \in Seq(Nat), NEW open, Token(open), NEW close, Token(close)
  PROVE  \E rest : /\ Leaves(t, open, close, rest)
                   /\ RemoveComments(t, open, close) = rest[<< 1, FALSE, FALSE >>]
<1> DEFINE V == Seq(Nat)
           rank == [at \in States |-> Left(Len(t), at[1])]
           body == [p \in States \X [States -> V] |-> RestBody(t, open, close, p[1], p[2])]
           rest == CHOOSE f : f = [at \in States |-> RestBody(t, open, close, at, f)]
<1>1. ASSUME NEW at \in States, NEW g \in [States -> V]
      PROVE  /\ body[<<at, g>>] = RestBody(t, open, close, at, g)
             /\ RestBody(t, open, close, at, g) \in V
  <2>1. RestBody(t, open, close, at, g) \in V
    BY RestBodyIs
  <2>2. QED
    BY <2>1
<1>2. body \in Bodies(States, V)
  BY <1>1 DEF Bodies
<1>3. rank \in Ranks(States)
  <2>1. ASSUME NEW at \in States PROVE Left(Len(t), at[1]) \in Nat
    <3>1. at[1] \in Nat /\ Len(t) \in Nat
      BY DEF States
    <3>2. QED
      BY <3>1 DEF Left
  <2>2. QED
    BY <2>1 DEF Ranks
<1>4. Descending(States, V, rank, body)
  <2>0. SUFFICES ASSUME NEW at \in States, NEW g \in [States -> V], NEW h \in [States -> V],
                        \A b \in States : rank[b] < rank[at] => g[b] = h[b]
                 PROVE  body[<<at, g>>] = body[<<at, h>>]
    BY DEF Descending
  <2> DEFINE i == at[1]
             ends == Ends(t, open, close, i)
             next == Min(ends) + Len(close)
  <2>1. ASSUME i <= Len(t), NEW b \in States, b[1] > i PROVE g[b] = h[b]
    <3>1. b[1] \in Nat /\ i \in Nat /\ Len(t) \in Nat
      BY DEF States
    <3>2. Left(Len(t), b[1]) < Left(Len(t), i)
      BY <2>1, <3>1, LeftFalls
    <3>3. QED
      BY <2>0, <3>2
  <2>2. ASSUME i <= Len(t)
        PROVE  /\ g[<< i + 1, at[2], TRUE >>] = h[<< i + 1, at[2], TRUE >>]
               /\ g[<< i + 1, at[2], FALSE >>] = h[<< i + 1, at[2], FALSE >>]
               /\ g[<< i + 1, ~at[2], FALSE >>] = h[<< i + 1, ~at[2], FALSE >>]
               /\ ends # {} => g[<< next, FALSE, FALSE >>] = h[<< next, FALSE, FALSE >>]
    <3>1. /\ << i + 1, at[2], TRUE >> \in States /\ << i + 1, at[2], FALSE >> \in States
          /\ << i + 1, ~at[2], FALSE >> \in States
          /\ ends # {} => next \in Nat /\ next > i /\ << next, FALSE, FALSE >> \in States
          /\ i \in Nat
      BY <2>2, RestStates
    <3>2. i + 1 > i
      BY <3>1, SMTT(40)
    <3>3. ASSUME NEW x, NEW y, NEW z PROVE << x, y, z >>[1] = x
      OBVIOUS
    <3> HIDE DEF next, i, ends
    <3>4. QED
      BY <2>1, <2>2, <3>1, <3>2, <3>3
  <2>3. CASE i > Len(t)
    BY <1>1, <2>3, ZenonT(40) DEF RestBody
  <2>4. CASE i <= Len(t)
    <3>1. RestBody(t, open, close, at, g) = RestBody(t, open, close, at, h)
      BY <2>2, <2>4, Zenon DEF RestBody
    <3>2. QED
      BY <1>1, <3>1
  <2>5. QED
    <3>1. i \in Nat /\ Len(t) \in Nat
      BY DEF States
    <3>2. QED
      BY <2>3, <2>4, <3>1
<1> HIDE DEF body, rank
<1>5. PICK f \in [States -> V] : f = [at \in States |-> body[<<at, f>>]]
  <2>1. << >> \in V
    OBVIOUS
  <2> HIDE DEF V
  <2>2. QED
    BY <1>2, <1>3, <1>4, <2>1, RecursiveFunction
<1>6. [at \in States |-> body[<<at, f>>]] = [at \in States |-> RestBody(t, open, close, at, f)]
  BY <1>1
<1>7. rest = [at \in States |-> RestBody(t, open, close, at, rest)]
  BY <1>5, <1>6
<1>8. RemoveComments(t, open, close) = rest[<< 1, FALSE, FALSE >>]
  BY DEF RemoveComments, RestBody, Ends, States
<1> HIDE DEF rest
<1>9. QED
  BY <1>7, <1>8 DEF Leaves

\* What the loop leaves from i on, in its four modes.
Out(rest, i) == rest[<< i, FALSE, FALSE >>]
OutEscaped(rest, i) == rest[<< i, FALSE, TRUE >>]
In(rest, i) == rest[<< i, TRUE, FALSE >>]
InEscaped(rest, i) == rest[<< i, TRUE, TRUE >>]

\* What the loop does with the character at i, unless a comment begins there.
StepAt(t, open, rest, i) ==
  /\ t[i] = Backslash => /\ Out(rest, i) = << t[i] >> \o OutEscaped(rest, i + 1)
                         /\ In(rest, i) = << t[i] >> \o InEscaped(rest, i + 1)
  /\ t[i] = Quote => /\ Out(rest, i) = << t[i] >> \o In(rest, i + 1)
                     /\ In(rest, i) = << t[i] >> \o Out(rest, i + 1)
  /\ ~IsAt(t, i, open) => OutEscaped(rest, i) = << t[i] >> \o Out(rest, i + 1)
  /\ t[i] # Backslash /\ t[i] # Quote /\ ~IsAt(t, i, open) =>
       Out(rest, i) = << t[i] >> \o Out(rest, i + 1)
  /\ InEscaped(rest, i) = << t[i] >> \o In(rest, i + 1)
  /\ t[i] # Backslash /\ t[i] # Quote => In(rest, i) = << t[i] >> \o In(rest, i + 1)

LEMMA RestStep ==
  ASSUME NEW t \in Seq(Nat), NEW open, NEW close, NEW rest, Leaves(t, open, close, rest),
         NEW i \in Nat, i >= 1, i <= Len(t)
  PROVE  StepAt(t, open, rest, i)
<1>1. ~(i > Len(t)) /\ Backslash # Quote
  <2>1. Len(t) \in Nat
    OBVIOUS
  <2>2. QED
    BY <2>1 DEF Backslash, Quote
<1>2. ASSUME NEW a \in BOOLEAN, NEW b \in BOOLEAN
      PROVE  rest[<< i, a, b >>] = RestBody(t, open, close, << i, a, b >>, rest)
  <2>1. << i, a, b >> \in States
    BY StatesAre
  <2>2. QED
    BY <2>1, Zenon DEF Leaves
<1>3. /\ t[i] = Backslash => Out(rest, i) = << t[i] >> \o OutEscaped(rest, i + 1)
      /\ t[i] = Quote => Out(rest, i) = << t[i] >> \o In(rest, i + 1)
      /\ t[i] # Backslash /\ t[i] # Quote /\ ~IsAt(t, i, open) =>
           Out(rest, i) = << t[i] >> \o Out(rest, i + 1)
  <2> DEFINE p == << i, FALSE, FALSE >>
  <2>1. p[1] = i /\ p[2] = FALSE /\ p[3] = FALSE
    BY Zenon
  <2>2. Out(rest, i) = RestBody(t, open, close, p, rest)
    BY <1>2, Zenon DEF Out
  <2> HIDE DEF p
  <2>3. QED
    BY <1>1, <2>1, <2>2 DEF RestBody, Out, OutEscaped, In, InEscaped
<1>4. ~IsAt(t, i, open) => OutEscaped(rest, i) = << t[i] >> \o Out(rest, i + 1)
  <2> DEFINE p == << i, FALSE, TRUE >>
  <2>1. p[1] = i /\ p[2] = FALSE /\ p[3] = TRUE
    BY Zenon
  <2>2. OutEscaped(rest, i) = RestBody(t, open, close, p, rest)
    BY <1>2, Zenon DEF OutEscaped
  <2> HIDE DEF p
  <2>3. QED
    BY <1>1, <2>1, <2>2 DEF RestBody, Out, OutEscaped, In, InEscaped
<1>5. /\ t[i] = Backslash => In(rest, i) = << t[i] >> \o InEscaped(rest, i + 1)
      /\ t[i] = Quote => In(rest, i) = << t[i] >> \o Out(rest, i + 1)
      /\ t[i] # Backslash /\ t[i] # Quote => In(rest, i) = << t[i] >> \o In(rest, i + 1)
  <2> DEFINE p == << i, TRUE, FALSE >>
  <2>1. p[1] = i /\ p[2] = TRUE /\ p[3] = FALSE
    BY Zenon
  <2>2. In(rest, i) = RestBody(t, open, close, p, rest)
    BY <1>2, Zenon DEF In
  <2> HIDE DEF p
  <2>3. QED
    BY <1>1, <2>1, <2>2 DEF RestBody, Out, OutEscaped, In, InEscaped
<1>6. InEscaped(rest, i) = << t[i] >> \o In(rest, i + 1)
  <2> DEFINE p == << i, TRUE, TRUE >>
  <2>1. p[1] = i /\ p[2] = TRUE /\ p[3] = TRUE
    BY Zenon
  <2>2. InEscaped(rest, i) = RestBody(t, open, close, p, rest)
    BY <1>2, Zenon DEF InEscaped
  <2> HIDE DEF p
  <2>3. QED
    BY <1>1, <2>1, <2>2 DEF RestBody, Out, OutEscaped, In, InEscaped
<1>7. QED
  BY <1>3, <1>4, <1>5, <1>6 DEF StepAt

\* What the loop does with the comment at i.
PassesAt(t, open, close, rest, i) ==
  LET next == Min(Ends(t, open, close, i)) + Len(close) IN
  Out(rest, i) = Spaces(next - i) \o Out(rest, next)

LEMMA CommentStep ==
  ASSUME NEW t \in Seq(Nat), NEW open, NEW close, NEW rest, Leaves(t, open, close, rest),
         NEW i \in Nat, i >= 1, i <= Len(t), t[i] # Backslash, t[i] # Quote, IsAt(t, i, open),
         Ends(t, open, close, i) # {}
  PROVE  PassesAt(t, open, close, rest, i)
<1>1. ~(i > Len(t)) /\ Backslash # Quote
  <2>1. Len(t) \in Nat
    OBVIOUS
  <2>2. QED
    BY <2>1 DEF Backslash, Quote
<1>2. ASSUME NEW a \in BOOLEAN, NEW b \in BOOLEAN
      PROVE  rest[<< i, a, b >>] = RestBody(t, open, close, << i, a, b >>, rest)
  <2>1. << i, a, b >> \in States
    BY StatesAre
  <2>2. QED
    BY <2>1, Zenon DEF Leaves
<1>3. PassesAt(t, open, close, rest, i)
  <2> DEFINE p == << i, FALSE, FALSE >>
  <2>1. p[1] = i /\ p[2] = FALSE /\ p[3] = FALSE
    BY Zenon
  <2>2. Out(rest, i) = RestBody(t, open, close, p, rest)
    BY <1>2, Zenon DEF Out
  <2> HIDE DEF p
  <2>3. QED
    BY <1>1, <2>1, <2>2 DEF RestBody, Out, PassesAt
<1>4. QED
  BY <1>3

\* What stands in r from i on.
From(r, i) == SubSeq(r, i, Len(r))

LEMMA PartIs ==
  ASSUME NEW r \in Seq(Nat), NEW p \in Nat, p >= 1, NEW q \in Nat, p <= q + 1, q <= Len(r)
  PROVE  /\ SubSeq(r, p, q) \in Seq(Nat) /\ Len(SubSeq(r, p, q)) = (q + 1) - p
         /\ \A k \in 1 .. (q + 1) - p : SubSeq(r, p, q)[k] = r[p + k - 1]
OBVIOUS

LEMMA FromJoins ==
  ASSUME NEW r \in Seq(Nat), NEW i \in Nat, i >= 1, NEW c \in Seq(Nat), i + Len(c) <= Len(r) + 1,
         \A k \in 1 .. Len(c) : c[k] = r[i + k - 1]
  PROVE  From(r, i) = c \o From(r, i + Len(c))
<1> DEFINE n == Len(c)
           m == Len(r)
           a == SubSeq(r, i, Len(r))
           b == SubSeq(r, i + Len(c), Len(r))
           d == c \o b
<1>1. n \in Nat /\ m \in Nat /\ i + n <= m + 1
  OBVIOUS
<1>2. a \in Seq(Nat) /\ Len(a) = (m + 1) - i /\ \A k \in 1 .. (m + 1) - i : a[k] = r[i + k - 1]
  OBVIOUS
<1>3. /\ b \in Seq(Nat) /\ Len(b) = (m + 1) - (i + n)
      /\ \A k \in 1 .. (m + 1) - (i + n) : b[k] = r[(i + n) + k - 1]
  <2> DEFINE p == i + n
  <2>1. p \in Nat /\ p >= 1 /\ p <= m + 1
    BY <1>1
  <2> HIDE DEF p
  <2>2. /\ SubSeq(r, p, m) \in Seq(Nat) /\ Len(SubSeq(r, p, m)) = (m + 1) - p
        /\ \A k \in 1 .. (m + 1) - p : SubSeq(r, p, m)[k] = r[p + k - 1]
    BY <1>1, <2>1, PartIs
  <2>3. QED
    BY <2>2 DEF p
<1>4. /\ d \in Seq(Nat) /\ Len(d) = n + Len(b)
      /\ \A k \in 1 .. n : d[k] = c[k]
      /\ \A k \in 1 .. Len(b) : d[n + k] = b[k]
  <2> HIDE DEF b
  <2>1. QED
    BY <1>3, ConcatIs, SMTT(40)
<1>n. \A k \in 1 .. n : c[k] = r[i + k - 1]
  OBVIOUS
<1> HIDE DEF a, b, d, n, m
<1>5. Len(d) = (m + 1) - i
  BY <1>1, <1>3, <1>4
<1>6. ASSUME NEW k \in 1 .. (m + 1) - i PROVE a[k] = d[k]
  <2>1. CASE k <= n
    <3>1. k \in 1 .. n
      BY <1>1, <2>1
    <3>2. QED
      BY <1>2, <1>4, <1>n, <3>1
  <2>2. CASE k > n
    <3>1. k - n \in 1 .. (m + 1) - (i + n) /\ n + (k - n) = k /\ (i + n) + (k - n) - 1 = i + k - 1
      BY <1>1, <2>2
    <3>2. d[k] = b[k - n] /\ b[k - n] = r[i + k - 1]
      <4>1. k - n \in 1 .. Len(b)
        BY <1>3, <3>1
      <4>2. d[n + (k - n)] = b[k - n]
        BY <1>4, <4>1
      <4>3. b[k - n] = r[(i + n) + (k - n) - 1]
        BY <1>3, <3>1
      <4>4. QED
        BY <3>1, <4>2, <4>3
    <3>3. QED
      BY <1>2, <3>2
  <2>3. k <= n \/ k > n
    BY <1>1
  <2>4. QED
    BY <2>1, <2>2, <2>3
<1>7. a = d
  BY <1>2, <1>4, <1>5, <1>6, SeqEqual
<1>8. QED
  BY <1>7 DEF a, b, d, n, m, From

LEMMA FromIs ==
  ASSUME NEW r \in Seq(Nat)
  PROVE  /\ \A i \in 1 .. Len(r) : From(r, i) = << r[i] >> \o From(r, i + 1)
         /\ From(r, Len(r) + 1) = << >> /\ From(r, 1) = r
<1>1. ASSUME NEW i \in 1 .. Len(r) PROVE From(r, i) = << r[i] >> \o From(r, i + 1)
  <2> DEFINE c == << r[i] >>
  <2>1. /\ c \in Seq(Nat) /\ Len(c) = 1 /\ c[1] = r[i] /\ i \in Nat /\ i >= 1
        /\ i + 1 <= Len(r) + 1 /\ i + 1 - 1 = i
    OBVIOUS
  <2> HIDE DEF c
  <2>2. /\ i + Len(c) <= Len(r) + 1
        /\ \A k \in 1 .. Len(c) : c[k] = r[i + k - 1]
    <3>1. \A k \in 1 .. Len(c) : k = 1
      BY <2>1
    <3>2. QED
      BY <2>1, <3>1
  <2>3. From(r, i) = c \o From(r, i + Len(c))
    BY <2>1, <2>2, FromJoins
  <2>4. QED
    BY <2>1, <2>3 DEF c
<1>2. From(r, Len(r) + 1) = << >> /\ From(r, 1) = r
  BY DEF From
<1>3. QED
  BY <1>1, <1>2

LEMMA FromSpaces ==
  ASSUME NEW r \in Seq(Nat), NEW i \in Nat, i >= 1, NEW n \in Nat, i + n <= Len(r) + 1,
         \A j \in i .. i + n - 1 : r[j] = Space
  PROVE  From(r, i) = Spaces(n) \o From(r, i + n)
<1> DEFINE c == Spaces(n)
<1>1. c \in Seq(Nat) /\ Len(c) = n /\ \A k \in 1 .. n : c[k] = Space
  BY SpacesAre
<1> HIDE DEF c
<1>2. \A k \in 1 .. n : c[k] = r[i + k - 1]
  <2>1. \A k \in 1 .. n : i + k - 1 \in i .. i + n - 1
    OBVIOUS
  <2>2. QED
    BY <1>1, <2>1
<1>3. From(r, i) = c \o From(r, i + Len(c))
  BY <1>1, <1>2, FromJoins
<1>4. QED
  BY <1>1, <1>3 DEF c

\* What the loop is about: the text t, the text r it should leave, and its tokens.
Pass(t, r, open, close, rest) ==
  /\ t \in Seq(Nat) /\ r \in Seq(Nat) /\ Len(r) = Len(t)
  /\ open \in Seq(Nat) /\ Len(open) = 2 /\ open[1] = Slash /\ Token(close)
  /\ Leaves(t, open, close, rest)

LEMMA IsAtIs ==
  ASSUME NEW t \in Seq(Nat), NEW i \in Nat, i >= 1
  PROVE  /\ \A a, b \in Nat : IsAt(t, i, << a, b >>) <=> i + 1 <= Len(t) /\ t[i] = a /\ t[i + 1] = b
         /\ \A a \in Nat : IsAt(t, i, << a >>) <=> i <= Len(t) /\ t[i] = a
<1>1. ASSUME NEW a \in Nat, NEW b \in Nat, i + 1 <= Len(t)
      PROVE  SubSeq(t, i, i + 1) = << a, b >> <=> t[i] = a /\ t[i + 1] = b
  <2> DEFINE u == SubSeq(t, i, i + 1)
             v == << a, b >>
  <2>1. u \in Seq(Nat) /\ Len(u) = 2 /\ \A k \in 1 .. 2 : u[k] = t[i + k - 1]
    <3> DEFINE q == i + 1
    <3>1. q \in Nat /\ q <= Len(t) /\ i <= q + 1 /\ (q + 1) - i = 2
      BY <1>1
    <3> HIDE DEF q
    <3>2. /\ SubSeq(t, i, q) \in Seq(Nat) /\ Len(SubSeq(t, i, q)) = (q + 1) - i
          /\ \A k \in 1 .. (q + 1) - i : SubSeq(t, i, q)[k] = t[i + k - 1]
      BY <3>1, PartIs
    <3>3. QED
      BY <3>1, <3>2 DEF q
  <2>2. v \in Seq(Nat) /\ Len(v) = 2 /\ v[1] = a /\ v[2] = b
    OBVIOUS
  <2>3. i + 1 - 1 = i /\ i + 2 - 1 = i + 1 /\ 1 \in 1 .. 2 /\ 2 \in 1 .. 2 /\ \A k \in 1 .. 2 : k = 1 \/ k = 2
    OBVIOUS
  <2> HIDE DEF u, v
  <2>4. u[1] = t[i] /\ u[2] = t[i + 1]
    BY <2>1, <2>3
  <2>5. ASSUME t[i] = a /\ t[i + 1] = b PROVE u = v
    <3>1. \A k \in 1 .. Len(u) : u[k] = v[k]
      BY <2>1, <2>2, <2>3, <2>4, <2>5
    <3>2. QED
      BY <2>1, <2>2, <3>1, SeqEqual
  <2>6. u = v => t[i] = a /\ t[i + 1] = b
    BY <2>2, <2>4
  <2>7. QED
    BY <2>5, <2>6 DEF u, v
<1>2. ASSUME NEW a \in Nat, i <= Len(t) PROVE SubSeq(t, i, i) = << a >> <=> t[i] = a
  <2> DEFINE u == SubSeq(t, i, i)
             v == << a >>
  <2>1. u \in Seq(Nat) /\ Len(u) = 1 /\ u[1] = t[i]
    <3>1. i <= i + 1 /\ (i + 1) - i = 1 /\ i + 1 - 1 = i /\ 1 \in 1 .. 1
      OBVIOUS
    <3>2. /\ SubSeq(t, i, i) \in Seq(Nat) /\ Len(SubSeq(t, i, i)) = (i + 1) - i
          /\ \A k \in 1 .. (i + 1) - i : SubSeq(t, i, i)[k] = t[i + k - 1]
      BY <1>2, <3>1, PartIs
    <3>3. QED
      BY <3>1, <3>2
  <2>2. v \in Seq(Nat) /\ Len(v) = 1 /\ v[1] = a
    OBVIOUS
  <2> HIDE DEF u, v
  <2>3. ASSUME t[i] = a PROVE u = v
    <3>1. \A k \in 1 .. Len(u) : u[k] = v[k]
      <4>1. \A k \in 1 .. Len(u) : k = 1
        BY <2>1
      <4>2. QED
        BY <2>1, <2>2, <2>3, <4>1
    <3>2. QED
      BY <2>1, <2>2, <3>1, SeqEqual
  <2>4. u = v => t[i] = a
    BY <2>1, <2>2
  <2>5. QED
    BY <2>3, <2>4 DEF u, v
<1>3. ASSUME NEW a \in Nat, NEW b \in Nat
      PROVE  IsAt(t, i, << a, b >>) <=> i + 1 <= Len(t) /\ t[i] = a /\ t[i + 1] = b
  <2>1. Len(<< a, b >>) = 2 /\ i + 2 - 1 = i + 1
    OBVIOUS
  <2>2. QED
    BY <1>1, <2>1 DEF IsAt
<1>4. ASSUME NEW a \in Nat PROVE IsAt(t, i, << a >>) <=> i <= Len(t) /\ t[i] = a
  <2>1. Len(<< a >>) = 1 /\ i + 1 - 1 = i
    OBVIOUS
  <2>2. QED
    BY <1>2, <2>1 DEF IsAt
<1>5. QED
  BY <1>3, <1>4

\* Between a and b no string and no comment begins, and no backslash is left over.
Copied(t, r, open, a, b) ==
  /\ \A i \in a .. b - 1 : /\ r[i] = t[i] /\ t[i] # Quote
                           /\ t[i] = Slash => i < b - 1 /\ t[i + 1] # open[2]
  /\ t[b - 1] # Backslash

LEMMA NoneOpens ==
  ASSUME NEW t, NEW r, NEW open, NEW close, NEW rest, Pass(t, r, open, close, rest),
         NEW i \in Nat, i >= 1, i <= Len(t), t[i] = Slash => t[i + 1] # open[2]
  PROVE  ~IsAt(t, i, open)
<1>1. t \in Seq(Nat) /\ open \in Seq(Nat) /\ Len(open) = 2 /\ open[1] = Slash
  BY DEF Pass
<1>2. open[1] \in Nat /\ open[2] \in Nat /\ open = << open[1], open[2] >>
  <2> DEFINE v == << open[1], open[2] >>
  <2>1. open[1] \in Nat /\ open[2] \in Nat /\ \A k \in 1 .. 2 : k = 1 \/ k = 2
    <3>1. 1 \in 1 .. Len(open) /\ 2 \in 1 .. Len(open) /\ \A k \in 1 .. 2 : k = 1 \/ k = 2
      BY <1>1
    <3>2. QED
      BY <1>1, <3>1, ElementOfSeq
  <2>2. v \in Seq(Nat) /\ Len(v) = 2 /\ v[1] = open[1] /\ v[2] = open[2]
    BY <2>1
  <2> HIDE DEF v
  <2>3. \A k \in 1 .. Len(open) : open[k] = v[k]
    BY <1>1, <2>1, <2>2
  <2>4. open = v
    BY <1>1, <2>2, <2>3, SeqEqual
  <2>5. QED
    BY <2>1, <2>4 DEF v
<1>3. IsAt(t, i, << open[1], open[2] >>) <=> i + 1 <= Len(t) /\ t[i] = open[1] /\ t[i + 1] = open[2]
  BY <1>1, <1>2, IsAtIs
<1>4. QED
  BY <1>1, <1>2, <1>3

LEMMA PassRun ==
  ASSUME NEW t, NEW r, NEW open, NEW close, NEW rest, Pass(t, r, open, close, rest),
         NEW a \in Nat, a >= 1, NEW b \in Nat, a < b, b <= Len(t) + 1,
         Copied(t, r, open, a, b), Out(rest, b) = From(r, b)
  PROVE  Out(rest, a) = From(r, a)
<1> DEFINE Good == {k \in Nat : a <= k /\ k <= b =>
                      /\ Out(rest, k) = From(r, k)
                      /\ k < b => OutEscaped(rest, k) = From(r, k)}
<1>1. b \in Good
  OBVIOUS
<1>2. ASSUME NEW k \in 1 .. b, k \in Good PROVE k - 1 \in Good
  <2> DEFINE i == k - 1
  <2>1. i \in Nat /\ i + 1 = k
    BY <1>2
  <2> HIDE DEF i
  <2>2. SUFFICES ASSUME a <= i, i < b
                 PROVE  Out(rest, i) = From(r, i) /\ OutEscaped(rest, i) = From(r, i)
    BY <1>2, <2>1 DEF i
  <2>3. /\ t \in Seq(Nat) /\ r \in Seq(Nat) /\ Len(t) \in Nat /\ i >= 1 /\ i <= Len(t)
        /\ i \in a .. b - 1 /\ i \in 1 .. Len(r) /\ Leaves(t, open, close, rest)
    BY <2>1, <2>2 DEF Pass
  <2>4. /\ r[i] = t[i] /\ t[i] # Quote /\ (t[i] = Slash => t[i + 1] # open[2])
        /\ t[i] = Backslash => i + 1 < b
    <3>1. i # b - 1 => i + 1 < b
      BY <2>1, <2>2
    <3>2. QED
      BY <2>3, <3>1 DEF Copied
  <2>5. ~IsAt(t, i, open)
    BY <2>1, <2>3, <2>4, NoneOpens
  <2>6. /\ Out(rest, i + 1) = From(r, i + 1)
        /\ i + 1 < b => OutEscaped(rest, i + 1) = From(r, i + 1)
    BY <1>2, <2>1, <2>2
  <2>7. From(r, i) = << t[i] >> \o From(r, i + 1)
    BY <2>3, <2>4, FromIs, ZenonT(40)
  <2>8. /\ t[i] = Backslash => Out(rest, i) = << t[i] >> \o OutEscaped(rest, i + 1)
        /\ t[i] # Backslash => Out(rest, i) = << t[i] >> \o Out(rest, i + 1)
        /\ OutEscaped(rest, i) = << t[i] >> \o Out(rest, i + 1)
    <3>1. /\ t[i] = Backslash => Out(rest, i) = << t[i] >> \o OutEscaped(rest, i + 1)
          /\ ~IsAt(t, i, open) => OutEscaped(rest, i) = << t[i] >> \o Out(rest, i + 1)
          /\ t[i] # Backslash /\ t[i] # Quote /\ ~IsAt(t, i, open) =>
               Out(rest, i) = << t[i] >> \o Out(rest, i + 1)
      <4>1. t \in Seq(Nat) /\ Leaves(t, open, close, rest)
        BY <2>3
      <4>2. i \in Nat /\ i >= 1 /\ i <= Len(t)
        BY <2>1, <2>3
      <4> HIDE DEF Good
      <4>3. StepAt(t, open, rest, i)
        BY <4>1, <4>2, RestStep
      <4>4. QED
        BY <4>3 DEF StepAt
    <3>2. QED
      BY <2>4, <2>5, <3>1
  <2>9. QED
    BY <2>4, <2>6, <2>7, <2>8
<1> HIDE DEF Good
<1>3. 0 .. b \subseteq Good
  BY <1>1, <1>2, AllNumbersDown
<1>4. a \in 0 .. b
  OBVIOUS
<1>5. a \in Good
  BY <1>3, <1>4
<1>6. a <= a /\ a <= b
  OBVIOUS
<1>7. QED
  BY <1>5, <1>6 DEF Good

\* A string literal from a to b.
Literal(t, r, a, b) ==
  /\ t[a] = Quote /\ t[b - 1] = Quote /\ \A i \in a .. b - 1 : r[i] = t[i]
  /\ \E escaped \in SUBSET (a + 2 .. b - 2) : \A j \in a + 1 .. b - 1 :
        /\ j \in escaped <=> t[j - 1] = Backslash /\ j - 1 \notin escaped
        /\ t[j] = Quote /\ j < b - 1 => j \in escaped

LEMMA PassLiteral ==
  ASSUME NEW t, NEW r, NEW open, NEW close, NEW rest, Pass(t, r, open, close, rest),
         NEW a \in Nat, a >= 1, NEW b \in Nat, a + 1 < b, b <= Len(t) + 1,
         Literal(t, r, a, b), Out(rest, b) = From(r, b)
  PROVE  Out(rest, a) = From(r, a)
<1>1. PICK escaped \in SUBSET (a + 2 .. b - 2) : \A j \in a + 1 .. b - 1 :
         /\ j \in escaped <=> t[j - 1] = Backslash /\ j - 1 \notin escaped
         /\ t[j] = Quote /\ j < b - 1 => j \in escaped
  BY DEF Literal
<1> DEFINE Good == {k \in Nat : a + 1 <= k =>
                      /\ k \in escaped => InEscaped(rest, k) = From(r, k)
                      /\ k \notin escaped => In(rest, k) = From(r, k)}
<1>2. ASSUME NEW i \in a .. b - 1
      PROVE  /\ i \in Nat /\ i + 1 \in Nat /\ StepAt(t, open, rest, i)
             /\ From(r, i) = << t[i] >> \o From(r, i + 1)
  <2>1. i \in Nat /\ i >= 1 /\ i <= Len(t) /\ t \in Seq(Nat) /\ Len(t) \in Nat
    BY DEF Pass
  <2>2. Leaves(t, open, close, rest) /\ r \in Seq(Nat) /\ i \in 1 .. Len(r) /\ r[i] = t[i]
    BY <2>1 DEF Pass, Literal
  <2>3. StepAt(t, open, rest, i)
    BY <2>1, <2>2, RestStep
  <2>4. From(r, i) = << t[i] >> \o From(r, i + 1)
    BY <2>2, FromIs, SMTT(30)
  <2>5. i + 1 \in Nat
    BY <2>1
  <2>6. QED
    BY <2>1, <2>3, <2>4, <2>5
<1>3. b - 1 \in Nat /\ b - 1 \in a .. b - 1 /\ (b - 1) + 1 = b /\ b - 1 \notin escaped
  OBVIOUS
<1>4. b - 1 \in Good
  <2>1. t[b - 1] = Quote
    BY DEF Literal
  <2>2. In(rest, b - 1) = << t[b - 1] >> \o Out(rest, (b - 1) + 1)
    BY <1>2, <1>3, <2>1 DEF StepAt
  <2>3. From(r, b - 1) = << t[b - 1] >> \o From(r, (b - 1) + 1)
    BY <1>2, <1>3
  <2>4. In(rest, b - 1) = From(r, b - 1)
    BY <1>3, <2>2, <2>3
  <2>5. QED
    BY <1>3, <2>4
<1>5. ASSUME NEW k \in 1 .. b - 1, k \in Good PROVE k - 1 \in Good
  <2> DEFINE i == k - 1
  <2>1. i \in Nat /\ i + 1 = k
    BY <1>5
  <2> HIDE DEF i
  <2>2. SUFFICES ASSUME a + 1 <= i
                 PROVE  /\ i \in escaped => InEscaped(rest, i) = From(r, i)
                        /\ i \notin escaped => In(rest, i) = From(r, i)
    BY <1>5, <2>1 DEF i
  <2>3. i \in a .. b - 1 /\ i < b - 1 /\ i \in a + 1 .. b - 1 /\ i + 1 \in a + 1 .. b - 1
        /\ (i + 1) - 1 = i /\ a + 1 <= k
    BY <2>1, <2>2
  <2>4. /\ i + 1 \in escaped <=> t[i] = Backslash /\ i \notin escaped
        /\ t[i] = Quote => i \in escaped
    <3>1. i + 1 \in escaped <=> t[(i + 1) - 1] = Backslash /\ (i + 1) - 1 \notin escaped
      BY <1>1, <2>3
    <3>2. t[i] = Quote /\ i < b - 1 => i \in escaped
      BY <1>1, <2>3
    <3>3. QED
      BY <2>3, <3>1, <3>2
  <2>5. /\ i + 1 \in escaped => InEscaped(rest, i + 1) = From(r, i + 1)
        /\ i + 1 \notin escaped => In(rest, i + 1) = From(r, i + 1)
    BY <1>5, <2>1, <2>3
  <2>6. /\ StepAt(t, open, rest, i) /\ From(r, i) = << t[i] >> \o From(r, i + 1)
    BY <1>2, <2>3
  <2> HIDE DEF Good
  <2>7. CASE i \in escaped
    <3>1. InEscaped(rest, i) = << t[i] >> \o In(rest, i + 1)
      BY <2>6 DEF StepAt
    <3>2. i + 1 \notin escaped
      BY <2>4, <2>7
    <3>3. QED
      BY <2>5, <2>6, <2>7, <3>1, <3>2
  <2>8. CASE i \notin escaped /\ t[i] = Backslash
    <3>1. In(rest, i) = << t[i] >> \o InEscaped(rest, i + 1)
      BY <2>6, <2>8 DEF StepAt
    <3>2. QED
      BY <2>4, <2>5, <2>6, <2>8, <3>1
  <2>9. CASE i \notin escaped /\ t[i] # Backslash
    <3>1. In(rest, i) = << t[i] >> \o In(rest, i + 1)
      BY <2>4, <2>6, <2>9 DEF StepAt
    <3>2. QED
      BY <2>4, <2>5, <2>6, <2>9, <3>1
  <2>10. QED
    BY <2>7, <2>8, <2>9
<1> HIDE DEF Good
<1>6. 0 .. b - 1 \subseteq Good
  BY <1>3, <1>4, <1>5, AllNumbersDown
<1>7. a + 1 \in 0 .. b - 1 /\ a + 1 <= a + 1 /\ a \in a .. b - 1 /\ a + 1 \notin escaped
  OBVIOUS
<1>8. In(rest, a + 1) = From(r, a + 1)
  <2>1. a + 1 \in Good
    BY <1>6, <1>7
  <2>2. QED
    BY <1>7, <2>1 DEF Good
<1>9. Out(rest, a) = << t[a] >> \o In(rest, a + 1)
  <2>1. t[a] = Quote /\ StepAt(t, open, rest, a)
    BY <1>2, <1>7 DEF Literal
  <2>2. QED
    BY <2>1 DEF StepAt
<1>10. From(r, a) = << t[a] >> \o From(r, a + 1)
  BY <1>2, <1>7
<1>11. QED
  BY <1>8, <1>9, <1>10

\* A comment from a to b: the first end of a comment behind its beginning is its end.
Commented(t, r, open, close, a, b) ==
  LET end == b - Len(close) IN
  /\ IsAt(t, a, open) /\ a + 2 <= end /\ IsAt(t, end, close)
  /\ \A j \in a + 2 .. end - 1 : ~IsAt(t, j, close)
  /\ \A i \in a .. b - 1 : r[i] = Space

LEMMA PassComment ==
  ASSUME NEW t, NEW r, NEW open, NEW close, NEW rest, Pass(t, r, open, close, rest),
         NEW a \in Nat, a >= 1, NEW b \in Nat, b <= Len(t) + 1, t[a] = Slash,
         Commented(t, r, open, close, a, b), Out(rest, b) = From(r, b)
  PROVE  Out(rest, a) = From(r, a)
<1> DEFINE end == b - Len(close)
           ends == Ends(t, open, close, a)
<1>1. /\ t \in Seq(Nat) /\ Len(t) \in Nat /\ r \in Seq(Nat) /\ Len(r) = Len(t)
      /\ Len(open) = 2 /\ Len(close) \in Nat /\ Len(close) >= 1 /\ Leaves(t, open, close, rest)
  BY DEF Pass, Token
<1>2. /\ IsAt(t, a, open) /\ a + 2 <= end /\ IsAt(t, end, close)
      /\ \A j \in a + 2 .. end - 1 : ~IsAt(t, j, close)
      /\ \A i \in a .. b - 1 : r[i] = Space
  BY DEF Commented
<1>3. end \in Nat /\ end <= Len(t) /\ end + Len(close) = b /\ a <= Len(t) /\ a < b
  BY <1>1, <1>2, SMTT(40)
<1> HIDE DEF end
<1>4. end \in ends /\ \A j \in ends : end <= j
  <2>1. end \in ends
    BY <1>1, <1>2, <1>3 DEF Ends
  <2>2. ASSUME NEW j \in ends PROVE end <= j
    <3>1. j \in Nat /\ a + 2 <= j /\ IsAt(t, j, close)
      BY <1>1 DEF Ends
    <3>2. j \notin a + 2 .. end - 1
      BY <1>2, <3>1
    <3>3. QED
      BY <1>3, <3>1, <3>2
  <2>3. QED
    BY <2>1, <2>2
<1>5. Min(ends) = end
  <2>1. \A j \in ends : j \in Nat
    BY <1>1 DEF Ends
  <2> HIDE DEF ends
  <2>2. (\A y \in ends : end <= y) /\ \A x \in ends : (\A y \in ends : x <= y) => x = end
    BY <1>3, <1>4, <2>1
  <2>3. QED
    BY <1>4, <2>2 DEF Min
<1>6. Out(rest, a) = Spaces(b - a) \o Out(rest, b)
  <2>1. t[a] # Backslash /\ t[a] # Quote
    BY DEF Slash, Backslash, Quote
  <2>2. ends # {}
    BY <1>4
  <2>3. PassesAt(t, open, close, rest, a)
    <3>1. t \in Seq(Nat) /\ Leaves(t, open, close, rest) /\ a <= Len(t) /\ IsAt(t, a, open)
      BY <1>1, <1>2, <1>3
    <3>2. Ends(t, open, close, a) # {}
      BY <2>2
    <3>3. QED
      BY <2>1, <3>1, <3>2, CommentStep
  <2>4. Out(rest, a) = Spaces((Min(ends) + Len(close)) - a) \o Out(rest, Min(ends) + Len(close))
    BY <2>3 DEF PassesAt
  <2> HIDE DEF ends
  <2>5. Min(ends) + Len(close) = b
    BY <1>3, <1>5
  <2>6. QED
    BY <2>4, <2>5
<1>7. From(r, a) = Spaces(b - a) \o From(r, b)
  <2> DEFINE n == b - a
  <2>1. n \in Nat /\ a + n = b /\ a + n <= Len(r) + 1 /\ a + n - 1 = b - 1
    BY <1>1, <1>3
  <2> HIDE DEF n
  <2>2. \A j \in a .. a + n - 1 : r[j] = Space
    BY <1>2, <2>1
  <2>3. From(r, a) = Spaces(n) \o From(r, a + n)
    BY <1>1, <2>1, <2>2, FromSpaces
  <2>4. QED
    BY <2>1, <2>3 DEF n
<1>8. QED
  BY <1>6, <1>7

\* The part p stands in t from a on.
Placed(t, p, a) == a + Len(p) <= Len(t) + 1 /\ \A k \in 1 .. Len(p) : t[a + k - 1] = p[k]

LEMMA IsAtMoves ==
  ASSUME NEW t \in Seq(Nat), NEW p \in Seq(Nat), NEW a \in Nat, a >= 1, Placed(t, p, a),
         NEW token, Token(token), NEW j \in Nat, j >= 1, j + Len(token) <= Len(p) + 1
  PROVE  IsAt(t, a + j - 1, token) <=> IsAt(p, j, token)
<1> DEFINE n == Len(token)
           i == a + j - 1
           u == SubSeq(t, i, i + n - 1)
           v == SubSeq(p, j, j + n - 1)
<1>1. /\ n \in Nat /\ n >= 1 /\ Len(p) \in Nat /\ Len(t) \in Nat /\ a + Len(p) <= Len(t) + 1
      /\ \A k \in 1 .. Len(p) : t[a + k - 1] = p[k]
  BY DEF Token, Placed
<1> HIDE DEF n
<1>2. /\ i \in Nat /\ i >= 1 /\ i + n - 1 \in Nat /\ i + n - 1 <= Len(t) /\ i <= (i + n - 1) + 1
      /\ ((i + n - 1) + 1) - i = n
      /\ j + n - 1 \in Nat /\ j + n - 1 <= Len(p) /\ j <= (j + n - 1) + 1
      /\ ((j + n - 1) + 1) - j = n
  BY <1>1, SMTT(40) DEF n
<1>3. u \in Seq(Nat) /\ Len(u) = n /\ \A k \in 1 .. n : u[k] = t[i + k - 1]
  <2> DEFINE q == i + n - 1
  <2> HIDE DEF i, q
  <2>1. i \in Nat /\ i >= 1 /\ q \in Nat /\ q <= Len(t) /\ i <= q + 1 /\ (q + 1) - i = n
    BY <1>2 DEF q
  <2>2. /\ SubSeq(t, i, q) \in Seq(Nat) /\ Len(SubSeq(t, i, q)) = (q + 1) - i
        /\ \A k \in 1 .. (q + 1) - i : SubSeq(t, i, q)[k] = t[i + k - 1]
    BY <2>1, PartIs
  <2>3. QED
    BY <2>1, <2>2 DEF q
<1>4. v \in Seq(Nat) /\ Len(v) = n /\ \A k \in 1 .. n : v[k] = p[j + k - 1]
  <2> DEFINE q == j + n - 1
  <2> HIDE DEF q
  <2>1. q \in Nat /\ q <= Len(p) /\ j <= q + 1 /\ (q + 1) - j = n
    BY <1>2 DEF q
  <2>2. /\ SubSeq(p, j, q) \in Seq(Nat) /\ Len(SubSeq(p, j, q)) = (q + 1) - j
        /\ \A k \in 1 .. (q + 1) - j : SubSeq(p, j, q)[k] = p[j + k - 1]
    BY <2>1, PartIs
  <2>3. QED
    BY <2>1, <2>2 DEF q
<1>5. ASSUME NEW k \in 1 .. n PROVE u[k] = v[k]
  <2>1. j + k - 1 \in 1 .. Len(p) /\ a + (j + k - 1) - 1 = i + k - 1
    BY <1>1, <1>2
  <2>2. t[a + (j + k - 1) - 1] = p[j + k - 1]
    BY <1>1, <2>1
  <2>3. u[k] = t[i + k - 1] /\ v[k] = p[j + k - 1]
    BY <1>3, <1>4
  <2> HIDE DEF u, v, i
  <2>4. QED
    BY <2>1, <2>2, <2>3
<1> HIDE DEF u, v, i
<1>6. u = v
  BY <1>3, <1>4, <1>5, SeqEqual
<1>7. i + n - 1 <= Len(t) /\ j + n - 1 <= Len(p)
  BY <1>2
<1>8. QED
  BY <1>6, <1>7 DEF IsAt, u, v, i, n

LEMMA CopiedMoves ==
  ASSUME NEW t \in Seq(Nat), NEW r \in Seq(Nat), NEW p \in Seq(Nat), NEW q \in Seq(Nat),
         Len(p) = Len(q), Len(p) >= 1, NEW a \in Nat, a >= 1, Placed(t, p, a), Placed(r, q, a),
         NEW open, Copied(p, q, open, 1, Len(p) + 1)
  PROVE  Copied(t, r, open, a, a + Len(p))
<1> DEFINE n == Len(p)
<1>0. n \in Nat /\ n >= 1 /\ Len(q) = n /\ (n + 1) - 1 = n
  OBVIOUS
<1>1. \A k \in 1 .. n : t[a + k - 1] = p[k] /\ r[a + k - 1] = q[k]
  <2> HIDE DEF n
  <2>1. \A k \in 1 .. Len(p) : t[a + k - 1] = p[k]
    BY Zenon DEF Placed
  <2>2. \A k \in 1 .. Len(q) : r[a + k - 1] = q[k]
    BY Zenon DEF Placed
  <2>3. QED
    BY <1>0, <2>1, <2>2 DEF n
<1>2. /\ \A j \in 1 .. n : /\ q[j] = p[j] /\ p[j] # Quote
                           /\ p[j] = Slash => j < n /\ p[j + 1] # open[2]
      /\ p[n] # Backslash
  BY <1>0 DEF Copied
<1> HIDE DEF n
<1>3. ASSUME NEW i \in a .. a + n - 1
      PROVE  /\ r[i] = t[i] /\ t[i] # Quote
             /\ t[i] = Slash => i < a + n - 1 /\ t[i + 1] # open[2]
  <2> DEFINE j == i - a + 1
  <2>1. j \in 1 .. n /\ a + j - 1 = i
    BY <1>0
  <2>2. j < n => j + 1 \in 1 .. n /\ a + (j + 1) - 1 = i + 1 /\ i < a + n - 1
    BY <1>0
  <2> HIDE DEF j
  <2>3. t[i] = p[j] /\ r[i] = q[j]
    <3>1. t[a + j - 1] = p[j] /\ r[a + j - 1] = q[j]
      BY <1>1, <2>1
    <3>2. QED
      BY <2>1, <3>1
  <2>4. j < n => t[i + 1] = p[j + 1]
    <3>1. j < n => t[a + (j + 1) - 1] = p[j + 1]
      BY <1>1, <2>2
    <3>2. QED
      BY <2>2, <3>1
  <2>5. QED
    BY <1>2, <2>1, <2>2, <2>3, <2>4
<1>4. t[a + n - 1] = p[n]
  BY <1>0, <1>1
<1>5. QED
  BY <1>2, <1>3, <1>4 DEF Copied, n

LEMMA LiteralMoves ==
  ASSUME NEW t \in Seq(Nat), NEW r \in Seq(Nat), NEW p \in Seq(Nat), NEW q \in Seq(Nat),
         Len(p) = Len(q), Len(p) >= 2, NEW a \in Nat, a >= 1, Placed(t, p, a), Placed(r, q, a),
         Literal(p, q, 1, Len(p) + 1)
  PROVE  Literal(t, r, a, a + Len(p))
<1> DEFINE n == Len(p)
<1>0. n \in Nat /\ n >= 2 /\ Len(q) = n /\ (n + 1) - 1 = n /\ (n + 1) - 2 = n - 1 /\ 1 + 2 = 3 /\ 1 + 1 = 2
  OBVIOUS
<1>1. \A k \in 1 .. n : t[a + k - 1] = p[k] /\ r[a + k - 1] = q[k]
  <2> HIDE DEF n
  <2>1. \A k \in 1 .. Len(p) : t[a + k - 1] = p[k]
    BY Zenon DEF Placed
  <2>2. \A k \in 1 .. Len(q) : r[a + k - 1] = q[k]
    BY Zenon DEF Placed
  <2>3. QED
    BY <1>0, <2>1, <2>2 DEF n
<1>a. /\ p[1] = Quote /\ p[(n + 1) - 1] = Quote /\ \A j \in 1 .. (n + 1) - 1 : q[j] = p[j]
      /\ \E escaped \in SUBSET (1 + 2 .. (n + 1) - 2) : \A j \in 1 + 1 .. (n + 1) - 1 :
           /\ j \in escaped <=> p[j - 1] = Backslash /\ j - 1 \notin escaped
           /\ p[j] = Quote /\ j < (n + 1) - 1 => j \in escaped
  BY DEF Literal
<1> HIDE DEF n
<1>2. p[1] = Quote /\ p[n] = Quote /\ \A j \in 1 .. n : q[j] = p[j]
  BY <1>0, <1>a
<1>3. PICK escaped \in SUBSET (3 .. n - 1) : \A j \in 2 .. n :
         /\ j \in escaped <=> p[j - 1] = Backslash /\ j - 1 \notin escaped
         /\ p[j] = Quote /\ j < n => j \in escaped
  <2> DEFINE last == (n + 1) - 1
             inner == 1 + 2 .. (n + 1) - 2
             behind == 1 + 1 .. (n + 1) - 1
  <2>1. last = n /\ inner = 3 .. n - 1 /\ behind = 2 .. n
    BY <1>0
  <2>2. \E escaped \in SUBSET inner : \A j \in behind :
          /\ j \in escaped <=> p[j - 1] = Backslash /\ j - 1 \notin escaped
          /\ p[j] = Quote /\ j < last => j \in escaped
    BY <1>a
  <2> HIDE DEF last, inner, behind
  <2>3. QED
    BY <2>1, <2>2, Zenon
<1> DEFINE moved == {i \in a + 2 .. a + n - 2 : i - a + 1 \in escaped}
<1>4. ASSUME NEW i \in a .. a + n - 1 PROVE t[i] = p[i - a + 1] /\ r[i] = q[i - a + 1]
  <2> DEFINE j == i - a + 1
  <2>1. j \in 1 .. n /\ a + j - 1 = i
    BY <1>0
  <2> HIDE DEF j
  <2>2. t[a + j - 1] = p[j] /\ r[a + j - 1] = q[j]
    BY <1>1, <2>1
  <2>3. QED
    BY <2>1, <2>2 DEF j
<1>5. ASSUME NEW i \in a .. a + n - 1 PROVE i \in moved <=> i - a + 1 \in escaped
  BY <1>0
<1> HIDE DEF moved
<1>6. ASSUME NEW i \in a + 1 .. a + n - 1
      PROVE  /\ i \in moved <=> t[i - 1] = Backslash /\ i - 1 \notin moved
             /\ t[i] = Quote /\ i < a + n - 1 => i \in moved
  <2> DEFINE j == i - a + 1
  <2>1. /\ j \in 2 .. n /\ i \in a .. a + n - 1 /\ i - 1 \in a .. a + n - 1
        /\ (i - 1) - a + 1 = j - 1 /\ (i < a + n - 1 => j < n)
    BY <1>0
  <2>2. /\ t[i] = p[j] /\ t[i - 1] = p[j - 1]
        /\ i \in moved <=> j \in escaped
        /\ i - 1 \in moved <=> j - 1 \in escaped
    <3>1. t[i - 1] = p[(i - 1) - a + 1] /\ (i - 1 \in moved <=> (i - 1) - a + 1 \in escaped)
      BY <1>4, <1>5, <2>1
    <3>2. t[i] = p[j] /\ (i \in moved <=> j \in escaped)
      BY <1>4, <1>5, <2>1
    <3> HIDE DEF j
    <3>3. QED
      BY <2>1, <3>1, <3>2
  <2> HIDE DEF j
  <2>3. QED
    BY <1>3, <2>1, <2>2
<1>7. t[a] = Quote /\ t[a + n - 1] = Quote /\ \A i \in a .. a + n - 1 : r[i] = t[i]
  <2>1. a \in a .. a + n - 1 /\ a - a + 1 = 1 /\ a + n - 1 \in a .. a + n - 1
        /\ (a + n - 1) - a + 1 = n /\ \A i \in a .. a + n - 1 : i - a + 1 \in 1 .. n
    BY <1>0
  <2>2. t[a] = p[1] /\ t[a + n - 1] = p[n]
    <3>1. t[a] = p[a - a + 1] /\ t[a + n - 1] = p[(a + n - 1) - a + 1]
      BY <1>4, <2>1
    <3>2. QED
      BY <2>1, <3>1
  <2>3. QED
    BY <1>2, <1>4, <2>1, <2>2
<1>8. moved \in SUBSET (a + 2 .. a + n - 2)
  BY DEF moved
<1> DEFINE b == a + n
<1>9. a + n - 1 = b - 1 /\ a + n - 2 = b - 2
  BY <1>0
<1> HIDE DEF b
<1>10. Literal(t, r, a, b)
  BY <1>6, <1>7, <1>8, <1>9 DEF Literal
<1>11. QED
  BY <1>10 DEF b, n

LEMMA CommentedMoves ==
  ASSUME NEW t \in Seq(Nat), NEW r \in Seq(Nat), NEW p \in Seq(Nat), NEW q \in Seq(Nat),
         Len(p) = Len(q), Len(p) >= 1, NEW a \in Nat, a >= 1, Placed(t, p, a), Placed(r, q, a),
         NEW open, Token(open), Len(open) = 2, NEW close, Token(close),
         Commented(p, q, open, close, 1, Len(p) + 1)
  PROVE  Commented(t, r, open, close, a, a + Len(p))
<1> DEFINE n == Len(p)
           m == Len(close)
           end == (n + 1) - m
<1>1. /\ n \in Nat /\ n >= 1 /\ Len(q) = n /\ (n + 1) - 1 = n /\ m \in Nat /\ m >= 1
      /\ \A k \in 1 .. n : r[a + k - 1] = q[k]
  BY DEF Placed, Token
<1>2. /\ IsAt(p, 1, open) /\ 1 + 2 <= end /\ IsAt(p, end, close)
      /\ \A j \in 1 + 2 .. end - 1 : ~IsAt(p, j, close)
      /\ \A i \in 1 .. n : q[i] = Space
  BY <1>1 DEF Commented
<1>3. end \in Nat /\ end >= 3 /\ end + m = n + 1
  BY <1>1, <1>2
<1> HIDE DEF n, m, end
<1>4. ASSUME NEW token, Token(token), NEW j \in Nat, j >= 1, j + Len(token) <= n + 1
      PROVE  IsAt(t, a + j - 1, token) <=> IsAt(p, j, token)
  BY <1>4, IsAtMoves DEF n
<1>5. IsAt(t, a, open)
  <2>1. 1 \in Nat /\ 1 >= 1 /\ 1 + Len(open) <= n + 1 /\ a + 1 - 1 = a
    BY <1>1, <1>3
  <2>2. IsAt(t, a + 1 - 1, open) <=> IsAt(p, 1, open)
    BY <1>4, <2>1
  <2>3. QED
    BY <1>2, <2>1, <2>2
<1>6. a + 2 <= (a + n) - m /\ (a + n) - m = a + end - 1
  BY <1>1, <1>3
<1>7. IsAt(t, (a + n) - m, close)
  <2>1. IsAt(t, a + end - 1, close) <=> IsAt(p, end, close)
    BY <1>3, <1>4 DEF m
  <2>2. QED
    BY <1>2, <1>6, <2>1
<1>8. ASSUME NEW i \in a + 2 .. ((a + n) - m) - 1 PROVE ~IsAt(t, i, close)
  <2> DEFINE j == i - a + 1
  <2>1. j \in Nat /\ j >= 1 /\ j + m <= n + 1 /\ a + j - 1 = i /\ j \in 1 + 2 .. end - 1
    BY <1>1, <1>3, <1>6
  <2> HIDE DEF j
  <2>2. IsAt(t, a + j - 1, close) <=> IsAt(p, j, close)
    BY <1>4, <2>1 DEF m
  <2>3. QED
    BY <1>2, <2>1, <2>2
<1>9. ASSUME NEW i \in a .. a + n - 1 PROVE r[i] = Space
  <2> DEFINE j == i - a + 1
  <2>1. j \in 1 .. n /\ a + j - 1 = i
    BY <1>1
  <2> HIDE DEF j
  <2>2. r[a + j - 1] = q[j] /\ q[j] = Space
    BY <1>1, <1>2, <2>1
  <2>3. QED
    BY <2>1, <2>2
<1>10. QED
  BY <1>5, <1>6, <1>7, <1>8, <1>9 DEF Commented, n, m

\* What the loop makes of one part p of the text: q.
PassPart(p, q, open, close) ==
  /\ p \in Seq(Nat) /\ q \in Seq(Nat) /\ Len(p) = Len(q) /\ Len(p) >= 1
  /\ \/ Copied(p, q, open, 1, Len(p) + 1)
     \/ Len(p) >= 2 /\ Literal(p, q, 1, Len(p) + 1)
     \/ p[1] = Slash /\ Commented(p, q, open, close, 1, Len(p) + 1)

LEMMA PassOne ==
  ASSUME NEW t, NEW r, NEW open, NEW close, NEW rest, Pass(t, r, open, close, rest),
         NEW p, NEW q, PassPart(p, q, open, close), NEW a \in Nat, a >= 1,
         Placed(t, p, a), Placed(r, q, a), NEW b, b = a + Len(p), Out(rest, b) = From(r, b)
  PROVE  Out(rest, a) = From(r, a)
<1>1. /\ t \in Seq(Nat) /\ r \in Seq(Nat) /\ Len(t) \in Nat
      /\ open \in Seq(Nat) /\ Len(open) = 2 /\ Token(close) /\ Token(open)
  BY DEF Pass, Token
<1>2. p \in Seq(Nat) /\ q \in Seq(Nat) /\ Len(p) = Len(q) /\ Len(p) >= 1 /\ Len(p) \in Nat
  BY DEF PassPart
<1>3. b \in Nat /\ a < b /\ b <= Len(t) + 1 /\ (Len(p) >= 2 => a + 1 < b)
  <2>1. a + Len(p) <= Len(t) + 1
    BY DEF Placed
  <2>2. QED
    BY <1>1, <1>2, <2>1, SMTT(40)
<1>4. CASE Copied(p, q, open, 1, Len(p) + 1)
  <2>1. Copied(t, r, open, a, b)
    BY <1>1, <1>2, <1>4, CopiedMoves
  <2>2. QED
    BY <1>3, <2>1, PassRun
<1>5. CASE Len(p) >= 2 /\ Literal(p, q, 1, Len(p) + 1)
  <2>1. Literal(t, r, a, b)
    BY <1>1, <1>2, <1>5, LiteralMoves
  <2>2. QED
    BY <1>3, <1>5, <2>1, PassLiteral
<1>6. CASE p[1] = Slash /\ Commented(p, q, open, close, 1, Len(p) + 1)
  <2>1. Commented(t, r, open, close, a, b)
    BY <1>1, <1>2, <1>6, CommentedMoves
  <2>2. t[a] = Slash
    <3>1. 1 \in 1 .. Len(p) /\ a + 1 - 1 = a
      BY <1>2
    <3>2. t[a + 1 - 1] = p[1]
      BY <3>1 DEF Placed
    <3>3. QED
      BY <1>6, <3>1, <3>2
  <2>3. QED
    BY <1>3, <2>1, <2>2, PassComment
<1>7. QED
  BY <1>4, <1>5, <1>6 DEF PassPart

\* A text in parts, and what the loop is to make of each.
Parts(s, m, open, close) ==
  /\ s \in Seq(Seq(Nat)) /\ m \in Seq(Seq(Nat)) /\ Len(m) = Len(s)
  /\ open \in Seq(Nat) /\ Len(open) = 2 /\ open[1] = Slash /\ Token(close)
  /\ \A k \in 1 .. Len(s) : PassPart(s[k], m[k], open, close)

\* Its part k begins behind at[k - 1] in the whole.
Lies(s, whole, at) ==
  /\ at[0] = 0 /\ at[Len(s)] = Len(whole)
  /\ \A k \in 1 .. Len(s) : /\ at[k] = at[k - 1] + Len(s[k])
                            /\ \A j \in 1 .. Len(s[k]) : whole[at[k - 1] + j] = s[k][j]

LEMMA Places ==
  ASSUME NEW s \in Seq(Seq(Nat))
  PROVE  /\ FlattenSeq(s) \in Seq(Nat) /\ Len(FlattenSeq(s)) \in Nat
         /\ \E at \in [0 .. Len(s) -> Nat] : Lies(s, FlattenSeq(s), at)
<1>1. FlattenSeq(s) \in Seq(Nat)
  BY FlattenPlaces
<1>2. \E at \in [0 .. Len(s) -> Nat] :
         /\ at[0] = 0 /\ at[Len(s)] = Len(FlattenSeq(s))
         /\ \A k \in 1 .. Len(s) :
              /\ at[k] = at[k - 1] + Len(s[k])
              /\ \A j \in 1 .. Len(s[k]) : FlattenSeq(s)[at[k - 1] + j] = s[k][j]
  BY FlattenPlaces
<1>3. PICK at \in [0 .. Len(s) -> Nat] :
         /\ at[0] = 0 /\ at[Len(s)] = Len(FlattenSeq(s))
         /\ \A k \in 1 .. Len(s) :
              /\ at[k] = at[k - 1] + Len(s[k])
              /\ \A j \in 1 .. Len(s[k]) : FlattenSeq(s)[at[k - 1] + j] = s[k][j]
  BY <1>2
<1>4. Lies(s, FlattenSeq(s), at)
  BY <1>3 DEF Lies
<1>5. Len(FlattenSeq(s)) \in Nat
  BY <1>1
<1>6. QED
  BY <1>1, <1>4, <1>5

\* Each pass over a text does to its parts what it does to each of them.
LEMMA PassAll ==
  ASSUME NEW s, NEW m, NEW open, NEW close, Parts(s, m, open, close)
  PROVE  RemoveComments(FlattenSeq(s), open, close) = FlattenSeq(m)
<1> DEFINE n == Len(s)
           t == FlattenSeq(s)
           r == FlattenSeq(m)
<1>1. /\ s \in Seq(Seq(Nat)) /\ m \in Seq(Seq(Nat)) /\ Len(m) = n /\ n \in Nat
      /\ open \in Seq(Nat) /\ Len(open) = 2 /\ open[1] = Slash /\ Token(close) /\ Token(open)
  BY DEF Parts, Token
<1>2. ASSUME NEW k \in 1 .. n
      PROVE  /\ PassPart(s[k], m[k], open, close) /\ Len(s[k]) = Len(m[k])
             /\ Len(s[k]) \in Nat /\ Len(s[k]) >= 1
  <2>1. PassPart(s[k], m[k], open, close)
    BY DEF Parts
  <2>2. QED
    BY <2>1 DEF PassPart
<1> HIDE DEF n
<1>3. PICK at \in [0 .. Len(s) -> Nat] : Lies(s, FlattenSeq(s), at)
  BY <1>1, Places
<1>4. PICK by \in [0 .. Len(m) -> Nat] : Lies(m, FlattenSeq(m), by)
  BY <1>1, Places
<1>5. t \in Seq(Nat) /\ r \in Seq(Nat) /\ Len(t) \in Nat /\ Len(r) \in Nat
  BY <1>1, Places
<1> HIDE DEF t, r
<1>6. /\ at[0] = 0 /\ at[n] = Len(t) /\ by[0] = 0 /\ by[n] = Len(r)
      /\ \A k \in 0 .. n : at[k] \in Nat /\ by[k] \in Nat
      /\ \A k \in 1 .. n : /\ at[k] = at[k - 1] + Len(s[k]) /\ by[k] = by[k - 1] + Len(m[k])
                           /\ \A j \in 1 .. Len(s[k]) : t[at[k - 1] + j] = s[k][j]
                           /\ \A j \in 1 .. Len(m[k]) : r[by[k - 1] + j] = m[k][j]
  BY <1>1, <1>3, <1>4 DEF Lies, n, t, r
<1>7. \A k \in 0 .. n : by[k] = at[k]
  <2> DEFINE Same == {k \in Nat : k <= n => by[k] = at[k]}
  <2>1. 0 \in Same
    BY <1>6
  <2>2. ASSUME NEW k \in Nat, k \in Same PROVE k + 1 \in Same
    <3>1. SUFFICES ASSUME k + 1 <= n PROVE by[k + 1] = at[k + 1]
      OBVIOUS
    <3>2. k + 1 \in 1 .. n /\ (k + 1) - 1 = k /\ k <= n /\ by[k] = at[k]
      BY <1>1, <2>2, <3>1
    <3> HIDE DEF Same
    <3>3. /\ at[k + 1] = at[k] + Len(s[k + 1]) /\ by[k + 1] = by[k] + Len(m[k + 1])
          /\ Len(s[k + 1]) = Len(m[k + 1])
      <4> DEFINE i == k + 1
      <4> HIDE DEF i
      <4>1. i \in 1 .. n /\ i - 1 = k
        BY <3>2 DEF i
      <4>2. at[i] = at[i - 1] + Len(s[i]) /\ by[i] = by[i - 1] + Len(m[i]) /\ Len(s[i]) = Len(m[i])
        BY <1>2, <1>6, <4>1
      <4>3. QED
        BY <4>1, <4>2 DEF i
    <3>4. QED
      BY <3>2, <3>3
  <2> HIDE DEF Same
  <2>3. Nat \subseteq Same
    BY <2>1, <2>2, AllNumbers
  <2>4. QED
    BY <1>1, <2>3 DEF Same
<1>8. Len(r) = Len(t)
  <2>1. n \in 0 .. n
    BY <1>1
  <2>2. QED
    BY <1>6, <1>7, <2>1
<1>9. PICK rest : Leaves(t, open, close, rest) /\ RemoveComments(t, open, close) = rest[<< 1, FALSE, FALSE >>]
  BY <1>1, <1>5, RestExists
<1>10. Pass(t, r, open, close, rest)
  BY <1>1, <1>5, <1>8, <1>9 DEF Pass
<1> DEFINE Good == {k \in 0 .. n : Out(rest, at[k] + 1) = From(r, at[k] + 1)}
<1>11. n \in Good
  <2> DEFINE i == Len(t) + 1
  <2>1. i \in Nat /\ i >= 1 /\ i > Len(t) /\ n \in 0 .. n /\ at[n] + 1 = i
    BY <1>1, <1>5, <1>6
  <2>2. Out(rest, i) = << >>
    <3> DEFINE p == << i, FALSE, FALSE >>
    <3> HIDE DEF i
    <3>1. p \in States /\ p[1] = i
      BY <2>1, StatesAre
    <3>2. Out(rest, i) = RestBody(t, open, close, p, rest)
      BY <1>9, <3>1, Zenon DEF Leaves, Out
    <3> HIDE DEF p
    <3>3. QED
      BY <2>1, <3>1, <3>2 DEF RestBody
  <2>3. From(r, i) = << >>
    BY <1>5, <1>8, FromIs
  <2>4. QED
    BY <2>1, <2>2, <2>3
<1>12. ASSUME NEW k \in 1 .. n, k \in Good PROVE k - 1 \in Good
  <2> DEFINE a == at[k - 1] + 1
             b == at[k] + 1
             p == s[k]
             q == m[k]
  <2>1. k - 1 \in 0 .. n /\ k \in 0 .. n
    BY <1>1
  <2>2. /\ at[k - 1] \in Nat /\ at[k] \in Nat /\ at[k] = at[k - 1] + Len(p) /\ by[k - 1] = at[k - 1]
        /\ by[k] = at[k]
    BY <1>6, <1>7, <2>1
  <2>3. /\ \A j \in 1 .. Len(p) : t[at[k - 1] + j] = p[j]
        /\ \A j \in 1 .. Len(q) : r[at[k - 1] + j] = q[j]
    BY <1>6, <2>2
  <2>4. Len(p) = Len(q) /\ Len(p) \in Nat /\ Len(p) >= 1 /\ PassPart(p, q, open, close)
    BY <1>2
  <2>5. at[k] <= Len(t)
    <3> DEFINE Low == {i \in 0 .. n : i >= k => at[k] <= at[i]}
    <3>1. 0 \in Low
      BY <1>1
    <3>2. ASSUME NEW i \in 0 .. n, i \in Low, i + 1 <= n PROVE i + 1 \in Low
      <4>1. i + 1 \in 1 .. n /\ i + 1 \in 0 .. n /\ (i + 1) - 1 = i
        BY <1>1, <3>2
      <4>2. at[i + 1] = at[i] + Len(s[i + 1]) /\ Len(s[i + 1]) \in Nat /\ at[i] \in Nat
        <5> DEFINE j == i + 1
        <5> HIDE DEF j
        <5>1. j \in 1 .. n /\ j - 1 = i
          BY <4>1 DEF j
        <5>2. at[j] = at[j - 1] + Len(s[j]) /\ Len(s[j]) \in Nat /\ at[i] \in Nat
          BY <1>2, <1>6, <5>1
        <5>3. QED
          BY <5>1, <5>2 DEF j
      <4>3. CASE i >= k
        BY <2>2, <3>2, <4>1, <4>2, <4>3
      <4>4. CASE ~(i >= k)
        <5>1. i + 1 >= k => i + 1 = k
          BY <4>4
        <5>2. ASSUME i + 1 >= k PROVE at[k] <= at[i + 1]
          <6>1. at[i + 1] = at[k]
            BY <5>1, <5>2
          <6>2. QED
            BY <2>2, <6>1
        <5>3. QED
          BY <4>1, <5>2
      <4>5. QED
        BY <4>3, <4>4
    <3> DEFINE All == {i \in Nat : i <= n => i \in Low}
    <3>3. 0 \in All
      BY <3>1
    <3>4. ASSUME NEW i \in Nat, i \in All PROVE i + 1 \in All
      <4> HIDE DEF Low
      <4>1. SUFFICES ASSUME i + 1 <= n PROVE i + 1 \in Low
        OBVIOUS
      <4>2. i \in 0 .. n /\ i \in Low
        BY <1>1, <3>4, <4>1
      <4>3. QED
        BY <3>2, <4>1, <4>2
    <3> HIDE DEF Low, All
    <3>5. n \in All
      BY <1>1, <3>3, <3>4, AllNumbers
    <3>6. n \in Low /\ n >= k
      BY <1>1, <3>5 DEF All
    <3>7. QED
      BY <1>6, <3>6 DEF Low
  <2> HIDE DEF p, q
  <2>6. a \in Nat /\ a >= 1 /\ b = a + Len(p) /\ b <= Len(t) + 1
    <3>1. at[k - 1] \in Nat /\ at[k] \in Nat /\ Len(p) \in Nat /\ Len(t) \in Nat
      BY <1>5, <2>2, <2>4
    <3>2. at[k] = at[k - 1] + Len(p) /\ at[k] <= Len(t)
      BY <2>2, <2>5
    <3> DEFINE x == at[k - 1]
               y == at[k]
    <3>3. x \in Nat /\ y \in Nat /\ y = x + Len(p) /\ y <= Len(t) /\ a = x + 1 /\ b = y + 1
      BY <3>1, <3>2
    <3> HIDE DEF a, b, x, y
    <3>4. QED
      BY <3>1, <3>3
  <2>a. a + Len(p) <= Len(t) + 1 /\ a + Len(q) <= Len(r) + 1
    BY <1>8, <2>4, <2>6
  <2>b. \A j \in Nat : a + j - 1 = at[k - 1] + j
    BY <2>2, SMTT(40)
  <2>c. \A j \in 1 .. Len(p) : j \in Nat
    BY <2>4
  <2>7. Out(rest, b) = From(r, b)
    BY <1>12
  <2> HIDE DEF a, b
  <2>8. Placed(t, p, a) /\ Placed(r, q, a)
    BY <2>3, <2>4, <2>a, <2>b, <2>c DEF Placed
  <2> HIDE DEF Good
  <2>9. Out(rest, a) = From(r, a)
    <3>1. PassPart(p, q, open, close)
      BY <2>4
    <3>2. a \in Nat /\ a >= 1 /\ b = a + Len(p)
      BY <2>6
    <3>3. QED
      BY <1>10, <2>7, <2>8, <3>1, <3>2, PassOne
  <2>10. QED
    BY <2>1, <2>9 DEF Good, a
<1> HIDE DEF Good
<1>13. 0 \in Good
  <2>1. 0 .. n \subseteq Good
    BY <1>1, <1>11, <1>12, AllNumbersDown
  <2>2. QED
    BY <1>1, <2>1
<1>14. Out(rest, 1) = From(r, 1)
  <2>1. Out(rest, at[0] + 1) = From(r, at[0] + 1)
    BY <1>13 DEF Good
  <2>2. at[0] + 1 = 1
    BY <1>6
  <2>3. QED
    BY <2>1, <2>2
<1>15. From(r, 1) = r
  BY <1>5, FromIs
<1>16. QED
  BY <1>9, <1>14, <1>15 DEF Out, t, r

-----------------------------------------------------------------------------
(* The commented texts that StringSpec writes.                             *)

LEMMA CommentTokens ==
  /\ Slash \in Nat /\ Star \in Nat /\ Newline \in Nat /\ Space \in Nat
  /\ Slash # Star /\ Slash # Quote /\ Space # Quote /\ Space # Slash /\ Space # Backslash
  /\ Newline # Backslash /\ Newline # Slash /\ Newline # Quote /\ Slash # Newline
  /\ << Slash, Star >> \in Seq(Nat) /\ Len(<< Slash, Star >>) = 2
  /\ << Slash, Slash >> \in Seq(Nat) /\ Len(<< Slash, Slash >>) = 2
  /\ << Star, Slash >> \in Seq(Nat) /\ Len(<< Star, Slash >>) = 2
  /\ << Newline >> \in Seq(Nat) /\ Len(<< Newline >>) = 1
BY DEF Slash, Star, Newline, Space, Quote, Backslash

LEMMA BytesAre ==
  ASSUME NEW p \in Seq(1 .. 255)
  PROVE  p \in Seq(Nat) /\ Len(p) \in Nat
<1>1. 1 .. 255 \subseteq Nat
  OBVIOUS
<1>2. p \in Seq(Nat)
  BY <1>1, SeqMonotonic
<1>3. QED
  BY <1>2

NothingOpens(p, open) ==
  /\ p[Len(p)] # Backslash
  /\ \A j \in 1 .. Len(p) : p[j] # Quote /\ (p[j] = Slash => j < Len(p) /\ p[j + 1] # open[2])

LEMMA CopiedPart ==
  ASSUME NEW p \in Seq(Nat), Len(p) >= 1, NEW open, NEW close, NothingOpens(p, open)
  PROVE  PassPart(p, p, open, close)
<1>1. Len(p) \in Nat /\ (Len(p) + 1) - 1 = Len(p)
  OBVIOUS
<1>2. Copied(p, p, open, 1, Len(p) + 1)
  BY <1>1 DEF Copied, NothingOpens
<1>3. QED
  BY <1>2 DEF PassPart

LEMMA LiteralPart ==
  ASSUME NEW b, IsLiteral(b), NEW open, NEW close
  PROVE  PassPart(b.chars, b.chars, open, close)
<1> DEFINE p == b.chars
           n == Len(b.chars)
<1>1. /\ p \in Seq(1 .. 255) /\ n >= 2 /\ p[1] = Quote /\ p[n] = Quote
      /\ \E escaped \in SUBSET (3 .. n - 1) : \A j \in 2 .. n :
           /\ j \in escaped <=> p[j - 1] = Backslash /\ j - 1 \notin escaped
           /\ p[j] = Quote /\ j < n => j \in escaped
  BY DEF IsLiteral
<1>2. p \in Seq(Nat) /\ n \in Nat /\ Len(p) = n
  <2>1. p \in Seq(1 .. 255) /\ Len(p) = n
    BY <1>1
  <2> HIDE DEF p, n
  <2>2. QED
    BY <2>1, BytesAre
<1> HIDE DEF n, p
<1>3. Literal(p, p, 1, n + 1)
  <2> DEFINE last == (n + 1) - 1
             inner == 1 + 2 .. (n + 1) - 2
             behind == 1 + 1 .. (n + 1) - 1
  <2>1. last = n /\ inner = 3 .. n - 1 /\ behind = 2 .. n
    BY <1>1, <1>2
  <2> HIDE DEF last, inner, behind
  <2>2. \E escaped \in SUBSET inner : \A j \in behind :
          /\ j \in escaped <=> p[j - 1] = Backslash /\ j - 1 \notin escaped
          /\ p[j] = Quote /\ j < last => j \in escaped
    BY <1>1, <2>1, Zenon
  <2>3. p[1] = Quote /\ p[last] = Quote
    BY <1>1, <2>1
  <2>4. QED
    BY <2>2, <2>3, Zenon DEF Literal, last, inner, behind
<1>4. QED
  BY <1>1, <1>2, <1>3 DEF PassPart, p

LEMMA SpacesPart ==
  ASSUME NEW n \in Nat, n >= 1, NEW open, NEW close
  PROVE  PassPart(Spaces(n), Spaces(n), open, close)
<1> DEFINE p == Spaces(n)
<1>1. p \in Seq(Nat) /\ Len(p) = n /\ \A k \in 1 .. n : p[k] = Space
  BY SpacesAre
<1> HIDE DEF p
<1>2. p[n] = Space /\ Space # Quote /\ Space # Slash /\ Space # Backslash
  BY <1>1, CommentTokens
<1>3. NothingOpens(p, open)
  BY <1>1, <1>2 DEF NothingOpens
<1>4. PassPart(p, p, open, close)
  BY <1>1, <1>3, CopiedPart
<1>5. QED
  BY <1>4 DEF p

LEMMA KeptPart ==
  ASSUME NEW b, IsKept(b), NEW open, NEW close
  PROVE  PassPart(b.chars, b.chars, open, close)
<1>1. PICK c \in (1 .. 255) \ {Quote, Backslash, Slash} : b.chars = << c >>
  BY DEF IsKept
<1> DEFINE p == << c >>
<1>2. p \in Seq(Nat) /\ Len(p) = 1 /\ p[1] = c /\ c # Quote /\ c # Backslash /\ c # Slash
  OBVIOUS
<1> HIDE DEF p
<1>3. \A j \in 1 .. Len(p) : j = 1
  BY <1>2
<1>a. NothingOpens(p, open)
  BY <1>2, <1>3 DEF NothingOpens
<1>4. PassPart(p, p, open, close)
  BY <1>2, <1>a, CopiedPart, SMTT(40)
<1>5. QED
  BY <1>1, <1>4 DEF p

\* A part that is a comment from its first character to its last.
LEMMA CommentPart ==
  ASSUME NEW p \in Seq(Nat), NEW open, NEW close, Token(close), p[1] = Slash, IsAt(p, 1, open),
         NEW end \in Nat, end >= 3, end + Len(close) = Len(p) + 1, IsAt(p, end, close),
         \A j \in 3 .. end - 1 : ~IsAt(p, j, close)
  PROVE  PassPart(p, Spaces(Len(p)), open, close)
<1> DEFINE n == Len(p)
           m == Len(close)
           q == Spaces(n)
<1>1. n \in Nat /\ m \in Nat /\ n >= 1 /\ (n + 1) - m = end /\ (n + 1) - 1 = n /\ 1 + 2 = 3
  BY DEF Token
<1>2. q \in Seq(Nat) /\ Len(q) = n /\ \A k \in 1 .. n : q[k] = Space
  BY <1>1, SpacesAre
<1> HIDE DEF n, m, q
<1>3. Commented(p, q, open, close, 1, n + 1)
  BY <1>1, <1>2 DEF Commented, m
<1>4. QED
  BY <1>1, <1>2, <1>3 DEF PassPart, n, q

LEMMA BlockPart ==
  ASSUME NEW b, IsBlockComment(b)
  PROVE  PassPart(b.chars, b.means, << Slash, Star >>, << Star, Slash >>)
<1> DEFINE p == b.chars
           n == Len(b.chars)
           close == << Star, Slash >>
<1>1. /\ p \in Seq(1 .. 255) /\ n >= 4 /\ b.means = Spaces(n)
      /\ p[1] = Slash /\ p[2] = Star /\ p[n - 1] = Star /\ p[n] = Slash
      /\ \A j \in 3 .. n - 2 : ~(p[j] = Star /\ p[j + 1] = Slash)
  BY DEF IsBlockComment
<1>2. /\ p \in Seq(Nat) /\ n \in Nat /\ Len(p) = n /\ n - 1 \in Nat /\ n - 1 >= 3
      /\ (n - 1) + 1 = n /\ (n - 1) - 1 = n - 2
  <2>1. p \in Seq(1 .. 255) /\ Len(p) = n /\ n >= 4
    BY <1>1
  <2> HIDE DEF p, n
  <2>2. p \in Seq(Nat) /\ n \in Nat
    BY <2>1, BytesAre
  <2>3. QED
    BY <2>1, <2>2
<1>3. Token(close) /\ Len(close) = 2 /\ Slash \in Nat /\ Star \in Nat
  BY CommentTokens DEF Token
<1> HIDE DEF p, n
<1>4. \A i \in Nat \ {0} : IsAt(p, i, close) <=> i + 1 <= n /\ p[i] = Star /\ p[i + 1] = Slash
  BY <1>2, <1>3, IsAtIs, SMTT(40)
<1>5. IsAt(p, 1, << Slash, Star >>)
  <2>1. IsAt(p, 1, << Slash, Star >>) <=> 1 + 1 <= n /\ p[1] = Slash /\ p[1 + 1] = Star
    BY <1>2, <1>3, IsAtIs
  <2>2. 1 + 1 = 2 /\ 1 + 1 <= n
    BY <1>1, <1>2
  <2>3. QED
    BY <1>1, <2>1, <2>2
<1>6. IsAt(p, n - 1, close)
  BY <1>1, <1>2, <1>4
<1>7. \A j \in 3 .. (n - 1) - 1 : ~IsAt(p, j, close)
  <2>1. ASSUME NEW j \in 3 .. n - 2 PROVE ~IsAt(p, j, close)
    <3>1. j \in Nat \ {0} /\ ~(p[j] = Star /\ p[j + 1] = Slash)
      BY <1>1
    <3>2. QED
      BY <1>4, <3>1
  <2>2. QED
    BY <1>2, <2>1
<1>8. (n - 1) + Len(close) = Len(p) + 1
  BY <1>2, <1>3
<1> DEFINE end == n - 1
<1> HIDE DEF close, end
<1>9. PassPart(p, Spaces(Len(p)), << Slash, Star >>, close)
  <2>1. end \in Nat /\ end >= 3 /\ end + Len(close) = Len(p) + 1
    BY <1>2, <1>8 DEF end
  <2>2. IsAt(p, end, close) /\ \A j \in 3 .. end - 1 : ~IsAt(p, j, close)
    BY <1>6, <1>7 DEF end
  <2>3. QED
    BY <1>1, <1>2, <1>3, <1>5, <2>1, <2>2, CommentPart
<1>10. QED
  BY <1>1, <1>2, <1>9 DEF close, p

LEMMA LinePart ==
  ASSUME NEW b, IsLineComment(b)
  PROVE  /\ PassPart(b.chars, b.chars, << Slash, Star >>, << Star, Slash >>)
         /\ PassPart(b.chars, b.means, << Slash, Slash >>, << Newline >>)
<1> DEFINE p == b.chars
           n == Len(b.chars)
           close == << Newline >>
<1>1. /\ p \in Seq(1 .. 255) /\ n >= 3 /\ b.means = Spaces(n)
      /\ p[1] = Slash /\ p[2] = Slash /\ p[n] = Newline
      /\ \A j \in 3 .. n - 1 : p[j] # Newline /\ p[j] # Quote
      /\ \A j \in 2 .. n - 1 : ~(p[j] = Slash /\ p[j + 1] = Star)
  BY DEF IsLineComment
<1>2. p \in Seq(Nat) /\ n \in Nat /\ Len(p) = n
  <2>1. p \in Seq(1 .. 255) /\ Len(p) = n
    BY <1>1
  <2> HIDE DEF p, n
  <2>2. QED
    BY <2>1, BytesAre
<1>3. Token(close) /\ Len(close) = 1 /\ Slash \in Nat /\ Newline \in Nat
  BY CommentTokens DEF Token
<1> HIDE DEF p, n
<1>4. PassPart(p, p, << Slash, Star >>, << Star, Slash >>)
  <2> DEFINE open == << Slash, Star >>
  <2>1. open[2] = Star
    OBVIOUS
  <2> HIDE DEF open
  <2>2. ASSUME NEW j \in 1 .. n
        PROVE  p[j] # Quote /\ (p[j] = Slash => j < n /\ p[j + 1] # open[2])
    <3>1. CASE j = 1
      <4>1. j + 1 = 2 /\ j < n
        BY <1>1, <1>2, <3>1
      <4>2. QED
        BY <1>1, <2>1, <3>1, <4>1, CommentTokens
    <3>2. CASE j = 2
      <4>1. j < n /\ j \in 2 .. n - 1
        BY <1>1, <1>2, <3>2
      <4>2. QED
        BY <1>1, <2>1, <3>2, <4>1, CommentTokens
    <3>3. CASE j \in 3 .. n - 1
      <4>1. j < n /\ j \in 2 .. n - 1
        BY <1>2, <3>3
      <4>2. QED
        BY <1>1, <2>1, <3>3, <4>1
    <3>4. CASE j = n
      BY <1>1, <3>4, CommentTokens
    <3>5. QED
      BY <1>2, <3>1, <3>2, <3>3, <3>4
  <2>3. p[n] # Backslash
    BY <1>1, CommentTokens
  <2>a. NothingOpens(p, open)
    BY <1>2, <2>2, <2>3 DEF NothingOpens
  <2>b. Len(p) >= 1
    BY <1>1, <1>2
  <2>4. PassPart(p, p, open, << Star, Slash >>)
    BY <1>2, <2>a, <2>b, CopiedPart
  <2>5. QED
    BY <2>4 DEF open
<1>5. PassPart(p, Spaces(Len(p)), << Slash, Slash >>, close)
  <2>1. \A i \in Nat \ {0} : IsAt(p, i, close) <=> i <= n /\ p[i] = Newline
    BY <1>2, <1>3, IsAtIs
  <2>2. IsAt(p, 1, << Slash, Slash >>)
    <3>1. IsAt(p, 1, << Slash, Slash >>) <=> 1 + 1 <= n /\ p[1] = Slash /\ p[1 + 1] = Slash
      BY <1>2, <1>3, IsAtIs
    <3>2. 1 + 1 = 2 /\ 1 + 1 <= n
      BY <1>1, <1>2
    <3>3. QED
      BY <1>1, <3>1, <3>2
  <2>3. IsAt(p, n, close) /\ \A j \in 3 .. n - 1 : ~IsAt(p, j, close)
    BY <1>1, <1>2, <2>1
  <2>4. n + Len(close) = Len(p) + 1
    BY <1>2, <1>3
  <2> HIDE DEF close
  <2>5. QED
    BY <1>1, <1>2, <1>3, <2>2, <2>3, <2>4, CommentPart
<1>6. QED
  BY <1>1, <1>2, <1>4, <1>5 DEF p

\* What is left of a bit once the block comments are gone.
Between(b) == IF IsBlockComment(b) THEN b.means ELSE b.chars

LEMMA BitPasses ==
  ASSUME NEW b, IsKept(b) \/ IsLiteral(b) \/ IsBlockComment(b) \/ IsLineComment(b)
  PROVE  /\ PassPart(b.chars, Between(b), << Slash, Star >>, << Star, Slash >>)
         /\ PassPart(Between(b), b.means, << Slash, Slash >>, << Newline >>)
<1>1. CASE IsBlockComment(b)
  <2>1. Between(b) = b.means
    BY <1>1 DEF Between
  <2>2. b.means = Spaces(Len(b.chars)) /\ Len(b.chars) \in Nat /\ Len(b.chars) >= 1
    BY <1>1 DEF IsBlockComment
  <2>3. PassPart(b.means, b.means, << Slash, Slash >>, << Newline >>)
    BY <2>2, SpacesPart
  <2>4. QED
    BY <1>1, <2>1, <2>3, BlockPart
<1>2. CASE ~IsBlockComment(b) /\ (IsKept(b) \/ IsLiteral(b))
  <2>1. Between(b) = b.chars
    BY <1>2 DEF Between
  <2>2. b.means = b.chars
    BY <1>2 DEF IsKept, IsLiteral
  <2>3. QED
    BY <1>2, <2>1, <2>2, KeptPart, LiteralPart
<1>3. CASE ~IsBlockComment(b) /\ IsLineComment(b)
  <2>1. Between(b) = b.chars
    BY <1>3 DEF Between
  <2>2. QED
    BY <1>3, <2>1, LinePart
<1>4. QED
  BY <1>1, <1>2, <1>3

BitsAreThere == bits \in Seq(Bits)

LEMMA BitsStay == StringSpec => []BitsAreThere
<1>1. StringInit => BitsAreThere
  BY DEF StringInit, BitsAreThere
<1>2. BitsAreThere /\ [StringNext]_texts => BitsAreThere'
  BY DEF BitsAreThere, StringNext, TypePiece, TypeBit, texts
<1>3. QED
  BY <1>1, <1>2, PTL DEF StringSpec

\* For texts of any bits and any length: remove_comments(), called for block comments and
\* then for line comments, leaves as many spaces as each comment has characters and every
\* other character as it was, the ones of string literals that look like comments too.
THEOREM CommentsAreBlanked == StringSpec => []CommentsBlanked
<1>1. ASSUME BitsAreThere PROVE CommentsBlanked
  <2> DEFINE n == Len(bits)
             s == [i \in 1 .. n |-> bits[i].chars]
             h == [i \in 1 .. n |-> Between(bits[i])]
             m == [i \in 1 .. n |-> bits[i].means]
             block == << Slash, Star >>
             blockEnd == << Star, Slash >>
             line == << Slash, Slash >>
             lineEnd == << Newline >>
  <2>1. n \in Nat /\ DOMAIN bits = 1 .. n /\ \A i \in 1 .. n : bits[i] \in Bits
    BY <1>1 DEF BitsAreThere
  <2>2. ASSUME NEW i \in 1 .. n
        PROVE  /\ PassPart(bits[i].chars, Between(bits[i]), block, blockEnd)
               /\ PassPart(Between(bits[i]), bits[i].means, line, lineEnd)
    <3> DEFINE b == bits[i]
    <3>1. IsKept(b) \/ IsLiteral(b) \/ IsBlockComment(b) \/ IsLineComment(b)
      BY <2>1, BitsAssumption
    <3> HIDE DEF b
    <3>2. PassPart(b.chars, Between(b), block, blockEnd) /\ PassPart(Between(b), b.means, line, lineEnd)
      BY <3>1, BitPasses
    <3>3. QED
      BY <3>2 DEF b
  <2>3. /\ block \in Seq(Nat) /\ Len(block) = 2 /\ block[1] = Slash /\ Token(blockEnd)
        /\ line \in Seq(Nat) /\ Len(line) = 2 /\ line[1] = Slash /\ Token(lineEnd)
    BY CommentTokens DEF Token
  <2> HIDE DEF n, block, blockEnd, line, lineEnd
  <2>4. \A i \in 1 .. n : bits[i].chars \in Seq(Nat) /\ Between(bits[i]) \in Seq(Nat) /\ bits[i].means \in Seq(Nat)
    <3>1. ASSUME NEW i \in 1 .. n
          PROVE  bits[i].chars \in Seq(Nat) /\ Between(bits[i]) \in Seq(Nat) /\ bits[i].means \in Seq(Nat)
      <4> DEFINE a == bits[i].chars
                 c == Between(bits[i])
                 d == bits[i].means
      <4>1. PassPart(a, c, block, blockEnd) /\ PassPart(c, d, line, lineEnd)
        BY <2>2
      <4> HIDE DEF a, c, d
      <4>2. a \in Seq(Nat) /\ c \in Seq(Nat) /\ d \in Seq(Nat)
        BY <4>1 DEF PassPart
      <4>3. QED
        BY <4>2 DEF a, c, d
    <3>2. QED
      BY <3>1
  <2>5. /\ s \in Seq(Seq(Nat)) /\ h \in Seq(Seq(Nat)) /\ m \in Seq(Seq(Nat))
        /\ Len(s) = n /\ Len(h) = n /\ Len(m) = n
    BY <2>1, <2>4
  <2>6. \A i \in 1 .. n : s[i] = bits[i].chars /\ h[i] = Between(bits[i]) /\ m[i] = bits[i].means
    OBVIOUS
  <2>7. Chars(bits) = FlattenSeq(s) /\ FlattenSeq([i \in DOMAIN bits |-> bits[i].means]) = FlattenSeq(m)
    BY <2>1 DEF Chars
  <2> HIDE DEF s, h, m
  <2>8. Parts(s, h, block, blockEnd) /\ Parts(h, m, line, lineEnd)
    BY <2>2, <2>3, <2>5, <2>6 DEF Parts
  <2>9. /\ RemoveComments(FlattenSeq(s), block, blockEnd) = FlattenSeq(h)
        /\ RemoveComments(FlattenSeq(h), line, lineEnd) = FlattenSeq(m)
    BY <2>8, PassAll
  <2>10. WithoutComments(Chars(bits)) = FlattenSeq(m)
    BY <2>7, <2>9 DEF WithoutComments, block, blockEnd, line, lineEnd
  <2>11. QED
    BY <2>7, <2>10 DEF CommentsBlanked
<1>2. QED
  BY <1>1, BitsStay, PTL

=============================================================================
