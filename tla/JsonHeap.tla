------------------------------ MODULE JsonHeap ------------------------------
(***************************************************************************)
(* The values of parson.c and who owns them.  A JSON_Value is a block on   *)
(* the heap; objects and arrays hold pointers to their members, and each   *)
(* member has a pointer to its parent.  A client makes values, puts them   *)
(* into containers, which then own them, and removes them again, which     *)
(* frees them with all they own.  malloc() may fail at every call.         *)
(*                                                                         *)
(* Strings, numbers, booleans and nulls are "leaf" values.  What a client  *)
(* must not do is left out: it uses no value it has freed, frees only what *)
(* it owns and puts no value into its own subtree.                         *)
(***************************************************************************)
EXTENDS Naturals, Sequences, FiniteSets

CONSTANTS
  Values,      \* the blocks malloc() may return for a JSON_Value
  NULL,
  Names,       \* the names of members, without dots
  StartCap,    \* STARTING_CAPACITY
  MaxMembers,  \* bound on the members of a container
  AllocFaults  \* may malloc() fail?

ASSUME HeapAssumption ==
  /\ NULL \notin Values
  /\ NULL \notin Names
  /\ StartCap \in Nat \ {0}
  /\ MaxMembers \in Nat
  /\ AllocFaults \in BOOLEAN

VARIABLES
  kind,     \* "free" for a block that is not allocated
  parent,   \* value->parent
  members,  \* names[] with values[] of an object; items[] of an array (name NULL)
  cap,      \* capacity
  held      \* the values the client owns: made, and not yet taken by a container

vars == <<kind, parent, members, cap, held>>

Member == [name : Names \cup {NULL}, val : Values]

TypeOK ==
  /\ kind \in [Values -> {"free", "leaf", "object", "array"}]
  /\ parent \in [Values -> Values \cup {NULL}]
  /\ members \in [Values -> Seq(Member)]
  /\ cap \in [Values -> Nat]
  /\ held \subseteq Values

Init ==
  /\ kind = [v \in Values |-> "free"]
  /\ parent = [v \in Values |-> NULL]
  /\ members = [v \in Values |-> <<>>]
  /\ cap = [v \in Values |-> 0]
  /\ held = {}

Alive(v) == kind[v] # "free"
Size(c) == Len(members[c])

(* The values c holds pointers to. *)
Children(c) == {members[c][k].val : k \in 1..Size(c)}

(* What json_value_free(v) visits: the least set with v and all that its values hold. *)
Subtree(v) ==
  LET Closed == {S \in SUBSET Values : v \in S /\ \A x \in S : Children(x) \subseteq S}
  IN {w \in Values : \A S \in Closed : w \in S}

Subtrees(c) == UNION {Subtree(v) : v \in Children(c)}

(* json_object_getn_value(): the members of o with name n. *)
Slots(o, n) == {k \in 1..Size(o) : members[o][k].name = n}

(* A value a client can pass for insertion into c: one it owns, or one it *)
(* can reach in a container, which the code must refuse.                  *)
CanPass(c, v) ==
  /\ Alive(v)
  /\ v \in held \/ parent[v] # NULL
  /\ c \notin Subtree(v)

(* Slip: the value is not told its parent. *)
Commit_NoParent(D, c, ms, k, v, t) ==
  /\ kind' = [x \in Values |-> IF x \in D THEN "free" ELSE IF x = v THEN t ELSE kind[x]]
  /\ parent' = [x \in Values |-> IF x \in D THEN NULL ELSE parent[x]]
  /\ members' = [x \in Values |-> IF x \in D THEN <<>> ELSE IF x = c THEN ms ELSE members[x]]
  /\ cap' = [x \in Values |-> IF x \in D THEN 0 ELSE IF x = c THEN k ELSE cap[x]]
  /\ held' = held \ (D \cup {v})

(***************************************************************************)
(* The writes of one operation: the values D are freed, v of kind t gets   *)
(* the parent c, and c has the members ms and the capacity k.              *)
(***************************************************************************)
Commit(D, c, ms, k, v, t) ==
  /\ kind' = [x \in Values |-> IF x \in D THEN "free" ELSE IF x = v THEN t ELSE kind[x]]
  /\ parent' = [x \in Values |-> IF x \in D THEN NULL ELSE IF x = v THEN c ELSE parent[x]]
  /\ members' = [x \in Values |-> IF x \in D THEN <<>> ELSE IF x = c THEN ms ELSE members[x]]
  /\ cap' = [x \in Values |-> IF x \in D THEN 0 ELSE IF x = c THEN k ELSE cap[x]]
  /\ held' = held \ (D \cup {v})

(* Slip: a full container is not resized. *)
Grown_Never(c) == IF cap[c] = 0 THEN StartCap ELSE cap[c]

(* json_object_resize(), json_array_resize(): a full container is doubled. *)
Grown(c) ==
  IF Size(c) < cap[c] THEN cap[c]
  ELSE IF 2 * cap[c] > StartCap THEN 2 * cap[c] ELSE StartCap

(* Slip: a name that is there already is added once more. *)
Put_Blind(o, n, v, t) ==
  /\ Size(o) < MaxMembers
  /\ Commit({}, o, Append(members[o], [name |-> n, val |-> v]), Grown(o), v, t)

(* json_object_set_value(): overwrite in place, or add at the end. *)
Put(o, n, v, t) ==
  \/ \E k \in Slots(o, n) :
       Commit(Subtree(members[o][k].val), o,
              [members[o] EXCEPT ![k] = [name |-> n, val |-> v]], cap[o], v, t)
  \/ /\ Slots(o, n) = {}
     /\ Size(o) < MaxMembers
     /\ Commit({}, o, Append(members[o], [name |-> n, val |-> v]), Grown(o), v, t)

(* An allocation of json_object_addn() or json_array_add() fails, before or *)
(* after the resize.                                                        *)
AddFails(c) ==
  /\ AllocFaults
  /\ cap' \in {cap, [cap EXCEPT ![c] = Grown(c)]}

-----------------------------------------------------------------------------
(* json_value_init_object() and its like. *)
NewValue(v, t) ==
  /\ kind[v] = "free"
  /\ kind' = [kind EXCEPT ![v] = t]
  /\ parent' = [parent EXCEPT ![v] = NULL]
  /\ held' = held \cup {v}
  /\ UNCHANGED <<members, cap>>

FreeValue(v) ==
  /\ v \in held
  /\ Commit(Subtree(v), NULL, <<>>, 0, NULL, "free")

(* Slip: a value that has a parent is taken as well. *)
SetValue_AnyParent(o, n, v) ==
  /\ kind[o] = "object"
  /\ CanPass(o, v)
  /\ Put(o, n, v, kind[v])

SetValue(o, n, v) ==
  /\ kind[o] = "object"
  /\ parent[v] = NULL /\ CanPass(o, v)
  /\ Put(o, n, v, kind[v])

SetValueFails(o, n, v) ==
  /\ kind[o] = "object" /\ parent[v] = NULL /\ CanPass(o, v)
  /\ Slots(o, n) = {}
  /\ AddFails(o)
  /\ UNCHANGED <<kind, parent, members, held>>

(* json_object_set_string() and its like: a leaf of their own making. *)
SetLeaf(o, n, v) ==
  /\ kind[o] = "object"
  /\ kind[v] = "free"
  /\ Put(o, n, v, "leaf")

(* They do not look at the result of json_object_set_value(): the leaf is lost. *)
SetLeafFails(o, n, v) ==
  /\ kind[o] = "object" /\ kind[v] = "free"
  /\ Slots(o, n) = {}
  /\ AddFails(o)
  /\ kind' = [kind EXCEPT ![v] = "leaf"]
  /\ parent' = [parent EXCEPT ![v] = NULL]
  /\ UNCHANGED <<members, held>>

(* Slip: the hole is closed with the last member, which also stays. *)
RemoveMember_KeepsLast(o, n) ==
  /\ kind[o] = "object"
  /\ \E k \in Slots(o, n) :
       Commit(Subtree(members[o][k].val), o,
              [members[o] EXCEPT ![k] = members[o][Size(o)]], cap[o], NULL, "free")

(* Slip: the member is forgotten and not freed. *)
RemoveMember_NoFree(o, n) ==
  /\ kind[o] = "object"
  /\ \E k \in Slots(o, n) :
       Commit({}, o,
              [j \in 1..(Size(o) - 1) |-> IF j = k THEN members[o][Size(o)] ELSE members[o][j]],
              cap[o], NULL, "free")

(* json_object_remove(), and json_object_dotremove() at the object its path *)
(* leads to: the last member takes the place of the removed one.            *)
RemoveMember(o, n) ==
  /\ kind[o] = "object"
  /\ \E k \in Slots(o, n) :
       Commit(Subtree(members[o][k].val), o,
              [j \in 1..(Size(o) - 1) |-> IF j = k THEN members[o][Size(o)] ELSE members[o][j]],
              cap[o], NULL, "free")

(* json_object_clear(), json_array_clear(): the capacity stays. *)
Clear(c) ==
  /\ kind[c] \in {"object", "array"}
  /\ Size(c) > 0
  /\ Commit(Subtrees(c), c, <<>>, cap[c], NULL, "free")

AppendValue(a, v) ==
  /\ kind[a] = "array"
  /\ parent[v] = NULL /\ CanPass(a, v)
  /\ Size(a) < MaxMembers
  /\ Commit({}, a, Append(members[a], [name |-> NULL, val |-> v]), Grown(a), v, kind[v])

(* json_array_append_string() and its like.  (When the resize fails, nothing *)
(* is appended, and a leaf of the code's own making is freed again: a step   *)
(* that changes nothing.)                                                    *)
AppendLeaf(a, v) ==
  /\ kind[a] = "array"
  /\ kind[v] = "free"
  /\ Size(a) < MaxMembers
  /\ Commit({}, a, Append(members[a], [name |-> NULL, val |-> v]), Grown(a), v, "leaf")

(* Slip: the old item is not freed. *)
ReplaceValue_NoFree(a, k, v) ==
  /\ kind[a] = "array"
  /\ k <= Size(a)
  /\ parent[v] = NULL /\ CanPass(a, v)
  /\ Commit({}, a, [members[a] EXCEPT ![k].val = v], cap[a], v, kind[v])

ReplaceValue(a, k, v) ==
  /\ kind[a] = "array"
  /\ k <= Size(a)
  /\ parent[v] = NULL /\ CanPass(a, v)
  /\ Commit(Subtree(members[a][k].val), a, [members[a] EXCEPT ![k].val = v], cap[a], v, kind[v])

(* Slip: the items behind the removed one are not moved up. *)
RemoveItem_NoMove(a, k) ==
  /\ kind[a] = "array"
  /\ k <= Size(a)
  /\ Commit(Subtree(members[a][k].val), a, SubSeq(members[a], 1, Size(a) - 1), cap[a], NULL, "free")

(* Slip: the item is freed and its slot set to NULL, but the count stays. *)
RemoveItem_LeavesHole(a, k) ==
  /\ kind[a] = "array"
  /\ k <= Size(a)
  /\ Commit(Subtree(members[a][k].val), a, [members[a] EXCEPT ![k].val = NULL],
            cap[a], NULL, "free")

(* json_array_remove(): memmove() closes the gap. *)
RemoveItem(a, k) ==
  /\ kind[a] = "array"
  /\ k <= Size(a)
  /\ Commit(Subtree(members[a][k].val), a,
            [j \in 1..(Size(a) - 1) |-> members[a][IF j < k THEN j ELSE j + 1]],
            cap[a], NULL, "free")

(***************************************************************************)
(* json_object_dotset_value(o, "n.m", v) where o has no member n: an       *)
(* object w is made for the rest of the path, gets v and is added to o.    *)
(* (Where o has an object n, it is SetValue(n, m, v); with another n, or   *)
(* when w or its member cannot be allocated, nothing changes.)             *)
(***************************************************************************)
DotSet(o, n, m, v, w) ==
  /\ kind[o] = "object" /\ Slots(o, n) = {} /\ Size(o) < MaxMembers
  /\ parent[v] = NULL /\ CanPass(o, v)
  /\ kind[w] = "free"
  /\ kind' = [kind EXCEPT ![w] = "object"]
  /\ parent' = [parent EXCEPT ![v] = w, ![w] = o]
  /\ members' = [members EXCEPT ![w] = <<[name |-> m, val |-> v]>>,
                                ![o] = Append(@, [name |-> n, val |-> w])]
  /\ cap' = [cap EXCEPT ![w] = StartCap, ![o] = Grown(o)]
  /\ held' = held \ {v}

(* w cannot be added to o: v is taken out of it again by a removal that      *)
(* frees nothing and leaves v->parent as it is, and w is freed.              *)
DotSetUndone(o, n, v, w) ==
  /\ kind[o] = "object" /\ Slots(o, n) = {}
  /\ parent[v] = NULL /\ CanPass(o, v)
  /\ kind[w] = "free"
  /\ AddFails(o)
  /\ parent' = [parent EXCEPT ![v] = w]
  /\ UNCHANGED <<kind, members, held>>

Next ==
  \/ \E v \in Values : FreeValue(v) \/ \E t \in {"leaf", "object", "array"} : NewValue(v, t)
  \/ \E o, v \in Values, n \in Names :
       SetValue(o, n, v) \/ SetValueFails(o, n, v) \/ SetLeaf(o, n, v) \/ SetLeafFails(o, n, v)
  \/ \E o \in Values, n \in Names : RemoveMember(o, n)
  \/ \E c \in Values : Clear(c)
  \/ \E a, v \in Values : AppendValue(a, v) \/ AppendLeaf(a, v)
  \/ \E a, v \in Values, k \in 1..MaxMembers : ReplaceValue(a, k, v)
  \/ \E a \in Values, k \in 1..MaxMembers : RemoveItem(a, k)
  \/ \E o, v, w \in Values, n, m \in Names : DotSet(o, n, m, v, w)
  \/ \E o, v, w \in Values, n \in Names : DotSetUndone(o, n, v, w)

Spec == Init /\ [][Next]_vars
-----------------------------------------------------------------------------
(***************************************************************************)
(* Properties                                                              *)
(***************************************************************************)

(* No container of parson.c ever points to a value that has been freed, so  *)
(* that freeing, replacing or reading it cannot touch freed memory.         *)
NoDanglingMember ==
  \A c \in Values : \A v \in Children(c) : Alive(c) /\ Alive(v)

(* A value has one place: it is owned by the client or is one member of one *)
(* container, so that it is freed once.                                     *)
OwnedOnce ==
  \A c, d \in Values, j, k \in 1..MaxMembers :
    (j <= Size(c) /\ k <= Size(d) /\ members[c][j].val = members[d][k].val)
      => c = d /\ j = k /\ members[c][j].val \notin held

(* json_value_get_parent() of a member is the container it is in. *)
ParentKnown ==
  \A c \in Values : \A v \in Children(c) : parent[v] = c

(* An object has at most one member of a name, whatever sequence of sets,   *)
(* removals with the last member and failed allocations has built it.       *)
NamesUnique ==
  \A o \in Values : kind[o] = "object" =>
    \A j, k \in 1..Size(o) : members[o][j].name = members[o][k].name => j = k

(* No container has more members than its arrays have room for. *)
WithinCapacity == \A c \in Values : Size(c) <= cap[c]

(* What the client can no longer reach, neither as its own nor as a member. *)
Lost == {v \in Values : Alive(v) /\ v \notin held /\ \A c \in Values : v \notin Children(c)}

(* No operation loses a value that was there before it, even when malloc()  *)
(* fails in the middle: what is taken out of a container is freed with its  *)
(* whole subtree, and what is not taken stays the client's.  (Only a leaf   *)
(* that json_object_set_string() and its like have just made can be lost.)  *)
NothingLost ==
  [][\A v \in Values : v \in Lost' \ Lost => kind[v] = "free"]_vars
=============================================================================
