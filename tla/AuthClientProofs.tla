-------------------------- MODULE AuthClientProofs --------------------------
(***************************************************************************)
(* Proofs about AuthClient for any number of clients and of replies: what  *)
(* a registration that runs on cannot become, and what a grant rests on.   *)
(***************************************************************************)
EXTENDS AuthClient, TLAPS

LEMMA SizeIsNat == ASSUME NEW m \in Reply PROVE Size(m) \in Nat
<1>1. m.word \in Words /\ m.arg \in BOOLEAN
  BY DEF Reply
<1>2. Length(m.word) \in {25, 13, 23, 19, 55}
  BY <1>1 DEF Length, Words
<1>3. QED
  BY <1>1, <1>2, AuthAssumption DEF Size

LEMMA FillIsNat == ASSUME TypeOK, NEW c \in Clients PROVE Fill(c) \in Nat /\ Fill(c) >= filled[c]
  BY DEF TypeOK, Fill

LEMMA TypeStep == TypeOK /\ [Next]_vars => TypeOK'
<1> SUFFICES ASSUME TypeOK, [Next]_vars PROVE TypeOK'
  OBVIOUS
<1> USE DEF TypeOK, Results, Return, Continue
<1>1. ASSUME NEW c \in Clients, Send(c) PROVE TypeOK'
  BY <1>1 DEF Send
<1>2. ASSUME NEW c \in Clients, SendFails(c) PROVE TypeOK'
  BY <1>2 DEF SendFails
<1>3. ASSUME NEW c \in Clients, Read(c) PROVE TypeOK'
  <2>1. filled' \in [Clients -> Nat]
    BY <1>3, FillIsNat DEF Read
  <2>2. offset' \in [Clients -> 0..Len(replies)] /\ pos' \in [Clients -> 0..size]
    BY <1>3 DEF Read
  <2>3. pc' \in [Clients -> {"send", "read", "done"}] /\ result' \in [Clients -> Results]
    BY <1>3 DEF Read, RegisterVerdict, LoginVerdict
  <2>4. UNCHANGED <<replies, size, stage, failed>>
    BY <1>3 DEF Read
  <2>5. QED
    BY <2>1, <2>2, <2>3, <2>4
<1>4. ASSUME NEW c \in Clients, ReadFails(c) PROVE TypeOK'
  BY <1>4 DEF ReadFails
<1>5. CASE Answer
  BY <1>5, SizeIsNat DEF Answer
<1>6. CASE UNCHANGED vars
  BY <1>6 DEF vars
<1>7. QED
  BY <1>1, <1>2, <1>3, <1>4, <1>5, <1>6 DEF Next

(* Every variable keeps its type, however many replies are written. *)
THEOREM AuthTypeCorrect == Spec => []TypeOK
<1>1. Init => TypeOK
  BY AuthAssumption DEF Init, TypeOK, Results
<1>2. QED
  BY <1>1, TypeStep, PTL DEF Spec

-----------------------------------------------------------------------------
(* A registration that runs on into the login case never reads there. *)
NoLoginReadAfterRegister ==
  \A c \in Clients :
    IF Asks[c] = "login" THEN stage[c] = "login"
    ELSE stage[c] = "register" \/ (failed[c] /\ pc[c] # "read")

RInv == NoLoginReadAfterRegister /\ RegisterNeverLogsIn

LEMMA RegisterStep == ASSUME TypeOK, RInv, [Next]_vars PROVE RInv'
<1> USE DEF RInv, NoLoginReadAfterRegister, RegisterNeverLogsIn, Return, Continue
<1> /\ Asks \in [Clients -> {"register", "login"}]
    /\ pc \in [Clients -> {"send", "read", "done"}]
    /\ stage \in [Clients -> {"register", "login"}]
    /\ failed \in [Clients -> BOOLEAN]
    /\ result \in [Clients -> Results]
  BY AuthAssumption DEF TypeOK
<1>1. ASSUME NEW c \in Clients, Send(c) PROVE RInv'
  BY <1>1 DEF Send
<1>2. ASSUME NEW c \in Clients, SendFails(c) PROVE RInv'
  BY <1>2 DEF SendFails
<1>3. ASSUME NEW c \in Clients, Read(c) PROVE RInv'
  BY <1>3 DEF Read, RegisterVerdict, LoginVerdict
<1>4. ASSUME NEW c \in Clients, ReadFails(c) PROVE RInv'
  BY <1>4 DEF ReadFails
<1>5. CASE Answer
  BY <1>5 DEF Answer
<1>6. CASE UNCHANGED vars
  BY <1>6 DEF vars
<1>7. QED
  BY <1>1, <1>2, <1>3, <1>4, <1>5, <1>6 DEF Next

(* No registration is ever granted or refused a login, whatever replies the  *)
(* file holds and whichever of its reads and writes fail.                    *)
THEOREM NoLoginForRegistration == Spec => []RegisterNeverLogsIn
<1>1. Init => TypeOK /\ RInv
  BY AuthAssumption DEF Init, TypeOK, Results, RInv, NoLoginReadAfterRegister, RegisterNeverLogsIn
<1>2. TypeOK /\ RInv /\ [Next]_vars => TypeOK' /\ RInv'
  BY TypeStep, RegisterStep
<1>3. RInv => RegisterNeverLogsIn
  BY DEF RInv
<1>4. QED
  BY <1>1, <1>2, <1>3, PTL DEF Spec

-----------------------------------------------------------------------------
(* While a client is in getAuthenticated() it has no result. *)
NoResultYet == \A c \in Clients : pc[c] # "done" => result[c] = "none"
LEMMA NoResultStep == ASSUME TypeOK, NoResultYet, [Next]_vars PROVE NoResultYet'
<1> USE DEF NoResultYet, Return, Continue
<1> pc \in [Clients -> {"send", "read", "done"}] /\ result \in [Clients -> Results]
  BY DEF TypeOK
<1>1. ASSUME NEW c \in Clients, Send(c) \/ SendFails(c) PROVE NoResultYet'
  BY <1>1 DEF Send, SendFails
<1>2. ASSUME NEW c \in Clients, Read(c) PROVE NoResultYet'
  BY <1>2 DEF Read, RegisterVerdict, LoginVerdict
<1>3. ASSUME NEW c \in Clients, ReadFails(c) PROVE NoResultYet'
  BY <1>3 DEF ReadFails
<1>4. CASE Answer
  BY <1>4 DEF Answer
<1>5. CASE UNCHANGED vars
  BY <1>5 DEF vars
<1>6. QED
  BY <1>1, <1>2, <1>3, <1>4, <1>5 DEF Next

LEMMA SizeBounds ==
  ASSUME NEW m \in Reply
  PROVE  /\ Size(m) \in Nat /\ Size(m) > 0
         /\ m.word = "authentication_successful" =>
              Size(m) >= 25 /\ (Size(m) <= 25 => m.arg = FALSE)
         /\ m = [word |-> m.word, arg |-> m.arg]
<1>1. m.word \in Words /\ m.arg \in BOOLEAN /\ m = [word |-> m.word, arg |-> m.arg]
  BY DEF Reply
<1>2. Length(m.word) \in {25, 13, 23, 19, 55}
  BY <1>1 DEF Length, Words
<1>3. m.word = "authentication_successful" => Length(m.word) = 25
  BY DEF Length
<1>4. QED
  BY <1>1, <1>2, <1>3, AuthAssumption DEF Size

Unread(c) == offset[c] + 1 .. Len(replies)

(* No reply a client has read was longer than what its buffer is filled to. *)
ReadFilled == \A c \in Clients : \A k \in 1..offset[c] : Size(replies[k]) <= filled[c]

(* The bytes a read() will bring are at least those of any unread reply, *)
(* and of any two.                                                       *)
UnreadFits ==
  \A c \in Clients : \A k \in Unread(c) : Size(replies[k]) <= size - pos[c]
UnreadPairFits ==
  \A c \in Clients : \A j, k \in Unread(c) :
    j # k => Size(replies[j]) + Size(replies[k]) <= size - pos[c]

BInv == ReadFilled /\ UnreadFits /\ UnreadPairFits

LEMMA TypedReplies ==
  ASSUME TypeOK
  PROVE  /\ replies \in Seq(Reply) /\ Len(replies) \in Nat /\ size \in Nat
         /\ \A k \in 1..Len(replies) :
              /\ replies[k] \in Reply /\ Size(replies[k]) \in Nat
              /\ Size(replies[k]) > 0
         /\ \A c \in Clients :
              offset[c] \in 0..Len(replies) /\ pos[c] \in 0..size /\ filled[c] \in Nat
<1>1. replies \in Seq(Reply) /\ \A k \in 1..Len(replies) : replies[k] \in Reply
  BY DEF TypeOK
<1>2. \A k \in 1..Len(replies) : Size(replies[k]) \in Nat /\ Size(replies[k]) > 0
  BY <1>1, SizeBounds
<1>3. Len(replies) \in Nat
  BY <1>1
<1>4. \A c \in Clients :
        offset[c] \in 0..Len(replies) /\ pos[c] \in 0..size /\ filled[c] \in Nat
  BY DEF TypeOK
<1>5. size \in Nat
  BY DEF TypeOK
<1>6. QED
  BY <1>1, <1>2, <1>3, <1>4, <1>5

LEMMA BytesStep == ASSUME TypeOK, BInv, [Next]_vars PROVE BInv'
<1>t. TypeOK'
  BY TypeStep
<1>a. /\ offset \in [Clients -> 0..Len(replies)] /\ pos \in [Clients -> 0..size]
      /\ filled \in [Clients -> Nat]
  BY DEF TypeOK
<1>1. ASSUME NEW c \in Clients, Read(c) PROVE BInv'
  <2>1. /\ UNCHANGED <<replies, size>>
        /\ offset' = [offset EXCEPT ![c] = Len(replies)]
        /\ pos' = [pos EXCEPT ![c] = size]
        /\ filled' = [filled EXCEPT ![c] = Fill(c)]
    BY <1>1 DEF Read
  <2>2. ASSUME NEW k \in 1..Len(replies) PROVE Size(replies[k]) <= Fill(c)
    <3>1. k \in 1..offset[c] \/ k \in Unread(c)
      BY TypedReplies DEF Unread
    <3>2. Size(replies[k]) <= filled[c] \/ Size(replies[k]) <= size - pos[c]
      BY <3>1 DEF BInv, ReadFilled, UnreadFits
    <3>3. QED
      BY <3>2, TypedReplies DEF Fill
  <2>3. ReadFilled'
    BY <2>1, <2>2, <1>a DEF BInv, ReadFilled
  <2>4. \A d \in Clients : Unread(d)' \subseteq Unread(d) /\ (d = c => Unread(d)' = {})
    BY <2>1, <1>a, TypedReplies DEF Unread
  <2>5. \A d \in Clients : d # c => pos'[d] = pos[d]
    BY <2>1, <1>a
  <2>6. UnreadFits' /\ UnreadPairFits'
    BY <2>1, <2>4, <2>5 DEF BInv, UnreadFits, UnreadPairFits
  <2>7. QED
    BY <2>3, <2>6 DEF BInv
<1>2. CASE Answer
  <2>1. PICK m \in Reply : replies' = Append(replies, m) /\ size' = size + Size(m)
    BY <1>2 DEF Answer
  <2>2. UNCHANGED <<offset, pos, filled>>
    BY <1>2 DEF Answer
  <2>3. /\ Len(replies') = Len(replies) + 1
        /\ \A k \in 1..Len(replies) : replies'[k] = replies[k]
        /\ replies'[Len(replies) + 1] = m
    BY <2>1, TypedReplies
  <2>4. Size(m) \in Nat /\ Size(m) > 0
    BY SizeBounds
  <2>5. ReadFilled'
    BY <2>2, <2>3, TypedReplies DEF BInv, ReadFilled
  <2>6. ASSUME NEW c \in Clients, NEW k \in Unread(c)'
        PROVE  \/ k \in Unread(c) /\ replies'[k] = replies[k]
               \/ k = Len(replies) + 1 /\ replies'[k] = m
    BY <2>2, <2>3, <2>6, TypedReplies DEF Unread
  <2>7. \A c \in Clients : size' - pos'[c] = (size - pos[c]) + Size(m) /\ size - pos[c] >= 0
    BY <2>1, <2>2, <2>4, TypedReplies
  <2>8. \A c \in Clients : \A k \in Unread(c) : Size(replies[k]) \in Nat
    BY TypedReplies DEF Unread
  <2>9. UnreadFits'
    BY <2>4, <2>6, <2>7, <2>8, TypedReplies DEF BInv, UnreadFits
  <2>10. ASSUME NEW c \in Clients, NEW j \in Unread(c)', NEW k \in Unread(c)', j # k
         PROVE  Size(replies'[j]) + Size(replies'[k]) <= size' - pos'[c]
    <3>1. CASE j \in Unread(c) /\ k \in Unread(c) /\ replies'[j] = replies[j] /\ replies'[k] = replies[k]
      <4>1. Size(replies[j]) + Size(replies[k]) <= size - pos[c]
        BY <3>1, <2>10 DEF BInv, UnreadPairFits
      <4>2. QED
        BY <3>1, <4>1, <2>4, <2>7, <2>8, TypedReplies
    <3>2. CASE j \in Unread(c) /\ replies'[j] = replies[j] /\ replies'[k] = m
      BY <3>2, <2>4, <2>7, <2>8, TypedReplies DEF BInv, UnreadFits
    <3>3. CASE k \in Unread(c) /\ replies'[k] = replies[k] /\ replies'[j] = m
      BY <3>3, <2>4, <2>7, <2>8, TypedReplies DEF BInv, UnreadFits
    <3>4. QED
      BY <2>6, <2>10, <3>1, <3>2, <3>3
  <2>11. QED
    BY <2>5, <2>9, <2>10 DEF BInv, UnreadPairFits
<1>3. ASSUME UNCHANGED <<replies, size, offset, pos, filled>> PROVE BInv'
  BY <1>3 DEF BInv, ReadFilled, UnreadFits, UnreadPairFits, Unread
<1>4. QED
  BY <1>1, <1>2, <1>3 DEF Next, Send, SendFails, ReadFails, vars

(* Who has been granted a login has read a reply. *)
GrantedHasRead == \A c \in Clients : result[c] = "AUTH_SUCCESS" => offset[c] > 0

GInv == NoResultYet /\ GrantedHasRead /\ GrantedByLastReply

(* What a verdict says about the replies: it was the only one unread, and *)
(* none was longer.                                                       *)
LEMMA VerdictAlone ==
  ASSUME TypeOK, BInv, NEW c \in Clients, Read(c),
         Fill(c) <= 25,
         replies[offset[c] + 1].word = "authentication_successful"
  PROVE  /\ offset[c] + 1 = Len(replies)
         /\ replies[Len(replies)] = [word |-> "authentication_successful", arg |-> FALSE]
<1> DEFINE first == offset[c] + 1
<1>1. first \in Unread(c) /\ first \in 1..Len(replies) /\ replies[first] \in Reply
  BY TypedReplies DEF Read, Unread
<1>2. size - pos[c] <= 25 /\ size - pos[c] \in Nat
  BY TypedReplies DEF Fill
<1>3. Size(replies[first]) >= 25 /\ Size(replies[first]) \in Nat
  BY <1>1, SizeBounds
<1>4. Size(replies[first]) <= size - pos[c]
  BY <1>1 DEF BInv, UnreadFits
<1>5. Size(replies[first]) <= 25
  BY <1>2, <1>3, <1>4
<1>6. replies[first] = [word |-> "authentication_successful", arg |-> FALSE]
  BY <1>1, <1>5, SizeBounds
<1>7. first = Len(replies)
  <2>1. SUFFICES ASSUME first # Len(replies) PROVE FALSE
    OBVIOUS
  <2>2. Len(replies) \in Unread(c) /\ Len(replies) \in 1..Len(replies)
    BY <1>1, TypedReplies DEF Unread
  <2>3. Size(replies[first]) + Size(replies[Len(replies)]) <= size - pos[c]
    BY <1>1, <2>1, <2>2 DEF BInv, UnreadPairFits
  <2>4. Size(replies[Len(replies)]) \in Nat /\ Size(replies[Len(replies)]) > 0
    BY <2>2, TypedReplies
  <2>5. QED
    BY <1>2, <1>3, <2>3, <2>4
<1>8. QED
  BY <1>6, <1>7

LEMMA GrantStep == ASSUME TypeOK, BInv, GInv, [Next]_vars PROVE GInv'
<1>t. TypeOK' /\ BInv'
  BY TypeStep, BytesStep
<1>v. NoResultYet'
  BY NoResultStep DEF GInv
<1>a. /\ pc \in [Clients -> {"send", "read", "done"}] /\ result \in [Clients -> Results]
      /\ offset \in [Clients -> 0..Len(replies)]
  BY DEF TypeOK
<1>1. ASSUME NEW c \in Clients, Read(c) PROVE GInv'
  <2> DEFINE word == replies[offset[c] + 1].word
  <2>1. /\ UNCHANGED <<replies, size>> /\ pc[c] = "read"
        /\ offset' = [offset EXCEPT ![c] = Len(replies)]
        /\ offset[c] + 1 \in 1..Len(replies)
    BY <1>1, TypedReplies DEF Read
  <2>2. result[c] = "none"
    BY <2>1 DEF GInv, NoResultYet
  <2>3. \A d \in Clients : d # c => result'[d] = result[d] /\ offset'[d] = offset[d]
    BY <1>1, <1>a DEF Read, RegisterVerdict, LoginVerdict, Return, Continue
  <2>4. \/ result'[c] # "AUTH_SUCCESS"
        \/ Bare(word, Fill(c)) /\ word = "authentication_successful"
    BY <1>1, <1>a, <2>2 DEF Read, RegisterVerdict, LoginVerdict, Return, Continue
  <2>5. offset'[c] = Len(replies) /\ filled'[c] = Fill(c) /\ Fill(c) \in Nat
    BY <1>1, <1>a, FillIsNat DEF Read, TypeOK
  <2>6. \A k \in 1..Len(replies) : Size(replies[k]) <= Fill(c)
    BY <1>t, <2>1, <2>5 DEF BInv, ReadFilled
  <2>7. CASE Bare(word, Fill(c)) /\ word = "authentication_successful"
    <3>1. Fill(c) = 25
      BY <2>7 DEF Bare, Length
    <3>2. replies[Len(replies)] = [word |-> "authentication_successful", arg |-> FALSE]
      BY <1>1, <2>7, <3>1, VerdictAlone
    <3>3. GrantedByLastReply'
      BY <2>1, <2>3, <2>5, <2>6, <3>1, <3>2 DEF GInv, GrantedByLastReply
    <3>4. GrantedHasRead'
      BY <2>1, <2>3, <2>5 DEF GInv, GrantedHasRead
    <3>5. QED
      BY <1>v, <3>3, <3>4 DEF GInv
  <2>8. CASE result'[c] # "AUTH_SUCCESS"
    BY <1>v, <2>1, <2>3, <2>8 DEF GInv, GrantedHasRead, GrantedByLastReply
  <2>9. QED
    BY <2>4, <2>7, <2>8
<1>2. CASE Answer
  <2>1. PICK m \in Reply : replies' = Append(replies, m)
    BY <1>2 DEF Answer
  <2>2. \A k \in 1..Len(replies) : replies'[k] = replies[k]
    BY <2>1, TypedReplies
  <2>3. UNCHANGED <<offset, result>>
    BY <1>2 DEF Answer
  <2>4. ASSUME NEW c \in Clients, result'[c] = "AUTH_SUCCESS"
        PROVE  /\ replies'[offset'[c]] = [word |-> "authentication_successful", arg |-> FALSE]
               /\ \A k \in 1..offset'[c] : Size(replies'[k]) <= 25
    <3>1. offset[c] # 0
      BY <2>3, <2>4, <1>a DEF GInv, GrantedHasRead
    <3>2. QED
      BY <2>2, <2>3, <2>4, <3>1, TypedReplies, SMTT(30) DEF GInv, GrantedByLastReply
  <2>5. QED
    BY <1>v, <2>3, <2>4 DEF GInv, GrantedHasRead, GrantedByLastReply
<1>3. ASSUME UNCHANGED <<replies, offset>>,
             \A c \in Clients : result'[c] \in {result[c], "AUTH_ERROR"}
      PROVE  GInv'
  BY <1>3, <1>v DEF GInv, GrantedHasRead, GrantedByLastReply
<1>4. ASSUME NEW c \in Clients, Send(c) \/ SendFails(c) \/ ReadFails(c) PROVE GInv'
  BY <1>3, <1>4, <1>a DEF Send, SendFails, ReadFails, Return
<1>5. CASE UNCHANGED vars
  BY <1>3, <1>5 DEF vars
<1>6. QED
  BY <1>1, <1>2, <1>4, <1>5 DEF Next

LEMMA GrantInit == Init => TypeOK /\ BInv /\ GInv
<1> SUFFICES ASSUME Init PROVE TypeOK /\ BInv /\ GInv
  OBVIOUS
<1>1. TypeOK
  BY AuthAssumption DEF Init, TypeOK, Results
<1>2. BInv
  BY DEF Init, BInv, ReadFilled, UnreadFits, UnreadPairFits, Unread
<1>3. GInv
  BY DEF Init, GInv, NoResultYet, GrantedHasRead, GrantedByLastReply
<1>4. QED
  BY <1>1, <1>2, <1>3

(* A login that is granted was granted by the last reply of all, read alone *)
(* and bare, and no reply before it, to whomever, was longer.               *)
THEOREM GrantsCorrect == Spec => []GrantedByLastReply
<1>1. TypeOK /\ BInv /\ GInv /\ [Next]_vars => TypeOK' /\ BInv' /\ GInv'
  BY TypeStep, BytesStep, GrantStep
<1>2. GInv => GrantedByLastReply
  BY DEF GInv
<1>3. QED
  BY <1>1, <1>2, GrantInit, PTL DEF Spec

=============================================================================
