------------------------------ MODULE AuthClient ----------------------------
(***************************************************************************)
(* getAuthenticated() of ccli.c: a client writes one request and reads     *)
(* replies until one is a verdict about it.  The reply channel             *)
(* is a regular file that every client reads from its own offset, so that  *)
(* each sees every reply, those older than its request included, and gets  *)
(* all that is there in one read().  Whoever writes the replies is outside *)
(* this model; as the one writer of server.c does, it writes no NUL.       *)
(*                                                                         *)
(* The buffer is zeroed once and never again.  A read lays its bytes over  *)
(* the front of the old ones, so the bytes before the first NUL are as     *)
(* many as the longest read brought: that count is "filled".  The strncmp  *)
(* lengths 26 and 14 go one past the words, so a word is recognised when   *)
(* a NUL follows it, that is when nothing longer was ever read.            *)
(***************************************************************************)
EXTENDS Integers, Sequences

CONSTANTS
  Clients,
  Asks,         \* what each client's arguments ask for: "register" or "login"
  Fits,         \* the replies whose text at the compared offset (8, 15)
                \* happens to begin with the client's token or user name
  ArgLength,    \* the length of a reply's argument, its space included
  MaxReplies,   \* bound on the replies written
  IoFaults      \* may read() and write() fail?

Words == {"authentication_successful", "invalid_token", "registration_successful",
          "registration_failed", "[SERVER AUTH AGENT]> Authentication format is invalid.\n"}

Length(word) ==
  CASE word = "authentication_successful" -> 25
    [] word = "invalid_token"             -> 13
    [] word = "registration_successful"   -> 23
    [] word = "registration_failed"       -> 19
    [] OTHER                              -> 55

ASSUME AuthAssumption ==
  /\ Asks \in [Clients -> {"register", "login"}]
  /\ Fits \in [Clients -> SUBSET Words]
  /\ ArgLength \in Nat \ {0}
  /\ MaxReplies \in Nat
  /\ IoFaults \in BOOLEAN

Reply == [word : Words, arg : BOOLEAN]
Size(m) == Length(m.word) + (IF m.arg THEN ArgLength ELSE 0)

Results == {"none", "AUTH_SUCCESS", "AUTH_FAILED", "AUTH_ERROR",
            "REGISTRATION_FAILED", "REGISTRATION_SUCCESS"}

VARIABLES
  replies,    \* the replies in the file, oldest first
  size,       \* the bytes in the file
  pc,         \* "send", "read" or "done"
  stage,      \* the case of the switch the client is in
  offset,     \* the replies it has read
  pos,        \* their bytes: its offset in the file
  filled,     \* the bytes of its buffer before the first NUL
  failed,     \* is its r negative?
  result      \* what getAuthenticated() returned

vars == <<replies, size, pc, stage, offset, pos, filled, failed, result>>

TypeOK ==
  /\ replies \in Seq(Reply)
  /\ size \in Nat
  /\ pc \in [Clients -> {"send", "read", "done"}]
  /\ stage \in [Clients -> {"register", "login"}]
  /\ offset \in [Clients -> 0..Len(replies)]
  /\ pos \in [Clients -> 0..size]
  /\ filled \in [Clients -> Nat]
  /\ failed \in [Clients -> BOOLEAN]
  /\ result \in [Clients -> Results]

Init ==
  /\ replies = <<>>
  /\ size = 0
  /\ pc = [c \in Clients |-> "send"]
  /\ stage = Asks
  /\ offset = [c \in Clients |-> 0]
  /\ pos = [c \in Clients |-> 0]
  /\ filled = [c \in Clients |-> 0]
  /\ failed = [c \in Clients |-> FALSE]
  /\ result = [c \in Clients |-> "none"]

Return(c, r) ==
  /\ pc' = [pc EXCEPT ![c] = "done"]
  /\ result' = [result EXCEPT ![c] = r]

Continue(c) == UNCHANGED <<pc, result>>

(* write(): after it the read loop, which a negative r keeps shut. *)
Send(c) ==
  /\ pc[c] = "send"
  /\ IF failed[c] THEN Return(c, "AUTH_ERROR")
     ELSE pc' = [pc EXCEPT ![c] = "read"] /\ UNCHANGED result
  /\ UNCHANGED <<replies, size, stage, offset, pos, filled, failed>>

SendFails(c) ==
  /\ IoFaults
  /\ pc[c] = "send"
  /\ Return(c, "AUTH_ERROR")
  /\ UNCHANGED <<replies, size, stage, offset, pos, filled, failed>>

(* What a read() makes of the buffer: the longer of old and new bytes. *)
Fill(c) ==
  LET n == size - pos[c]
  IN  IF n > filled[c] THEN n ELSE filled[c]

(* The word at the front of the buffer is followed by a NUL. *)
Bare(word, fill) == fill = Length(word)

(* case USRPWD: a success is copied (buffer+27, behind the NUL) and the loop *)
(* goes on; of a failure only the first 14 bytes are compared.               *)
RegisterVerdict(c, word, fill) ==
  IF word = "registration_failed" /\ word \in Fits[c]
  THEN Return(c, "REGISTRATION_FAILED")
  ELSE Continue(c)

(* Slip: one byte more of the word is compared. *)
LoginVerdict_OneMore(c, word, fill) ==
  IF /\ Bare(word, fill + 1) /\ word \in Fits[c]
     /\ word \in {"authentication_successful", "invalid_token"}
  THEN Return(c, IF word = "invalid_token" THEN "AUTH_FAILED" ELSE "AUTH_SUCCESS")
  ELSE Continue(c)

(* Slip: the branch of the rejection is pasted with the result of the other. *)
LoginVerdict_Pasted(c, word, fill) ==
  IF Bare(word, fill) /\ word \in Fits[c] /\ word \in {"authentication_successful", "invalid_token"}
  THEN Return(c, "AUTH_SUCCESS")
  ELSE Continue(c)

(* case AUTH_TOKEN: the token is compared with what is at buffer+8. *)
LoginVerdict(c, word, fill) ==
  IF Bare(word, fill) /\ word \in Fits[c] /\ word \in {"authentication_successful", "invalid_token"}
  THEN Return(c, IF word = "invalid_token" THEN "AUTH_FAILED" ELSE "AUTH_SUCCESS")
  ELSE Continue(c)

(* read() brings all unread replies, of which the first is looked at. *)
Read(c) ==
  /\ pc[c] = "read"
  /\ offset[c] < Len(replies)
  /\ LET word == replies[offset[c] + 1].word
     IN  IF stage[c] = "register"
         THEN RegisterVerdict(c, word, Fill(c))
         ELSE LoginVerdict(c, word, Fill(c))
  /\ filled' = [filled EXCEPT ![c] = Fill(c)]
  /\ offset' = [offset EXCEPT ![c] = Len(replies)]
  /\ pos' = [pos EXCEPT ![c] = size]
  /\ UNCHANGED <<replies, size, stage, failed>>

(* Slip: r itself is returned. *)
ReadFails_ReturnsR(c) ==
  /\ IoFaults
  /\ pc[c] = "read"
  /\ Return(c, "r")
  /\ UNCHANGED <<replies, size, stage, offset, pos, filled, failed>>

(* Slip: r starts from zero again for the second request. *)
ReadFails_ResetsR(c) ==
  /\ IoFaults
  /\ pc[c] = "read"
  /\ IF stage[c] = "register"
     THEN /\ stage' = [stage EXCEPT ![c] = "login"]
          /\ pc' = [pc EXCEPT ![c] = "send"]
          /\ UNCHANGED result
     ELSE Return(c, "AUTH_ERROR") /\ UNCHANGED stage
  /\ UNCHANGED <<replies, size, offset, pos, filled, failed>>

(* A negative r ends the loop; the case USRPWD has no break and runs on into *)
(* the other one.                                                            *)
ReadFails(c) ==
  /\ IoFaults
  /\ pc[c] = "read"
  /\ failed' = [failed EXCEPT ![c] = TRUE]
  /\ IF stage[c] = "register"
     THEN /\ stage' = [stage EXCEPT ![c] = "login"]
          /\ pc' = [pc EXCEPT ![c] = "send"]
          /\ UNCHANGED result
     ELSE Return(c, "AUTH_ERROR") /\ UNCHANGED stage
  /\ UNCHANGED <<replies, size, offset, pos, filled>>

(* The server, or another writer of the channel. *)
Answer ==
  /\ Len(replies) < MaxReplies
  /\ \E m \in Reply : replies' = Append(replies, m) /\ size' = size + Size(m)
  /\ UNCHANGED <<pc, stage, offset, pos, filled, failed, result>>

Next ==
  \/ \E c \in Clients : Send(c) \/ SendFails(c) \/ Read(c) \/ ReadFails(c)
  \/ Answer

Spec == Init /\ [][Next]_vars

(* A client is scheduled and its read() sees the bytes that are there. *)
Fairness == \A c \in Clients : WF_vars(Send(c)) /\ WF_vars(Read(c))

FairSpec == Spec /\ Fairness
-----------------------------------------------------------------------------
(***************************************************************************)
(* Properties                                                              *)
(***************************************************************************)

(* A registration is never granted or refused a login.  One whose read()    *)
(* fails runs on into the login request (there is no break between the two  *)
(* cases), with a token nobody gave it, and the replies to others are in    *)
(* the file it would read: only the r that is still negative keeps it from  *)
(* taking one of them for its own.                                          *)
RegisterNeverLogsIn ==
  \A c \in Clients :
    Asks[c] = "register" => result[c] \notin {"AUTH_SUCCESS", "AUTH_FAILED"}

(* A login that is granted was granted by a success that stood alone in the *)
(* buffer: the last reply the client has read is a bare success, and none   *)
(* before it, a rejection, an answer to a registration or one to somebody   *)
(* else's login, was so long that a piece of it would be left behind that.  *)
GrantedByLastReply ==
  \A c \in Clients :
    result[c] = "AUTH_SUCCESS" =>
      /\ replies[offset[c]] = [word |-> "authentication_successful", arg |-> FALSE]
      /\ \A k \in 1..offset[c] : Size(replies[k]) <= 25

(* The file of a client that is still asking holds one reply, a bare word.  *)
OnlyReply(c, request, word) ==
  /\ Asks[c] = request /\ pc[c] # "done" /\ ~failed[c]
  /\ offset[c] = 0
  /\ replies = <<[word |-> word, arg |-> FALSE]>>

(* A client whose file holds just one bare success that fits its token gets *)
(* in: the one case in which the protocol of getAuthenticated() works.      *)
LoneSuccessIsSeen ==
  \A c \in Clients :
    OnlyReply(c, "login", "authentication_successful") /\ "authentication_successful" \in Fits[c]
      ~> result[c] \in {"AUTH_SUCCESS", "AUTH_ERROR"} \/ Len(replies) > 1

(* The help text: "Registers [username] and retrieves auth token for future *)
(* authentications"; and main() prints "Registration successful" and the    *)
(* token when getAuthenticated() returns REGISTRATION_SUCCESS.  So the one  *)
(* reply that says so should be returned.  It is not: after copying what it *)
(* takes for the token getAuthenticated() reads on for ever.                *)
RegistrationIsReported ==
  \A c \in Clients :
    OnlyReply(c, "register", "registration_successful")
      ~> result[c] \in {"REGISTRATION_SUCCESS", "AUTH_ERROR"} \/ Len(replies) > 1
=============================================================================
