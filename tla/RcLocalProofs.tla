--------------------------- MODULE RcLocalProofs ----------------------------
(***************************************************************************)
(* Proofs about RcLocal for any number of calls of startup() and any file: *)
(* what cannot be lost, and when a success is a success.                   *)
(***************************************************************************)
EXTENDS RcLocal, TLAPS

(* The new file exists from open() to rename(). *)
Busy(c) == at[c] \in {"scan", "remove", "wait", "rename"}

(* No line is ever written. *)
OnlyEmptied == newrc \in {Missing, {}} /\ rc \in {Lines, Missing, {}}

(* An rm belongs to a call that waits for it or has died. *)
RmHasCall == \A c \in removing : at[c] \in {"wait", "dead"}

(* As long as no two calls overlap there is one, and the new file is there *)
(* while it, or the rm it has left behind, works on the directory.         *)
OneCall ==
  ~overlap =>
    /\ \A c, d \in Calls :
         (Running(c) \/ c \in removing) /\ (Running(d) \/ d \in removing) => c = d
    /\ \A c \in Calls : Busy(c) \/ c \in removing => newrc # Missing

(* Whoever takes the new file away has put it in the place of the old one, *)
(* for all calls that are still to rename it; and so has a call whose own  *)
(* rm worked, or that is through with one of its operations in order.      *)
Replaced ==
  \A c \in Calls :
    \/ at[c] = "success" /\ failed[c] # Unchecked
    \/ at[c] = "rename" /\ "rm" \notin failed[c]
    \/ Busy(c) /\ newrc = Missing
    => rc # Lines

IInv == TypeOK /\ OnlyEmptied /\ RmHasCall /\ OneCall /\ Replaced /\ OneFileStays

LEMMA FilesDiffer == Missing # {} /\ Lines # {} /\ Missing # Lines /\ StartLine \notin Missing
  BY LinesAssumption DEF Missing

LEMMA InitHolds == Init => IInv
<1> SUFFICES ASSUME Init PROVE IInv
  OBVIOUS
<1> USE FilesDiffer DEF Init
<1>1. TypeOK
  BY DEF TypeOK
<1>2. OnlyEmptied /\ RmHasCall /\ OneFileStays
  BY DEF OnlyEmptied, RmHasCall, OneFileStays
<1>3. OneCall /\ Replaced
  BY DEF OneCall, Replaced, Running, InFlight, Busy
<1>4. QED
  BY <1>1, <1>2, <1>3 DEF IInv

LEMMA TypeStep == TypeOK /\ [Next]_vars => TypeOK'
<1> SUFFICES ASSUME TypeOK, [Next]_vars PROVE TypeOK'
  OBVIOUS
<1> USE DEF TypeOK, InFlight, Answers, Unchecked, GoTo, Fails
<1>1. ASSUME NEW c \in Calls, Disable(c) PROVE TypeOK'
  BY <1>1 DEF Disable
<1>2. ASSUME NEW c \in Calls, OpenRc(c) \/ OpenNew(c) \/ DisableFails(c) PROVE TypeOK'
  BY <1>2 DEF OpenRc, OpenNew, DisableFails
<1>3. ASSUME NEW c \in Calls, Scan(c) PROVE TypeOK'
  BY <1>3 DEF Scan, Copied
<1>4. ASSUME NEW c \in Calls, Remove(c) PROVE TypeOK'
  BY <1>4 DEF Remove
<1>5. ASSUME NEW c \in Calls, RmEnds(c) PROVE TypeOK'
  BY <1>5 DEF RmEnds
<1>6. ASSUME NEW c \in Calls, Rename(c) PROVE TypeOK'
  BY <1>6 DEF Rename
<1>7. ASSUME NEW c \in Calls, Killed(c) PROVE TypeOK'
  BY <1>7 DEF Killed
<1>8. CASE PowerFails
  BY <1>8 DEF PowerFails
<1>9. CASE UNCHANGED vars
  BY <1>9 DEF vars
<1>10. QED
  BY <1>1, <1>2, <1>3, <1>4, <1>5, <1>6, <1>7, <1>8, <1>9 DEF Next, Step

LEMMA InvStep == IInv /\ [Next]_vars => IInv'
<1> SUFFICES ASSUME IInv, [Next]_vars PROVE IInv'
  OBVIOUS
<1> USE FilesDiffer DEF IInv, OnlyEmptied, RmHasCall, OneCall, Replaced, OneFileStays,
                        Running, InFlight, Busy, Unchecked, GoTo, Fails
<1>t. TypeOK'
  BY TypeStep
<1>a. /\ at \in [Calls -> InFlight \cup Answers \cup {"idle", "dead"}]
      /\ removing \subseteq Calls /\ failed \in [Calls -> SUBSET Unchecked]
  BY DEF TypeOK
<1>1. ASSUME NEW c \in Calls, Disable(c) PROVE IInv'
  BY <1>1, <1>t, <1>a DEF Disable
<1>2. ASSUME NEW c \in Calls, OpenRc(c) PROVE IInv'
  BY <1>2, <1>t, <1>a DEF OpenRc
<1>3. ASSUME NEW c \in Calls, OpenNew(c) PROVE IInv'
  BY <1>3, <1>t, <1>a DEF OpenNew
<1>4. ASSUME NEW c \in Calls, DisableFails(c) PROVE IInv'
  BY <1>4, <1>t, <1>a DEF DisableFails
<1>5. ASSUME NEW c \in Calls, Scan(c) PROVE IInv'
  BY <1>5, <1>t, <1>a DEF Scan, Copied
<1>6. ASSUME NEW c \in Calls, Remove(c) PROVE IInv'
  BY <1>6, <1>t, <1>a DEF Remove
<1>7. ASSUME NEW c \in Calls, RmEnds(c) PROVE IInv'
  BY <1>7, <1>t, <1>a DEF RmEnds
<1>8. ASSUME NEW c \in Calls, Rename(c) PROVE IInv'
  BY <1>8, <1>t, <1>a DEF Rename
<1>9. ASSUME NEW c \in Calls, Killed(c) PROVE IInv'
  BY <1>9, <1>t, <1>a DEF Killed
<1>10. CASE PowerFails
  BY <1>10, <1>t, <1>a DEF PowerFails
<1>11. CASE UNCHANGED vars
  BY <1>11, <1>t DEF vars
<1>12. QED
  BY <1>1, <1>2, <1>3, <1>4, <1>5, <1>6, <1>7, <1>8, <1>9, <1>10, <1>11 DEF Next, Step

(* One of the two files is there at every moment unless two calls ran at the *)
(* same time: for any number of calls, deaths and unnoticed failures.        *)
THEOREM FileIsKept == Spec => []OneFileStays
<1>1. IInv => OneFileStays
  BY DEF IInv
<1>2. QED
  BY <1>1, InitHolds, InvStep, PTL DEF Spec

(* After a success of a call one of whose operations worked the start command *)
(* is out of rc.local, with any other calls around it, killed or not.         *)
THEOREM SuccessIsTrue == Spec => []TakenOut
<1>1. IInv => TakenOut
  BY FilesDiffer DEF IInv, OnlyEmptied, Replaced, TakenOut
<1>2. QED
  BY <1>1, InitHolds, InvStep, PTL DEF Spec
=============================================================================
