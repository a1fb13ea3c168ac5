------------------------ MODULE ServerStartupProofs -------------------------
(***************************************************************************)
(* Proofs about ServerStartup for any set of instances, when mknod() fails *)
(* only with EEXIST (NoFaults): the check is passed once per boot, no two  *)
(* instances serve, the files of a running server are not truncated,       *)
(* and the start-up refines the once-per-boot lock of SingleServer.        *)
(*                                                                         *)
(* The argument: FIFOAUTHRT exists exactly when the check has been passed  *)
(* since the boot, because no failure branch unlinks it (FailureKeepsRT).  *)
(***************************************************************************)
EXTENDS ServerStartup, TLAPS

NoFaults == MknodFaults = FALSE

(* The failure branches stay clear of FIFOAUTHRT, the fourth path. *)
FailureKeepsRT ==
  \A i \in Instances :
    /\ phase[i] \in {"probe", "open"} => idx[i] <= 4
    /\ phase[i] = "unlink" => idx[i] <= stop[i]

TInv == TypeOK /\ FailureKeepsRT

(* FIFOAUTHRT is the trace of the one claim of this boot. *)
ClaimLeavesRT ==
  /\ claims \in {0, 1}
  /\ "FIFOAUTHRT" \in nodes <=> claims = 1

ServingClaimed == \A i \in Instances : Serving(i) => claims = 1

(* The agents are born after the logs are open. *)
AgentsLast ==
  \A i \in Instances :
    phase[i] \in {"probe", "open", "unlink", "mkdir", "log", "kill", "fork1"} => agents[i] = {}

IInv ==
  /\ TInv
  /\ ClaimLeavesRT
  /\ ServingClaimed
  /\ AtMostOneServing
  /\ AgentsLast

-----------------------------------------------------------------------------
(* TypeOK needs the bounds of idx in each loop to be inductive. *)
LEMMA TypeStep == TInv /\ [Next]_vars => TInv'
<1> SUFFICES ASSUME TInv, [Next]_vars PROVE TInv'
  OBVIOUS
<1> USE DEF TInv, TypeOK, FailureKeepsRT, Phases, Channels, Agents, ClaimCap, GoTo, Leave
<1>1. ASSUME NEW i \in Instances, Launch(i) PROVE TInv'
  BY <1>1 DEF Launch
<1>2. ASSUME NEW i \in Instances, ProbeCreates(i) PROVE TInv'
  <2>1. phase[i] = "probe" /\ idx[i] \in 1..4
    BY <1>2 DEF ProbeCreates
  <2>2. ProbeOrder[idx[i]] \in Channels
    BY <2>1 DEF ProbeOrder
  <2>3. nodes' \in SUBSET Channels
    BY <1>2, <2>2 DEF ProbeCreates
  <2>4. QED
    BY <1>2, <2>1, <2>3 DEF ProbeCreates, NextProbe
<1>3. ASSUME NEW i \in Instances, ProbeRefused(i) PROVE TInv'
  BY <1>3 DEF ProbeRefused, NextProbe, ProbeOrder
<1>4. ASSUME NEW i \in Instances, ProbeFault(i) PROVE TInv'
  BY <1>4 DEF ProbeFault, NextProbe, ProbeOrder
<1>5. ASSUME NEW i \in Instances, OpenChannel(i) PROVE TInv'
  BY <1>5 DEF OpenChannel, OpenOrder
<1>6. ASSUME NEW i \in Instances, OpenFails(i) PROVE TInv'
  BY <1>6 DEF OpenFails
<1>7. ASSUME NEW i \in Instances, Unlink(i) PROVE TInv'
  <2>1. nodes' \in SUBSET Channels
    BY <1>7 DEF Unlink
  <2>2. idx[i] \in 1..3 /\ stop[i] \in 1..3 /\ phase[i] = "unlink"
    BY <1>7 DEF Unlink
  <2>3. \/ idx[i] < stop[i] /\ phase' = phase /\ idx' = [idx EXCEPT ![i] = idx[i] + 1]
        \/ Leave(i)
    BY <1>7, <2>2 DEF Unlink
  <2>4. UNCHANGED <<records, stop, refused, agents, launcher, claims>>
    BY <1>7 DEF Unlink
  <2>5. QED
    BY <2>1, <2>2, <2>3, <2>4
<1>8. ASSUME NEW i \in Instances, MakeLogDirs(i) PROVE TInv'
  BY <1>8 DEF MakeLogDirs
<1>9. ASSUME NEW i \in Instances, OpenLog(i) PROVE TInv'
  <2>1. LogOrder[idx[i]] \in LogFiles
    BY DEF LogOrder, LogFiles
  <2>2. records' \in [Instances -> SUBSET LogFiles]
    BY <1>9, <2>1 DEF OpenLog
  <2>3. phase' \in [Instances -> Phases] /\ idx' \in [Instances -> 1..5] /\ FailureKeepsRT'
    BY <1>9 DEF OpenLog
  <2>4. QED
    BY <1>9, <2>2, <2>3 DEF OpenLog
<1>10. ASSUME NEW i \in Instances, OpenLogFails(i) PROVE TInv'
  BY <1>10 DEF OpenLogFails
<1>11. ASSUME NEW i \in Instances, KillLauncher(i) PROVE TInv'
  BY <1>11 DEF KillLauncher
<1>12. ASSUME NEW i \in Instances, ForkResponseTeam(i) PROVE TInv'
  BY <1>12 DEF ForkResponseTeam
<1>13. ASSUME NEW i \in Instances, ForkAuthAgent(i) PROVE TInv'
  BY <1>13 DEF ForkAuthAgent
<1>14. ASSUME NEW i \in Instances, LauncherReturns(i) PROVE TInv'
  BY <1>14 DEF LauncherReturns
<1>15. ASSUME NEW i \in Instances, ChildKilled(i) PROVE TInv'
  BY <1>15 DEF ChildKilled, Booting
<1>16. ASSUME NEW i \in Instances, AgentKilled(i) PROVE TInv'
  BY <1>16 DEF AgentKilled
<1>17. CASE UserKilled \/ UserQuit
  <2>1. PICK D \in SUBSET Instances : AllDie(D) /\ UNCHANGED <<nodes, claims>>
    BY <1>17, SMTT(30) DEF UserKilled, UserQuit
  <2>2. TypeOK'
    BY <2>1 DEF AllDie
  <2>3. FailureKeepsRT'
    BY <2>1 DEF AllDie
  <2>4. QED
    BY <2>2, <2>3
<1>18. CASE Reboot
  BY <1>18 DEF Reboot, AllDie
<1>19. CASE UNCHANGED vars
  BY <1>19 DEF vars
<1>20. QED
  BY <1>1, <1>2, <1>3, <1>4, <1>5, <1>6, <1>7, <1>8, <1>9, <1>10, <1>11, <1>12,
     <1>13, <1>14, <1>15, <1>16, <1>17, <1>18, <1>19 DEF Next, Step

(* Every variable keeps its type, whichever failures mknod() may have. *)
THEOREM TypeCorrect == Spec => []TypeOK
<1>1. Init => TInv
  BY DEF Init, TInv, TypeOK, FailureKeepsRT, Phases, LogFiles, Channels, Agents, ClaimCap
<1>2. TInv => TypeOK
  BY DEF TInv
<1>3. QED
  BY <1>1, <1>2, TypeStep, PTL DEF Spec

-----------------------------------------------------------------------------
LInv == ClaimLeavesRT /\ ServingClaimed /\ AtMostOneServing /\ AgentsLast

(* Each of the four paths ends the check of an instance at most once per boot. *)
LEMMA LockStep ==
  ASSUME NoFaults, IInv, [Next]_vars
  PROVE  LInv'
<1> USE DEF IInv, TInv, TypeOK, FailureKeepsRT, LInv, ClaimLeavesRT, ServingClaimed,
        AtMostOneServing, AgentsLast, Serving, GoTo, Leave
<1>1. ASSUME NEW i \in Instances, Launch(i) PROVE LInv'
  BY <1>1 DEF Launch, Alive, Booting
<1>2. ASSUME NEW i \in Instances, ProbeCreates(i) PROVE LInv'
  <2>1. phase[i] = "probe" /\ idx[i] \in 1..4 /\ agents[i] = {}
    BY <1>2 DEF ProbeCreates
  <2>2. CASE idx[i] < 4
    <3>1. ProbeOrder[idx[i]] # "FIFOAUTHRT"
      BY <2>1, <2>2 DEF ProbeOrder
    <3>2. QED
      BY <1>2, <2>1, <2>2, <3>1 DEF ProbeCreates, NextProbe
  <2>3. CASE idx[i] = 4
    <3>1. ProbeOrder[idx[i]] = "FIFOAUTHRT"
      BY <2>3 DEF ProbeOrder
    <3>2. claims = 0 /\ \A j \in Instances : ~Serving(j)
      BY <1>2, <3>1 DEF ProbeCreates
    <3>3. QED
      BY <1>2, <2>1, <2>3, <3>1, <3>2 DEF ProbeCreates, NextProbe, ClaimCap
  <2>4. QED
    BY <2>1, <2>2, <2>3
<1>3. ASSUME NEW i \in Instances, ProbeRefused(i) PROVE LInv'
  BY <1>3 DEF ProbeRefused
<1>4. ASSUME NEW i \in Instances, ProbeFault(i) PROVE LInv'
  BY <1>4 DEF ProbeFault, NoFaults
<1>5. ASSUME NEW i \in Instances, OpenChannel(i) PROVE LInv'
  BY <1>5 DEF OpenChannel
<1>6. ASSUME NEW i \in Instances, OpenFails(i) PROVE LInv'
  BY <1>6 DEF OpenFails
<1>7. ASSUME NEW i \in Instances, Unlink(i) PROVE LInv'
  <2>1. idx[i] \in 1..3
    BY <1>7 DEF Unlink
  <2>2. OpenOrder[idx[i]] # "FIFOAUTHRT"
    BY <2>1 DEF OpenOrder
  <2>3. QED
    BY <1>7, <2>2 DEF Unlink
<1>8. ASSUME NEW i \in Instances, MakeLogDirs(i) PROVE LInv'
  BY <1>8 DEF MakeLogDirs
<1>9. ASSUME NEW i \in Instances, OpenLog(i) PROVE LInv'
  BY <1>9 DEF OpenLog
<1>10. ASSUME NEW i \in Instances, OpenLogFails(i) PROVE LInv'
  BY <1>10 DEF OpenLogFails
<1>11. ASSUME NEW i \in Instances, KillLauncher(i) PROVE LInv'
  BY <1>11 DEF KillLauncher
<1>12. ASSUME NEW i \in Instances, ForkResponseTeam(i) PROVE LInv'
  BY <1>12 DEF ForkResponseTeam
<1>13. ASSUME NEW i \in Instances, ForkAuthAgent(i) PROVE LInv'
  BY <1>13 DEF ForkAuthAgent
<1>14. ASSUME NEW i \in Instances, LauncherReturns(i) PROVE LInv'
  BY <1>14 DEF LauncherReturns
<1>15. ASSUME NEW i \in Instances, ChildKilled(i) PROVE LInv'
  BY <1>15 DEF ChildKilled, Booting
<1>16. ASSUME NEW i \in Instances, AgentKilled(i) PROVE LInv'
  BY <1>16 DEF AgentKilled
<1>17. CASE UserKilled \/ UserQuit
  BY <1>17 DEF UserKilled, UserQuit, AllDie
<1>18. CASE Reboot
  BY <1>18 DEF Reboot, AllDie
<1>19. CASE UNCHANGED vars
  BY <1>19 DEF vars
<1>20. QED
  BY <1>1, <1>2, <1>3, <1>4, <1>5, <1>6, <1>7, <1>8, <1>9, <1>10, <1>11, <1>12,
     <1>13, <1>14, <1>15, <1>16, <1>17, <1>18, <1>19 DEF Next, Step

LEMMA InvariantHolds == NoFaults => (Spec => []IInv)
<1> SUFFICES ASSUME NoFaults PROVE Spec => []IInv
  OBVIOUS
<1>1. Init => IInv
  BY DEF Init, IInv, TInv, TypeOK, FailureKeepsRT, ClaimLeavesRT, ServingClaimed, Serving,
         AtMostOneServing, AgentsLast, Phases, LogFiles, Channels, Agents, ClaimCap
<1>2. IInv /\ [Next]_vars => IInv'
  BY TypeStep, LockStep DEF IInv, LInv
<1>3. QED
  BY <1>1, <1>2, PTL DEF Spec

(* The check of server.c is passed at most once between two boots, for any *)
(* number of instances, as long as mknod() fails only with EEXIST.         *)
THEOREM ClaimedOnce == NoFaults => (Spec => []OneClaimPerBoot)
<1>1. IInv => OneClaimPerBoot
  BY DEF IInv, ClaimLeavesRT, OneClaimPerBoot
<1>2. QED
  BY <1>1, InvariantHolds, PTL

(* No two instances are past the check at the same time. *)
THEOREM OneServes == NoFaults => (Spec => []AtMostOneServing)
<1>1. IInv => AtMostOneServing
  BY DEF IInv
<1>2. QED
  BY <1>1, InvariantHolds, PTL

(* The files a server has opened are truncated by no other start while one *)
(* of its processes is up: only an instance past the check opens files, and *)
(* no second one is past it.                                               *)
THEOREM RecordsSafe == NoFaults => (Spec => NoTruncationWhileServing)
<1>1. ASSUME IInv, Next, NEW i \in Instances, Serving(i)
      PROVE  records[i] \subseteq records'[i]
  <2>1. CASE \E j \in Instances : OpenLog(j)
    <3>1. PICK j \in Instances : OpenLog(j)
      BY <2>1
    <3>2. i = j
      BY <1>1, <3>1 DEF OpenLog, Serving, IInv, AtMostOneServing
    <3>3. QED
      BY <3>1, <3>2 DEF OpenLog
  <2>2. CASE \E j \in Instances : Launch(j)
    <3>1. PICK j \in Instances : Launch(j)
      BY <2>2
    <3>2. i # j
      BY <1>1, <3>1 DEF Launch, Alive, Booting, Serving
    <3>3. QED
      BY <1>1, <3>1, <3>2 DEF Launch, IInv, TInv, TypeOK
  <2>3. CASE ~(\E j \in Instances : OpenLog(j) \/ Launch(j))
    <3>1. UNCHANGED records
      BY <1>1, <2>3 DEF Next, Step, ProbeCreates, ProbeRefused, ProbeFault, OpenChannel, OpenFails,
         Unlink, MakeLogDirs, OpenLogFails, KillLauncher, ForkResponseTeam, ForkAuthAgent,
         LauncherReturns, ChildKilled, AgentKilled, UserKilled, UserQuit, Reboot, AllDie
    <3>2. QED
      BY <3>1
  <2>4. QED
    BY <2>1, <2>2, <2>3
<1>2. IInv /\ [Next]_vars => [\A i \in Instances : Serving(i) => records[i] \subseteq records'[i]]_vars
  BY <1>1
<1>3. QED
  BY <1>2, InvariantHolds, PTL DEF Spec, NoTruncationWhileServing

-----------------------------------------------------------------------------
Servers == {i \in Instances : Serving(i)}

(* What a step does to the set of serving instances and to the claim of this boot. *)
LEMMA LockStepMaps ==
  ASSUME NoFaults, IInv, [Next]_vars
  PROVE  [Lock!Next]_(Lock!vars)
<1> DEFINE Goal == [Lock!Next]_(Lock!vars)
<1> USE DEF IInv, TInv, TypeOK, Servers, Serving, GoTo, Leave
<1>a. ASSUME UNCHANGED claims, Servers' = Servers PROVE Goal
  BY <1>a DEF Lock!vars
<1>b. ASSUME NEW i \in Servers, UNCHANGED claims, Servers' = Servers \ {i} PROVE Goal
  BY <1>b DEF Lock!Next, Lock!Die
<1>1. ASSUME NEW i \in Instances, Launch(i) PROVE Goal
  <2>1. UNCHANGED claims /\ Servers' = Servers
    BY <1>1 DEF Launch, Alive, Booting
  <2>2. QED
    BY <2>1, <1>a
<1>2. ASSUME NEW i \in Instances, ProbeCreates(i) PROVE Goal
  <2>1. phase[i] = "probe" /\ idx[i] \in 1..4 /\ agents[i] = {}
    BY <1>2 DEF ProbeCreates, FailureKeepsRT, AgentsLast
  <2>2. CASE idx[i] < 4
    BY <1>2, <2>1, <2>2, <1>a DEF ProbeCreates, NextProbe
  <2>3. CASE idx[i] = 4
    <3>1. claims = 0 /\ Servers = {}
      BY <1>2, <2>3 DEF ProbeCreates, ProbeOrder, ClaimLeavesRT, ServingClaimed
    <3>2. claims' = 1 /\ Servers' = {i}
      BY <1>2, <2>1, <2>3, <3>1 DEF ProbeCreates, NextProbe, ClaimCap
    <3>3. QED
      BY <3>1, <3>2, SMTT(30) DEF Lock!Next, Lock!Acquire
  <2>4. QED
    BY <2>1, <2>2, <2>3
<1>3. ASSUME NEW i \in Instances, ProbeRefused(i) PROVE Goal
  <2>1. UNCHANGED claims /\ Servers' = Servers
    BY <1>3 DEF ProbeRefused
  <2>2. QED
    BY <2>1, <1>a
<1>4. ASSUME NEW i \in Instances, ProbeFault(i) PROVE Goal
  BY <1>4 DEF ProbeFault, NoFaults
<1>5. ASSUME NEW i \in Instances, OpenChannel(i) PROVE Goal
  <2>1. UNCHANGED claims /\ Servers' = Servers
    BY <1>5 DEF OpenChannel
  <2>2. QED
    BY <2>1, <1>a
<1>6. ASSUME NEW i \in Instances, OpenFails(i) PROVE Goal
  <2>1. UNCHANGED claims /\ (Servers' = Servers \/ (i \in Servers /\ Servers' = Servers \ {i}))
    BY <1>6 DEF OpenFails, AgentsLast
  <2>2. QED
    BY <2>1, <1>a, <1>b
<1>7. ASSUME NEW i \in Instances, Unlink(i) PROVE Goal
  <2>1. UNCHANGED claims /\ (Servers' = Servers \/ (i \in Servers /\ Servers' = Servers \ {i}))
    BY <1>7 DEF Unlink, AgentsLast
  <2>2. QED
    BY <2>1, <1>a, <1>b
<1>8. ASSUME NEW i \in Instances, MakeLogDirs(i) PROVE Goal
  <2>1. UNCHANGED claims /\ Servers' = Servers
    BY <1>8 DEF MakeLogDirs
  <2>2. QED
    BY <2>1, <1>a
<1>9. ASSUME NEW i \in Instances, OpenLog(i) PROVE Goal
  <2>1. UNCHANGED claims /\ Servers' = Servers
    BY <1>9 DEF OpenLog
  <2>2. QED
    BY <2>1, <1>a
<1>10. ASSUME NEW i \in Instances, OpenLogFails(i) PROVE Goal
  <2>1. UNCHANGED claims /\ (Servers' = Servers \/ (i \in Servers /\ Servers' = Servers \ {i}))
    BY <1>10 DEF OpenLogFails, AgentsLast
  <2>2. QED
    BY <2>1, <1>a, <1>b
<1>11. ASSUME NEW i \in Instances, KillLauncher(i) PROVE Goal
  <2>1. UNCHANGED claims /\ Servers' = Servers
    BY <1>11 DEF KillLauncher
  <2>2. QED
    BY <2>1, <1>a
<1>12. ASSUME NEW i \in Instances, ForkResponseTeam(i) PROVE Goal
  <2>1. UNCHANGED claims /\ Servers' = Servers
    BY <1>12 DEF ForkResponseTeam, AgentsLast
  <2>2. QED
    BY <2>1, <1>a
<1>13. ASSUME NEW i \in Instances, ForkAuthAgent(i) PROVE Goal
  <2>1. UNCHANGED claims /\ Servers' = Servers
    BY <1>13 DEF ForkAuthAgent, AgentsLast
  <2>2. QED
    BY <2>1, <1>a
<1>14. ASSUME NEW i \in Instances, LauncherReturns(i) PROVE Goal
  <2>1. UNCHANGED claims /\ Servers' = Servers
    BY <1>14 DEF LauncherReturns
  <2>2. QED
    BY <2>1, <1>a
<1>15. ASSUME NEW i \in Instances, ChildKilled(i) PROVE Goal
  <2>1. UNCHANGED claims /\ (Servers' = Servers \/ (i \in Servers /\ Servers' = Servers \ {i}))
    BY <1>15 DEF ChildKilled, Booting, AgentsLast
  <2>2. QED
    BY <2>1, <1>a, <1>b
<1>16. ASSUME NEW i \in Instances, AgentKilled(i) PROVE Goal
  <2>1. UNCHANGED claims /\ (Servers' = Servers \/ (i \in Servers /\ Servers' = Servers \ {i}))
    BY <1>16 DEF AgentKilled, AgentsLast
  <2>2. QED
    BY <2>1, <1>a, <1>b
<1>17. CASE UserKilled
  <2>1. UNCHANGED claims /\ Servers' = {}
    BY <1>17 DEF UserKilled, AllDie
  <2>2. QED
    BY <2>1 DEF Lock!Next, Lock!KillAll
<1>q. CASE UserQuit
  <2>1. UNCHANGED claims /\ Servers' = Servers \ (Instances \ Background)
    BY <1>q DEF UserQuit, AllDie
  <2>2. \A i, j \in Servers : i = j
    BY DEF AtMostOneServing
  <2>3. Servers' = Servers \/ \E i \in Servers : Servers' = Servers \ {i}
    BY <2>1, <2>2
  <2>4. QED
    BY <2>1, <2>3, <1>a, <1>b
<1>18. CASE Reboot
  <2>1. claims' = 0 /\ Servers' = {}
    BY <1>18 DEF Reboot, AllDie
  <2>2. QED
    BY <2>1 DEF Lock!Next, Lock!Reboot
<1>19. CASE UNCHANGED vars
  BY <1>19, <1>a DEF vars
<1>20. QED
  BY <1>1, <1>2, <1>3, <1>4, <1>5, <1>6, <1>7, <1>8, <1>9, <1>10, <1>11, <1>12,
     <1>13, <1>14, <1>15, <1>16, <1>17, <1>q, <1>18, <1>19 DEF Next, Step

(* The start-up of server.c implements the once-per-boot lock of SingleServer. *)
THEOREM StartupImplementsLock == NoFaults => (Spec => LockSpec)
<1> SUFFICES ASSUME NoFaults PROVE Spec => LockSpec
  OBVIOUS
<1>1. Init => Lock!Init
  BY DEF Init, Lock!Init, Serving
<1>2. IInv /\ [Next]_vars => [Lock!Next]_(Lock!vars)
  BY LockStepMaps
<1>3. QED
  BY <1>1, <1>2, InvariantHolds, PTL DEF Spec, LockSpec, Lock!Spec
=============================================================================
