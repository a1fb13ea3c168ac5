------------------------ MODULE LoggingSystemProofs -------------------------
(***************************************************************************)
(* Proofs about the composition, for any number of server instances and of *)
(* clients of both programs: a Ccli connects only after a server has       *)
(* passed its check, and the clients leave the servers to themselves but   *)
(* for kill(-1), so that the lock holds among them.                        *)
(***************************************************************************)
EXTENDS LoggingSystem, TLAPS

(* The check of an instance is about one of the four paths, and a failure *)
(* branch unlinks no more than there are.                                 *)
Probing ==
  /\ phase \in [Instances -> Server!Phases]
  /\ idx \in [Instances -> 1..5]
  /\ stop \in [Instances -> 0..4]
  /\ \A i \in Instances : phase[i] = "probe" => idx[i] \in 1..4

(* The fourth path is made by the instance that passes the check with it. *)
ClaimedFirst ==
  /\ claims \in 0..2
  /\ "FIFOAUTHRT" \in nodes => claims >= 1

Placed ==
  /\ parent \in [Consoles -> {"off", "connect", "sleep", "dispatch", "auth", "fork",
                              "wait", "countdown", "exited", "crashed", "killed"}]
  /\ opening \in [Consoles -> 1..4]

IInv == Probing /\ ClaimedFirst /\ Placed /\ CcliConnectsAfterClaim

LEMMA InitHolds == Init => IInv
  BY DEF Init, Server!Init, Client!Init, IInv, Probing, Server!Phases, ClaimedFirst, Placed,
         CcliConnectsAfterClaim, Connected

-----------------------------------------------------------------------------
(* What every step of a server instance keeps. *)
LEMMA ServerKeeps ==
  ASSUME Probing, ClaimedFirst, NEW i \in Instances,
         \/ Server!Launch(i) \/ Server!Step(i) \/ Server!LauncherReturns(i)
         \/ Server!ChildKilled(i) \/ Server!AgentKilled(i)
  PROVE  Probing' /\ ClaimedFirst' /\ claims' >= claims
<1> USE DEF Probing, ClaimedFirst, Server!Phases, Server!GoTo, Server!Leave
<1> DEFINE Goal == Probing' /\ ClaimedFirst' /\ claims' >= claims
<1>1. CASE Server!ProbeCreates(i)
  <2>1. phase[i] = "probe" /\ idx[i] \in 1..4
    BY <1>1 DEF Server!ProbeCreates
  <2>2. Server!ProbeOrder[idx[i]] = "FIFOAUTHRT" => idx[i] = 4
    BY <2>1 DEF Server!ProbeOrder
  <2>3. CASE idx[i] < 4
    BY <1>1, <2>1, <2>2, <2>3 DEF Server!ProbeCreates, Server!NextProbe
  <2>4. CASE idx[i] = 4
    BY <1>1, <2>1, <2>4 DEF Server!ProbeCreates, Server!NextProbe, Server!ClaimCap
  <2>5. QED
    BY <2>1, <2>3, <2>4
<1>2. CASE Server!ProbeFault(i)
  BY <1>2 DEF Server!ProbeFault, Server!NextProbe, Server!ClaimCap
<1>3. CASE Server!ProbeRefused(i) \/ Server!Launch(i)
  BY <1>3 DEF Server!ProbeRefused, Server!Launch
<1>4. CASE Server!OpenChannel(i) \/ Server!OpenFails(i)
  BY <1>4 DEF Server!OpenChannel, Server!OpenFails
<1>5. CASE Server!Unlink(i)
  <2>1. nodes' \subseteq nodes /\ UNCHANGED <<stop, claims>> /\ phase[i] = "unlink"
    BY <1>5 DEF Server!Unlink
  <2>2. CASE idx[i] < stop[i]
    BY <1>5, <2>1, <2>2 DEF Server!Unlink
  <2>3. CASE ~(idx[i] < stop[i])
    BY <1>5, <2>1, <2>3 DEF Server!Unlink
  <2>4. QED
    BY <2>2, <2>3
<1>6. CASE Server!MakeLogDirs(i) \/ Server!OpenLog(i) \/ Server!OpenLogFails(i)
  BY <1>6 DEF Server!MakeLogDirs, Server!OpenLog, Server!OpenLogFails
<1>7. CASE Server!KillLauncher(i) \/ Server!ForkResponseTeam(i) \/ Server!ForkAuthAgent(i)
  BY <1>7 DEF Server!KillLauncher, Server!ForkResponseTeam, Server!ForkAuthAgent
<1>8. CASE Server!LauncherReturns(i) \/ Server!ChildKilled(i) \/ Server!AgentKilled(i)
  BY <1>8 DEF Server!LauncherReturns, Server!ChildKilled, Server!AgentKilled
<1>9. QED
  BY <1>1, <1>2, <1>3, <1>4, <1>5, <1>6, <1>7, <1>8 DEF Server!Step

(* What every step of a client keeps, as long as the paths stay: a Ccli is *)
(* connected once it has opened the fourth one.                            *)
LEMMA ClientKeeps ==
  ASSUME IInv, NEW c \in Consoles, Client!ClientNext(c)
  PROVE  /\ Placed' /\ UNCHANGED nodes
         /\ \A d \in Consoles : Connected(d)' /\ Program[d] = "ccli" => claims >= 1
<1> USE DEF IInv, Placed, CcliConnectsAfterClaim, Connected, Client!At, Client!Go
<1>1. CASE Client!Start(c)
  BY <1>1 DEF Client!Start
<1>2. CASE Client!OpenChannel(c)
  <2>1. /\ UNCHANGED nodes /\ parent[c] = "connect"
        /\ Client!Path[opening[c]] \in nodes
    BY <1>2 DEF Client!OpenChannel
  <2>2. CASE opening[c] < Client!Needed(c)
    BY <1>2, <2>1, <2>2 DEF Client!OpenChannel, Client!Needed
  <2>3. CASE ~(opening[c] < Client!Needed(c))
    <3>1. Program[c] = "ccli" => Client!Path[opening[c]] = "FIFOAUTHRT"
      BY <2>3 DEF Client!Needed, Client!Path
    <3>2. Program[c] = "ccli" => claims >= 1
      BY <2>1, <3>1 DEF ClaimedFirst
    <3>3. QED
      BY <1>2, <2>1, <2>3, <3>2 DEF Client!OpenChannel
  <2>4. QED
    BY <2>2, <2>3
<1>3. CASE Client!OpenFails(c) \/ Client!Retry(c) \/ Client!StackOverflow(c)
  BY <1>3 DEF Client!OpenFails, Client!Retry, Client!StackOverflow
<1>4. CASE Client!Dispatch(c) \/ Client!AuthSucceeds(c) \/ Client!AuthFails(c)
  BY <1>4 DEF Client!Dispatch, Client!AuthSucceeds, Client!AuthFails
<1>5. CASE Client!ForkSession(c) \/ Client!ForkFails(c)
  BY <1>5 DEF Client!ForkSession, Client!ForkFails, Client!ParentGoesOn
<1>6. CASE Client!WaitReturns(c) \/ Client!Tick(c) \/ Client!TimeUp(c)
  BY <1>6 DEF Client!WaitReturns, Client!Tick, Client!TimeUp, Client!QuitParent
<1>7. CASE Client!SessionBegins(c) \/ Client!SessionEnds(c) \/ Client!ProcessKilled(c)
  BY <1>7 DEF Client!SessionBegins, Client!SessionEnds, Client!ProcessKilled, Client!QuitParent
<1>8. CASE Client!EnterShell(c) \/ Client!LeaveShell(c)
  BY <1>8 DEF Client!EnterShell, Client!LeaveShell
<1>9. QED
  BY <1>1, <1>2, <1>3, <1>4, <1>5, <1>6, <1>7, <1>8 DEF Client!ClientNext, Client!Step

LEMMA InvStep == IInv /\ [Next]_vars => IInv'
<1> SUFFICES ASSUME IInv, [Next]_vars PROVE IInv'
  OBVIOUS
<1>1. ASSUME NEW i \in Instances, ServerStep(i) PROVE IInv'
  <2>1. Probing' /\ ClaimedFirst' /\ claims' >= claims /\ claims \in 0..2 /\ claims' \in 0..2
    BY <1>1, ServerKeeps DEF IInv, ServerStep, ClaimedFirst
  <2>2. UNCHANGED <<parent, opening>>
    BY <1>1 DEF ServerStep, clientVars
  <2>3. QED
    BY <2>1, <2>2 DEF IInv, Placed, CcliConnectsAfterClaim, Connected
<1>2. ASSUME NEW c \in Consoles, ClientStep(c) PROVE IInv'
  BY <1>2, ClientKeeps DEF IInv, ClientStep, serverVars, Probing, ClaimedFirst, CcliConnectsAfterClaim
<1>3. ASSUME NEW c \in Consoles, MassKill(c) PROVE IInv'
  <2>1. Placed' /\ \A d \in Consoles : Connected(d)' /\ Program[d] = "ccli" => claims >= 1
    BY <1>3, ClientKeeps DEF MassKill, Client!ClientNext, Client!Step
  <2>2. UNCHANGED <<nodes, claims>>
    BY <1>3 DEF MassKill, Server!UserQuit
  <2>3. Probing'
    BY <1>3 DEF MassKill, Server!UserQuit, Server!AllDie, IInv, Probing, Server!Phases
  <2>4. QED
    BY <2>1, <2>2, <2>3 DEF IInv, ClaimedFirst, CcliConnectsAfterClaim
<1>4. CASE Reboot
  <2>1. Probing' /\ nodes' = {} /\ claims' = 0
    BY <1>4 DEF Reboot, Server!Reboot, Server!AllDie, IInv, Probing, Server!Phases
  <2>2. Placed' /\ \A c \in Consoles : ~Connected(c)'
    BY <1>4 DEF Reboot, ClientsDie, Client!ParentAlive, IInv, Placed, Connected
  <2>3. QED
    BY <2>1, <2>2 DEF IInv, ClaimedFirst, CcliConnectsAfterClaim
<1>6. CASE LogOut
  <2>1. Probing' /\ UNCHANGED <<nodes, claims>>
    BY <1>6 DEF LogOut, Server!UserKilled, Server!AllDie, IInv, Probing, Server!Phases
  <2>2. Placed' /\ \A c \in Consoles : ~Connected(c)'
    BY <1>6 DEF LogOut, ClientsDie, Client!ParentAlive, IInv, Placed, Connected
  <2>3. QED
    BY <2>1, <2>2 DEF IInv, ClaimedFirst, CcliConnectsAfterClaim
<1>5. CASE UNCHANGED vars
  BY <1>5 DEF vars, serverVars, clientVars, IInv, Probing, ClaimedFirst, Placed,
              CcliConnectsAfterClaim, Connected
<1>7. QED
  BY <1>1, <1>2, <1>3, <1>4, <1>5, <1>6 DEF Next

(* With any number of servers failing, dying and restarting around it, a Ccli *)
(* holds its channels only after a server has passed its check since the boot. *)
THEOREM ConnectsAfterClaim == Spec => []CcliConnectsAfterClaim
<1>1. IInv => CcliConnectsAfterClaim
  BY DEF IInv
<1>2. QED
  BY <1>1, InitHolds, InvStep, PTL DEF Spec

-----------------------------------------------------------------------------
(* To the servers the clients are invisible, but for kill(-1), which is one *)
(* more SIGQUIT from outside: the composition is a behaviour of             *)
(* ServerStartup, with whatever clients.                                    *)
THEOREM ServersUndisturbed == Spec => Server!Spec
<1>1. Init => Server!Init
  BY DEF Init
<1>2. IInv /\ [Next]_vars => [Server!Next]_(Server!vars)
  <2> SUFFICES ASSUME IInv, [Next]_vars PROVE [Server!Next]_(Server!vars)
    OBVIOUS
  <2>1. ASSUME NEW i \in Instances, ServerStep(i) PROVE Server!Next
    BY <2>1 DEF ServerStep, Server!Next
  <2>2. ASSUME NEW c \in Consoles, ClientStep(c) PROVE UNCHANGED Server!vars
    BY <2>2, ClientKeeps DEF ClientStep, serverVars, Server!vars
  <2>3. ASSUME NEW c \in Consoles, MassKill(c) PROVE Server!Next
    BY <2>3 DEF MassKill, Server!Next
  <2>4. CASE LogOut \/ Reboot
    BY <2>4 DEF LogOut, Reboot, Server!Next
  <2>5. CASE UNCHANGED vars
    BY <2>5 DEF vars, serverVars, Server!vars
  <2>6. QED
    BY <2>1, <2>2, <2>3, <2>4, <2>5 DEF Next
<1>3. QED
  BY <1>1, <1>2, InitHolds, InvStep, PTL DEF Spec, Server!Spec

SP == INSTANCE ServerStartupProofs

(* What ServerStartupProofs proves of the servers alone holds among clients. *)
LEMMA ServersAlone == Spec => SP!Spec
<1>1. SP!Init <=> Server!Init
  BY DEF SP!Init, Server!Init, SP!LogFiles, Server!LogFiles
<1>2. SP!Next <=> Server!Next
  BY DEF SP!NextProbe, Server!NextProbe, SP!GoTo, Server!GoTo, SP!Leave, Server!Leave,
         SP!ProbeCreates, Server!ProbeCreates, SP!ProbeRefused, Server!ProbeRefused,
         SP!ProbeFault, Server!ProbeFault, SP!OpenChannel, Server!OpenChannel, SP!OpenFails,
         Server!OpenFails, SP!Unlink, Server!Unlink, SP!MakeLogDirs, Server!MakeLogDirs,
         SP!OpenLog, Server!OpenLog, SP!OpenLogFails, Server!OpenLogFails, SP!KillLauncher,
         Server!KillLauncher, SP!ForkResponseTeam, Server!ForkResponseTeam, SP!ForkAuthAgent,
         Server!ForkAuthAgent, SP!Launch, Server!Launch, SP!Step, Server!Step,
         SP!LauncherReturns, Server!LauncherReturns, SP!ChildKilled, Server!ChildKilled,
         SP!AgentKilled, Server!AgentKilled, SP!AllDie, Server!AllDie,
         SP!UserKilled, Server!UserKilled, SP!UserQuit, Server!UserQuit, SP!Reboot, Server!Reboot, SP!Next, Server!Next,
         SP!Alive, Server!Alive, SP!Booting, Server!Booting, SP!ProbeOrder, Server!ProbeOrder,
         SP!OpenOrder, Server!OpenOrder, SP!LogOrder, Server!LogOrder, SP!ClaimCap,
         Server!ClaimCap
<1>3. [SP!Next]_(SP!vars) <=> [Server!Next]_(Server!vars)
  BY <1>2 DEF SP!vars, Server!vars
<1>4. Server!Spec => SP!Spec
  BY <1>1, <1>3, PTL DEF Server!Spec, SP!Spec
<1>5. QED
  BY <1>4, ServersUndisturbed

(* Among any servers and clients, of which some may send kill(-1), the check *)
(* is passed at most once between two boots.                                 *)
THEOREM ClaimedOnceAmongClients == SP!NoFaults => (Spec => []OneClaimPerBoot)
<1>1. SP!OneClaimPerBoot <=> OneClaimPerBoot
  BY DEF SP!OneClaimPerBoot, OneClaimPerBoot, Server!OneClaimPerBoot
<1>2. []SP!OneClaimPerBoot => []OneClaimPerBoot
  BY <1>1, PTL
<1>3. QED
  BY <1>2, ServersAlone, ServersAssumption, SP!ClaimedOnce DEF SP!NoFaults

(* Among any servers and clients at most one instance is past the check. *)
THEOREM OneServesAmongClients == SP!NoFaults => (Spec => []AtMostOneServing)
<1>1. SP!AtMostOneServing <=> AtMostOneServing
  BY DEF SP!AtMostOneServing, AtMostOneServing, Server!AtMostOneServing, SP!Serving, Server!Serving
<1>2. []SP!AtMostOneServing => []AtMostOneServing
  BY <1>1, PTL
<1>3. QED
  BY <1>2, ServersAlone, ServersAssumption, SP!OneServes DEF SP!NoFaults

(* Among any servers and clients no start truncates a file that a server with *)
(* a process running has opened.                                              *)
THEOREM RecordsSafeAmongClients == SP!NoFaults => (Spec => NoTruncationWhileServing)
<1>1. [\A i \in Instances : SP!Serving(i) => records[i] \subseteq records'[i]]_(SP!vars)
        <=> [\A i \in Instances : Server!Serving(i) => records[i] \subseteq records'[i]]_(Server!vars)
  BY DEF SP!Serving, Server!Serving, SP!vars, Server!vars
<1>2. SP!NoTruncationWhileServing => NoTruncationWhileServing
  BY <1>1, PTL DEF SP!NoTruncationWhileServing, NoTruncationWhileServing, Server!NoTruncationWhileServing
<1>3. QED
  BY <1>2, ServersAlone, ServersAssumption, SP!RecordsSafe DEF SP!NoFaults

(* The composition implements the once-per-boot lock, as the servers alone do. *)
THEOREM LockIntact == SP!NoFaults => (Spec => LockSpec)
<1>1. SP!Lock!Init <=> Server!Lock!Init
  BY DEF SP!Lock!Init, Server!Lock!Init, SP!Serving, Server!Serving
<1>2. SP!Lock!Next <=> Server!Lock!Next
  BY DEF SP!Lock!Next, Server!Lock!Next, SP!Lock!Acquire, Server!Lock!Acquire, SP!Lock!Die,
         Server!Lock!Die, SP!Lock!KillAll, Server!Lock!KillAll, SP!Lock!Reboot,
         Server!Lock!Reboot, SP!Serving, Server!Serving
<1>3. [SP!Lock!Next]_(SP!Lock!vars) <=> [Server!Lock!Next]_(Server!Lock!vars)
  BY <1>2 DEF SP!Lock!vars, Server!Lock!vars, SP!Serving, Server!Serving
<1>4. SP!LockSpec => LockSpec
  BY <1>1, <1>3, PTL DEF LockSpec, Server!LockSpec, SP!LockSpec, Server!Lock!Spec, SP!Lock!Spec
<1>5. QED
  BY <1>4, ServersAlone, ServersAssumption, SP!StartupImplementsLock DEF SP!NoFaults
=============================================================================
