---------------------------- MODULE ServerStartup ---------------------------
(***************************************************************************)
(* main() of server.c when it is started as a server (argc # 3): the check *)
(* that no other instance runs, the opening of the four channel files and  *)
(* of the log files, the killing of the launching process and the two      *)
(* fork() calls that leave three processes behind.  Several instances may  *)
(* be started, at any time and concurrently; any process may be killed     *)
(* between two system calls; the machine may reboot.                       *)
(*                                                                         *)
(* One action is one system call on shared state.  mknod(path, 0666, 0)    *)
(* names no file type, which POSIX reads as a regular file: the channels   *)
(* are plain files, so that open() never blocks waiting for a peer.        *)
(***************************************************************************)
EXTENDS Naturals, Sequences, FiniteSets

CONSTANTS
  Instances,     \* the instances of LoggingServer that may be started
  MknodFaults,   \* may mknod() fail for a reason other than EEXIST?
  Background     \* those started with & by a script (STARTCMD in /etc/rc.local): the shell
                 \* makes them, and all they fork, ignore SIGINT and SIGQUIT

ASSUME StartupAssumption ==
  /\ MknodFaults \in BOOLEAN
  /\ Background \subseteq Instances

(* The paths under /tmp, in the order main() creates and opens them. *)
ProbeOrder == <<"FIFOREAD", "FIFOWRITE", "FIFOAUTH", "FIFOAUTHRT">>
OpenOrder  == <<"FIFOWRITE", "FIFOREAD", "FIFOAUTH", "FIFOAUTHRT">>
Channels   == {"FIFOREAD", "FIFOWRITE", "FIFOAUTH", "FIFOAUTHRT"}

(* The log files and the user database, in the order they are opened with O_TRUNC. *)
LogOrder == <<"ERRLOG", "SVLOGS", "AGENTLOGS", "RTLOGS", "USRDB">>
LogFiles == {"ERRLOG", "SVLOGS", "AGENTLOGS", "RTLOGS", "USRDB"}

Agents == {"RT", "AGENT", "AUTH"}

(* Counting stops here: the properties tell "once" from "more than once". *)
ClaimCap == 2

Phases == {"off", "probe", "open", "unlink", "mkdir", "log", "kill", "fork1", "fork2", "up", "gone"}

VARIABLES
  nodes,      \* the channel paths that exist under /tmp
  records,    \* the log files each instance has opened and nobody truncated since
  phase,      \* where the forked child of each instance is in main()
  idx,        \* the path, channel or log file its next call is about
  stop,       \* how many paths its failure branch unlinks
  refused,    \* has the instance printed "already running" since its launch?
  agents,     \* the long-lived processes of each instance
  launcher,   \* the process that was started from the shell
  claims      \* how often the check has been passed since the boot, up to ClaimCap

vars == <<nodes, records, phase, idx, stop, refused, agents, launcher, claims>>

TypeOK ==
  /\ nodes \in SUBSET Channels
  /\ records \in [Instances -> SUBSET LogFiles]
  /\ phase \in [Instances -> Phases]
  /\ idx \in [Instances -> 1..5]
  /\ stop \in [Instances -> 0..3]
  /\ refused \in [Instances -> BOOLEAN]
  /\ agents \in [Instances -> SUBSET Agents]
  /\ launcher \in [Instances -> {"none", "waiting", "gone"}]
  /\ claims \in 0..ClaimCap

(* The child is alive and has not finished setting up. *)
Booting(i) == phase[i] \in {"probe", "open", "unlink", "mkdir", "log", "kill", "fork1", "fork2"}

(* The instance got past the check and one of its processes still runs. *)
Serving(i) ==
  \/ phase[i] \in {"open", "unlink", "mkdir", "log", "kill", "fork1", "fork2"}
  \/ agents[i] # {}

Alive(i) == Booting(i) \/ agents[i] # {}

Init ==
  /\ nodes = {}
  /\ records = [i \in Instances |-> {}]
  /\ phase = [i \in Instances |-> "off"]
  /\ idx = [i \in Instances |-> 1]
  /\ stop = [i \in Instances |-> 0]
  /\ refused = [i \in Instances |-> FALSE]
  /\ agents = [i \in Instances |-> {}]
  /\ launcher = [i \in Instances |-> "none"]
  /\ claims = 0

GoTo(i, p, k) ==
  /\ phase' = [phase EXCEPT ![i] = p]
  /\ idx' = [idx EXCEPT ![i] = k]

(* return 0 in the child, or its death: the launcher's wait() will return. *)
Leave(i) == GoTo(i, "gone", 1)

(***************************************************************************)
(* fork(): the child goes on to the check, the launcher waits for it.      *)
(* (When fork() fails the launcher's wait() fails too and nothing starts.) *)
(***************************************************************************)
Launch(i) ==
  /\ ~Alive(i)
  /\ launcher[i] # "waiting"
  /\ GoTo(i, "probe", 1)
  /\ launcher' = [launcher EXCEPT ![i] = "waiting"]
  /\ refused' = [refused EXCEPT ![i] = FALSE]
  /\ records' = [records EXCEPT ![i] = {}]
  /\ UNCHANGED <<nodes, stop, agents, claims>>

(* The fourth mknod() was not refused: the check is passed. *)
NextProbe(i) ==
  IF idx[i] < 4
  THEN GoTo(i, "probe", idx[i] + 1) /\ UNCHANGED claims
  ELSE GoTo(i, "open", 1) /\ claims' = (IF claims < ClaimCap THEN claims + 1 ELSE claims)

(* Slip: a path that exists already does not stop the instance. *)
ProbeCreates_Unchecked(i) ==
  /\ phase[i] = "probe"
  /\ nodes' = nodes \cup {ProbeOrder[idx[i]]}
  /\ NextProbe(i)
  /\ UNCHANGED <<records, stop, refused, agents, launcher>>

ProbeCreates(i) ==
  /\ phase[i] = "probe"
  /\ ProbeOrder[idx[i]] \notin nodes
  /\ nodes' = nodes \cup {ProbeOrder[idx[i]]}
  /\ NextProbe(i)
  /\ UNCHANGED <<records, stop, refused, agents, launcher>>

(* EEXIST: the instance reports another one and ends; what it created stays. *)
ProbeRefused(i) ==
  /\ phase[i] = "probe"
  /\ ProbeOrder[idx[i]] \in nodes
  /\ Leave(i)
  /\ refused' = [refused EXCEPT ![i] = TRUE]
  /\ UNCHANGED <<nodes, records, stop, agents, launcher, claims>>

(* Any other error of mknod() is not looked at: the path is taken as created. *)
ProbeFault(i) ==
  /\ MknodFaults
  /\ phase[i] = "probe"
  /\ ProbeOrder[idx[i]] \notin nodes
  /\ NextProbe(i)
  /\ UNCHANGED <<nodes, records, stop, refused, agents, launcher>>

OpenChannel(i) ==
  /\ phase[i] = "open"
  /\ OpenOrder[idx[i]] \in nodes
  /\ IF idx[i] < 4 THEN GoTo(i, "open", idx[i] + 1) ELSE GoTo(i, "mkdir", 1)
  /\ UNCHANGED <<nodes, records, stop, refused, agents, launcher, claims>>

(* Slip: the branch also unlinks the path whose open() failed. *)
OpenFails_UnlinksOwn(i) ==
  /\ phase[i] = "open"
  /\ stop' = [stop EXCEPT ![i] = idx[i]]
  /\ GoTo(i, "unlink", 1)
  /\ UNCHANGED <<nodes, records, refused, agents, launcher, claims>>

(* open() fails (no such file, permission, descriptors): the branch unlinks *)
(* the paths opened before, in the same order, and returns.                 *)
OpenFails(i) ==
  /\ phase[i] = "open"
  /\ stop' = [stop EXCEPT ![i] = idx[i] - 1]
  /\ IF idx[i] = 1 THEN Leave(i) ELSE GoTo(i, "unlink", 1)
  /\ UNCHANGED <<nodes, records, refused, agents, launcher, claims>>

Unlink(i) ==
  /\ phase[i] = "unlink"
  /\ nodes' = nodes \ {OpenOrder[idx[i]]}
  /\ IF idx[i] < stop[i] THEN GoTo(i, "unlink", idx[i] + 1) ELSE Leave(i)
  /\ UNCHANGED <<records, stop, refused, agents, launcher, claims>>

(* When logs/ or db/ cannot be made the server says so and goes on without logs. *)
MakeLogDirs(i) ==
  /\ phase[i] = "mkdir"
  /\ GoTo(i, "log", 1) \/ GoTo(i, "kill", 1)
  /\ UNCHANGED <<nodes, records, stop, refused, agents, launcher, claims>>

(* O_TRUNC: whatever an instance that opened the file before has there is gone. *)
OpenLog(i) ==
  /\ phase[i] = "log"
  /\ records' = [j \in Instances |-> IF j = i THEN records[j] \cup {LogOrder[idx[i]]}
                                             ELSE records[j] \ {LogOrder[idx[i]]}]
  /\ IF idx[i] < 5 THEN GoTo(i, "log", idx[i] + 1) ELSE GoTo(i, "kill", 1)
  /\ UNCHANGED <<nodes, stop, refused, agents, launcher, claims>>

OpenLogFails(i) ==
  /\ phase[i] = "log"
  /\ Leave(i)
  /\ UNCHANGED <<nodes, records, stop, refused, agents, launcher, claims>>

(* Slip: the launcher is never told. *)
KillLauncher_Forgotten(i) ==
  /\ phase[i] = "kill"
  /\ GoTo(i, "fork1", 1)
  /\ UNCHANGED <<nodes, records, stop, refused, agents, launcher, claims>>

(* kill(ppid, SIGINT) ends the launcher, which sleeps in wait(), unless it *)
(* was started with the signal ignored.                                    *)
KillLauncher(i) ==
  /\ phase[i] = "kill"
  /\ launcher' = IF i \in Background THEN launcher ELSE [launcher EXCEPT ![i] = "gone"]
  /\ GoTo(i, "fork1", 1)
  /\ UNCHANGED <<nodes, records, stop, refused, agents, claims>>

(* First fork(): the parent becomes the Response Team and the child goes on; *)
(* when it fails (pid = -1) the Response Team is all there is.               *)
ForkResponseTeam(i) ==
  /\ phase[i] = "fork1"
  /\ agents' = [agents EXCEPT ![i] = {"RT"}]
  /\ GoTo(i, "fork2", 1) \/ GoTo(i, "up", 1)
  /\ UNCHANGED <<nodes, records, stop, refused, launcher, claims>>

(* Second fork(): the parent becomes the Agent, the child the Auth Agent. *)
ForkAuthAgent(i) ==
  /\ phase[i] = "fork2"
  /\ \E born \in {{"AGENT", "AUTH"}, {"AGENT"}} :
       agents' = [agents EXCEPT ![i] = @ \cup born]
  /\ GoTo(i, "up", 1)
  /\ UNCHANGED <<nodes, records, stop, refused, launcher, claims>>

(* wait(&pid) returns once the child has ended; the child is the process *)
(* that becomes the Response Team.                                       *)
LauncherReturns(i) ==
  /\ launcher[i] = "waiting"
  /\ phase[i] = "gone" \/ (phase[i] \in {"fork2", "up"} /\ "RT" \notin agents[i])
  /\ launcher' = [launcher EXCEPT ![i] = "gone"]
  /\ UNCHANGED <<nodes, records, phase, idx, stop, refused, agents, claims>>

(***************************************************************************)
(* The environment.  The child is killed between two calls; one of the     *)
(* agents, which never end by themselves, is killed; kill(-1, sig) ends    *)
(* every process of the user that does not ignore the signal; the machine  *)
(* reboots and /tmp is cleared.                                            *)
(***************************************************************************)
ChildKilled(i) ==
  /\ Booting(i)
  /\ IF phase[i] = "fork2" THEN GoTo(i, "up", 1) ELSE Leave(i)
  /\ UNCHANGED <<nodes, records, stop, refused, agents, launcher, claims>>

AgentKilled(i) ==
  /\ \E a \in agents[i] : agents' = [agents EXCEPT ![i] = @ \ {a}]
  /\ UNCHANGED <<nodes, records, phase, idx, stop, refused, launcher, claims>>

AllDie(D) ==
  /\ phase' = [i \in Instances |-> IF i \in D /\ phase[i] # "off" THEN "gone" ELSE phase[i]]
  /\ idx' = [i \in Instances |-> IF i \in D THEN 1 ELSE idx[i]]
  /\ stop' = [i \in Instances |-> IF i \in D THEN 0 ELSE stop[i]]
  /\ agents' = [i \in Instances |-> IF i \in D THEN {} ELSE agents[i]]
  /\ launcher' = [i \in Instances |->
       IF i \in D /\ launcher[i] # "none" THEN "gone" ELSE launcher[i]]
  /\ UNCHANGED <<records, refused>>

(* kill(-1, SIGKILL), or the end of the user's login. *)
UserKilled ==
  /\ AllDie(Instances)
  /\ UNCHANGED <<nodes, claims>>

(* kill(-1, SIGQUIT), and the same with SIGINT. *)
UserQuit ==
  /\ AllDie(Instances \ Background)
  /\ UNCHANGED <<nodes, claims>>

Reboot ==
  /\ AllDie(Instances)
  /\ nodes' = {}
  /\ claims' = 0

Step(i) ==
  \/ ProbeCreates(i)
  \/ ProbeRefused(i)
  \/ ProbeFault(i)
  \/ OpenChannel(i)
  \/ OpenFails(i)
  \/ Unlink(i)
  \/ MakeLogDirs(i)
  \/ OpenLog(i)
  \/ OpenLogFails(i)
  \/ KillLauncher(i)
  \/ ForkResponseTeam(i)
  \/ ForkAuthAgent(i)

Next ==
  \/ \E i \in Instances :
       Launch(i) \/ Step(i) \/ LauncherReturns(i) \/ ChildKilled(i) \/ AgentKilled(i)
  \/ UserKilled
  \/ UserQuit
  \/ Reboot

Spec == Init /\ [][Next]_vars

(* A process that can take its next system call is eventually scheduled; *)
(* nobody is obliged to start a server, to kill one or to reboot.        *)
Fairness == \A i \in Instances : WF_vars(Step(i)) /\ WF_vars(LauncherReturns(i))

FairSpec == Spec /\ Fairness
-----------------------------------------------------------------------------
(***************************************************************************)
(* Properties                                                              *)
(***************************************************************************)

(* Between two boots the check of server.c is passed at most once, however *)
(* many instances race through the four mknod() calls, fail, unlink and    *)
(* are restarted: FIFOAUTHRT is the one path no failure branch unlinks.    *)
OneClaimPerBoot == claims <= 1

(* Two instances are never past the check at the same time, which is what  *)
(* the message "A Logging Server instance is already running!" is for.     *)
AtMostOneServing ==
  \A i, j \in Instances : Serving(i) /\ Serving(j) => i = j

(* The log files and the user database a server has opened stay its own    *)
(* for as long as one of its processes is up: no start of another instance *)
(* gets as far as the O_TRUNC opens, whatever fails or dies in between.    *)
NoTruncationWhileServing ==
  [][\A i \in Instances : Serving(i) => records[i] \subseteq records'[i]]_vars

(* An instance that is refused has a live instance to be refused for: the  *)
(* statement of the message server.c prints when mknod() says EEXIST.      *)
RefusedByLiveInstance ==
  [][\A i \in Instances :
       (~refused[i] /\ refused'[i]) => \E j \in Instances \ {i} : Alive(j)]_vars

(* The process the shell started always comes back: either the child ends  *)
(* and wait() returns, or the child gets far enough to kill it.  One that  *)
(* ignores SIGINT waits for the Response Team, which never ends.           *)
LauncherComesBack ==
  \A i \in Instances \ Background : launcher[i] = "waiting" ~> launcher[i] # "waiting"

(* The start-up check refines the once-per-boot lock. *)
Lock == INSTANCE SingleServer WITH
          serving <- {i \in Instances : Serving(i)},
          spent   <- claims > 0

LockSpec == Lock!Spec
=============================================================================
