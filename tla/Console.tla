------------------------------- MODULE Console ------------------------------
(***************************************************************************)
(* The two clients of the Logging Server: Ccli (ccli.c) and c-bot          *)
(* (crypto.c).  Their main() is the same program: open the server's        *)
(* channels, calling main() again after six seconds when one cannot be     *)
(* opened; read the arguments; authenticate; fork() a child for the        *)
(* session, while the parent waits for it or counts its time down and then *)
(* kills it.  Ccli opens all four channels, c-bot only the first two.  The  *)
(* session of c-bot, cbot(), runs shell commands with system(), which      *)
(* ignores SIGINT and SIGQUIT until the command has ended.                 *)
(***************************************************************************)
EXTENDS Integers

CONSTANTS
  Consoles,     \* the client processes a user may start
  Program,      \* which program each of them runs: "ccli" or "cbot"
  Job,          \* the process group each of them is started in
  Ignoring,     \* those started with & by a script: the shell makes them ignore SIGQUIT
  Commands,     \* the command lines: [argc, flags, long, time] (see Mode)
  FdLimit,      \* descriptors a process may have beyond the standard three
  StackLimit,   \* calls of main() the stack has room for
  HardTime,     \* the 300 seconds of a timed session without [TIME]
  ForkFaults,   \* may fork() fail?
  Kills         \* may single processes be killed from outside?

CommandLine == [argc : 1..7, flags : BOOLEAN, long : BOOLEAN, time : Int]

ASSUME ConsoleAssumption ==
  /\ Program \in [Consoles -> {"ccli", "cbot"}]
  /\ FdLimit \in Nat /\ StackLimit \in Nat \ {0} /\ HardTime \in Nat
  /\ Ignoring \subseteq Consoles
  /\ Commands \subseteq CommandLine
  /\ ForkFaults \in BOOLEAN /\ Kills \in BOOLEAN

(* The paths in the order the clients open them, by the server's names. *)
Path == <<"FIFOREAD", "FIFOWRITE", "FIFOAUTH", "FIFOAUTHRT">>
Channels == {"FIFOREAD", "FIFOWRITE", "FIFOAUTH", "FIFOAUTHRT"}

(* Slip: Ccli does without the channel of the replies. *)
Needed_NoReplies(c) == IF Program[c] = "ccli" THEN 3 ELSE 2

Needed(c) == IF Program[c] = "ccli" THEN 4 ELSE 2

VARIABLES
  nodes,      \* the channel paths that exist under /tmp
  parent,     \* where the process the user started is in main()
  cmd,        \* its command line
  opening,    \* the channel its next open() is about
  fds,        \* the descriptors it holds, those of earlier calls included
  depth,      \* the calls of main() that are still on its stack
  forked,     \* what its fork() returned
  left,       \* the seconds its timer thread still has to count
  child,      \* the process that runs ccli() or cbot(); "shell" is within system()
  missed      \* has a SIGQUIT for that process come while it was ignored?

clientVars == <<parent, cmd, opening, fds, depth, forked, left, child, missed>>
vars == <<nodes, clientVars>>

NoCommand == [argc |-> 1, flags |-> FALSE, long |-> FALSE, time |-> 0]

TypeOK ==
  /\ nodes \subseteq Channels
  /\ parent \in [Consoles -> {"off", "connect", "sleep", "dispatch", "auth", "fork",
                              "wait", "countdown", "exited", "crashed", "killed"}]
  /\ cmd \in [Consoles -> Commands \cup {NoCommand}]
  /\ opening \in [Consoles -> 1..4]
  /\ fds \in [Consoles -> 0..FdLimit]
  /\ depth \in [Consoles -> 0..StackLimit]
  /\ forked \in [Consoles -> {"no", "child", "failed"}]
  /\ left \in [Consoles -> Int]
  /\ child \in [Consoles -> {"none", "start", "prompt", "shell", "dead"}]
  /\ missed \in [Consoles -> BOOLEAN]

ParentAlive(c) == parent[c] \notin {"off", "exited", "crashed", "killed"}
ChildAlive(c) == child[c] \in {"start", "prompt", "shell"}

(* The session is not in system() and has not inherited SIGQUIT as ignored. *)
ChildListens(c) == child[c] \in {"start", "prompt"} /\ c \notin Ignoring
ChildIgnores(c) == ChildAlive(c) /\ ~ChildListens(c)

Init ==
  /\ nodes \in SUBSET Channels
  /\ parent = [c \in Consoles |-> "off"]
  /\ cmd = [c \in Consoles |-> NoCommand]
  /\ opening = [c \in Consoles |-> 1]
  /\ fds = [c \in Consoles |-> 0]
  /\ depth = [c \in Consoles |-> 0]
  /\ forked = [c \in Consoles |-> "no"]
  /\ left = [c \in Consoles |-> 0]
  /\ child = [c \in Consoles |-> "none"]
  /\ missed = [c \in Consoles |-> FALSE]

At(c, pc) == parent[c] = pc
Go(c, pc) == parent' = [parent EXCEPT ![c] = pc]

(***************************************************************************)
(* What the arguments ask for.  "flags" says that the option words are the *)
(* ones main() compares with, "long" that strlen(argv[3]) exceeds 37, and  *)
(* "time" is atoi([TIME]), which is 0 for a word and may be negative.      *)
(***************************************************************************)
Mode(a) ==
  CASE a.flags /\ a.argc = 3             -> "plain"
    [] a.flags /\ a.argc \in {4, 5}      -> "timed"
    [] a.flags /\ a.argc = 6 /\ ~a.long  -> "register"
    [] OTHER                             -> "usage"

Limit(a) == IF a.argc = 5 THEN a.time ELSE HardTime

-----------------------------------------------------------------------------
Start(c) ==
  /\ At(c, "off")
  /\ depth' = [depth EXCEPT ![c] = 1]
  /\ Go(c, "connect")
  /\ UNCHANGED <<nodes, cmd, opening, fds, forked, left, child, missed>>

OpenChannel(c) ==
  /\ At(c, "connect")
  /\ Path[opening[c]] \in nodes
  /\ fds[c] < FdLimit
  /\ fds' = [fds EXCEPT ![c] = @ + 1]
  /\ IF opening[c] < Needed(c)
     THEN opening' = [opening EXCEPT ![c] = @ + 1] /\ UNCHANGED parent
     ELSE Go(c, "dispatch") /\ UNCHANGED opening
  /\ UNCHANGED <<nodes, cmd, depth, forked, left, child, missed>>

(* Slip: the failure is logged to a file that stays open. *)
OpenFails_KeepsLog(c) ==
  /\ At(c, "connect")
  /\ Path[opening[c]] \notin nodes \/ fds[c] = FdLimit
  /\ Go(c, "sleep")
  /\ fds' = [fds EXCEPT ![c] = IF @ < FdLimit THEN @ + 1 ELSE @]
  /\ UNCHANGED <<nodes, cmd, opening, depth, forked, left, child, missed>>

(* No such path, or no descriptor left.  Nothing is closed. *)
OpenFails(c) ==
  /\ At(c, "connect")
  /\ Path[opening[c]] \notin nodes \/ fds[c] = FdLimit
  /\ Go(c, "sleep")
  /\ UNCHANGED <<nodes, cmd, opening, fds, depth, forked, left, child, missed>>

(* Slip: no limit to the calls. *)
Retry_Unlimited(c) ==
  /\ At(c, "sleep")
  /\ Go(c, "connect")
  /\ depth' = [depth EXCEPT ![c] = @ + 1]
  /\ opening' = [opening EXCEPT ![c] = 1]
  /\ UNCHANGED <<nodes, cmd, fds, forked, left, child, missed>>

(* Slip: a limit on the tries that is one too low, and then nothing. *)
Retry_TooFew(c) ==
  /\ depth[c] + 1 < StackLimit
  /\ Retry_Unlimited(c)

(* return main(argc, argv): one more frame, and all channels from the first. *)
Retry(c) ==
  /\ At(c, "sleep")
  /\ depth[c] < StackLimit
  /\ Go(c, "connect")
  /\ depth' = [depth EXCEPT ![c] = @ + 1]
  /\ opening' = [opening EXCEPT ![c] = 1]
  /\ UNCHANGED <<nodes, cmd, fds, forked, left, child, missed>>

StackOverflow(c) ==
  /\ At(c, "sleep")
  /\ depth[c] = StackLimit
  /\ Go(c, "crashed")
  /\ UNCHANGED <<nodes, cmd, opening, fds, depth, forked, left, child, missed>>

(* The command line plays no part before this point, and is chosen here. *)
Dispatch(c) ==
  /\ At(c, "dispatch")
  /\ \E a \in Commands :
       /\ cmd' = [cmd EXCEPT ![c] = a]
       /\ IF Mode(a) = "usage" THEN Go(c, "exited") ELSE Go(c, "auth")
  /\ UNCHANGED <<nodes, opening, fds, depth, forked, left, child, missed>>

(* getAuthenticated() returns AUTH_SUCCESS, which a registration never does. *)
AuthSucceeds(c) ==
  /\ At(c, "auth")
  /\ Mode(cmd[c]) \in {"plain", "timed"}
  /\ Go(c, "fork")
  /\ UNCHANGED <<nodes, cmd, opening, fds, depth, forked, left, child, missed>>

(* It returns AUTH_FAILED, AUTH_ERROR or REGISTRATION_FAILED. *)
AuthFails(c) ==
  /\ At(c, "auth")
  /\ Go(c, "exited")
  /\ UNCHANGED <<nodes, cmd, opening, fds, depth, forked, left, child, missed>>

(* What the parent does next, child or no child. *)
ParentGoesOn(c) ==
  IF Mode(cmd[c]) = "plain"
  THEN Go(c, "wait") /\ UNCHANGED left
  ELSE Go(c, "countdown") /\ left' = [left EXCEPT ![c] = Limit(cmd[c])]

ForkSession(c) ==
  /\ At(c, "fork")
  /\ forked' = [forked EXCEPT ![c] = "child"]
  /\ child' = [child EXCEPT ![c] = "start"]
  /\ ParentGoesOn(c)
  /\ UNCHANGED <<nodes, cmd, opening, fds, depth, missed>>

(* pid = -1 is not 0 either: the parent's branch is taken without a child. *)
ForkFails(c) ==
  /\ ForkFaults
  /\ At(c, "fork")
  /\ forked' = [forked EXCEPT ![c] = "failed"]
  /\ ParentGoesOn(c)
  /\ UNCHANGED <<nodes, cmd, opening, fds, depth, child, missed>>

(* Slip: the parent returns while the session goes on. *)
WaitReturns_Early(c) ==
  /\ At(c, "wait")
  /\ Go(c, "exited")
  /\ UNCHANGED <<nodes, cmd, opening, fds, depth, forked, left, child, missed>>

(* wait(&pid) returns when the child has ended, or at once without a child. *)
WaitReturns(c) ==
  /\ At(c, "wait")
  /\ ~ChildAlive(c)
  /\ Go(c, "exited")
  /\ UNCHANGED <<nodes, cmd, opening, fds, depth, forked, left, child, missed>>

(* timedauth_t(): while (tempo > 0) { sleep(1); tempo--; } *)
Tick(c) ==
  /\ At(c, "countdown")
  /\ left[c] > 0
  /\ left' = [left EXCEPT ![c] = @ - 1]
  /\ UNCHANGED <<nodes, parent, cmd, opening, fds, depth, forked, child, missed>>

(* What SIGQUIT to the processes of the consoles D makes of d's. *)
QuitParent(d, D) == IF d \in D \ Ignoring /\ ParentAlive(d) THEN "killed" ELSE parent[d]
QuitChild(d, D) == IF d \in D /\ ChildListens(d) THEN "dead" ELSE child[d]
QuitMissed(d, D) == missed[d] \/ (d \in D /\ ChildIgnores(d))

(* Slip: the countdown ends without the kill(). *)
TimeUp_NoKill(c) ==
  /\ At(c, "countdown")
  /\ left[c] <= 0
  /\ Go(c, "exited")
  /\ UNCHANGED <<nodes, cmd, opening, fds, depth, forked, left, child, missed>>

(* kill(pid, SIGQUIT) and return: with pid = -1 it goes to every process of *)
(* the user but the caller.  It is sent once, ignored or not.               *)
TimeUp(c) ==
  /\ At(c, "countdown")
  /\ left[c] <= 0
  /\ LET reached == IF forked[c] = "failed" THEN Consoles ELSE {c} IN
       /\ parent' = [d \in Consoles |-> IF d = c THEN "exited" ELSE QuitParent(d, reached)]
       /\ child' = [d \in Consoles |-> QuitChild(d, reached)]
       /\ missed' = [d \in Consoles |-> QuitMissed(d, reached)]
  /\ UNCHANGED <<nodes, cmd, opening, fds, depth, forked, left>>

-----------------------------------------------------------------------------
(* ccli() of a session without -t starts with kill(0, SIGQUIT), for pid is 0 *)
(* in the child: its process group ends, itself and its parent included.     *)
SessionBegins(c) ==
  /\ child[c] = "start"
  /\ LET group == IF Program[c] = "ccli" /\ Mode(cmd[c]) = "plain"
                  THEN {d \in Consoles : Job[d] = Job[c]} ELSE {} IN
       /\ parent' = [d \in Consoles |-> QuitParent(d, group)]
       /\ child' = [d \in Consoles |->
            IF d = c /\ QuitChild(d, group) # "dead" THEN "prompt" ELSE QuitChild(d, group)]
       /\ missed' = [d \in Consoles |-> QuitMissed(d, group)]
  /\ UNCHANGED <<nodes, cmd, opening, fds, depth, forked, left>>

(* system() in cbot(): the downloads, and cd for track. *)
EnterShell(c) ==
  /\ Program[c] = "cbot" /\ child[c] = "prompt"
  /\ child' = [child EXCEPT ![c] = "shell"]
  /\ UNCHANGED <<nodes, parent, cmd, opening, fds, depth, forked, left, missed>>

LeaveShell(c) ==
  /\ child[c] = "shell"
  /\ child' = [child EXCEPT ![c] = "prompt"]
  /\ UNCHANGED <<nodes, parent, cmd, opening, fds, depth, forked, left, missed>>

(* cbot() returns when the data directory or a downloaded file is unusable; *)
(* ccli() ends only when a command crashes it (login without a user).       *)
SessionEnds(c) ==
  /\ child[c] = "prompt" \/ (child[c] = "start" /\ Program[c] = "cbot")
  /\ child' = [child EXCEPT ![c] = "dead"]
  /\ UNCHANGED <<nodes, parent, cmd, opening, fds, depth, forked, left, missed>>

(* A process is killed from outside; the other one is not told. *)
ProcessKilled(c) ==
  /\ Kills
  /\ \/ ParentAlive(c) /\ Go(c, "killed") /\ UNCHANGED child
     \/ ChildAlive(c) /\ child' = [child EXCEPT ![c] = "dead"] /\ UNCHANGED parent
  /\ UNCHANGED <<nodes, cmd, opening, fds, depth, forked, left, missed>>

(* The server, or whoever cleans /tmp, makes and removes the paths. *)
ServerMoves ==
  /\ \E p \in Channels : nodes' = nodes \cup {p} \/ nodes' = nodes \ {p}
  /\ UNCHANGED clientVars

(* The steps a process takes by itself, as soon as it is scheduled. *)
Step(c) ==
  \/ OpenChannel(c) \/ OpenFails(c) \/ Retry(c) \/ StackOverflow(c) \/ Dispatch(c)
  \/ ForkSession(c) \/ ForkFails(c) \/ WaitReturns(c) \/ Tick(c) \/ TimeUp(c)
  \/ SessionBegins(c)

ClientNext(c) ==
  \/ Start(c) \/ Step(c) \/ AuthSucceeds(c) \/ AuthFails(c)
  \/ EnterShell(c) \/ LeaveShell(c) \/ SessionEnds(c) \/ ProcessKilled(c)

Next == (\E c \in Consoles : ClientNext(c)) \/ ServerMoves

Spec == Init /\ [][Next]_vars

(* Processes are scheduled and sleep() returns; nobody owes an answer to an *)
(* authentication, an end of a session or of a shell command, or a server.  *)
Fairness ==
  \A c \in Consoles :
    /\ WF_vars(OpenChannel(c) \/ OpenFails(c) \/ Retry(c) \/ StackOverflow(c) \/ Dispatch(c))
    /\ WF_vars(ForkSession(c) \/ ForkFails(c) \/ WaitReturns(c) \/ Tick(c) \/ TimeUp(c))
    /\ WF_vars(SessionBegins(c))

FairSpec == Spec /\ Fairness
-----------------------------------------------------------------------------
(***************************************************************************)
(* Properties                                                              *)
(***************************************************************************)

(* A client that ended by itself has left a session running only if that is *)
(* a timed one which did not listen when its time was up: the parent of a   *)
(* plain session has waited for it, the parent of a timed one has sent the  *)
(* SIGQUIT, whatever was killed and whichever fork() failed (main() of      *)
(* ccli.c and crypto.c), and only cbot() ignores it, within system().       *)
NoSessionLeftBehind ==
  \A c \in Consoles :
    parent[c] = "exited" /\ ChildAlive(c)
      => /\ missed[c] /\ Mode(cmd[c]) = "timed"
         /\ Program[c] = "cbot" \/ c \in Ignoring

Waste(c) == Needed(c) - 1

(* The descriptors lost to failed calls of main() are at most three per call *)
(* for Ccli and one for c-bot, so that a client which has called main() at   *)
(* most FdLimit \div 4 times can still open all its channels.                *)
RetryBudget ==
  \A c \in Consoles : fds[c] <= Waste(c) * depth[c] + 1

(* In the retry loop of main(). *)
Trying(c) == parent[c] \in {"connect", "sleep"}

WithinBudget(c) ==
  /\ Trying(c)
  /\ nodes = Channels
  /\ depth[c] < StackLimit
  /\ Waste(c) * depth[c] + Needed(c) <= FdLimit

Connected(c) == parent[c] \in {"dispatch", "auth", "fork", "wait", "countdown", "exited"}

(* A client that finds the server up, and stays within its budget of          *)
(* descriptors and stack, connects unless it is killed: calling main() again  *)
(* is a retry loop that works as long as the leaks have not used up the       *)
(* limits.                                                                    *)
ConnectsInTime ==
  \A c \in Consoles :
    WithinBudget(c) ~> (Connected(c) \/ nodes # Channels \/ parent[c] = "killed")

(* A timed session is over sooner or later, whatever number [TIME] is, *)
(* unless its parent is killed or the session did not listen at the end *)
(* of its time: the -t option ("authentication hardtimed") of main()    *)
(* with timedauth_t().                                                  *)
TimedSessionEnds ==
  \A c \in Consoles :
    (ChildAlive(c) /\ Mode(cmd[c]) = "timed")
      ~> (~ChildAlive(c) \/ parent[c] = "killed" \/ missed[c])

(* A session that was authenticated gets its prompt, as ccli() announces it: *)
(* "Server is online, waiting for a command. Type 'help' for commands."      *)
AuthenticatedGetsPrompt ==
  \A c \in {d \in Consoles \ Ignoring : Program[d] = "ccli"} : child[c] = "start" ~> child[c] = "prompt"
=============================================================================
