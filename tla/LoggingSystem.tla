---------------------------- MODULE LoggingSystem ---------------------------
(***************************************************************************)
(* Server instances and clients on one machine, under one user.  They meet *)
(* in two places: the channel paths under /tmp, which only the server's    *)
(* main() creates and removes and the clients open, and kill(-1, SIGQUIT), *)
(* which a client that could not fork() its timed session sends to every   *)
(* process of the user when the time is up.                                *)
(***************************************************************************)
EXTENDS Integers

CONSTANTS
  Instances, MknodFaults, Background,                     \* see ServerStartup
  Consoles, Program, Job, Ignoring, Commands, FdLimit,    \* see Console
  StackLimit, HardTime, ForkFaults, Kills

ASSUME ServersAssumption ==
  /\ MknodFaults \in BOOLEAN
  /\ Background \subseteq Instances

VARIABLES
  nodes,
  records, phase, idx, stop, refused, agents, launcher, claims,
  parent, cmd, opening, fds, depth, forked, left, child, missed

Server == INSTANCE ServerStartup
Client == INSTANCE Console

serverVars == <<records, phase, idx, stop, refused, agents, launcher, claims>>
clientVars == <<parent, cmd, opening, fds, depth, forked, left, child, missed>>
vars == <<nodes, serverVars, clientVars>>

TypeOK == Server!TypeOK /\ Client!TypeOK

Init ==
  /\ Server!Init
  /\ Client!Init

ServerStep(i) ==
  /\ \/ Server!Launch(i)
     \/ Server!Step(i)
     \/ Server!LauncherReturns(i)
     \/ Server!ChildKilled(i)
     \/ Server!AgentKilled(i)
  /\ UNCHANGED clientVars

ClientStep(c) ==
  /\ Client!ClientNext(c)
  /\ ~(Client!TimeUp(c) /\ forked[c] = "failed")
  /\ UNCHANGED serverVars

(* kill(-1, SIGQUIT) reaches the servers and their launchers too, which end *)
(* unless they were started in the background.                              *)
MassKill(c) ==
  /\ forked[c] = "failed"
  /\ Client!TimeUp(c)
  /\ Server!UserQuit

ClientsDie ==
  /\ parent' = [c \in Consoles |-> IF Client!ParentAlive(c) THEN "killed" ELSE parent[c]]
  /\ child' = [c \in Consoles |-> IF Client!ChildAlive(c) THEN "dead" ELSE child[c]]
  /\ UNCHANGED <<cmd, opening, fds, depth, forked, left, missed>>

(* The user's login ends, with all its processes. *)
LogOut == Server!UserKilled /\ ClientsDie

Reboot == Server!Reboot /\ ClientsDie

Next ==
  \/ \E i \in Instances : ServerStep(i)
  \/ \E c \in Consoles : ClientStep(c) \/ MassKill(c)
  \/ LogOut
  \/ Reboot

Spec == Init /\ [][Next]_vars
-----------------------------------------------------------------------------
(* A client is connected while it runs and holds its channels. *)
Connected(c) == parent[c] \in {"dispatch", "auth", "fork", "wait", "countdown"}

(* A Ccli that got past its four open() calls did so after a server had     *)
(* passed its check since the boot, whatever failed, died and was restarted *)
(* in between: it never talks to channels nobody owned.                     *)
CcliConnectsAfterClaim ==
  \A c \in Consoles : Connected(c) /\ Program[c] = "ccli" => claims >= 1

(* What the check of server.c is for holds among the clients too, a kill(-1) *)
(* of theirs included (see ServerStartup): it is passed once per boot, by one *)
(* server at a time, whose files no other start truncates, and the whole is   *)
(* the once-per-boot lock.                                                    *)
OneClaimPerBoot == Server!OneClaimPerBoot
AtMostOneServing == Server!AtMostOneServing
NoTruncationWhileServing == Server!NoTruncationWhileServing
LockSpec == Server!LockSpec
=============================================================================
