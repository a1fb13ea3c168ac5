---------------------------- MODULE ConsoleProofs ---------------------------
(***************************************************************************)
(* Proofs about Console for any number of clients, any command lines and   *)
(* any limits, with failing forks and killed processes: types, the bound   *)
(* of the descriptors lost to retries, and which session a client that     *)
(* ended by itself can leave behind.                                       *)
(***************************************************************************)
EXTENDS Console, TLAPS

(* The countdown starts from an integer, negative perhaps. *)
LEMMA LimitIsInt ==
  ASSUME TypeOK, NEW c \in Consoles
  PROVE  Limit(cmd[c]) \in Int
<1>1. \A a \in CommandLine : a.time \in Int
  BY DEF CommandLine
<1>2. NoCommand \in CommandLine
  BY DEF NoCommand, CommandLine
<1>3. cmd[c] \in CommandLine
  BY <1>2, ConsoleAssumption DEF TypeOK
<1>4. QED
  BY <1>1, <1>3, ConsoleAssumption DEF Limit

LEMMA TypeStep == TypeOK /\ [Next]_vars => TypeOK'
<1> SUFFICES ASSUME TypeOK, [Next]_vars PROVE TypeOK'
  OBVIOUS
<1> USE ConsoleAssumption DEF TypeOK, Channels, At, Go, Needed
<1>1. ASSUME NEW c \in Consoles, Start(c) PROVE TypeOK'
  BY <1>1 DEF Start
<1>2. ASSUME NEW c \in Consoles, OpenChannel(c) PROVE TypeOK'
  BY <1>2 DEF OpenChannel
<1>3. ASSUME NEW c \in Consoles, OpenFails(c) PROVE TypeOK'
  BY <1>3 DEF OpenFails
<1>4. ASSUME NEW c \in Consoles, Retry(c) PROVE TypeOK'
  BY <1>4 DEF Retry
<1>5. ASSUME NEW c \in Consoles, StackOverflow(c) PROVE TypeOK'
  BY <1>5 DEF StackOverflow
<1>6. ASSUME NEW c \in Consoles, Dispatch(c) PROVE TypeOK'
  BY <1>6 DEF Dispatch
<1>7. ASSUME NEW c \in Consoles, ForkSession(c) PROVE TypeOK'
  BY <1>7, LimitIsInt DEF ForkSession, ParentGoesOn
<1>8. ASSUME NEW c \in Consoles, ForkFails(c) PROVE TypeOK'
  BY <1>8, LimitIsInt DEF ForkFails, ParentGoesOn
<1>9. ASSUME NEW c \in Consoles, WaitReturns(c) PROVE TypeOK'
  BY <1>9 DEF WaitReturns
<1>10. ASSUME NEW c \in Consoles, Tick(c) PROVE TypeOK'
  BY <1>10 DEF Tick
<1>11. ASSUME NEW c \in Consoles, TimeUp(c) PROVE TypeOK'
  BY <1>11 DEF TimeUp, QuitParent, QuitChild, QuitMissed
<1>12. ASSUME NEW c \in Consoles, SessionBegins(c) PROVE TypeOK'
  BY <1>12 DEF SessionBegins, QuitParent, QuitChild, QuitMissed
<1>13. ASSUME NEW c \in Consoles, AuthSucceeds(c) PROVE TypeOK'
  BY <1>13 DEF AuthSucceeds
<1>14. ASSUME NEW c \in Consoles, AuthFails(c) PROVE TypeOK'
  BY <1>14 DEF AuthFails
<1>15. ASSUME NEW c \in Consoles, SessionEnds(c) \/ EnterShell(c) \/ LeaveShell(c) PROVE TypeOK'
  BY <1>15 DEF SessionEnds, EnterShell, LeaveShell
<1>16. ASSUME NEW c \in Consoles, ProcessKilled(c) PROVE TypeOK'
  BY <1>16 DEF ProcessKilled
<1>17. CASE ServerMoves
  BY <1>17 DEF ServerMoves, clientVars
<1>18. CASE UNCHANGED vars
  BY <1>18 DEF vars, clientVars
<1>19. QED
  BY <1>1, <1>2, <1>3, <1>4, <1>5, <1>6, <1>7, <1>8, <1>9, <1>10, <1>11, <1>12,
     <1>13, <1>14, <1>15, <1>16, <1>17, <1>18 DEF Next, ClientNext, Step

(* Every variable keeps its type: the descriptors and the calls of main() *)
(* stay within the limits of the process.                                 *)
THEOREM ConsoleTypeCorrect == Spec => []TypeOK
<1>1. Init => TypeOK
  BY ConsoleAssumption DEF Init, TypeOK
<1>2. QED
  BY <1>1, TypeStep, PTL DEF Spec

-----------------------------------------------------------------------------
(* No session before the fork(), and after the parent has exited only one that *)
(* missed its end; what ignores the signal is a c-bot in a shell command, or   *)
(* was told to from the start.                                                 *)
SessionNeedsParent ==
  \A c \in Consoles :
    /\ parent[c] \in {"off", "connect", "sleep", "dispatch", "auth", "fork", "crashed"}
         => ~ChildAlive(c)
    /\ parent[c] = "countdown" => Mode(cmd[c]) = "timed"
    /\ parent[c] = "fork" => Mode(cmd[c]) \in {"plain", "timed"}
    /\ parent[c] = "exited" /\ ChildAlive(c) => missed[c] /\ Mode(cmd[c]) = "timed"
    /\ child[c] = "shell" => Program[c] = "cbot"
    /\ missed[c] => Program[c] = "cbot" \/ c \in Ignoring

LEMMA SessionStep ==
  ASSUME TypeOK, SessionNeedsParent, [Next]_vars
  PROVE  SessionNeedsParent'
<1> USE ConsoleAssumption DEF TypeOK, SessionNeedsParent, ChildAlive, ChildListens, ChildIgnores, ParentAlive, At, Go
<1>1. ASSUME NEW c \in Consoles, Start(c) PROVE SessionNeedsParent'
  BY <1>1 DEF Start
<1>2. ASSUME NEW c \in Consoles, OpenChannel(c) PROVE SessionNeedsParent'
  BY <1>2 DEF OpenChannel
<1>3. ASSUME NEW c \in Consoles, OpenFails(c) PROVE SessionNeedsParent'
  BY <1>3 DEF OpenFails
<1>4. ASSUME NEW c \in Consoles, Retry(c) PROVE SessionNeedsParent'
  BY <1>4 DEF Retry
<1>5. ASSUME NEW c \in Consoles, StackOverflow(c) PROVE SessionNeedsParent'
  BY <1>5 DEF StackOverflow
<1>6. ASSUME NEW c \in Consoles, Dispatch(c) PROVE SessionNeedsParent'
  BY <1>6 DEF Dispatch
<1>7. ASSUME NEW c \in Consoles, ForkSession(c) PROVE SessionNeedsParent'
  BY <1>7 DEF ForkSession, ParentGoesOn
<1>8. ASSUME NEW c \in Consoles, ForkFails(c) PROVE SessionNeedsParent'
  BY <1>8 DEF ForkFails, ParentGoesOn
<1>9. ASSUME NEW c \in Consoles, WaitReturns(c) PROVE SessionNeedsParent'
  BY <1>9 DEF WaitReturns
<1>10. ASSUME NEW c \in Consoles, Tick(c) PROVE SessionNeedsParent'
  BY <1>10 DEF Tick
<1>11. ASSUME NEW c \in Consoles, TimeUp(c) PROVE SessionNeedsParent'
  BY <1>11 DEF TimeUp, QuitParent, QuitChild, QuitMissed
<1>12. ASSUME NEW c \in Consoles, SessionBegins(c) PROVE SessionNeedsParent'
  BY <1>12 DEF SessionBegins, QuitParent, QuitChild, QuitMissed
<1>13. ASSUME NEW c \in Consoles, AuthSucceeds(c) PROVE SessionNeedsParent'
  BY <1>13 DEF AuthSucceeds
<1>14. ASSUME NEW c \in Consoles, AuthFails(c) PROVE SessionNeedsParent'
  BY <1>14 DEF AuthFails
<1>15. ASSUME NEW c \in Consoles, SessionEnds(c) \/ EnterShell(c) \/ LeaveShell(c) PROVE SessionNeedsParent'
  BY <1>15 DEF SessionEnds, EnterShell, LeaveShell
<1>16. ASSUME NEW c \in Consoles, ProcessKilled(c) PROVE SessionNeedsParent'
  BY <1>16 DEF ProcessKilled
<1>17. CASE ServerMoves
  BY <1>17 DEF ServerMoves, clientVars
<1>18. CASE UNCHANGED vars
  BY <1>18 DEF vars, clientVars
<1>19. QED
  BY <1>1, <1>2, <1>3, <1>4, <1>5, <1>6, <1>7, <1>8, <1>9, <1>10, <1>11, <1>12,
     <1>13, <1>14, <1>15, <1>16, <1>17, <1>18 DEF Next, ClientNext, Step

(* A client that ended by itself leaves a session running only if that is a *)
(* timed one which ignored the SIGQUIT at the end of its time, whatever was *)
(* killed and whichever fork() failed: never a Ccli's, nor a plain one.     *)
THEOREM NoOrphans == Spec => []NoSessionLeftBehind
<1>1. Init => TypeOK /\ SessionNeedsParent
  BY ConsoleAssumption DEF Init, TypeOK, SessionNeedsParent, ChildAlive
<1>2. TypeOK /\ SessionNeedsParent /\ [Next]_vars => TypeOK' /\ SessionNeedsParent'
  BY TypeStep, SessionStep
<1>3. SessionNeedsParent => NoSessionLeftBehind
  BY DEF SessionNeedsParent, NoSessionLeftBehind
<1>4. QED
  BY <1>1, <1>2, <1>3, PTL DEF Spec

-----------------------------------------------------------------------------
(* While the channels are opened, the descriptors are those of the calls that *)
(* failed, at most Waste(c) each, and those of this call.                     *)
LeakInv ==
  \A c \in Consoles :
    /\ parent[c] = "off" => fds[c] = 0 /\ opening[c] = 1 /\ depth[c] = 0
    /\ Trying(c) => /\ depth[c] >= 1
                    /\ opening[c] <= Needed(c)
                    /\ fds[c] <= Waste(c) * (depth[c] - 1) + opening[c] - 1
    /\ fds[c] <= Waste(c) * depth[c] + 1

LEMMA LeakStep ==
  ASSUME TypeOK, LeakInv, [Next]_vars
  PROVE  LeakInv'
<1> USE ConsoleAssumption DEF TypeOK, LeakInv, Trying, Waste, Needed, ParentAlive, At, Go
<1>1. ASSUME NEW c \in Consoles, Start(c) PROVE LeakInv'
  BY <1>1 DEF Start
<1>2. ASSUME NEW c \in Consoles, OpenChannel(c) PROVE LeakInv'
  BY <1>2 DEF OpenChannel
<1>3. ASSUME NEW c \in Consoles, OpenFails(c) PROVE LeakInv'
  BY <1>3 DEF OpenFails
<1>4. ASSUME NEW c \in Consoles, Retry(c) PROVE LeakInv'
  BY <1>4 DEF Retry
<1>5. ASSUME NEW c \in Consoles, StackOverflow(c) PROVE LeakInv'
  BY <1>5 DEF StackOverflow
<1>6. ASSUME NEW c \in Consoles, Dispatch(c) PROVE LeakInv'
  BY <1>6 DEF Dispatch
<1>7. ASSUME NEW c \in Consoles, ForkSession(c) PROVE LeakInv'
  BY <1>7 DEF ForkSession, ParentGoesOn
<1>8. ASSUME NEW c \in Consoles, ForkFails(c) PROVE LeakInv'
  BY <1>8 DEF ForkFails, ParentGoesOn
<1>9. ASSUME NEW c \in Consoles, WaitReturns(c) PROVE LeakInv'
  BY <1>9 DEF WaitReturns
<1>10. ASSUME NEW c \in Consoles, Tick(c) PROVE LeakInv'
  BY <1>10 DEF Tick
<1>11. ASSUME NEW c \in Consoles, TimeUp(c) PROVE LeakInv'
  BY <1>11 DEF TimeUp, QuitParent, QuitChild, QuitMissed
<1>12. ASSUME NEW c \in Consoles, SessionBegins(c) PROVE LeakInv'
  BY <1>12 DEF SessionBegins, QuitParent, QuitChild, QuitMissed
<1>13. ASSUME NEW c \in Consoles, AuthSucceeds(c) PROVE LeakInv'
  BY <1>13 DEF AuthSucceeds
<1>14. ASSUME NEW c \in Consoles, AuthFails(c) PROVE LeakInv'
  BY <1>14 DEF AuthFails
<1>15. ASSUME NEW c \in Consoles, SessionEnds(c) \/ EnterShell(c) \/ LeaveShell(c) PROVE LeakInv'
  BY <1>15 DEF SessionEnds, EnterShell, LeaveShell
<1>16. ASSUME NEW c \in Consoles, ProcessKilled(c) PROVE LeakInv'
  BY <1>16 DEF ProcessKilled
<1>17. CASE ServerMoves
  BY <1>17 DEF ServerMoves, clientVars
<1>18. CASE UNCHANGED vars
  BY <1>18 DEF vars, clientVars
<1>19. QED
  BY <1>1, <1>2, <1>3, <1>4, <1>5, <1>6, <1>7, <1>8, <1>9, <1>10, <1>11, <1>12,
     <1>13, <1>14, <1>15, <1>16, <1>17, <1>18 DEF Next, ClientNext, Step

(* The descriptors a client has lost are bounded by its calls of main(). *)
THEOREM LeaksBounded == Spec => []RetryBudget
<1>1. Init => TypeOK /\ LeakInv
  BY ConsoleAssumption DEF Init, TypeOK, LeakInv, Trying, Waste, Needed
<1>2. TypeOK /\ LeakInv /\ [Next]_vars => TypeOK' /\ LeakInv'
  BY TypeStep, LeakStep
<1>3. LeakInv => RetryBudget
  BY DEF LeakInv, RetryBudget
<1>4. QED
  BY <1>1, <1>2, <1>3, PTL DEF Spec

=============================================================================
