------------------------------- MODULE RcLocal ------------------------------
(***************************************************************************)
(* startup(STARTUP_DISABLE) of server.c, which main() runs for             *)
(* "LoggingServer --startup disable": /etc/rc.local is read byte by byte,  *)
(* removed, and newrc.local is renamed to it.  Several calls may run at    *)
(* the same time, and any of them may be killed between two system calls.  *)
(* What the file operations after the loop return is looked at by nobody:  *)
(* rm and rename may fail, and an rm outlives the call that started it.    *)
(* The other mode, STARTUP_ENABLE, is called by nobody.                    *)
(*                                                                         *)
(* The calls share the two directory entries; a file is the set of its     *)
(* lines.  They are run by root (anybody else gets the error answer) on a  *)
(* file system that keeps the order of directory operations.               *)
(***************************************************************************)
CONSTANTS
  Calls,         \* the runs of "LoggingServer --startup disable"
  Lines,         \* the lines of /etc/rc.local before the first of them
  StartLine,     \* the one that starts the server, STARTCMD
  Nothing        \* not a line: stands for the file that does not exist

ASSUME LinesAssumption ==
  /\ StartLine \in Lines
  /\ Nothing \notin Lines

Missing == {Nothing}

VARIABLES
  rc,            \* /etc/rc.local
  newrc,         \* /etc/newrc.local
  at,            \* the next system call of each call of startup(), or its answer
  removing,      \* the calls whose rm is running
  failed,        \* those of its two unchecked operations that have failed each call
  overlap        \* whether a call has ever begun while another, or its rm, was about

vars == <<rc, newrc, at, removing, failed, overlap>>

InFlight == {"open", "create", "scan", "remove", "wait", "rename"}
Answers  == {"success", "error"}
Unchecked == {"rm", "rename"}

TypeOK ==
  /\ rc \in (SUBSET Lines) \cup {Missing}
  /\ newrc \in (SUBSET Lines) \cup {Missing}
  /\ at \in [Calls -> InFlight \cup Answers \cup {"idle", "dead"}]
  /\ removing \in SUBSET Calls
  /\ failed \in [Calls -> SUBSET Unchecked]
  /\ overlap \in BOOLEAN

Running(c) == at[c] \in InFlight

Init ==
  /\ rc = Lines
  /\ newrc = Missing
  /\ at = [c \in Calls |-> "idle"]
  /\ removing = {}
  /\ failed = [c \in Calls |-> {}]
  /\ overlap = FALSE

GoTo(c, p) == at' = [at EXCEPT ![c] = p]

Fails(c, operation) == failed' = [failed EXCEPT ![c] = @ \cup {operation}]

(* main() calls startup(STARTUP_DISABLE), for the first time or once more. *)
(* (While the rm of a dead call is about, the next call is another one.)   *)
Disable(c) ==
  /\ ~Running(c) /\ c \notin removing
  /\ GoTo(c, "open")
  /\ failed' = [failed EXCEPT ![c] = {}]
  /\ overlap' = (overlap \/ removing # {} \/ \E d \in Calls : Running(d))
  /\ UNCHANGED <<rc, newrc, removing>>

OpenRc(c) ==
  /\ at[c] = "open"
  /\ rc # Missing
  /\ GoTo(c, "create")
  /\ UNCHANGED <<rc, newrc, removing, failed, overlap>>

(* O_CREAT without O_TRUNC or O_EXCL: what is there is taken as it is. *)
OpenNew(c) ==
  /\ at[c] = "create"
  /\ newrc' = (IF newrc = Missing THEN {} ELSE newrc)
  /\ GoTo(c, "scan")
  /\ UNCHANGED <<rc, removing, failed, overlap>>

(* Slip: a call that gives up clears away the new file, as if it were its own. *)
DisableFails_TidiesUp(c) ==
  /\ at[c] \in {"open", "create"}
  /\ GoTo(c, "error")
  /\ newrc' = Missing
  /\ UNCHANGED <<rc, removing, failed, overlap>>

(* chdir() or one of the two open() calls fails. *)
DisableFails(c) ==
  /\ at[c] \in {"open", "create"}
  /\ GoTo(c, "error")
  /\ UNCHANGED <<rc, newrc, removing, failed, overlap>>

(* Slip: lines are written, but STARTCMD ends in a newline that line lacks. *)
Copied_All(lines) == lines

(* ch == '\n' compares the address of an array with 10: no line ever ends, *)
(* and a line is written when it ends.                                     *)
Copied(lines) == {}

(* The loop to the end of the file (a read error ends it as well).  All of *)
(* the file goes into line[512] through strcat(), which may run over the   *)
(* arrays behind it: newfname no longer names the new file, and the rename *)
(* will fail.  (What else it may do to the process is Killed.)             *)
Scan(c) ==
  /\ at[c] = "scan"
  /\ newrc' = (IF newrc = Missing THEN Missing ELSE newrc \cup Copied(Lines))
  /\ GoTo(c, "remove")
  /\ UNCHANGED <<rc, removing, failed, overlap>>

(* system("rm rc.local") starts a process of its own and waits for it, or *)
(* cannot start one, which is not looked at.                              *)
Remove(c) ==
  /\ at[c] = "remove"
  /\ \/ GoTo(c, "wait") /\ removing' = removing \cup {c} /\ UNCHANGED failed
     \/ GoTo(c, "rename") /\ Fails(c, "rm") /\ UNCHANGED removing
  /\ UNCHANGED <<rc, newrc, overlap>>

(* rm ends, with the file gone or not, and lets its call go on if that is *)
(* still alive; what rm returns is not looked at.                         *)
RmEnds(c) ==
  /\ c \in removing
  /\ removing' = removing \ {c}
  /\ \/ rc' = Missing /\ UNCHANGED failed
     \/ rc # Missing /\ rc' = rc /\ Fails(c, "rm")
  /\ at' = (IF at[c] = "wait" THEN [at EXCEPT ![c] = "rename"] ELSE at)
  /\ UNCHANGED <<newrc, overlap>>

(* rename() replaces rc.local.  Without the new file, or when it fails for *)
(* another reason, it does nothing, and the answer is the same.            *)
Rename(c) ==
  /\ at[c] = "rename"
  /\ \/ newrc # Missing /\ rc' = newrc /\ newrc' = Missing /\ UNCHANGED failed
     \/ newrc # Missing /\ Fails(c, "rename") /\ UNCHANGED <<rc, newrc>>
     \/ newrc = Missing /\ UNCHANGED <<rc, newrc, failed>>
  /\ GoTo(c, "success")
  /\ UNCHANGED <<removing, overlap>>

(* The call is killed; an rm it has started goes on. *)
Killed(c) ==
  /\ Running(c)
  /\ GoTo(c, "dead")
  /\ UNCHANGED <<rc, newrc, removing, failed, overlap>>

(* The power fails: every call and every rm is gone, the disk is as it was. *)
PowerFails ==
  /\ at' = [c \in Calls |-> IF Running(c) THEN "dead" ELSE at[c]]
  /\ removing' = {}
  /\ UNCHANGED <<rc, newrc, failed, overlap>>

Step(c) ==
  \/ Disable(c)
  \/ OpenRc(c)
  \/ OpenNew(c)
  \/ DisableFails(c)
  \/ Scan(c)
  \/ Remove(c)
  \/ RmEnds(c)
  \/ Rename(c)
  \/ Killed(c)

Next == (\E c \in Calls : Step(c)) \/ PowerFails

Spec == Init /\ [][Next]_vars
-----------------------------------------------------------------------------
(* As long as no two calls of startup() have run at the same time, one of  *)
(* rc.local and newrc.local is there at every moment: whatever call is     *)
(* killed, whenever the power fails, if rm or rename fails unnoticed, and  *)
(* when an rm outlives its call.  (Two calls at once lose both: the second *)
(* rm removes what the first call has renamed, and the second rename finds *)
(* no new file.)                                                           *)
OneFileStays == ~overlap => rc # Missing \/ newrc # Missing

(* A call that answers "Successfully removed the Logging Server from       *)
(* startup execution" is right about that, with any other calls running or *)
(* dying around it, as long as one of its own two operations has worked:   *)
(* the start command is not in rc.local and does not come back.  Only an   *)
(* rm and a rename that both failed, unnoticed, make the answer untrue.    *)
TakenOut ==
  \A c \in Calls :
    at[c] = "success" /\ failed[c] # Unchecked => rc = Missing \/ StartLine \notin rc
=============================================================================
