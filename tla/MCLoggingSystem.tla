--------------------------- MODULE MCLoggingSystem --------------------------
(* Instances of LoggingSystem for TLC. *)
EXTENDS LoggingSystem, TLC

CONSTANT c1

MCCcli == {c1}
MCProgram == [c \in Consoles |-> "ccli"]
MCJobs == [c \in Consoles |-> c]

(* Timed sessions, whose parent may end up in kill(-1). *)
MCTimed == {[argc |-> 4, flags |-> TRUE, long |-> FALSE, time |-> 0]}
=============================================================================
