------------------------------ MODULE MCConsole -----------------------------
(* Instances of Console for TLC: one Ccli and one c-bot. *)
EXTENDS Console, TLC

CONSTANTS c1, c2

MCConsoles == {c1, c2}
MCProgram == (c1 :> "ccli") @@ (c2 :> "cbot")

(* Started from two terminals, or by one script. *)
MCJobs == [c \in MCConsoles |-> c]
MCOneJob == [c \in MCConsoles |-> "script"]

Cmd(argc, flags, long, time) == [argc |-> argc, flags |-> flags, long |-> long, time |-> time]

(* A plain session, the default time, a time of one second, a time that is *)
(* not a number, a registration, and a command line of no use.             *)
MCCommands ==
  { Cmd(3, TRUE, FALSE, 0), Cmd(4, TRUE, FALSE, 0), Cmd(5, TRUE, FALSE, 1),
    Cmd(5, TRUE, FALSE, 0), Cmd(6, TRUE, FALSE, 0), Cmd(6, TRUE, TRUE, 0) }

(* The sessions alone: plain, the default time, and a negative one. *)
MCSessions == { Cmd(3, TRUE, FALSE, 0), Cmd(4, TRUE, FALSE, 0), Cmd(5, TRUE, FALSE, -1) }
=============================================================================
