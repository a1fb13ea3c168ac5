---------------------------- MODULE SingleServer ----------------------------
(***************************************************************************)
(* What the start-up check of server.c promises: a lock that is taken at   *)
(* most once between two boots of the machine.  A Logging Server instance  *)
(* holds it from the moment its last mknod() succeeds until its last       *)
(* process has ended, and nothing short of a reboot makes it free again:   *)
(* a holder that dies leaves the lock spent.                               *)
(***************************************************************************)
CONSTANT Instances      \* the times LoggingServer may be started

VARIABLES
  serving,   \* the instances that hold the lock: past the check and alive
  spent      \* has the lock been taken since the machine booted?

vars == <<serving, spent>>

TypeOK ==
  /\ serving \in SUBSET Instances
  /\ spent \in BOOLEAN

Init ==
  /\ serving = {}
  /\ spent = FALSE

Acquire(i) ==
  /\ ~spent
  /\ spent' = TRUE
  /\ serving' = {i}

Die(i) ==
  /\ i \in serving
  /\ serving' = serving \ {i}
  /\ UNCHANGED spent

KillAll ==
  /\ serving' = {}
  /\ UNCHANGED spent

Reboot ==
  /\ serving' = {}
  /\ spent' = FALSE

Next ==
  \/ \E i \in Instances : Acquire(i) \/ Die(i)
  \/ KillAll
  \/ Reboot

Spec == Init /\ [][Next]_vars
=============================================================================
