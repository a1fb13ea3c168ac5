--------------------------- MODULE SharedTerminal ---------------------------
(***************************************************************************)
(* The c-bots and the agents of a server that were started on the same     *)
(* terminal: each line typed goes to one of them.                          *)
(***************************************************************************)
EXTENDS CBot, Agents

allVars == <<terminalVars, cbotVars, agentVars>>

Init ==
  /\ typed = 0 /\ closed = FALSE
  /\ CBotInit
  /\ AgentsInit

Next ==
  \/ CBotNext /\ UNCHANGED agentVars
  \/ AgentsNext /\ UNCHANGED cbotVars
  \/ HangUp /\ UNCHANGED <<cbotVars, agentVars>>

Spec == Init /\ [][Next]_allVars
=============================================================================
