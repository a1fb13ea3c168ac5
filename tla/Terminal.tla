------------------------------- MODULE Terminal -----------------------------
(***************************************************************************)
(* The standard input of the processes: a terminal, or the pipe or file a  *)
(* script gives them.  Every line that is typed goes to the one process    *)
(* whose read is served first.  After the end of input every read returns  *)
(* at once, with nothing.                                                  *)
(***************************************************************************)
EXTENDS Tokenizer

CONSTANTS
  InputLines,    \* the lines that may be typed, their newline included
  MaxTyped       \* how many are typed at most

ASSUME InputAssumption ==
  /\ InputLines \subseteq Seq(STRING) \ {<<>>}
  /\ MaxTyped \in Nat

VARIABLES
  typed,         \* the number of lines read so far
  closed         \* has the end of the input been reached?

terminalVars == <<typed, closed>>

(* One line per read.  A line without a newline is sent by the end of the *)
(* input, or by an end-of-file key in the middle of it, which ends nothing. *)
Typed(line, end) ==
  /\ typed < MaxTyped /\ ~closed
  /\ end => Last(line) # "\n"
  /\ typed' = typed + 1
  /\ closed' = end

HangUp ==
  /\ ~closed
  /\ closed' = TRUE
  /\ UNCHANGED typed
=============================================================================
