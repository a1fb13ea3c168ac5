--------------------------------- MODULE CBot -------------------------------
(***************************************************************************)
(* cbot() of crypto.c, the command loop of c-bot, and the three commands   *)
(* that download: a shell command writes the answer to a file of the       *)
(* working directory, which is then parsed and printed.  Several sessions  *)
(* may run in one directory.  What is printed is left out: the printing    *)
(* functions return whatever they are given.                               *)
(***************************************************************************)
EXTENDS Terminal

CONSTANTS
  Sessions,      \* the processes that have called cbot()
  Top, Listings, Global, Data,   \* the command words
  Garbage,       \* what an uninitialised buffer[] may hold
  MaxArgs        \* the 64 pointers of args[]

ASSUME WordsAssumption ==
  /\ {Top, Listings, Global, Data, Garbage} \subseteq Seq(STRING)
  /\ Len(Top) = 3
  /\ MaxArgs \in Nat /\ MaxArgs > 1

Downloads == {Top, Listings, Global}

VARIABLES
  pc,            \* where each session is
  line,          \* its buffer, up to the first NUL
  fresh,         \* did that come from fgets() since the last command?
  cmd,           \* the download it is at
  answer,        \* what the network gave for it
  disturbed,     \* has another session touched its file in the meantime?
  file           \* the three files: "none", "junk", "other" or "object"

cbotVars == <<pc, line, fresh, cmd, answer, disturbed, file>>

CBotInit ==
  /\ pc = [c \in Sessions |-> "start"]
  /\ line \in [Sessions -> {<<>>, Garbage}]
  /\ fresh = [c \in Sessions |-> FALSE]
  /\ cmd = [c \in Sessions |-> Top]
  /\ answer = [c \in Sessions |-> "none"]
  /\ disturbed = [c \in Sessions |-> FALSE]
  /\ file = [d \in Downloads |-> "none"]

CGoTo(c, p) == pc' = [pc EXCEPT ![c] = p]

(* mkdir("data") that fails for another reason than EEXIST ends the session. *)
MakeDataDir(c) ==
  /\ pc[c] = "start"
  /\ \/ CGoTo(c, "prompt") /\ UNCHANGED answer
     \/ CGoTo(c, "returned") /\ answer' = [answer EXCEPT ![c] = "nodir"]
  /\ UNCHANGED <<line, fresh, cmd, disturbed, file, terminalVars>>

(* fgets() brings a line, which lacks its newline at the end of the input *)
(* only, or else NULL, and the buffer stays as it is.                     *)
ReadLine(c) ==
  /\ pc[c] = "prompt"
  /\ \E l \in InputLines :
       /\ Typed(l, Last(l) # "\n")
       /\ line' = [line EXCEPT ![c] = l]
  /\ fresh' = [fresh EXCEPT ![c] = TRUE]
  /\ CGoTo(c, "execute")
  /\ UNCHANGED <<cmd, answer, disturbed, file>>

ReadEnd(c) ==
  /\ pc[c] = "prompt"
  /\ closed
  /\ fresh' = [fresh EXCEPT ![c] = FALSE]
  /\ CGoTo(c, "execute")
  /\ UNCHANGED <<line, cmd, answer, disturbed, file, terminalVars>>

(* Slip: a command of three letters needs no newline. *)
TooShort_Three(text) == Len(text) < 3

TooShort(text) == Len(text) < 4

Stripped(text) == IF Last(text) = "\n" THEN Front(text) ELSE text

(* What is left in the buffer once parse_appcli() has cut it. *)
FirstString(text) ==
  SubSeq(text, 1, (CHOOSE n \in 0..Len(text) :
                     /\ \A i \in 1..n : ~Ended(text, i)
                     /\ n = Len(text) \/ Ended(text, n + 1)))

Command(text) == Args(text)[1]

(* strcmp(args[1], "data") after "global": args[1] may be NULL. *)
LoneGlobal(text) == Command(text) = Global /\ Len(Args(text)) = 1

(* args[] has no room for the arguments and the NULL behind them. *)
TooMany(text) == Len(Args(text)) >= MaxArgs

(* The commands that download; of "global" only "global data". *)
IsDownload(text) ==
  \/ Command(text) \in {Top, Listings}
  \/ /\ Command(text) = Global
     /\ Len(Args(text)) > 1 /\ Args(text)[2] = Data

Ignore(c) ==
  /\ pc[c] = "execute"
  /\ TooShort(line[c])
  /\ CGoTo(c, "prompt")
  /\ UNCHANGED <<line, fresh, cmd, answer, disturbed, file, terminalVars>>

(* The line is cut and its first word compared: a download begins, or      *)
(* something is printed ("help", "track", "info" and unknown commands).    *)
(* An overrun of args[] may go unnoticed.                                  *)
Execute(c) ==
  LET text == Stripped(line[c])
  IN  /\ pc[c] = "execute"
      /\ ~TooShort(line[c])
      /\ ~LoneGlobal(text)
      /\ line' = [line EXCEPT ![c] = FirstString(text)]
      /\ IF IsDownload(text)
         THEN CGoTo(c, "shell") /\ cmd' = [cmd EXCEPT ![c] = Command(text)]
         ELSE CGoTo(c, "prompt") /\ UNCHANGED cmd
      /\ UNCHANGED <<fresh, answer, disturbed, file, terminalVars>>

(* The process is killed by a NULL argument or an overrun array. *)
Crash(c) ==
  LET text == Stripped(line[c])
  IN  /\ pc[c] = "execute"
      /\ ~TooShort(line[c])
      /\ LoneGlobal(text) \/ TooMany(text)
      /\ CGoTo(c, "crashed")
      /\ UNCHANGED <<line, fresh, cmd, answer, disturbed, file, terminalVars>>

(* The sessions that are between the opening and the reading of c's file. *)
Sharing(c) ==
  {d \in Sessions \ {c} : pc[d] \in {"curl", "parse"} /\ cmd[d] = cmd[c]}

Disturb(others) ==
  disturbed' = [d \in Sessions |-> disturbed[d] \/ d \in others]

(* The shell opens "> file" and truncates it before curl runs. *)
Truncate(c) ==
  /\ pc[c] = "shell"
  /\ file' = [file EXCEPT ![cmd[c]] = "junk"]
  /\ disturbed' = [d \in Sessions |->
       IF d = c THEN \E e \in Sharing(c) : pc[e] = "curl"
       ELSE disturbed[d] \/ d \in Sharing(c)]
  /\ CGoTo(c, "curl")
  /\ UNCHANGED <<line, fresh, cmd, answer, terminalVars>>

(* system() cannot start a shell: nobody looks, and the old file is parsed. *)
NoShell(c) ==
  /\ pc[c] = "shell"
  /\ answer' = [answer EXCEPT ![c] = "junk"]
  /\ disturbed' = [disturbed EXCEPT ![c] = FALSE]
  /\ CGoTo(c, "parse")
  /\ UNCHANGED <<line, fresh, cmd, file, terminalVars>>

(* curl ends.  The answer may be no JSON (no network, an error page), JSON  *)
(* that is no object, or the object asked for.  Two curls write to one file *)
(* at their own offsets, and neither answer need come out of it.            *)
Deliver(c) ==
  /\ pc[c] = "curl"
  /\ \E a \in {"junk", "other", "object"} :
       /\ answer' = [answer EXCEPT ![c] = a]
       /\ \E left \in (IF disturbed[c] THEN {a, "junk"} ELSE {a}) :
            file' = [file EXCEPT ![cmd[c]] = left]
  /\ Disturb(Sharing(c))
  /\ CGoTo(c, "parse")
  /\ UNCHANGED <<line, fresh, cmd, terminalVars>>

(* Slip: every command insists on an object. *)
Accepted_ObjectOnly(d, content) == content = "object"

(* json_parse_file() gives a value of JSON only; "listings" wants an object. *)
Accepted(d, content) ==
  content \in (IF d = Listings THEN {"object"} ELSE {"object", "other"})

(* The file is parsed and printed; the values of earlier downloads leak. *)
Parse(c) ==
  /\ pc[c] = "parse"
  /\ CGoTo(c, IF Accepted(cmd[c], file[cmd[c]]) THEN "prompt" ELSE "returned")
  /\ UNCHANGED <<line, fresh, cmd, answer, disturbed, file, terminalVars>>

CBotStep(c) ==
  \/ MakeDataDir(c)
  \/ ReadLine(c)
  \/ ReadEnd(c)
  \/ Ignore(c)
  \/ Execute(c)
  \/ Crash(c)
  \/ Truncate(c)
  \/ NoShell(c)
  \/ Deliver(c)
  \/ Parse(c)

CBotNext == \E c \in Sessions : CBotStep(c)

CBotSpec == CBotInit /\ [][CBotNext]_cbotVars
-----------------------------------------------------------------------------
(* A session has no command to leave it.  It is returned from when the     *)
(* data directory cannot be made or the answer to its last download was    *)
(* not the JSON wanted, and otherwise only because another session in the  *)
(* directory downloaded the same data between the opening and the reading  *)
(* of its file; an answer that never reached the file counts as none.      *)
EndsForAReason ==
  \A c \in Sessions : pc[c] = "returned" =>
    \/ disturbed[c]
    \/ answer[c] \in {"nodir", "junk"}
    \/ answer[c] = "other" /\ cmd[c] = Listings

(* At the end of the input the last command is executed again and again,   *)
(* but only as far as its first word and its four characters go: of the    *)
(* downloads "listings" alone is repeated, "top" is too short, and         *)
(* "global data" has become "global", which ends the session.  A session   *)
(* that has had no line executes what its buffer happens to hold.          *)
StaleCommand ==
  \A c \in Sessions : ~fresh[c] =>
    /\ pc[c] \in {"shell", "curl", "parse"} => cmd[c] \in {Listings, Command(Stripped(Garbage))}
    /\ pc[c] = "crashed" => line[c] \in {Global, Garbage}
=============================================================================
