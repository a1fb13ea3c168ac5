-------------------------------- MODULE Agents ------------------------------
(***************************************************************************)
(* The loops of the Auth Agent and the Agent in main() of server.c, once   *)
(* the server is up.  "AUTH=open(...) == -1" compares before it assigns:   *)
(* AUTH, AUTHRT and INBOUND are all 0, so that both agents read their      *)
(* requests from the standard input they inherited, and the one reply, of  *)
(* the Auth Agent, goes there as well.  What follows the count of the      *)
(* arguments in the two loops has no effect.  A read() that fails, as it   *)
(* does behind an interactive shell, is slept over and changes nothing.    *)
(***************************************************************************)
EXTENDS Terminal

CONSTANTS
  Readers,       \* the two loops, of "AUTH" and of "AGENT"
  Size           \* MAXLEN, the bytes of buffer[]

NUL == "NUL"

ASSUME SizeAssumption ==
  /\ Size \in Nat
  /\ NUL \in STRING     \* of a literal the provers do not know it
  /\ \A line \in InputLines : /\ Len(line) < Size
                              /\ \A i \in 1..Len(line) : line[i] # NUL

VARIABLES
  buffer,        \* buffer[MAXLEN] of each agent
  request,       \* the text its last read() that returned any brought
  args,          \* the arguments it found
  told           \* has it just written INVFORMAT?

agentVars == <<buffer, request, args, told>>

AgentsInit ==
  /\ buffer = [a \in Readers |-> [i \in 1..Size |-> NUL]]
  /\ request = [a \in Readers |-> <<>>]
  /\ args = [a \in Readers |-> <<>>]
  /\ told = [a \in Readers |-> FALSE]

(* read() overwrites as much of the buffer as it brings, and adds no NUL. *)
Overwritten(buf, text) ==
  [i \in 1..Size |-> IF i <= Len(text) THEN text[i] ELSE buf[i]]

(* The text the tokenizer sees: up to the first NUL. *)
TextIn(buf) ==
  SubSeq(buf, 1, (CHOOSE n \in 0..Size :
                    /\ \A i \in 1..n : buf[i] # NUL
                    /\ n = Size \/ buf[n + 1] = NUL))

Cut(buf) ==
  [i \in 1..Size |->
     IF i <= Len(TextIn(buf)) /\ Ended(TextIn(buf), i) THEN NUL ELSE buf[i]]

(* parse_sv() on the buffer; fewer than three arguments are told so. *)
ParseRequest(a, buf) ==
  LET found == Args(TextIn(buf))
  IN  /\ buffer' = [buffer EXCEPT ![a] = Cut(buf)]
      /\ args' = [args EXCEPT ![a] = found]
      /\ told' = [told EXCEPT ![a] = a = "AUTH" /\ Len(found) < 3]

ReadRequest(a) ==
  \E line \in InputLines, end \in BOOLEAN :
    /\ Typed(line, end)
    /\ request' = [request EXCEPT ![a] = line]
    /\ ParseRequest(a, Overwritten(buffer[a], line))

(* At the end of the input read() returns 0, which is not < 0: the buffer is *)
(* parsed as it is.                                                          *)
ReadNothing(a) ==
  /\ closed
  /\ ParseRequest(a, buffer[a])
  /\ UNCHANGED <<request, terminalVars>>

AgentsNext == \E a \in Readers : ReadRequest(a) \/ ReadNothing(a)
-----------------------------------------------------------------------------
(* The buffer is never cleared, so that the text of a request runs on into *)
(* what earlier requests left behind it.  Still no request gets an         *)
(* argument more or fewer than its own text has: the residue is joined to  *)
(* its last argument (for a line that ends in a newline that is the empty  *)
(* one), whatever requests came before and however long they were.  Read   *)
(* again at the end of the input, a request is down to its first word, or  *)
(* nothing, and the Auth Agent says that the format is invalid.            *)
StaleTailOnly ==
  \A a \in Readers :
    LET own == Args(request[a])
        n == Len(args[a])
    IN  \/ /\ n = Len(own)
           /\ \A k \in 1..n - 1 : args[a][k] = own[k]
           /\ n > 0 => IsPrefix(own[n], args[a][n])
        \/ /\ closed /\ n <= 1
           /\ told[a] <=> a = "AUTH"
=============================================================================
