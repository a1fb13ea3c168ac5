# c-bot and its Logging Server: models and proofs

The repository holds four programs' worth of C:

* **LoggingServer** (`server.c`, `parse_sv.c`): a server that is started from a
  shell, makes four channel files under `/tmp`, opens its log files and leaves
  three processes behind. `LoggingServer --startup disable` edits `/etc/rc.local`.
* **Ccli** (`ccli.c`, `parse_ccli.c`): a console client of the server.
* **c-bot** (`crypto.c`, `parse_appcli.c`): a client that downloads coin market
  data and shows it.
* **parson** (`parson.c`): the JSON library the others are linked with.

This directory models the parts of them that have state or compute something
that can go wrong, checks the models with TLC and proves their main invariants
with TLAPS.

## 1. Inventory

| component | state | operations | interacts with | hard because of |
|---|---|---|---|---|
| server start-up, `main()` of `server.c` | channel paths, log files, the launcher, the child, three agents | `mknod` check, opens, failure branches with `unlink`, `O_TRUNC` opens, `kill` of the launcher, two `fork`s | other instances through `/tmp` and the log files; clients through `/tmp` | instances racing, failures in between, stale paths after a crash |
| server agents, loops in `server.c` 167-243 | a buffer each | `read`, tokenise, answer or throw away | descriptor 0 only, with whoever shares it | buffer never cleared, end of input |
| `startup()` in `server.c` | `/etc/rc.local`, `/etc/newrc.local` | copy, remove, rename | other calls of it | death between remove and rename, an `rm` that outlives its call, failures nobody looks at, overlapping calls, a comparison that is never true |
| client `main()`, `ccli.c` and `crypto.c` | descriptors, stack, child, timer thread | connect and retry, dispatch of the arguments, `fork`, `wait`, count down, `kill` | `/tmp`; every process of the user by signals | leaks per retry, signals to groups and to everyone, signals that are ignored, failing `fork` |
| `getAuthenticated()` | reply buffer, offset in the reply file | write a request, read and compare replies | reply file shared by all clients | residue in the buffer, replies of others, several replies per read, missing `break` |
| c-bot command loop, `cbot()` | line buffer, downloaded files | commands, downloads by `system("curl ...")` | sessions in the same directory; standard input | end of input, files shared by sessions, answers that are not what they should be |
| tokenizers `parse_sv`, `parse_ccli`, `parse_appcli` | none | split a line in place | the loops above | trailing blanks, 64 arguments |
| parson values | a heap of values with parents, names, capacities | create, insert, replace, remove, clear, free | clients of the library | ownership, failing allocations half-way, removal by moving |
| parson parser, serializer, deep copy, equality, validation | none | recursive functions over text and values | files | depth limit, escapes and surrogates, comments, texts that were cut short |
| tracker and cleaner threads; `gentoken`, `genpseudoSaltedHash`, `avisot` | | called by nobody | | |

What makes each correct: the start-up check admits one instance (a lock), and
the lock protects the log files; a client connects if it can and leaves no
session behind; an authentication is answered according to the replies; a session of c-bot ends for a reason of its own; an
agent takes from a request what is in it; a boot file that is edited is not
lost; the values of parson form a forest in which each has one owner, names are
unique and nothing is lost; the parser reads the grammar and nothing else, and
what the serializer writes is read back as what it was.

`PROJECT.json` lists every component, and under `hazards` the lines where these
programs can go wrong in ways a test would hardly show.

## 2. Modules

| module | models |
|---|---|
| `SingleServer` | abstract: a lock that is taken at most once per boot |
| `ServerStartup` | `main()` of `server.c`, one action per system call on shared state |
| `Console` | `main()`, `ccli()`, the timer thread of both clients |
| `LoggingSystem` | `ServerStartup` and `Console` composed: shared `/tmp`, shared signals |
| `AuthClient` | `getAuthenticated()` of `ccli.c` |
| `Tokenizer` | the three tokenizers |
| `Terminal` | standard input, as its readers share it |
| `Agents` | the loops of the server's two agents, on `Terminal` and `Tokenizer` |
| `CBot` | the command loop of c-bot and its downloads, on the same |
| `SharedTerminal` | `CBot` and `Agents` composed: one standard input |
| `RcLocal` | `startup(STARTUP_DISABLE)` of `server.c` |
| `JsonHeap` | ownership in `parson.c` |
| `Utf8` | UTF-8 and UTF-16 in `parson.c` |
| `JsonString` | quoted strings and comments, character by character, on `Utf8` |
| `JsonText` | documents as tokens and trees: parser, serializer, copy, equality, validation |
| `ParsonProofs` | lemmas on induction and recursive functions; theorems (section 5) about `JsonHeap`, `Utf8` and `JsonString` |
| `DocumentProofs` | theorems about `JsonText` |
| `*Proofs` | theorems about the module of that name; `TerminalProofs` about `SharedTerminal` |
| `MC*` | instances for TLC; `MCJsonText` holds `JsonText` and `JsonString` |

Operators whose name has an underscore (`OpenFails_UnlinksOwn`) are slips: wrong
versions of the definition that follows them, each of which breaks a property.
They are part of no specification; `PROJECT.json` pairs them with the property.

### ServerStartup

One instance is a number of processes: the launcher (started by the shell), its
forked child, which does the work, and the agents the child splits into.
`phase` and `idx` are the child's place in `main()`; `idx` is the path or file
its next call is about. Each `mknod`, `open`, `unlink` is one action, because
other instances act in between. `nodes` are the paths that exist; `records[i]` are
the files under `logs/` and `db/` that instance `i` has opened and nobody has
truncated since: `OpenLog` adds the file to its own and, by `O_TRUNC`, takes it from
everybody else's.

Things worth knowing, because they decide how the model looks:

* `mknod(path, 0666, 0)` makes *regular files*; `open` therefore never blocks
  and read and write never wait for a peer.
* The check creates the paths in one order and the failure branches unlink them
  in another, never the last one, `FIFOAUTHRT`. That this path stays is what makes
  the lock a once-per-boot lock (`ClaimLeavesRT` in the proof).
* `AUTH=open(...) == -1` assigns the result of the comparison: the descriptors
  are all 0. What the agents do with that is the subject of `Agents`; here they
  are processes that live and die.
* `kill(ppid, SIGINT)` ends the launcher, which sleeps in `wait`. An instance in
  `Background` was started with `&` by a script, as `STARTCMD` of `server.h` is from
  `/etc/rc.local`: the shell makes it ignore SIGINT and SIGQUIT, and its launcher
  waits until the Response Team dies.

The environment kills the child between any two calls, kills an agent, kills all
processes of the user (`UserKilled`) or those that do not ignore the signal
(`UserQuit`), and reboots (which clears `/tmp`; the logs stay).

### Console

Both clients have the same `main()`; `Needed` is the one difference (Ccli opens
four channels, c-bot two). `fds` counts the descriptors a client holds and
`depth` the calls of `main()` on its stack: `return main(argc, argv)` is the
retry, and nothing is closed. (The Makefile builds without optimisation, so
each call has a frame.) The command line is chosen where it is first looked at.
`parent` is the process the user started, `child` the one that runs the session.
A `kill` reaches the child, a process group (pid 0), or everyone (pid -1);
`QuitParent`, `QuitChild` and `QuitMissed` say what SIGQUIT makes of those it reaches.
`cbot()` runs its downloads with `system()`, which ignores SIGINT and SIGQUIT until
the command has ended (`child` is `"shell"`), and a client in `Ignoring`, started with `&`
by a script, ignores SIGQUIT all the time. The signal is sent once: `missed` remembers
that it came while it was ignored, and the session goes on. `ServerMoves` is the
environment: paths come and go. Timer seconds are the ticks of `left`.

What `getAuthenticated()` returns is a choice here, and so is when `cbot()`
returns; `AuthClient` and `CBot` are about them.

### LoggingSystem

The two specifications are instantiated over one variable `nodes`. A step is a
step of the server or of a client that leaves the other's variables alone, or
`MassKill`: the `kill(-1)` of a client whose `fork` failed, which is at once a
step of `Console` and `UserQuit` of `ServerStartup`, or the end of the user's login
(`LogOut`), or a reboot. The safety of the start-up is checked here, among clients.

### AuthClient

The reply channel is a file, `replies` its content, and each client has its own
`offset`. A `read` returns all that is there. The buffer is zeroed once;
`filled` is the number of bytes before its first NUL, that is the longest read
so far. `strncmp` is called with a length one more than the word's, so the word
counts only when a NUL follows it (`Bare`). Where the token is compared
(`buffer+8`, `buffer+15`) lies inside the word itself, so that whether it fits
depends on the token and the word alone: `Fits`. Writers of the channel are
external (`Answer`): in the code as it is the server's one `write` goes to
descriptor 0. c-bot has the same function over descriptor 0; it is not what this
module is about.

### Tokenizer, Terminal, Agents, CBot and SharedTerminal

A text is a sequence of characters, without its NUL. `ArgStarts` are the places
`args[]` gets to point to, and `Ended` the characters that become NULs. Blanks are
skipped before it is looked whether the text has ended, so that a blank at the end
makes one more, empty argument: `login user` and a newline counts three, which
is what the Auth Agent asks for.

`Terminal` is descriptor 0: a line goes to the one process whose `read` is served
first, and after the end of input every `read` returns at once with nothing.

`Agents` has the whole buffer of each agent, character by character, because what
it is about is the residue: `read` overwrites as much as it brings and adds no
NUL, and the buffer is not cleared. A `read` of the full `MAXLEN` bytes would
leave no NUL at all, which is undefined; `SizeAssumption` keeps lines below it. A
failing `read` (as an agent gets it in the background of an interactive shell)
only sleeps. The Response Team's loop is empty.

`CBot` has one action per step that others may come between: the shell truncates
the file, curl writes it, the program parses it. What a file holds is "junk" (no
JSON), "other" (JSON, no object) or "object". Two curls on one file write at their
own offsets, and neither answer need come out. What the code does, and the model
with it: the end of input is not noticed, and the buffer is executed again as
far as its first word; `global` alone compares a NULL `args[1]`; an answer that is
not JSON ends the session; `system()` that could not start a shell is not noticed
and the old file is parsed. `track` and `info` do nothing.

### RcLocal

The two directory entries are shared by all calls; a file is the set of its
lines. `ch == '\n'` compares the address of an array with 10 and is never true, so
that no line ever ends and none is copied (`Copied`): every successful call puts an
empty file in place of `/etc/rc.local`, whatever other lines it had. (`STARTCMD` ends
in a newline that a line would lack in any case.) The lines are collected in
`line[512]` by `strcat` without a bound, which may run over the file names behind it,
so that the rename fails. The model is of root on a file system that keeps the order
of directory operations.

`system("rm rc.local")` is two steps: `Remove` starts a process, `RmEnds` is its end. It
goes on when its call is killed, and ends with the power. Neither what it returns nor what
`rename()` returns is looked at, so that `rm` may fail or not be started, `Rename` may leave
everything as it was, and the answer is success all the same. `failed` and `overlap`
are there for the properties: which of its two operations failed each call, and
whether two calls, or a call and the `rm` of a dead one, were ever about together.

### JsonHeap

`Values` are the blocks `malloc` may return; `kind`, `parent`, `members` and `cap`
are the fields; `held` are the values the client owns. `Commit` collects the
writes of an operation. `Subtree` is what `json_value_free` visits, as a least
closed set rather than by recursion. `AddFails` is a failing allocation of an
insertion, before or after the container was resized. A client that does what no
client may (use after free, inserting a value into its own subtree) is left out.
An operation whose failure changes nothing has no action of its own.

### Utf8, JsonString and JsonText

`JsonText` works on tokens: brackets, separators, and scalars, with the white
space around them. A value is a pair of type and content; `Trees` are the values that
are nested at most `Height` deep, which the code does not bound. A function of
`parson.c` that calls itself is an operator that is given the recursive function it
calls (`EqualValues`), with that function below it (`ValueEquals`); the functions of
the parser are one, `Parser`, whose argument says which of them, where in the text and
how deep. The references they are checked against are built the other way round:
`Denoted` reads a text from the outside in, as segments between the commas that are in
no deeper bracket, and says what every segment denotes, if anything; equality and
validation are stated over the paths of a value (`Nodes`). Around them is a small
program that saves, edits, loads and compares.

`JsonString` works on bytes, the four digits of `\uXXXX` taken as one. Its texts
are sequences of pieces of which the module knows what each means by itself.
`PiecesAssumption` says what pieces there are: raw characters (each piece one
sequence of UTF-8), escapes, units, and the malformed ones; together they are all
that may stand in a literal. `BitsAssumption` says what bits a commented text is made
of: characters other than quote, backslash and slash, string literals, block comments
up to their first end, and line comments without a quote or a `/*`. Recursion is
written as recursive functions of one argument, so that proofs can be about them.

Left out: which characters make a number (`strtod`, `is_decimal`; a lone `-` is
read as 0), pretty printing (white space), and failing allocations in the parser.
Facts the models keep: the parser ignores what follows the first value; an empty
container may lie in 2048 containers where a leaf may not lie in 2049;
the serializer has no depth limit; equality of numbers by `Epsilon` is not
transitive; a `//` comment with a quote or a `/*` in it upsets the first of the two
passes over comments, so the texts have none.

## 3. Runs

| run | instance | what it shows |
|---|---|---|
| `server_liveness` | one instance, any `mknod` failure | `LauncherComesBack` |
| `server_refused` | two instances | violated: an instance is refused although no other is alive |
| `console_safety` | a Ccli and a c-bot in one process group, all kinds of command lines, failing `fork`s, kills; the Ccli ignores SIGQUIT | that the one way to leave a session behind is a signal it ignored (`NoSessionLeftBehind`), and `RetryBudget` |
| `console_liveness` | a Ccli and a c-bot in one group that listen to SIGQUIT, plain, timed and negatively timed sessions, fair | `ConnectsInTime`, `TimedSessionEnds`, `NoSessionLeftBehind` |
| `console_prompt` | the same in two groups | violated: a plain Ccli session never gets its prompt |
| `system_safety` | two instances, one of them in the background, `mknod` fails with EEXIST only; one Ccli, failing `fork`s | `OneClaimPerBoot`, `AtMostOneServing`, `NoTruncationWhileServing`, `CcliConnectsAfterClaim`, and that the whole refines `SingleServer` |
| `auth` | a login and a registration, three replies, failing I/O, fair | `RegisterNeverLogsIn`, `GrantedByLastReply`, `LoneSuccessIsSeen` |
| `auth_registration` | the same without failing I/O | violated: a registration that succeeded is never returned |
| `terminal` | two c-bots, two agents, three lines and the end of input | `EndsForAReason`, `StaleCommand`, `StaleTailOnly` |
| `startup` | three calls, kills, failing `rm` and `rename`, an `rm` that outlives its call, power failures | `OneFileStays`, `TakenOut` |
| `heap` | four values, two names, failing allocations | `NoDanglingMember`, `OwnedOnce`, `ParentKnown`, `NamesUnique`, `WithinCapacity`, `NothingLost` |
| `text` | documents and their edits, pairs of values, all texts of three pieces | `ParsesTheGrammar`, `SavedOrNothing`, `EqualsByPath`, `ValidatesByPath`, `QuotedStringRead`, `StringRoundTrip`, `CommentsBlanked` |

Deadlock is not checked: programs end, and a machine on which nobody starts
anything stands still.

### Bounds

* Two server instances: every property relates at most two. An instance may be
  launched again after it has ended, so there is no bound on launches. `claims` stops
  counting at `ClaimCap = 2`, which is one more than what is claimed.
* Two clients, one of each program. `FdLimit` is 4 to 7 beyond the standard three,
  and `StackLimit` 2, in place of 1021 and some tens of thousands: enough for a
  retry after a leak and for running out of either. `HardTime` is 1 or 2
  in place of 300. One client of each pair listens to SIGQUIT, or both.
* Three replies: one that fills the buffer, one that is missed behind another,
  one that is looked at. `ArgLength` 3 stands for any argument: a reply with
  one is longer than the longest bare word that matters, or is no match.
* Three typed lines (`MaxTyped`), so that an agent's buffer holds the residue of
  two, of seven shapes: a download with and without its newline, blanks in front, in
  the middle and at the end. `MaxArgs` 3 stands for 64: one line fills it.
  Two sessions, since interference on a file is between two.
* Three calls of `startup()`: two that overlap and a third that finds what they
  left. Calls may be made again without a bound.
* Four values: a container in a container with a leaf, and one outside.
  `StartCap` is 1 (16 in the code) so that a resize happens at the first and
  at the second member, and `MaxMembers` 2. Dotted paths have two names.
* `MaxNesting` 2 stands for 2048; the documents go one deeper than it, to `Height` 3.
  One token is edited: every missing, spare or wrong one at every place. `MaxPieces` 3: a
  pair of surrogates with something before or behind, a backslash before a quote.

### Fairness

Weak fairness of the steps a process takes by itself: it is scheduled, `sleep`
returns, and a `read` of a regular file finds the bytes that are there. Nobody
is obliged to start a program, to answer, to kill, to end a session or to reboot.
`ConnectsInTime` lets go when the paths change under the client or it is killed, and
`TimedSessionEnds` when the counting parent is killed or the signal was missed. `terminal`, `startup`, `heap`
and `text` are about safety and assume none.

## 4. What the violated runs say

* `server_refused`: `server.c` 67-73 takes a path that exists for a running
  instance. After a crash, a failed start or a kill, `FIFOAUTHRT` stays and every
  start until the next boot is told that an instance "is already running!".
* `console_prompt`: `ccli.c` 170 signals pid 0, which in the child is its own
  process group. A plain Ccli session ends itself, and whatever shares its group.

* `auth_registration`: of `registration_successful` `getAuthenticated()` copies what it
  takes for the token (`buffer+27`, behind the NUL) and reads on, since nothing
  returns `REGISTRATION_SUCCESS` (`ccli.c` 226-227). The help text promises the token,
  and the branch of `main()` that would print it is dead.

Shown by the exceptions a passing property needs:

* `fork() == -1` is taken for a child, and after the time `kill(-1, SIGQUIT)` ends every
  process of the user that does not ignore it, servers included (`MassKill`).
* `NoSessionLeftBehind`, `TimedSessionEnds`: "I said it was hardtimed" (`crypto.c` 665) is
  not true of a c-bot that is downloading when its time is up. It goes on, without a
  parent. The same holds for any client started with `&` by a script.
* `TakenOut`: "Successfully removed the Logging Server from startup execution"
  (`server.c` 51) is untrue when both `rm` and `rename` failed.
* `OneFileStays`: two calls of `startup()` at once can lose `rc.local` and the new file. A
  death between `rm` and `rename`, or a `rename` that fails, leaves the new file only,
  empty, and no later call puts it in place, since each opens `rc.local` first.
* `StaleCommand`: at the end of input c-bot downloads the listings again and again, or
  dies of `global data`.

Modelled, without a property: a client whose buffer once held more than 25 bytes, by one
long reply or by several in one `read`, never gets a verdict any more (`Bare`); clients
announce a server that is gone, because the files outlive it; a failed
`json_object_dotset_value` leaves the caller's value with a parent that was freed, so
that a retry is refused (`DotSetUndone`); `json_object_set_string` loses the leaf it made
when the insertion fails (`SetLeafFails`).

## 5. Proofs

All are checked by TLAPS 1.4.5 with Z3, Zenon and LS4; nothing is assumed but
the named assumptions of the modules and, where said, `NoFaults`.

**ServerStartupProofs.** `TypeCorrect` holds without more. The others assume
`NoFaults` (`MknodFaults = FALSE`): with a `mknod` that fails for another reason
than EEXIST two instances do pass. That no two claims happen is not inductive: it
holds because the fourth path, once created, is never unlinked. The invariant
`IInv` is the conjunction of

* `TypeOK`, and that a failure branch never unlinks the fourth path
  (`FailureKeepsRT`: `stop <= 3`);
* `ClaimLeavesRT`: after a claim `FIFOAUTHRT` exists (so that no later fourth
  `mknod` succeeds), and there was at most one;
* `ServingClaimed`: whoever is past the check implies a claim;
* `AtMostOneServing`; `AgentsLast`: who is still opening files has no agents.

From it follow `ClaimedOnce`, `OneServes`, `RecordsSafe` (an action property: whoever
opens a log file is past the check, so nobody else has a process running) and
`StartupImplementsLock`: each step is `Acquire`, `Die`, `KillAll`, `Reboot` of
`SingleServer` or changes none of its variables.

**ConsoleProofs.** `ConsoleTypeCorrect`; `NoOrphans`, which needs that a session
only runs when `fork` made it, where the parent is then, and that who is counting has
not missed a signal of its own; `LeaksBounded`, for which the bound is strengthened by
what the call in progress has opened so far.

**LoggingSystemProofs.** `ConnectsAfterClaim`: the fourth path is made by the
instance that passes the check in the same call (`ClaimedFirst`), a client is
connected once it has opened it, and within a boot claims are not undone.
`ServersUndisturbed`: each step of the composition is a step of `ServerStartup` or
leaves its variables alone. So what is proved of the servers alone holds among
clients (`ServersAlone`): `ClaimedOnceAmongClients`, `OneServesAmongClients`,
`RecordsSafeAmongClients` and `LockIntact` take the theorems of `ServerStartupProofs` over;
they are about the properties as `system_safety` checks them.

**AuthClientProofs.** `AuthTypeCorrect`; `NoLoginForRegistration`, which needs that a
registration in the login stage is there because its `read` failed, and does not
read again (`NoLoginReadAfterRegister`); `GrantsCorrect`, from `BInv` and `GInv`. `BInv`
counts bytes: no reply a client has read is longer than what its buffer is filled
to, and the bytes still to be read are at least those of any unread reply and of
any two. So a success that leaves a bare verdict in the buffer was the only unread
reply, and without an argument (`VerdictAlone`).

**ParsonProofs, induction.** The provers cannot instantiate the library's induction
theorems, whose parameter is an operator. `LeastNumber` is derived from the
well-foundedness of the natural numbers, and from it `AllNumbers`, `AllNumbersDown` and
`RankInduction`, in which what is proved by induction is a *set*, of numbers or of
values with a rank. `RecursiveFunction` says that a function defined by recursion exists
when the value at an argument is computed from values at arguments of smaller rank, and
`RecursiveFunctionInto` that its values are then where each of them is computed to be;
the loops of `parson.c` are such functions, their rank what is left of the text.
(`TerminalProofs` has the least number for itself.)

**TerminalProofs.** For any number of sessions and agents, and any lines.

* `SessionsEndForAReason`: a session that is about to parse, and that nobody has
  disturbed (`disturbed` is set when another session writes the same file between
  its opening and its parsing), has an answer that is what its file holds, or junk
  (`ParsesItsAnswer`).
* `OnlyListingsRepeats`: what a session has executed and not replaced is `Spent`: one
  word without a blank, or too short, or what the buffer held at the start
  (`Leftover`). A spent text is one argument at most (`SpentIsOneWord`).
* `OnlyTheTailIsStale`: a text that is cut loses its blanks, so that no buffer holds
  a blank between two reads (`NoBlank`). A request in the buffer therefore runs on
  into characters that are none (`RunsOn`): both texts have arguments at the same
  places (`SameStarts`), and but for the last they are the same (`TailRunsOn`).
* `SessionsBesideAgents`: a step of the composition is a step of `CBot` or leaves its
  variables alone, so that the theorems about sessions hold there too.

**RcLocalProofs.** `FileIsKept` and `SuccessIsTrue`, for any number of calls. Without
overlap at most one call is running or has an `rm` running, and the new file is there
while it works on the directory (`OneCall`); no line is ever written, so that the new
file is missing or empty (`OnlyEmptied`); and whoever finds the new file gone, or is past
an operation that worked, finds that `rc.local` is no longer what it was (`Replaced`).

**ParsonProofs, the heap.** For any number of blocks and names, any `StartCap` and any
failing allocations. That no member dangles is not inductive: freeing a subtree
is safe only if nothing outside points into it, and freeing a member leaves its
container alone only if no value is inside itself. The invariant `IInv` is
`TypeOK`, `NamesUnique`, `WithinCapacity` and `Forest`, the conjunction of

* `NoDanglingMember`, `ParentKnown`, and `FreeIsBlank` (a free block has no
  members and is not the client's);
* `OneSlot` (no container holds a value twice) and `NotTheClients` (a member is
  not owned by the client), which with `ParentKnown` give `OwnedOnce`
  (`ForestOwns`);
* `Rooted`: no nonempty set of values is held entirely from within. It says, without
  naming a path, that there is no cycle (which the caller guarantees, by not inserting
  a value into its own subtree; `parson.c` does not check it), so that no induction over paths is
  needed: where a path would be followed, a set is shown to be empty
  (`NoCycle`, `RootedStep`).

The lemmas on `Subtree` (`SubtreeClosed`, `SubtreeHeld`, `CutMember`) follow from
its definition as the least closed set. All operations but `DotSet` and those of
`Quiet` are one kind of write (`Write`: free `D`, change the members of `c`, give
it `v`). `CommitForest` shows once that a write whose arguments are `Sound` keeps
the forest, `AppendWrites`, `OverwriteWrites` and `ShortenWrites` that appending,
overwriting and removing from an array are such writes, the last for both ways of
closing the gap (`AllBut`). `WriteKeeps`, `QuietKeeps` and `DotSetKeeps` end in
`IInv'` and in `LosesNothing`, the step of `NothingLost`.

**ParsonProofs, strings.** For any pieces that `PiecesAssumption` allows, and any number
of them.

* UTF-8. What `parse_utf16()` writes for a code point is one sequence that
  `verify_utf8_sequence()` accepts, decodes to that code point and finds as long as it
  is (`EscapesAreUtf8`); pairs of surrogates are code points above FFFF, and different
  pairs different ones (`PairsAreCodePoints`, `PairsAreDistinct`).
* Reading (`LiteralsAreRead`). Each piece of a literal has its place in the text
  (`Layout`). `skip_quotes()` passes a piece as a whole, for no piece ends in half
  an escape (`SkipPiece`, `SkipLiteral`). `process_string()` goes from a piece to the
  next one, or over a pair of surrogates to the one behind it (`ReadSingle`,
  `ReadPair`): it is at a piece that is no second half (`Fresh`), has written what the
  pieces up to there mean (`MeantUpTo`), and fails at the first malformed one. A trail
  is not mistaken for the end of the pair before it, since a lead takes exactly the
  next piece. Both scans end at the same quote (`LiteralRead`).
* Writing (`StringsRoundTrip`). Each meaning is a string of whole sequences, a NUL is a
  sequence by itself, and so cutting at the first NUL leaves valid UTF-8 (`ValidCut`,
  `MeaningIsUtf8`). What the serializer writes for a byte is a piece that means that
  byte (`WrittenAs`), so that the theorem on reading applies to what was written
  (`WrittenRead`).

The attempt at `StringsRoundTrip` found a mistake of the model: `Escaped` was a `CASE` with
two guards true of the bytes 8, 9, 10, 12 and 13, of which TLA+ may take either and
TLC takes the first. The code has the short escape for them; the definition is an
`IF` now.

**ParsonProofs, comments** (`CommentsAreBlanked`). For texts of any bits that
`BitsAssumption` allows, and any number of them.

* The loop of `remove_comments()` is in one of four modes, in a string or not, behind a
  backslash or not; `Out`, `OutEscaped`, `In` and `InEscaped` are what it leaves from a
  position on in each. The equations of its recursive function become one lemma for a
  character (`RestStep`) and one for a comment that has an end (`CommentStep`).
* A part of the text is `Copied` (nothing opens in it, and no backslash is left over at
  its end), a `Literal`, or `Commented`. If the loop leaves the right text from behind a
  part, it does so from the beginning of the part (`PassRun`, `PassLiteral`,
  `PassComment`). These say where the part lies; that it may be looked at by itself,
  wherever it lies, is shown by the lemmas `...Moves`.
* So a pass does to the text what it does to its parts (`PassAll`). In the first pass a
  line comment is copied and a block comment blanked, in the second the blanks are copied
  and the line comment is blanked (`BitPasses`). The condition on line comments is
  needed in the first pass: a quote would open a string, and `/*` a comment.

**DocumentProofs.** For documents of any shape, texts of any tokens, and any length and
depth. `DocumentAssumption` says that the bounds are numbers, that a scalar token has
a value of a scalar type, that brackets and separators are no scalars, and that the
program's values are `Trees`.

* Definitions. A recursive definition says nothing until it is shown that there is
  such a function. `NestedIs`, `NodesOfIs`, `ValueEqualsIs`, `CopyOfTree`, `ValidateIs`,
  `SerializeIs`, `ParserIs`, `LevelIs`, `EntriesOfIs` and `DenotedIs` show it, and where
  the values of the functions lie. The rank of a value is its depth; that of a call of the
  parser is what is left of the text, and which function is called; that of a segment is
  its length.
* Invariant. `DocInv` (`DocumentInvariant`): the program's values are of its documents and
  samples, and a file that was saved is a beginning of what the serializer writes. An
  edited file is a text, and no more is known of it (`FilesAreTexts`).
* Equality and validation (`EqualityIsByPath`, `ValidationIsByPath`). Two values are the
  same under the same paths if and only if they are the same at the root and their
  parts are, key by key. `json_value_equals()` looks at the members of one object only
  and counts both: names that are distinct and as many are the same (`NamesSubset`). What a schema says of a place depends on the path with
  its items taken for the first (`Shape`).
* Saving and loading (`SavedIsLoaded`). The text of a container is laid out from the texts
  of its parts (`ContainerLayout`). The parser, set before such a text, reads the
  value and stops behind it, or fails where the text ends or is nested too deep
  (`TreeReads`, by induction over the rank; in a container, from the last entry down
  to the first, `EntriesRead`).
* The grammar (`GrammarIsParsed`). What denotes a value is closed: it closes the brackets it
  opens and no others, and has no comma outside of them (`DenotedClosed`). So the first
  entry of a list ends at the first comma of its level, and a list is one entry, or an
  entry, a comma and a list (`ListCases`), which is how the loops of the parser go
  through it. Every call finds nothing but what the text denotes from there to where
  the call stops (`ValueSound`, `ItemsSound`, `MembersSound`), and finds it if it is
  nested no deeper than is left to go (`ValueComplete`, `ItemsComplete`,
  `MembersComplete`); both at once by induction over the rank of the call (`CallExact`).
  At most one value that is not too deep is denoted by a beginning of a text, since a
  call has one result.

Only model-checked: `ConnectsInTime`, `TimedSessionEnds`, `LauncherComesBack` and
`LoneSuccessIsSeen`, for fairness and `ENABLED` are beyond the prover. Every other
property that a passing run checks is proved, but for the type invariant of the
composition, whose servers' part is `TypeCorrect`.

## 6. Not modelled

* The tracker and cleaner threads, `gentoken`, `genpseudoSaltedHash`, `avisot` and
  `startup(STARTUP_ENABLE)`: called by nobody. (The heap block that
  `spawnTracker` shares with its threads would be a hazard if it were.)
* Terminal output: the printing functions of c-bot return whatever they are given,
  since the getters of parson take NULL for an object and give 0 or NULL.
* curl and the documents it brings (any answer is possible), OpenSSL,
  `libparson.so` (the binary of `parson.c`), `appcli.c` (built by no rule of the
  Makefile), `usracc_sys.c` (named by the Makefile, not in the repository).

## 7. Plan

Done: everything in sections 2 and 5.

Open: `JsonHeap` against an abstract map from names to values, as a refinement;
the lexical form of numbers in `JsonString`; and the exchange of c-bot's
`getAuthenticated()` with `Terminal`, on which it asks and answers itself.
