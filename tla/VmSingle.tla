------------------------------ MODULE VmSingle ------------------------------
(***************************************************************************)
(* tools/cheri_vm.py, single-command: a driver that boots the VM to        *)
(* single-user mode over its serial console, types the commands of the     *)
(* caller one by one and reads each exit code back from the text the       *)
(* console prints.  Driver and guest share nothing but two byte streams:   *)
(* what was typed and not yet read, and what was printed and not yet       *)
(* matched.  Every wait of the driver has a timeout, and two of the waits  *)
(* go on when it strikes.                                                  *)
(*                                                                         *)
(* The guest (QEMU, the loader, CheriBSD) is external: it appears as what  *)
(* the driver's patterns tell apart.                                       *)
(***************************************************************************)
EXTENDS Integers, Sequences

CONSTANTS
  N,      \* the number of commands, numbered in the order they are given
  Codes   \* the exit codes a command may end with

ASSUME SingleAssumption == N \in Nat \ {0} /\ Codes \subseteq 0 .. 255

Command == 1 .. N

VARIABLES
  pc,       \* where boot_single_command is
  k,        \* the command it is at
  rc,       \* what run_guest_command read back
  status,   \* the local variable status: the first failing code, or 0
  exit,     \* the exit code of the process, Running before it ends
  guest,    \* what reads the console
  typed,    \* lines typed and not yet read by the guest
  printed,  \* text printed and not yet consumed by the driver's patterns
  ran       \* history: the commands a shell ran, with their exit codes

driverVars == <<pc, k, rc, status, exit>>
vars == <<driverVars, guest, typed, printed, ran>>

Running == -1
Failure == 1      \* the exit code of a Python exception nobody catches
BootFailure == 2
Interrupt == 130  \* the exit code after a Ctrl-C

\* A piece of text one of the patterns can match: a fixed one, or an exit code
\* between the markers.
Texts ==
  {"Autoboot in", "Trying to mount root", "Enter full pathname", "# ", "login:", "echo",
   "rc", "Uptime:"}
Text(t) == [text |-> t, code |-> 0]
Marker(n) == [text |-> "rc", code |-> n]

\* A line: the "2" of the boot menu, a command by its number, the empty line,
\* or "shutdown -p now".
Menu2 == -2
Shutdown == -1
EmptyLine == 0
Lines == {Menu2, Shutdown, EmptyLine} \cup Command

Init ==
  /\ pc = "spawn"
  /\ k = 1
  /\ rc = 0
  /\ status = 0
  /\ exit = Running
  /\ guest = "none"
  /\ typed = <<>>
  /\ printed = <<>>
  /\ ran = <<>>
-----------------------------------------------------------------------------
(* The driver *)

Matches(texts) == {i \in DOMAIN printed : printed[i].text \in texts}

\* child.expect: the first match in what was printed, and everything up to it
\* is consumed.
Expect(texts, i) ==
  /\ i \in Matches(texts)
  /\ \A j \in Matches(texts) : i <= j
  /\ printed' = SubSeq(printed, i + 1, Len(printed))

\* No match, and the time is up.
TimesOut(texts) == Matches(texts) = {} /\ UNCHANGED printed

\* No match, and nothing can be printed any more.
EndOfFile(texts) ==
  Matches(texts) = {} /\ guest = "dead" /\ UNCHANGED printed

\* child.send and child.sendline; a line typed at a dead guest is lost.
Type(line) == typed' = Append(typed, line)

\* The process ends with a code, after what "finally" says: a guest that is
\* still alive gets a SIGTERM, which ends it at once or a little later (Dies).
ReturnWith(code) ==
  /\ exit' = code
  /\ pc' = "done"
  /\ guest' \in {guest, "dead"}

\* An exception before the "try", or a Ctrl-C: there is no QEMU to end.
NeverStarts(code) ==
  /\ pc = "spawn"
  /\ exit' = code /\ pc' = "done" /\ guest' = "dead"
  /\ UNCHANGED <<k, rc, status, typed, printed, ran>>

\* pexpect starts QEMU on a terminal of its own, or finds none.
Spawn ==
  \/ /\ pc = "spawn" /\ pc' = "menu"
     /\ guest' = "boot"
     /\ UNCHANGED <<k, rc, status, exit, typed, printed, ran>>
  \/ NeverStarts(Failure)

\* Lines 139-147: the boot menu, or a return with 2.
ExpectMenu ==
  /\ pc = "menu"
  /\ \/ \E i \in DOMAIN printed :
          /\ Expect({"Autoboot in", "Trying to mount root"}, i)
          /\ \/ /\ printed[i].text = "Autoboot in"
                /\ Type(Menu2)
                /\ pc' = "ask"
                /\ UNCHANGED <<exit, guest>>
             \/ /\ printed[i].text = "Trying to mount root"
                /\ ReturnWith(BootFailure)
                /\ UNCHANGED typed
     \/ /\ TimesOut({"Autoboot in", "Trying to mount root"})
        /\ ReturnWith(BootFailure)
        /\ UNCHANGED typed
  /\ UNCHANGED <<k, rc, status, ran>>

\* Line 149-150: TIMEOUT is one of the patterns and its index is not looked
\* at, so the empty line is typed in either case.
ExpectAsk ==
  /\ pc = "ask"
  /\ (\E i \in DOMAIN printed : Expect({"Enter full pathname"}, i))
     \/ TimesOut({"Enter full pathname"})
  /\ Type(EmptyLine)
  /\ pc' = "prompt"
  /\ UNCHANGED <<k, rc, status, exit, guest, ran>>

\* Line 151: the same for the prompt of the shell.
ExpectPrompt ==
  /\ pc = "prompt"
  /\ (\E i \in DOMAIN printed : Expect({"# "}, i)) \/ TimesOut({"# "})
  /\ pc' = "send"
  /\ UNCHANGED <<k, rc, status, exit, guest, typed, ran>>

\* run_guest_command types the command and the printf of its exit code; after
\* the last one, or the first that failed, "shutdown -p now" is typed.
SendCommand ==
  /\ pc = "send"
  /\ IF k \in Command /\ status = 0
     THEN Type(k) /\ pc' = "marker"
     ELSE Type(Shutdown) /\ pc' = "bye"
  /\ UNCHANGED <<k, rc, status, exit, guest, printed, ran>>

\* Mutant: a pattern without the closing mark, matched by the digits that have
\* arrived so far.
ExpectMarkerPartial ==
  /\ pc = "marker"
  /\ \E i \in DOMAIN printed :
       /\ Expect({"rc"}, i)
       /\ LET n == printed[i].code IN
            rc' \in {n} \cup (IF n > 9 THEN {n \div 10} ELSE {})
  /\ pc' = "after"
  /\ UNCHANGED <<k, status, exit, guest, typed, ran>>

\* Mutant: a marker that is late is asked for again.
ExpectMarkerOrResend ==
  /\ pc = "marker"
  /\ \/ \E i \in DOMAIN printed : Expect({"rc"}, i) /\ rc' = printed[i].code /\ pc' = "after"
     \/ TimesOut({"rc"}) /\ pc' = "send" /\ UNCHANGED rc
  /\ UNCHANGED <<k, status, exit, guest, typed, ran>>

\* The marker followed by digits: the echo of the line has "%d" there.
ExpectMarker ==
  /\ pc = "marker"
  /\ \E i \in DOMAIN printed : Expect({"rc"}, i) /\ rc' = printed[i].code
  /\ pc' = "after"
  /\ UNCHANGED <<k, status, exit, guest, typed, ran>>

\* The prompt after a command, then the loop of boot_single_command.
ExpectPromptAfter ==
  /\ pc = "after"
  /\ \E i \in DOMAIN printed : Expect({"# "}, i)
  /\ status' = rc
  /\ k' = k + 1
  /\ pc' = "send"
  /\ UNCHANGED <<rc, exit, guest, typed, ran>>

\* Line 158-159: end of file is as good as "Uptime:".
ExpectBye ==
  /\ pc = "bye"
  /\ (\E i \in DOMAIN printed : Expect({"Uptime:"}, i)) \/ EndOfFile({"Uptime:"})
  /\ ReturnWith(status)
  /\ UNCHANGED <<k, rc, status, typed, ran>>

\* The waits that do not list TIMEOUT or EOF among their patterns raise it.
Awaited ==
  CASE pc = "menu" -> {"Autoboot in", "Trying to mount root"}
    [] pc = "ask" -> {"Enter full pathname"}
    [] pc \in {"prompt", "after"} -> {"# "}
    [] pc = "marker" -> {"rc"}
    [] OTHER -> {"Uptime:"}

\* Mutant: the exception of a dead guest is taken for the end of the session.
RaiseNothingAtEof ==
  /\ \/ pc \in {"marker", "after", "bye"} /\ TimesOut(Awaited) /\ guest # "dead"
     \/ pc \in {"menu", "ask", "prompt", "marker", "after"} /\ EndOfFile(Awaited)
  /\ ReturnWith(IF guest = "dead" THEN status ELSE Failure)
  /\ UNCHANGED <<k, rc, status, typed, ran>>

Raise ==
  /\ \/ pc \in {"marker", "after", "bye"} /\ TimesOut(Awaited)
     \/ pc \in {"menu", "ask", "prompt", "marker", "after"} /\ EndOfFile(Awaited)
  /\ ReturnWith(Failure)
  /\ UNCHANGED <<k, rc, status, typed, ran>>

\* A KeyboardInterrupt in any of the waits takes the way of an exception.
SessionInterrupted ==
  \/ NeverStarts(Interrupt)
  \/ /\ pc \notin {"spawn", "done"}
     /\ ReturnWith(Interrupt)
     /\ UNCHANGED <<k, rc, status, typed, printed, ran>>
-----------------------------------------------------------------------------
(* The guest *)

Prints(text) == printed' = Append(printed, Text(text))
GuestOnly == UNCHANGED <<driverVars, ran>>

\* The loader shows its menu, or boots without one.
LoaderStarts ==
  /\ guest = "boot"
  /\ \/ guest' = "menu" /\ Prints("Autoboot in")
     \/ guest' = "multi-user" /\ Prints("Trying to mount root")
  /\ UNCHANGED typed /\ GuestOnly

\* The menu takes the "2", or its countdown ends first.
MenuEnds ==
  /\ guest = "menu"
  /\ \/ /\ typed # <<>>
        /\ typed' = Tail(typed) /\ guest' = "single-user"
     \/ /\ guest' = "multi-user" /\ UNCHANGED typed
  /\ Prints("Trying to mount root")
  /\ GuestOnly

\* init asks for a shell; what was typed before may be lost when it takes
\* over the console.
AskForShell ==
  /\ guest = "single-user"
  /\ guest' = "ask"
  /\ Prints("Enter full pathname")
  /\ typed' \in {typed, <<>>}
  /\ GuestOnly

\* The empty line starts /bin/sh; anything else is not the name of a shell.
AskReads ==
  /\ guest = "ask"
  /\ typed # <<>>
  /\ typed' = Tail(typed)
  /\ \/ Head(typed) = EmptyLine /\ guest' = "shell" /\ Prints("# ")
     \/ Head(typed) # EmptyLine /\ guest' = "ask" /\ Prints("Enter full pathname")
  /\ GuestOnly

\* login takes every line for a name.
LoginReads ==
  /\ guest = "multi-user"
  /\ typed # <<>>
  /\ typed' = Tail(typed)
  /\ Prints("login:")
  /\ UNCHANGED guest /\ GuestOnly

\* The terminal echoes the line the shell reads; a command stays at the head
\* of typed while it runs.
ShellReads ==
  /\ guest = "shell"
  /\ typed # <<>>
  /\ \/ /\ Head(typed) \in Command
        /\ guest' = "command" /\ Prints("echo") /\ UNCHANGED typed
     \/ /\ Head(typed) = Shutdown
        /\ guest' = "down" /\ Prints("echo") /\ typed' = Tail(typed)
     \/ /\ Head(typed) \in {EmptyLine, Menu2}
        /\ Prints("# ") /\ typed' = Tail(typed) /\ UNCHANGED guest
  /\ GuestOnly

\* The command ends and the shell prints its exit code between the markers.
CommandEnds ==
  /\ guest = "command"
  /\ \E n \in Codes :
       /\ ran' = Append(ran, [command |-> Head(typed), code |-> n])
       /\ printed' = Append(printed, Marker(n))
  /\ typed' = Tail(typed)
  /\ guest' = "prompt"
  /\ UNCHANGED driverVars

ShellPrompts ==
  /\ guest = "prompt"
  /\ guest' = "shell"
  /\ Prints("# ")
  /\ UNCHANGED typed /\ GuestOnly

ShutsDown ==
  /\ guest = "down"
  /\ guest' = "dead"
  /\ Prints("Uptime:")
  /\ UNCHANGED typed /\ GuestOnly

\* QEMU ends: it could not get its port, it was killed, it crashed.
Dies ==
  /\ guest \notin {"none", "dead"}
  /\ guest' = "dead"
  /\ UNCHANGED <<typed, printed>> /\ GuestOnly
-----------------------------------------------------------------------------
Driver ==
  \/ Spawn
  \/ ExpectMenu \/ ExpectAsk \/ ExpectPrompt \/ SendCommand \/ ExpectMarker
  \/ ExpectPromptAfter \/ ExpectBye \/ Raise

Guest ==
  \/ LoaderStarts \/ MenuEnds \/ AskForShell \/ AskReads \/ LoginReads
  \/ ShellReads \/ CommandEnds \/ ShellPrompts \/ ShutsDown \/ Dies

Finished == pc = "done" /\ guest = "dead" /\ UNCHANGED vars

Next == Driver \/ SessionInterrupted \/ Guest \/ Finished
-----------------------------------------------------------------------------
TypeOK ==
  /\ pc \in {"spawn", "menu", "ask", "prompt", "send", "marker", "after", "bye", "done"}
  /\ k \in 1 .. N + 1
  /\ {rc, status} \subseteq Codes \cup {0}
  /\ exit \in {Running, 0, Failure, BootFailure, Interrupt} \cup Codes
  /\ guest \in {"none", "boot", "menu", "multi-user", "single-user", "ask", "shell",
                "command", "prompt", "down", "dead"}
  /\ typed \in Seq(Lines) /\ printed \in Seq([text : Texts, code : Codes \cup {0}])
  /\ ran \in Seq([command : Command, code : Codes])

\* The driver ends with 0 only when a shell of this guest ran every command
\* and each of them ended with 0, whatever was lost, late or echoed.
SuccessSound ==
  exit = 0 =>
    /\ Len(ran) = N
    /\ \A i \in Command : ran[i] = [command |-> i, code |-> 0]

\* The commands run once each and in their order, and none runs after one that
\* failed: a line is never typed again because its marker was late.
StopsAtFirstFailure ==
  \A i \in DOMAIN ran :
    /\ ran[i].command = i
    /\ i < Len(ran) => ran[i].code = 0

\* A code that is neither 0 nor one of the driver's own is the code of the
\* command that failed.
ExitIsTheCommands ==
  exit \notin {Running, 0, Failure, BootFailure, Interrupt}
    => ran # <<>> /\ ran[Len(ran)].code = exit

\* The lines typed and the codes printed that are about a command.
TypedCommands == {i \in DOMAIN typed : typed[i] \in Command}
Markers == {i \in DOMAIN printed : printed[i].text = "rc"}

\* At most one command is under way, the one the driver is at: typed and not run,
\* or run with its code not yet read.
OneUnderWay ==
  /\ Len(ran) \in {k - 1, k}
  /\ \A i \in TypedCommands :
       /\ typed[i] = k /\ Len(ran) = k - 1 /\ Markers = {}
       /\ \A j \in DOMAIN ran : ran[j].code = 0
  /\ \A i \in Markers : Len(ran) = k /\ k \in Command /\ printed[i].code = ran[k].code
  /\ \A i, j \in TypedCommands : i = j
  /\ \A i, j \in Markers : i = j
  /\ guest = "command" => typed # <<>> /\ Head(typed) \in Command

\* What the driver has read is what was run.
ReadRight ==
  /\ pc \in {"spawn", "menu", "ask", "prompt", "send", "bye"} =>
       /\ Len(ran) = k - 1 /\ TypedCommands = {} /\ Markers = {}
       /\ status = IF k = 1 THEN 0 ELSE ran[k - 1].code
  /\ pc = "marker" => k \in Command
  /\ pc = "after" =>
       k \in Command /\ Len(ran) = k /\ rc = ran[k].code /\ Markers = {}
  /\ pc = "bye" => k = N + 1 \/ status # 0
  /\ pc # "done" => exit = Running
  /\ pc \in {"spawn", "menu", "ask", "prompt"} => k = 1
  /\ pc = "spawn" => guest = "none"
  /\ exit \notin {Running, Failure, Interrupt} => TypedCommands = {}
  /\ exit \notin {Running, Failure, BootFailure, Interrupt} => exit = status

\* What the caller of single-command is promised, in terms of nothing but the
\* commands and the exit code.
Session == INSTANCE CommandSession WITH report <- exit
KeepsSession == Session!Spec

\* How far the driver is in the session, and what reads its lines.
DriverPlace ==
  CASE pc = "spawn" -> 0
    [] pc = "menu" -> 1
    [] pc = "ask" -> 2
    [] pc = "prompt" -> 3
    [] pc = "send" -> 3 * k + 1
    [] pc = "marker" -> 3 * k + 2
    [] pc = "after" -> 3 * k + 3
    [] pc = "bye" -> 3 * N + 5
    [] OTHER -> 3 * N + 6
GuestPlace ==
  CASE guest = "none" -> 0
    [] guest = "boot" -> 1
    [] guest = "menu" -> 2
    [] guest = "multi-user" -> 3
    [] guest = "single-user" -> 4
    [] guest = "ask" -> 5
    [] guest = "prompt" -> 6
    [] guest = "shell" -> 7
    [] guest = "command" -> 8
    [] guest = "down" -> 9
    [] OTHER -> 10

\* Driver and guest do not answer each other for ever: each step takes the driver
\* further, or leaves fewer lines to be read, or takes the guest further.  No wait
\* that timed out is begun again and no command is typed a second time.
Converse ==
  \/ DriverPlace' > DriverPlace
  \/ DriverPlace' = DriverPlace /\ Len(typed') < Len(typed)
  \/ /\ DriverPlace' = DriverPlace /\ Len(typed') = Len(typed)
     /\ GuestPlace' > GuestPlace

SingleInv ==
  /\ TypeOK /\ OneUnderWay /\ ReadRight
  /\ StopsAtFirstFailure /\ SuccessSound /\ ExitIsTheCommands
=============================================================================
