--------------------------- MODULE VmDriverProofs ----------------------------
(***************************************************************************)
(* Proofs about VmDriver, for any number of commands, any exit codes and   *)
(* any number of polls.  single-command: at most one command is under way, *)
(* and what the driver has read of it is what the shell printed.  start:   *)
(* what a driver knows of its own QEMU at each place.                      *)
(***************************************************************************)
EXTENDS VmDriver, TLAPS

-----------------------------------------------------------------------------
(* single-command: the two byte streams *)

\* A step drops d lines from the front of what was typed, and no command is new;
\* the same for the markers in what was printed.
TypedKept(d) ==
  /\ typed' \in Seq(Lines)
  /\ \A j \in TypedCommands' : j + d \in TypedCommands /\ typed'[j] = typed[j + d]
PrintedKept(d) ==
  /\ printed' \in Seq([text : Texts, code : Codes \cup {0}])
  /\ \A j \in Markers' : j + d \in Markers /\ printed'[j] = printed[j + d]

\* The elements of a sequence.
LEMMA ElementOf ==
  ASSUME NEW S, NEW q \in Seq(S), NEW n \in DOMAIN q
  PROVE  q[n] \in S
OBVIOUS

\* Nothing is typed or read.
LEMMA SameTyped ==
  ASSUME typed \in Seq(Lines), typed' = typed
  PROVE  TypedKept(0)
<1>1. TypedCommands' = TypedCommands /\ TypedCommands \subseteq Nat
  BY DEF TypedCommands
<1>2. QED
  BY <1>1 DEF TypedKept

\* A line that is no command is typed.
LEMMA LineTyped ==
  ASSUME typed \in Seq(Lines), NEW line \in Lines, Type(line), line \notin Command
  PROVE  TypedKept(0) /\ typed' # <<>> /\ (typed # <<>> => Head(typed') = Head(typed))
<1>1. /\ typed' = Append(typed, line)
      /\ typed' \in Seq(Lines)
      /\ Len(typed') = Len(typed) + 1
      /\ \A j \in DOMAIN typed : typed'[j] = typed[j]
      /\ typed'[Len(typed) + 1] = line
  BY DEF Type
<1>2. \A j \in TypedCommands' : j \in TypedCommands /\ typed'[j] = typed[j]
  BY <1>1 DEF TypedCommands
<1>3. \A j \in TypedCommands' : j \in Nat
  <2>1. DOMAIN typed' \subseteq Nat
    BY <1>1
  <2>2. QED
    BY <2>1 DEF TypedCommands
<1>4. typed' # <<>> /\ (typed # <<>> => Head(typed') = Head(typed))
  BY <1>1
<1>5. \A j \in TypedCommands' : j + 0 \in TypedCommands /\ typed'[j] = typed[j + 0]
  <2>1. TAKE j \in TypedCommands'
  <2>2. j + 0 = j
    BY <1>3
  <2>3. QED
    BY <1>2, <2>2
<1>6. QED
  BY <1>1, <1>4, <1>5 DEF TypedKept

\* A line is read.
LEMMA LineRead ==
  ASSUME typed \in Seq(Lines), typed # <<>>, typed' = Tail(typed)
  PROVE  TypedKept(1)
<1>1. /\ typed' \in Seq(Lines)
      /\ Len(typed') = Len(typed) - 1
      /\ \A j \in DOMAIN typed' : typed'[j] = typed[j + 1]
      /\ DOMAIN typed' = 1 .. Len(typed) - 1 /\ DOMAIN typed = 1 .. Len(typed)
      /\ Len(typed) \in Nat
  OBVIOUS
<1>2. ASSUME NEW j \in TypedCommands'
      PROVE  j + 1 \in TypedCommands /\ typed'[j] = typed[j + 1]
  <2>1. j \in DOMAIN typed' /\ typed'[j] \in Command
    BY DEF TypedCommands
  <2>2. j + 1 \in DOMAIN typed /\ typed'[j] = typed[j + 1]
    BY <1>1, <2>1
  <2>3. QED
    BY <2>1, <2>2 DEF TypedCommands
<1>3. QED
  BY <1>1, <1>2 DEF TypedKept

\* Everything typed is lost.
LEMMA LinesLost ==
  ASSUME typed' = <<>>
  PROVE  TypedKept(0)
BY DEF TypedKept, TypedCommands

\* Nothing is printed or matched.
LEMMA SamePrinted ==
  ASSUME printed \in Seq([text : Texts, code : Codes \cup {0}]), printed' = printed
  PROVE  PrintedKept(0)
<1>1. Markers' = Markers /\ Markers \subseteq Nat
  BY DEF Markers
<1>2. QED
  BY <1>1 DEF PrintedKept

\* Something that is no exit code is printed.
LEMMA TextPrinted ==
  ASSUME printed \in Seq([text : Texts, code : Codes \cup {0}]),
         NEW t \in Texts \ {"rc"}, Prints(t)
  PROVE  PrintedKept(0)
<1> DEFINE Out == [text : Texts, code : Codes \cup {0}]
<1>1. Text(t) \in Out /\ Text(t).text # "rc"
  BY DEF Text
<1> DEFINE x == Text(t)
<1>2. printed' = Append(printed, x)
  BY DEF Prints
<1> HIDE DEF Out, x
<1>3. printed \in Seq(Out) /\ x \in Out
  BY <1>1 DEF Out, x
<1>4. /\ printed' \in Seq(Out)
      /\ Len(printed') = Len(printed) + 1
      /\ \A j \in DOMAIN printed : printed'[j] = printed[j]
      /\ printed'[Len(printed) + 1] = x
      /\ DOMAIN printed' = 1 .. Len(printed) + 1 /\ DOMAIN printed = 1 .. Len(printed)
      /\ Len(printed) \in Nat
  BY <1>2, <1>3
<1>5. x.text # "rc"
  BY <1>1 DEF x
<1>6. \A j \in Markers' : j \in Markers /\ printed'[j] = printed[j] /\ j \in Nat
  BY <1>4, <1>5 DEF Markers
<1>7. QED
  BY <1>4, <1>6 DEF PrintedKept, Out

\* A pattern matches, and everything up to it is consumed.
LEMMA Consumed ==
  ASSUME printed \in Seq([text : Texts, code : Codes \cup {0}]),
         NEW texts, NEW i, Expect(texts, i)
  PROVE  PrintedKept(i) /\ i \in Nat /\ i >= 1
<1> DEFINE Out == [text : Texts, code : Codes \cup {0}]
<1>1. i \in DOMAIN printed /\ printed' = SubSeq(printed, i + 1, Len(printed))
  BY DEF Expect, Matches
<1> HIDE DEF Out
<1>2. printed \in Seq(Out)
  BY DEF Out
<1>3. /\ printed' \in Seq(Out)
      /\ DOMAIN printed' = 1 .. Len(printed) - i /\ DOMAIN printed = 1 .. Len(printed)
      /\ \A j \in 1 .. Len(printed) - i : printed'[j] = printed[j + i]
      /\ Len(printed) \in Nat /\ i \in 1 .. Len(printed)
  BY <1>1, <1>2
<1>4. \A j \in Markers' : j + i \in Markers /\ printed'[j] = printed[j + i]
  BY <1>3 DEF Markers
<1>5. QED
  BY <1>3, <1>4 DEF PrintedKept, Out
-----------------------------------------------------------------------------
(* single-command: the steps *)

\* What was under way still is when nothing is typed, run or printed about a
\* command.
LEMMA StillUnderWay ==
  ASSUME TypeOK, OneUnderWay, NEW d \in Nat, TypedKept(d), NEW e \in Nat, PrintedKept(e),
         UNCHANGED <<k, ran>>,
         guest' = "command" => typed' # <<>> /\ Head(typed') \in Command
  PROVE  /\ OneUnderWay'
         /\ TypedCommands = {} => TypedCommands' = {}
         /\ Markers = {} => Markers' = {}
<1>1. TypedCommands' \subseteq Int /\ Markers' \subseteq Int
  <2>1. DOMAIN typed' \subseteq Int /\ DOMAIN printed' \subseteq Int
    BY DEF TypedKept, PrintedKept
  <2>2. QED
    BY <2>1 DEF TypedCommands, Markers
<1>2. \A j \in TypedCommands' : j + d \in TypedCommands /\ typed'[j] = typed[j + d]
  BY DEF TypedKept
<1>3. \A j \in Markers' : j + e \in Markers /\ printed'[j] = printed[j + e]
  BY DEF PrintedKept
<1>4. /\ TypedCommands = {} => TypedCommands' = {}
      /\ Markers = {} => Markers' = {}
  BY <1>2, <1>3
<1>5. Len(ran)' \in {k' - 1, k'}
  BY DEF OneUnderWay
<1>6. \A i \in TypedCommands' :
        /\ typed'[i] = k' /\ Len(ran') = k' - 1 /\ Markers' = {}
        /\ \A j \in DOMAIN ran' : ran'[j].code = 0
  BY <1>2, <1>4 DEF OneUnderWay
<1>7. \A i \in Markers' : Len(ran') = k' /\ k' \in Command /\ printed'[i].code = ran'[k'].code
  BY <1>3 DEF OneUnderWay
<1>8. \A i, j \in TypedCommands' : i = j
  <2>1. TAKE i, j \in TypedCommands'
  <2>2. i + d = j + d
    BY <1>2 DEF OneUnderWay
  <2>3. QED
    BY <1>1, <2>2
<1>9. \A i, j \in Markers' : i = j
  <2>1. TAKE i, j \in Markers'
  <2>2. i + e = j + e
    BY <1>3 DEF OneUnderWay
  <2>3. QED
    BY <1>1, <2>2
<1>10. QED
  BY <1>4, <1>5, <1>6, <1>7, <1>8, <1>9 DEF OneUnderWay

\* A step of the guest that neither runs a command nor prints its code.
LEMMA GuestQuiet ==
  ASSUME SingleInv, UNCHANGED <<pc, k, rc, status, exit, ran>>,
         NEW d \in Nat, TypedKept(d), NEW e \in Nat, PrintedKept(e),
         guest # "none",
         guest' \in {"boot", "menu", "multi-user", "single-user", "ask", "shell",
                     "command", "prompt", "down", "dead"},
         guest' = "command" => typed' # <<>> /\ Head(typed') \in Command
  PROVE  SingleInv'
<1>1. /\ OneUnderWay'
      /\ TypedCommands = {} => TypedCommands' = {}
      /\ Markers = {} => Markers' = {}
  BY StillUnderWay DEF SingleInv
<1>2. TypeOK'
  BY DEF SingleInv, TypeOK, TypedKept, PrintedKept
<1>3. ReadRight'
  BY <1>1 DEF SingleInv, ReadRight
<1>4. StopsAtFirstFailure' /\ SuccessSound' /\ ExitIsTheCommands'
  BY DEF SingleInv, StopsAtFirstFailure, SuccessSound, ExitIsTheCommands
<1>5. QED
  BY <1>1, <1>2, <1>3, <1>4 DEF SingleInv

\* Every step of the guest but the end of a command.
LEMMA GuestSteps ==
  ASSUME SingleInv,
         \/ LoaderStarts \/ MenuEnds \/ AskForShell \/ AskReads \/ LoginReads
         \/ ShellReads \/ ShellPrompts \/ ShutsDown \/ Dies
  PROVE  SingleInv'
<1> DEFINE Out == [text : Texts, code : Codes \cup {0}]
<1>1. typed \in Seq(Lines) /\ printed \in Seq([text : Texts, code : Codes \cup {0}])
  BY DEF SingleInv, TypeOK
<1>2. {"Autoboot in", "Trying to mount root", "Enter full pathname", "# ", "login:",
       "echo", "Uptime:"} \subseteq Texts \ {"rc"}
  BY DEF Texts
<1>3. guest = "command" => typed # <<>> /\ Head(typed) \in Command
  BY DEF SingleInv, OneUnderWay
<1>14. guest # "none"
  BY DEF LoaderStarts, MenuEnds, AskForShell, AskReads, LoginReads, ShellReads,
     ShellPrompts, ShutsDown, Dies
<1>4. CASE LoaderStarts
  <2>1. PrintedKept(0)
    BY <1>1, <1>2, <1>4, TextPrinted DEF LoaderStarts
  <2>2. TypedKept(0)
    BY <1>1, <1>4, SameTyped DEF LoaderStarts
  <2>3. QED
    BY <1>4, <1>14, <2>1, <2>2, GuestQuiet DEF LoaderStarts, GuestOnly, driverVars
<1>5. CASE MenuEnds
  <2>1. PrintedKept(0)
    BY <1>1, <1>2, <1>5, TextPrinted DEF MenuEnds
  <2>2. TypedKept(0) \/ TypedKept(1)
    BY <1>1, <1>5, SameTyped, LineRead DEF MenuEnds
  <2>3. QED
    BY <1>5, <1>14, <2>1, <2>2, GuestQuiet DEF MenuEnds, GuestOnly, driverVars
<1>6. CASE AskForShell
  <2>1. PrintedKept(0)
    BY <1>1, <1>2, <1>6, TextPrinted DEF AskForShell
  <2>2. TypedKept(0)
    BY <1>1, <1>6, SameTyped, LinesLost DEF AskForShell
  <2>3. QED
    BY <1>6, <1>14, <2>1, <2>2, GuestQuiet DEF AskForShell, GuestOnly, driverVars
<1>7. CASE AskReads
  <2>1. PrintedKept(0)
    BY <1>1, <1>2, <1>7, TextPrinted DEF AskReads
  <2>2. TypedKept(1)
    BY <1>1, <1>7, LineRead DEF AskReads
  <2>3. QED
    BY <1>7, <1>14, <2>1, <2>2, GuestQuiet DEF AskReads, GuestOnly, driverVars
<1>8. CASE LoginReads
  <2>1. PrintedKept(0)
    BY <1>1, <1>2, <1>8, TextPrinted DEF LoginReads
  <2>2. TypedKept(1)
    BY <1>1, <1>8, LineRead DEF LoginReads
  <2>3. QED
    BY <1>8, <1>14, <2>1, <2>2, GuestQuiet DEF LoginReads, GuestOnly, driverVars
<1>9. CASE ShellReads
  <2>1. PrintedKept(0)
    BY <1>1, <1>2, <1>9, TextPrinted DEF ShellReads
  <2>2. guest = "shell" /\ UNCHANGED <<pc, k, rc, status, exit, ran>>
    BY <1>9 DEF ShellReads, GuestOnly, driverVars
  <2>3. CASE guest' = "command"
    <3>1. typed' = typed /\ typed # <<>> /\ Head(typed) \in Command
      BY <1>9, <2>2, <2>3 DEF ShellReads
    <3>2. TypedKept(0)
      BY <1>1, <3>1, SameTyped
    <3>3. QED
      BY <1>14, <2>1, <2>2, <2>3, <3>1, <3>2, GuestQuiet
  <2>4. CASE guest' # "command"
    <3>1. typed # <<>> /\ typed' = Tail(typed) /\ guest' \in {"down", "shell"}
      BY <1>9, <2>2, <2>4 DEF ShellReads
    <3>2. TypedKept(1)
      BY <1>1, <3>1, LineRead
    <3>3. QED
      BY <1>14, <2>1, <2>2, <2>4, <3>1, <3>2, GuestQuiet
  <2>5. QED
    BY <2>3, <2>4
<1>10. CASE ShellPrompts
  <2>1. PrintedKept(0)
    BY <1>1, <1>2, <1>10, TextPrinted DEF ShellPrompts
  <2>2. TypedKept(0)
    BY <1>1, <1>10, SameTyped DEF ShellPrompts
  <2>3. QED
    BY <1>10, <1>14, <2>1, <2>2, GuestQuiet DEF ShellPrompts, GuestOnly, driverVars
<1>11. CASE ShutsDown
  <2>1. PrintedKept(0)
    BY <1>1, <1>2, <1>11, TextPrinted DEF ShutsDown
  <2>2. TypedKept(0)
    BY <1>1, <1>11, SameTyped DEF ShutsDown
  <2>3. QED
    BY <1>11, <1>14, <2>1, <2>2, GuestQuiet DEF ShutsDown, GuestOnly, driverVars
<1>12. CASE Dies
  <2>1. PrintedKept(0) /\ TypedKept(0)
    BY <1>1, <1>12, SamePrinted, SameTyped DEF Dies
  <2>2. QED
    BY <1>3, <1>12, <1>14, <2>1, GuestQuiet DEF Dies, GuestOnly, driverVars
<1>13. QED
  BY <1>4, <1>5, <1>6, <1>7, <1>8, <1>9, <1>10, <1>11, <1>12

\* A command ends: it was the one the driver is at, and now its code is printed.
LEMMA CommandRun ==
  ASSUME SingleInv, CommandEnds
  PROVE  SingleInv'
<1> DEFINE Out == [text : Texts, code : Codes \cup {0}]
           Run == [command : Command, code : Codes]
<1>1. /\ typed \in Seq(Lines) /\ printed \in Seq([text : Texts, code : Codes \cup {0}])
      /\ ran \in Seq(Run) /\ k \in Nat /\ typed # <<>>
      /\ Head(typed) \in Command
  BY SingleAssumption DEF SingleInv, TypeOK, OneUnderWay, CommandEnds
<1>2. 1 \in TypedCommands /\ typed[1] = Head(typed)
  BY <1>1 DEF TypedCommands
<1>3. /\ Head(typed) = k /\ k \in Command /\ Len(ran) = k - 1 /\ Markers = {}
      /\ \A j \in DOMAIN ran : ran[j].code = 0
      /\ \A i \in TypedCommands : i = 1
  BY <1>1, <1>2 DEF SingleInv, OneUnderWay
<1>4. PICK n \in Codes :
        /\ ran' = Append(ran, [command |-> Head(typed), code |-> n])
        /\ printed' = Append(printed, Marker(n))
  BY DEF CommandEnds
<1>5. /\ typed' = Tail(typed) /\ guest' = "prompt"
      /\ UNCHANGED <<pc, k, rc, status, exit>>
  BY DEF CommandEnds, driverVars
<1> DEFINE x == Marker(n)
           run == [command |-> k, code |-> n]
<1>6. x \in Out /\ x.text = "rc" /\ x.code = n
  BY DEF Marker, Texts
<1>7. run \in Run /\ run.command = k /\ run.code = n
  BY <1>3
<1>8. ran' = Append(ran, run) /\ printed' = Append(printed, x)
  BY <1>3, <1>4
<1>9. printed \in Seq(Out)
  BY <1>1
<1> HIDE DEF x, run, Out, Run
<1>10. /\ ran' \in Seq(Run) /\ Len(ran') = k /\ ran'[k] = run
       /\ \A j \in 1 .. k - 1 : ran'[j] = ran[j]
       /\ DOMAIN ran' = 1 .. k /\ DOMAIN ran = 1 .. k - 1
  BY <1>1, <1>3, <1>7, <1>8
<1>11. /\ printed' \in Seq(Out) /\ Len(printed) \in Nat
       /\ DOMAIN printed' = 1 .. Len(printed) + 1 /\ DOMAIN printed = 1 .. Len(printed)
       /\ printed'[Len(printed) + 1] = x
       /\ \A j \in DOMAIN printed : printed'[j] = printed[j]
  BY <1>6, <1>8, <1>9
<1>12. \A j \in Markers' : j = Len(printed) + 1
  BY <1>3, <1>11 DEF Markers
<1>13. TypedKept(1)
  BY <1>1, <1>5, LineRead
<1>14. TypedCommands' = {}
  <2>1. \A j \in TypedCommands' : j + 1 = 1 /\ j \in DOMAIN typed'
    BY <1>3, <1>13 DEF TypedKept, TypedCommands
  <2>2. \A j \in DOMAIN typed' : j \in Nat /\ j >= 1
    BY <1>13 DEF TypedKept
  <2>3. QED
    BY <2>1, <2>2
<1>15. TypeOK'
  BY <1>5, <1>10, <1>11, <1>13 DEF SingleInv, TypeOK, TypedKept, Out, Run
<1>16. OneUnderWay'
  <2>1. \A i \in Markers' : Len(ran') = k' /\ k' \in Command /\ printed'[i].code = ran'[k'].code
    BY <1>3, <1>5, <1>6, <1>7, <1>10, <1>11, <1>12
  <2>2. \A i, j \in Markers' : i = j
    BY <1>12
  <2>3. QED
    BY <2>1, <2>2, <1>5, <1>10, <1>14 DEF OneUnderWay
<1>17. pc \in {"marker", "done"}
  BY <1>2, <1>3 DEF SingleInv, TypeOK, ReadRight
<1>18. exit \in {Running, Failure, Interrupt}
  BY <1>2 DEF SingleInv, ReadRight
<1>19. ReadRight'
  BY <1>3, <1>5, <1>17, <1>18 DEF SingleInv, ReadRight
<1>20. StopsAtFirstFailure'
  <2>1. \A j \in DOMAIN ran : ran[j].command = j /\ ran[j].code = 0
    BY <1>3 DEF SingleInv, StopsAtFirstFailure
  <2>2. ASSUME NEW j \in DOMAIN ran'
        PROVE  ran'[j].command = j /\ (j < Len(ran') => ran'[j].code = 0)
    <3>1. CASE j = k
      BY <3>1, <1>7, <1>10
    <3>2. CASE j # k
      BY <3>2, <2>1, <1>1, <1>10
    <3>3. QED
      BY <3>1, <3>2
  <2>3. QED
    BY <2>2 DEF StopsAtFirstFailure
<1>21. SuccessSound' /\ ExitIsTheCommands'
  BY <1>5, <1>18 DEF SuccessSound, ExitIsTheCommands, Running, Failure, BootFailure,
     Interrupt
<1>22. QED
  BY <1>15, <1>16, <1>19, <1>20, <1>21 DEF SingleInv

\* The driver goes on to its next wait and no command is concerned.
LEMMA DriverQuiet ==
  ASSUME SingleInv, UNCHANGED <<k, rc, status, exit, ran, guest>>,
         TypedKept(0), NEW e \in Nat, PrintedKept(e),
         guest = "command" => typed' # <<>> /\ Head(typed') \in Command,
         pc \in {"menu", "ask", "prompt"}, pc' \in {"ask", "prompt", "send"}
  PROVE  SingleInv'
<1>1. /\ OneUnderWay'
      /\ TypedCommands = {} => TypedCommands' = {}
      /\ Markers = {} => Markers' = {}
  BY StillUnderWay DEF SingleInv
<1>2. TypeOK'
  BY DEF SingleInv, TypeOK, TypedKept, PrintedKept
<1>3. ReadRight'
  BY <1>1 DEF SingleInv, ReadRight
<1>4. StopsAtFirstFailure' /\ SuccessSound' /\ ExitIsTheCommands'
  BY DEF SingleInv, StopsAtFirstFailure, SuccessSound, ExitIsTheCommands
<1>5. QED
  BY <1>1, <1>2, <1>3, <1>4 DEF SingleInv

\* The driver gives up.
LEMMA DriverGivesUp ==
  ASSUME SingleInv, UNCHANGED <<k, rc, status, ran, typed>>,
         NEW e \in Nat, PrintedKept(e),
         NEW code \in {Failure, BootFailure, Interrupt}, ReturnWith(code),
         code = BootFailure => TypedCommands = {}
  PROVE  SingleInv'
<1>1. TypedKept(0)
  BY SameTyped DEF SingleInv, TypeOK
<1>2. exit' = code /\ pc' = "done" /\ guest' \in {guest, "dead"}
  BY DEF ReturnWith
<1>3. OneUnderWay' /\ (TypedCommands = {} => TypedCommands' = {})
  <2>1. guest' = "command" => typed' # <<>> /\ Head(typed') \in Command
    BY <1>2 DEF SingleInv, OneUnderWay
  <2>2. QED
    BY <1>1, <2>1, StillUnderWay DEF SingleInv
<1>4. TypeOK'
  BY <1>1, <1>2 DEF SingleInv, TypeOK, TypedKept, PrintedKept
<1>5. ReadRight'
  BY <1>2, <1>3 DEF ReadRight
<1>6. StopsAtFirstFailure' /\ SuccessSound' /\ ExitIsTheCommands'
  BY <1>2 DEF SingleInv, StopsAtFirstFailure, SuccessSound, ExitIsTheCommands, Failure,
     BootFailure, Interrupt
<1>7. QED
  BY <1>3, <1>4, <1>5, <1>6 DEF SingleInv

\* The first three waits.
LEMMA BootSteps ==
  ASSUME SingleInv, ExpectMenu \/ ExpectAsk \/ ExpectPrompt
  PROVE  SingleInv'
<1>1. typed \in Seq(Lines) /\ printed \in Seq([text : Texts, code : Codes \cup {0}])
  BY DEF SingleInv, TypeOK
<1>2. guest = "command" => typed # <<>> /\ Head(typed) \in Command
  BY DEF SingleInv, OneUnderWay
<1>3. {Menu2, Shutdown, EmptyLine} \subseteq Lines /\ \A line \in {Menu2, Shutdown, EmptyLine} : line \notin Command
  BY SingleAssumption DEF Lines, Menu2, Shutdown, EmptyLine, Command
<1>4. CASE ExpectMenu
  <2>1. PICK e \in Nat : PrintedKept(e)
    <3>1. CASE \E i \in DOMAIN printed : Expect({"Autoboot in", "Trying to mount root"}, i)
      BY <3>1, <1>1, Consumed
    <3>2. CASE TimesOut({"Autoboot in", "Trying to mount root"})
      BY <3>2, <1>1, SamePrinted DEF TimesOut
    <3>3. QED
      BY <1>4, <3>1, <3>2 DEF ExpectMenu
  <2>2. CASE Type(Menu2) /\ pc' = "ask" /\ UNCHANGED <<exit, guest>>
    <3>1. TypedKept(0) /\ typed' # <<>> /\ (typed # <<>> => Head(typed') = Head(typed))
      BY <1>1, <1>3, <2>2, LineTyped
    <3>2. QED
      BY <1>2, <1>4, <2>1, <2>2, <3>1, DriverQuiet DEF ExpectMenu
  <2>3. CASE ReturnWith(BootFailure) /\ UNCHANGED typed
    <3>1. TypedCommands = {}
      BY <1>4 DEF ExpectMenu, SingleInv, ReadRight
    <3>2. QED
      BY <1>4, <2>1, <2>3, <3>1, DriverGivesUp DEF ExpectMenu
  <2>4. QED
    BY <1>4, <2>2, <2>3 DEF ExpectMenu
<1>5. CASE ExpectAsk
  <2>1. PICK e \in Nat : PrintedKept(e)
    BY <1>1, <1>5, Consumed, SamePrinted DEF ExpectAsk, TimesOut
  <2>2. TypedKept(0) /\ typed' # <<>> /\ (typed # <<>> => Head(typed') = Head(typed))
    BY <1>1, <1>3, <1>5, LineTyped DEF ExpectAsk
  <2>3. QED
    BY <1>2, <1>5, <2>1, <2>2, DriverQuiet DEF ExpectAsk
<1>6. CASE ExpectPrompt
  <2>1. PICK e \in Nat : PrintedKept(e)
    BY <1>1, <1>6, Consumed, SamePrinted DEF ExpectPrompt, TimesOut
  <2>2. TypedKept(0)
    BY <1>1, <1>6, SameTyped DEF ExpectPrompt
  <2>3. QED
    BY <1>2, <1>6, <2>1, <2>2, DriverQuiet DEF ExpectPrompt
<1>7. QED
  BY <1>4, <1>5, <1>6

\* A command, or the shutdown, is typed when none is under way.
LEMMA SendStep ==
  ASSUME SingleInv, SendCommand
  PROVE  SingleInv'
<1>1. /\ typed \in Seq(Lines) /\ printed \in Seq([text : Texts, code : Codes \cup {0}])
      /\ k \in 1 .. N + 1 /\ N \in Nat
  BY SingleAssumption DEF SingleInv, TypeOK
<1>2. /\ pc = "send" /\ UNCHANGED <<k, rc, status, exit, guest, printed, ran>>
      /\ Len(ran) = k - 1 /\ TypedCommands = {} /\ Markers = {}
      /\ status = IF k = 1 THEN 0 ELSE ran[k - 1].code
      /\ exit = Running
  BY DEF SingleInv, ReadRight, SendCommand
<1>3. guest # "command"
  <2>1. guest = "command" => 1 \in TypedCommands
    BY <1>1 DEF SingleInv, OneUnderWay, TypedCommands
  <2>2. QED
    BY <1>2, <2>1
<1>4. PrintedKept(0) /\ Markers' = {}
  BY <1>1, <1>2, SamePrinted DEF PrintedKept, Markers
<1>5. StopsAtFirstFailure' /\ SuccessSound' /\ ExitIsTheCommands'
  BY <1>2 DEF SingleInv, StopsAtFirstFailure, SuccessSound, ExitIsTheCommands, Running
<1>6. CASE k \in Command /\ status = 0
  <2>1. Type(k) /\ pc' = "marker"
    BY <1>6 DEF SendCommand
  <2>2. k \in Lines
    BY <1>6 DEF Lines
  <2>3. /\ typed' \in Seq(Lines) /\ Len(typed) \in Nat
        /\ DOMAIN typed' = 1 .. Len(typed) + 1 /\ DOMAIN typed = 1 .. Len(typed)
        /\ typed'[Len(typed) + 1] = k
        /\ \A j \in DOMAIN typed : typed'[j] = typed[j]
    BY <1>1, <2>1, <2>2 DEF Type
  <2>4. \A j \in TypedCommands' : j = Len(typed) + 1
    BY <1>2, <2>3 DEF TypedCommands
  <2>5. \A j \in DOMAIN ran : ran[j].code = 0
    <3>1. DOMAIN ran = 1 .. k - 1
      BY <1>2 DEF SingleInv, TypeOK
    <3>2. k # 1 => ran[k - 1].code = 0
      BY <1>2, <1>6
    <3>3. \A j \in 1 .. k - 1 : j < k - 1 => ran[j].code = 0
      BY <1>2, <3>1 DEF SingleInv, StopsAtFirstFailure
    <3>4. QED
      BY <1>1, <3>1, <3>2, <3>3
  <2>6. \A j \in TypedCommands' :
          /\ typed'[j] = k' /\ Len(ran') = k' - 1 /\ Markers' = {}
          /\ \A m \in DOMAIN ran' : ran'[m].code = 0
    BY <1>2, <1>4, <2>3, <2>4, <2>5
  <2>7. \A i, j \in TypedCommands' : i = j
    BY <2>4
  <2>8. OneUnderWay'
    BY <1>2, <1>3, <1>4, <2>6, <2>7 DEF OneUnderWay
  <2>9. TypeOK'
    BY <1>2, <2>1, <2>3 DEF SingleInv, TypeOK
  <2>10. ReadRight'
    BY <1>2, <1>6, <2>1 DEF ReadRight
  <2>11. QED
    BY <1>5, <2>8, <2>9, <2>10 DEF SingleInv
<1>7. CASE ~(k \in Command /\ status = 0)
  <2>1. Type(Shutdown) /\ pc' = "bye"
    BY <1>7 DEF SendCommand
  <2>2. Shutdown \in Lines /\ Shutdown \notin Command
    BY <1>1 DEF Lines, Shutdown, Command
  <2>3. TypedKept(0)
    BY <1>1, <2>1, <2>2, LineTyped
  <2>4. OneUnderWay' /\ TypedCommands' = {}
    BY <1>2, <1>3, <1>4, <2>3, StillUnderWay DEF SingleInv
  <2>5. TypeOK'
    BY <1>2, <2>1, <2>3 DEF SingleInv, TypeOK, TypedKept
  <2>6. k = N + 1 \/ status # 0
    BY <1>1, <1>7 DEF Command
  <2>7. ReadRight'
    BY <1>2, <1>4, <2>1, <2>4, <2>6 DEF ReadRight
  <2>8. QED
    BY <1>5, <2>4, <2>5, <2>7 DEF SingleInv
<1>8. QED
  BY <1>6, <1>7

\* The code of the command under way is read, and no other is left to be read.
LEMMA MarkerStep ==
  ASSUME SingleInv, ExpectMarker
  PROVE  SingleInv'
<1>1. PICK i \in DOMAIN printed : Expect({"rc"}, i) /\ rc' = printed[i].code
  BY DEF ExpectMarker
<1>2. /\ pc = "marker" /\ pc' = "after" /\ k \in Command
      /\ UNCHANGED <<k, status, exit, guest, typed, ran>>
  BY DEF SingleInv, ReadRight, ExpectMarker
<1>3. typed \in Seq(Lines) /\ printed \in Seq([text : Texts, code : Codes \cup {0}])
  BY DEF SingleInv, TypeOK
<1>4. i \in Markers
  BY <1>1 DEF Expect, Matches, Markers
<1>5. /\ Len(ran) = k /\ printed[i].code = ran[k].code
      /\ \A j \in Markers : j = i
  BY <1>4 DEF SingleInv, OneUnderWay
<1>6. PrintedKept(i) /\ i \in Nat /\ i >= 1
  BY <1>1, <1>3, Consumed
<1>7. Markers' = {}
  <2>1. \A j \in Markers' : j + i = i /\ j \in DOMAIN printed'
    BY <1>5, <1>6 DEF PrintedKept, Markers
  <2>2. \A j \in DOMAIN printed' : j \in Nat /\ j >= 1
    BY <1>6 DEF PrintedKept
  <2>3. QED
    BY <1>6, <2>1, <2>2
<1>8. TypedKept(0)
  BY <1>2, <1>3, SameTyped
<1>9. guest' = "command" => typed' # <<>> /\ Head(typed') \in Command
  BY <1>2 DEF SingleInv, OneUnderWay
<1>10. OneUnderWay'
  BY <1>2, <1>6, <1>8, <1>9, StillUnderWay DEF SingleInv
<1>11. printed[i].code \in Codes \cup {0}
  <2>1. printed[i] \in [text : Texts, code : Codes \cup {0}]
    BY <1>1, <1>3, ElementOf
  <2>2. QED
    BY <2>1
<1>12. TypeOK'
  BY <1>1, <1>2, <1>6, <1>11 DEF SingleInv, TypeOK, PrintedKept
<1>13. exit = Running
  BY <1>2 DEF SingleInv, ReadRight
<1>14. ReadRight'
  BY <1>1, <1>2, <1>5, <1>7, <1>13 DEF ReadRight
<1>15. StopsAtFirstFailure' /\ SuccessSound' /\ ExitIsTheCommands'
  BY <1>2 DEF SingleInv, StopsAtFirstFailure, SuccessSound, ExitIsTheCommands
<1>16. QED
  BY <1>10, <1>12, <1>14, <1>15 DEF SingleInv

\* The prompt after a command: the loop goes on to the next.
LEMMA PromptAfterStep ==
  ASSUME SingleInv, ExpectPromptAfter
  PROVE  SingleInv'
<1>1. PICK i \in DOMAIN printed : Expect({"# "}, i)
  BY DEF ExpectPromptAfter
<1>2. /\ pc = "after" /\ pc' = "send" /\ status' = rc /\ k' = k + 1
      /\ UNCHANGED <<rc, exit, guest, typed, ran>>
      /\ k \in Command /\ Len(ran) = k /\ rc = ran[k].code /\ Markers = {}
      /\ exit = Running
  BY DEF SingleInv, ReadRight, ExpectPromptAfter
<1>3. /\ typed \in Seq(Lines) /\ printed \in Seq([text : Texts, code : Codes \cup {0}])
      /\ N \in Nat /\ k \in Nat /\ k >= 1 /\ k <= N
  BY <1>2, SingleAssumption DEF SingleInv, TypeOK, Command
<1>4. PrintedKept(i)
  BY <1>1, <1>3, Consumed
<1>5. Markers' = {}
  BY <1>2, <1>4 DEF PrintedKept
<1>6. TypedCommands = {}
  BY <1>2, <1>3 DEF SingleInv, OneUnderWay
<1>7. TypedCommands' = {}
  BY <1>2, <1>6 DEF TypedCommands
<1>8. guest # "command"
  <2>1. guest = "command" => 1 \in TypedCommands
    BY <1>3 DEF SingleInv, OneUnderWay, TypedCommands
  <2>2. QED
    BY <1>6, <2>1
<1>9. OneUnderWay'
  BY <1>2, <1>3, <1>5, <1>7, <1>8 DEF OneUnderWay
<1>10. TypeOK'
  BY <1>2, <1>3, <1>4 DEF SingleInv, TypeOK, PrintedKept
<1>11. ReadRight'
  <2>1. Len(ran') = k' - 1 /\ status' = ran'[k' - 1].code /\ k' # 1
    BY <1>2, <1>3
  <2>2. QED
    BY <1>2, <1>5, <1>7, <2>1 DEF ReadRight
<1>12. StopsAtFirstFailure' /\ SuccessSound' /\ ExitIsTheCommands'
  BY <1>2 DEF SingleInv, StopsAtFirstFailure, SuccessSound, ExitIsTheCommands
<1>13. QED
  BY <1>9, <1>10, <1>11, <1>12 DEF SingleInv

\* The session ends, and its exit code is that of the last command that ran.
LEMMA ByeStep ==
  ASSUME SingleInv, ExpectBye
  PROVE  SingleInv'
<1>1. /\ pc = "bye" /\ UNCHANGED <<k, rc, status, typed, ran>>
      /\ pc' = "done" /\ exit' = status /\ guest' \in {guest, "dead"}
  BY DEF ExpectBye, ReturnWith
<1>2. /\ Len(ran) = k - 1 /\ TypedCommands = {} /\ Markers = {}
      /\ status = IF k = 1 THEN 0 ELSE ran[k - 1].code
      /\ k = N + 1 \/ status # 0
  BY <1>1 DEF SingleInv, ReadRight
<1>3. /\ typed \in Seq(Lines) /\ printed \in Seq([text : Texts, code : Codes \cup {0}])
      /\ N \in Nat \ {0} /\ k \in 1 .. N + 1 /\ status \in Codes \cup {0}
      /\ ran \in Seq([command : Command, code : Codes])
  BY SingleAssumption DEF SingleInv, TypeOK
<1>4. PICK e \in Nat : PrintedKept(e)
  BY <1>3, Consumed, SamePrinted DEF ExpectBye, EndOfFile
<1>5. TypedKept(0)
  BY <1>1, <1>3, SameTyped
<1>6. OneUnderWay' /\ TypedCommands' = {}
  <2>1. guest' = "command" => typed' # <<>> /\ Head(typed') \in Command
    BY <1>1 DEF SingleInv, OneUnderWay
  <2>2. QED
    BY <1>1, <1>2, <1>4, <1>5, <2>1, StillUnderWay DEF SingleInv
<1>7. TypeOK'
  BY <1>1, <1>3, <1>4 DEF SingleInv, TypeOK, PrintedKept
<1>8. ReadRight'
  BY <1>1, <1>6 DEF ReadRight
<1>9. StopsAtFirstFailure'
  BY <1>1 DEF SingleInv, StopsAtFirstFailure
<1>10. SuccessSound'
  <2>1. SUFFICES ASSUME status = 0
                 PROVE  /\ Len(ran) = N
                        /\ \A j \in Command : ran[j] = [command |-> j, code |-> 0]
    BY <1>1 DEF SuccessSound
  <2>2. k = N + 1 /\ Len(ran) = N /\ ran[N].code = 0
    BY <1>2, <1>3, <2>1
  <2>3. ASSUME NEW j \in Command
        PROVE  ran[j] = [command |-> j, code |-> 0]
    <3>1. j \in 1 .. Len(ran) /\ j \in DOMAIN ran
      BY <1>3, <2>2 DEF Command
    <3>2. ran[j].command = j /\ (j < Len(ran) => ran[j].code = 0)
      BY <3>1 DEF SingleInv, StopsAtFirstFailure
    <3>3. ran[j].code = 0
      BY <1>3, <2>2, <3>1, <3>2
    <3>4. ran[j] \in [command : Command, code : Codes]
      BY <1>3, <3>1, ElementOf
    <3>5. QED
      BY <3>2, <3>3, <3>4
  <2>4. QED
    BY <2>2, <2>3
<1>11. ExitIsTheCommands'
  <2>1. SUFFICES ASSUME status # 0
                 PROVE  ran # <<>> /\ ran[Len(ran)].code = status
    BY <1>1 DEF ExitIsTheCommands
  <2>2. k # 1 /\ Len(ran) # 0
    BY <1>2, <1>3, <2>1
  <2>3. QED
    BY <1>2, <1>3, <2>2
<1>12. QED
  BY <1>6, <1>7, <1>8, <1>9, <1>10, <1>11 DEF SingleInv

\* A wait raises an exception.
LEMMA RaiseStep ==
  ASSUME SingleInv, Raise
  PROVE  SingleInv'
<1>1. printed' = printed /\ ReturnWith(Failure) /\ UNCHANGED <<k, rc, status, typed, ran>>
  BY DEF Raise, TimesOut, EndOfFile
<1>2. PrintedKept(0)
  BY <1>1, SamePrinted DEF SingleInv, TypeOK
<1>3. Failure # BootFailure
  BY DEF Failure, BootFailure
<1>4. QED
  BY <1>1, <1>2, <1>3, DriverGivesUp

\* QEMU is started, or it never is.
LEMMA SpawnStep ==
  ASSUME SingleInv,
         Spawn \/ \E code \in {Failure, Interrupt} : NeverStarts(code)
  PROVE  SingleInv'
<1>1. /\ pc = "spawn" /\ UNCHANGED <<k, rc, status, typed, printed, ran>>
      /\ \/ pc' = "menu" /\ guest' = "boot" /\ exit' = exit
         \/ pc' = "done" /\ guest' = "dead" /\ exit' \in {Failure, Interrupt}
  BY DEF Spawn, NeverStarts
<1>2. /\ TypedCommands' = TypedCommands /\ Markers' = Markers
      /\ TypedCommands = {} /\ Markers = {} /\ exit = Running
  BY <1>1 DEF TypedCommands, Markers, SingleInv, ReadRight
<1>3. TypeOK'
  BY <1>1 DEF SingleInv, TypeOK
<1>4. OneUnderWay'
  BY <1>1, <1>2 DEF SingleInv, OneUnderWay
<1>5. ReadRight'
  BY <1>1, <1>2 DEF SingleInv, ReadRight
<1>6. StopsAtFirstFailure' /\ SuccessSound' /\ ExitIsTheCommands'
  BY <1>1 DEF SingleInv, StopsAtFirstFailure, SuccessSound, ExitIsTheCommands, Failure,
     BootFailure, Interrupt
<1>7. QED
  BY <1>3, <1>4, <1>5, <1>6 DEF SingleInv

\* A Ctrl-C leaves what is under way as it is.
LEMMA InterruptStep ==
  ASSUME SingleInv, SessionInterrupted
  PROVE  SingleInv'
<1>1. CASE NeverStarts(Interrupt)
  BY <1>1, SpawnStep
<1>2. CASE ~NeverStarts(Interrupt)
  <2>1. ReturnWith(Interrupt) /\ UNCHANGED <<k, rc, status, typed, printed, ran>>
    BY <1>2 DEF SessionInterrupted
  <2>2. PrintedKept(0)
    BY <2>1, SamePrinted DEF SingleInv, TypeOK
  <2>3. Interrupt # BootFailure
    BY DEF Interrupt, BootFailure
  <2>4. QED
    BY <2>1, <2>2, <2>3, DriverGivesUp
<1>3. QED
  BY <1>1, <1>2

LEMMA SingleInductive ==
  ASSUME SingleInv, [Next]_vars
  PROVE  SingleInv'
<1>1. CASE UNCHANGED vars
  BY <1>1 DEF vars, driverVars, SingleInv, TypeOK, OneUnderWay, ReadRight, TypedCommands,
     Markers, StopsAtFirstFailure, SuccessSound, ExitIsTheCommands
<1>2. CASE Driver \/ SessionInterrupted
  BY <1>2, SpawnStep, InterruptStep, BootSteps, SendStep, MarkerStep, PromptAfterStep,
     ByeStep, RaiseStep DEF Driver
<1>3. CASE Guest
  BY <1>3, GuestSteps, CommandRun DEF Guest
<1>4. QED
  BY <1>1, <1>2, <1>3 DEF Next, Finished
-----------------------------------------------------------------------------
(* start and stop *)

\* A pkill reaches every QEMU there is, and changes no signal already sent.
LEMMA KillReaches ==
  ASSUME StartTypeOK, kill_existing
  PROVE  /\ signal' \in [Qemu -> {0, 9, 15}]
         /\ \A q \in Qemu : qemu[q] \in Alive => signal'[q] # 0
         /\ \A q \in Qemu : signal[q] # 0 \/ qemu[q] \notin Alive => signal'[q] = signal[q]
<1>1. signal \in [Qemu -> {0, 9, 15}]
  BY DEF StartTypeOK
<1>2. \A q \in Qemu :
        signal'[q] = IF qemu[q] \in Alive /\ signal[q] = 0 THEN 15 ELSE signal[q]
  BY DEF kill_existing
<1>3. DOMAIN signal' = Qemu /\ signal' = [q \in Qemu |-> signal'[q]]
  BY DEF kill_existing
<1>4. \A q \in Qemu : signal[q] \in {0, 9, 15}
  BY <1>1
<1>5. \A q \in Qemu : signal'[q] \in {0, 9, 15}
  BY <1>2, <1>4
<1>6. \A q \in Qemu : qemu[q] \in Alive => signal'[q] # 0
  BY <1>2
<1>7. \A q \in Qemu : signal[q] # 0 \/ qemu[q] \notin Alive => signal'[q] = signal[q]
  BY <1>2
<1>8. QED
  BY <1>3, <1>5, <1>6, <1>7

\* What a pkill, or an exception in its place, makes of the signals.
LEMMA KillOrNot ==
  ASSUME StartInv, kill_existing \/ UNCHANGED signal
  PROVE  /\ signal' \in [Qemu -> {0, 9, 15}]
         /\ \A q \in Qemu : signal[q] # 0 => signal'[q] = signal[q]
         /\ qemu["own"] = "none" => signal'["own"] = signal["own"]
<1>1. "own" \in Qemu /\ "none" \notin Alive
  BY DEF Qemu, Alive, Holds
<1>2. QED
  BY <1>1, KillReaches DEF StartInv, StartTypeOK

\* A kill_existing that ends a subcommand or comes before one, done or not.
LEMMA KillStep ==
  ASSUME StartInv,
         kill_existing \/ UNCHANGED signal, UNCHANGED <<polls, qemu, since, answered, said>>,
         start_pc \in Begins \cup {"kill_again"},
         \/ start_pc' = "done" /\ start_exit' \in {NotYet, 0, 1, StartInterrupt}
         \/ /\ start_pc \in Begins /\ start_pc' \in {"spawn", "session"}
            /\ start_exit' = start_exit
  PROVE  StartInv'
<1>1. /\ signal' \in [Qemu -> {0, 9, 15}]
      /\ \A q \in Qemu : signal[q] # 0 => signal'[q] = signal[q]
      /\ qemu["own"] = "none" => signal'["own"] = signal["own"]
  BY KillOrNot
<1>2. StartTypeOK'
  BY <1>1 DEF StartInv, StartTypeOK
<1>3. OwnInStep'
  BY <1>1 DEF StartInv, OwnInStep, Begins
<1>4. QED
  BY <1>2, <1>3 DEF StartInv

\* What an attempt of the poll can come to.
LEMMA PollOutcomes ==
  ASSUME StartInv, wait_ssh
  PROVE  /\ start_pc = "poll" /\ said = "started" /\ start_exit = NotYet
         /\ signal["own"] = 0 /\ UNCHANGED <<qemu, signal, since>>
         /\ polls' \in 0 .. Polls
         /\ \/ /\ start_pc' = "done" /\ start_exit' \in {0, 1}
               /\ answered' \in Qemu \cup {"none"}
               /\ said' = IF start_exit' = 0 THEN "ready" ELSE "started"
            \/ /\ start_pc' = "poll" /\ UNCHANGED <<start_exit, answered, said>>
            \/ /\ start_pc' = "terminate" /\ said' = "not ready"
               /\ UNCHANGED <<start_exit, answered>>
<1>1. start_pc = "poll" /\ UNCHANGED <<qemu, signal, since>>
  BY DEF wait_ssh
<1>2. said = "started" /\ start_exit = NotYet /\ signal["own"] = 0
  BY <1>1 DEF StartInv, OwnInStep
<1>3. polls \in 0 .. Polls /\ answered \in Qemu \cup {"none"}
  BY DEF StartInv, StartTypeOK
<1>4. polls' = polls \/ (polls < Polls /\ polls' = polls + 1)
  BY DEF wait_ssh
<1>5. polls' \in 0 .. Polls
  BY <1>3, <1>4, StartAssumption
<1>6. \/ /\ start_pc' = "done" /\ start_exit' \in {0, 1}
         /\ answered' \in Qemu \cup {"none"}
         /\ said' = IF start_exit' = 0 THEN "ready" ELSE "started"
      \/ /\ start_pc' = "poll" /\ UNCHANGED <<start_exit, answered, said>>
      \/ /\ start_pc' = "terminate" /\ said' = "not ready"
         /\ UNCHANGED <<start_exit, answered>>
  <2>1. CASE start_pc' = "terminate"
    BY <2>1 DEF wait_ssh, Leaves
  <2>2. CASE start_pc' = "done" /\ start_exit' = 0
    BY <1>2, <2>2 DEF wait_ssh, Leaves, NotYet
  <2>3. CASE start_pc' = "done" /\ start_exit' = 1
    BY <1>2, <1>3, <2>3 DEF wait_ssh, Leaves, NotYet
  <2>4. CASE start_pc' = "poll"
    BY <1>1, <2>4 DEF wait_ssh, Leaves
  <2>5. QED
    BY <1>1, <2>1, <2>2, <2>3, <2>4 DEF wait_ssh, Leaves
<1>7. QED
  BY <1>1, <1>2, <1>5, <1>6

\* A step of the driver.
LEMMA DriverStep ==
  ASSUME StartInv, StartDriver \/ Interrupted
  PROVE  StartInv'
<1> USE DEF Qemu, NotYet, Begins
<1>1. CASE Stop \/ KillFirst \/ KillRaises \/ KillAgain
  <2>1. /\ kill_existing \/ UNCHANGED signal
        /\ UNCHANGED <<polls, qemu, since, answered, said>>
        /\ start_pc \in Begins \cup {"kill_again"}
    BY <1>1 DEF Stop, KillFirst, KillRaises, KillAgain
  <2>2. \/ start_pc' = "done" /\ start_exit' \in {0, 1}
        \/ /\ start_pc \in Begins /\ start_pc' \in {"spawn", "session"}
           /\ start_exit' = start_exit
    BY <1>1 DEF Stop, KillFirst, KillRaises, KillAgain, Leaves
  <2>3. QED
    BY <2>1, <2>2, KillStep
<1>2. CASE Popen
  BY <1>2 DEF Popen, Leaves, StartInv, OwnInStep, StartTypeOK, Alive, Holds
<1>3. CASE wait_ssh
  <2>1. StartTypeOK'
    BY <1>3, PollOutcomes DEF StartInv, StartTypeOK
  <2>2. OwnInStep'
    BY <1>3, PollOutcomes DEF StartInv, OwnInStep
  <2>3. QED
    BY <2>1, <2>2 DEF StartInv
<1>4. CASE terminate
  BY <1>4 DEF terminate, StartInv, OwnInStep, StartTypeOK, Alive, Holds
<1>5. CASE WaitOrKill
  BY <1>5 DEF WaitOrKill, StartInv, OwnInStep, StartTypeOK, Alive, Holds
<1>6. CASE Interrupted
  <2>1. /\ start_pc' = "done" /\ start_exit' = StartInterrupt
        /\ UNCHANGED <<polls, qemu, since, answered, said>>
    BY <1>6 DEF Interrupted, Leaves
  <2>2. CASE UNCHANGED signal
    BY <2>1, <2>2 DEF StartInv, OwnInStep, StartTypeOK, StartInterrupt
  <2>3. CASE start_pc \in {"stop", "start", "kill_again"} /\ kill_existing
    BY <2>1, <2>3, KillStep
  <2>4. QED
    BY <1>6, <2>2, <2>3 DEF Interrupted
<1>7. QED
  BY <1>1, <1>2, <1>3, <1>4, <1>5, <1>6 DEF StartDriver

\* A step of a QEMU.
Processes ==
  (\E q \in Qemu : Binds(q) \/ GuestUp(q) \/ QemuEnds(q)) \/ OtherStarts

LEMMA QemuStep ==
  ASSUME StartInv, Processes
  PROVE  StartInv'
<1> USE DEF StartInv, OwnInStep, StartTypeOK, Qemu, Alive, Holds
<1>1. ASSUME NEW q \in Qemu, Binds(q) PROVE StartInv'
  BY <1>1 DEF Binds
<1>2. ASSUME NEW q \in Qemu, GuestUp(q) PROVE StartInv'
  BY <1>2 DEF GuestUp
<1>3. ASSUME NEW q \in Qemu, QemuEnds(q) PROVE StartInv'
  BY <1>3 DEF QemuEnds
<1>4. CASE OtherStarts
  BY <1>4 DEF OtherStarts
<1>5. QED
  BY <1>1, <1>2, <1>3, <1>4 DEF Processes

\* single-command ends before its session.
LEMMA NeverStep ==
  ASSUME StartInv, SingleNeverStarts
  PROVE  StartInv'
<1>1. start_exit = NotYet
  BY DEF StartInv, OwnInStep, SingleNeverStarts
<1>2. QED
  BY <1>1, KillStep DEF SingleNeverStarts, Begins
-----------------------------------------------------------------------------
(* cheri_vm.py *)

LEMMA MainInitial == MainInit => MainInv
<1>1. SUFFICES ASSUME MainInit PROVE MainInv
  OBVIOUS
<1>2. Init /\ StartInit
  BY <1>1 DEF MainInit
<1>3. SingleInv
  <2>1. TypedCommands = {} /\ Markers = {} /\ Len(ran) = 0 /\ DOMAIN ran = {}
    BY <1>2 DEF Init, TypedCommands, Markers
  <2>2. TypeOK
    BY <1>2, SingleAssumption DEF Init, TypeOK, Running
  <2>3. QED
    BY <1>2, <2>1, <2>2 DEF Init, SingleInv, OneUnderWay, ReadRight, StopsAtFirstFailure,
       SuccessSound, ExitIsTheCommands, Running
<1>4. StartInv
  BY <1>2, StartAssumption DEF StartInit, StartInv, StartTypeOK, OwnInStep, Qemu, Alive,
     Holds, NotYet, Begins
<1>5. QED
  BY <1>3, <1>4 DEF MainInv

LEMMA MainStep == MainInv /\ [MainNext]_allVars => MainInv'
<1>1. SUFFICES ASSUME MainInv, [MainNext]_allVars PROVE MainInv'
  OBVIOUS
<1>2. CASE SingleRuns
  <2>1. SingleInv'
    BY <1>1, <1>2, SingleInductive DEF SingleRuns, MainInv
  <2>2. StartInv'
    BY <1>1, <1>2 DEF SingleRuns, MainInv, startVars, StartInv, StartTypeOK, OwnInStep
  <2>3. QED
    BY <2>1, <2>2 DEF MainInv
<1>3. CASE StartRuns
  <2>1. StartInv'
    BY <1>1, <1>3, DriverStep, QemuStep DEF StartRuns, StartNext, Processes, MainInv
  <2>2. SingleInv'
    BY <1>1, <1>3, SingleInductive DEF StartRuns, MainInv
  <2>3. QED
    BY <2>1, <2>2 DEF MainInv
<1>4. CASE UNCHANGED allVars
  <2>1. SingleInv'
    BY <1>1, <1>4, SingleInductive DEF allVars, MainInv
  <2>2. StartInv'
    BY <1>1, <1>4 DEF allVars, MainInv, startVars, StartInv, StartTypeOK, OwnInStep
  <2>3. QED
    BY <2>1, <2>2 DEF MainInv
<1>5. CASE SingleNeverStarts
  BY <1>1, <1>5, NeverStep, SpawnStep DEF SingleNeverStarts, MainInv
<1>6. QED
  BY <1>1, <1>2, <1>3, <1>4, <1>5 DEF MainNext, MainReturned

\* The inductive invariant: lines 69 to 161 of cheri_vm.py, whatever the guest and
\* the other users of the container do.
THEOREM MainSafe == MainSpec => []MainInv
<1>1. QED
  BY MainInitial, MainStep, PTL DEF MainSpec

\* Type correctness of single-command and of the guest it drives.
THEOREM SingleTypes == MainSpec => []TypeOK
<1>1. MainInv => TypeOK
  BY DEF MainInv, SingleInv
<1>2. QED
  BY <1>1, MainSafe, PTL

\* single-command ends with 0 only when a shell of its guest ran every command and
\* each of them ended with 0.
THEOREM SingleSuccess == MainSpec => []SuccessSound
<1>1. MainInv => SuccessSound
  BY DEF MainInv, SingleInv
<1>2. QED
  BY <1>1, MainSafe, PTL

\* The commands run once each, in their order, and none after one that failed:
\* no marker is taken for that of another command.
THEOREM SingleStops == MainSpec => []StopsAtFirstFailure
<1>1. MainInv => StopsAtFirstFailure
  BY DEF MainInv, SingleInv
<1>2. QED
  BY <1>1, MainSafe, PTL

\* An exit code that is not the driver's own is that of the command that failed.
THEOREM SingleExit == MainSpec => []ExitIsTheCommands
<1>1. MainInv => ExitIsTheCommands
  BY DEF MainInv, SingleInv
<1>2. QED
  BY <1>1, MainSafe, PTL

-----------------------------------------------------------------------------
(* What start leaves behind *)

\* The steps that start and stop see: their own, those of the QEMUs, and the end of
\* single-command before its session.
StartStep == StartDriver \/ Interrupted \/ Processes \/ SingleNeverStarts
LEMMA StepsOfStart ==
  MainInv /\ [MainNext]_allVars => StartInv /\ (StartStep \/ UNCHANGED startVars)
BY DEF MainInv, MainNext, SingleRuns, StartRuns, MainReturned, StartNext, StartStep,
   Processes, allVars

LEMMA ToldStaysTold ==
  ASSUME StartInv, OldAreTold, StartStep \/ UNCHANGED startVars
  PROVE  OldAreTold'
<1> USE DEF Qemu, NotYet
<1>1. CASE Stop \/ KillFirst
  <2>1. kill_existing /\ UNCHANGED <<qemu, since>>
    BY <1>1 DEF Stop, KillFirst
  <2>2. QED
    BY <2>1, KillReaches DEF StartInv, OldAreTold
<1>2. CASE KillRaises \/ KillAgain \/ Interrupted \/ SingleNeverStarts
  <2>1. /\ start_pc' = "done" /\ UNCHANGED <<qemu, since, said>>
        /\ kill_existing \/ UNCHANGED signal
        /\ start_exit' \in {NotYet, 1, StartInterrupt}
    BY <1>2 DEF KillRaises, KillAgain, Interrupted, SingleNeverStarts, Leaves, StartInv,
       OwnInStep
  <2>2. \A q \in Qemu : signal[q] # 0 => signal'[q] = signal[q]
    BY <2>1, KillOrNot
  <2>3. QED
    BY <2>1, <2>2 DEF OldAreTold, StartInterrupt
<1>3. CASE Popen
  BY <1>3 DEF Popen, Leaves, StartInv, StartTypeOK, OwnInStep, OldAreTold
<1>4. CASE wait_ssh
  BY <1>4, PollOutcomes DEF OldAreTold
<1>5. CASE terminate \/ WaitOrKill
  <2>1. said = "not ready" /\ UNCHANGED <<qemu, since, start_exit, said>>
    BY <1>5 DEF terminate, WaitOrKill, StartInv, OwnInStep
  <2>2. signal \in [Qemu -> {0, 9, 15}]
    BY DEF StartInv, StartTypeOK
  <2>3. signal' \in {signal, [signal EXCEPT !["own"] = 15], [signal EXCEPT !["own"] = 9]}
    BY <1>5 DEF terminate, WaitOrKill
  <2>4. \A q \in Qemu : signal[q] # 0 => signal'[q] # 0
    BY <2>2, <2>3
  <2>5. QED
    BY <1>5, <2>1, <2>4 DEF OldAreTold, terminate, WaitOrKill
<1>6. CASE Processes
  <2> USE DEF OldAreTold, Alive, Holds
  <2>1. qemu \in [Qemu -> {"none", "dead"} \cup Alive] /\ signal \in [Qemu -> {0, 9, 15}]
        /\ since \in [Qemu -> {0, 1}]
    BY DEF StartInv, StartTypeOK
  <2>2. ASSUME NEW q \in Qemu, Binds(q) \/ GuestUp(q) \/ QemuEnds(q) PROVE OldAreTold'
    <3>1. qemu[q] \in Alive /\ \E x : qemu' = [qemu EXCEPT ![q] = x]
      BY <2>2 DEF Binds, GuestUp, QemuEnds
    <3>2. UNCHANGED <<start_pc, start_exit, signal, since, said>>
      BY <2>2 DEF Binds, GuestUp, QemuEnds
    <3>3. \A h \in Qemu : qemu'[h] \in Alive => qemu[h] \in Alive
      BY <2>1, <3>1
    <3>4. QED
      BY <3>2, <3>3
  <2>3. CASE OtherStarts
    <3>1. /\ qemu'["own"] = qemu["own"] /\ signal'["own"] = signal["own"]
          /\ since'["own"] = since["own"] /\ UNCHANGED <<start_pc, start_exit, said>>
      BY <2>1, <2>3 DEF OtherStarts
    <3>2. since'["other"] = IF start_pc \in Begins THEN 0 ELSE 1
      BY <2>1, <2>3 DEF OtherStarts
    <3>3. start_pc \in Begins => said = "nothing" /\ start_exit = NotYet
      BY DEF StartInv, OwnInStep, Begins
    <3>4. QED
      BY <3>1, <3>2, <3>3 DEF Begins
  <2>4. QED
    BY <1>6, <2>2, <2>3 DEF Processes
<1>7. CASE UNCHANGED startVars
  BY <1>7 DEF startVars, OldAreTold
<1>8. QED
  BY <1>1, <1>2, <1>3, <1>4, <1>5, <1>6, <1>7 DEF StartStep, StartDriver

LEMMA StoppedStaysStopped ==
  ASSUME StartInv, FailureStopsOwn, StartStep \/ UNCHANGED startVars
  PROVE  FailureStopsOwn'
<1> USE DEF Qemu, NotYet, Failed
<1>1. CASE Stop \/ KillFirst \/ KillRaises \/ KillAgain \/ Interrupted \/ SingleNeverStarts
  <2>1. /\ UNCHANGED <<qemu, said>> /\ (kill_existing \/ UNCHANGED signal)
        /\ start_exit' = 1 => \/ start_pc \in {"stop", "start", "kill_again"}
                              \/ start_exit = 1
    BY <1>1 DEF Stop, KillFirst, KillRaises, KillAgain, Interrupted, SingleNeverStarts,
       Leaves, StartInterrupt
  <2>2. signal["own"] = 9 => signal'["own"] = 9
    BY <2>1, KillOrNot
  <2>3. QED
    BY <2>1, <2>2 DEF FailureStopsOwn, StartInv, OwnInStep, Begins
<1>2. CASE Popen
  BY <1>2 DEF Popen, Leaves, StartInv, OwnInStep, FailureStopsOwn
<1>3. CASE wait_ssh
  BY <1>3, PollOutcomes DEF FailureStopsOwn
<1>4. CASE terminate \/ WaitOrKill
  <2>1. start_exit' = NotYet
    BY <1>4 DEF terminate, WaitOrKill, StartInv, OwnInStep
  <2>2. QED
    BY <2>1 DEF FailureStopsOwn
<1>5. CASE Processes
  BY <1>5 DEF Processes, Binds, GuestUp, QemuEnds, OtherStarts, StartInv, StartTypeOK,
     FailureStopsOwn, Alive, Holds
<1>6. CASE UNCHANGED startVars
  BY <1>6 DEF startVars, FailureStopsOwn
<1>7. QED
  BY <1>1, <1>2, <1>3, <1>4, <1>5, <1>6 DEF StartStep, StartDriver

LEMMA ReadyStaysAlone ==
  ASSUME StartInv, ReadyIsLeftAlone, StartStep \/ UNCHANGED startVars
  PROVE  ReadyIsLeftAlone'
<1> USE DEF Qemu, NotYet
<1>1. CASE Stop
  <2>1. UNCHANGED <<qemu, answered>> /\ kill_existing /\ qemu["own"] = "none"
    BY <1>1 DEF Stop, StartInv, OwnInStep, Begins
  <2>2. signal'["own"] = signal["own"] /\ signal["own"] = 0
    BY <1>1, <2>1, KillOrNot DEF Stop, StartInv, OwnInStep, Begins
  <2>3. QED
    BY <2>2 DEF ReadyIsLeftAlone
<1>2. CASE KillFirst \/ KillRaises \/ KillAgain \/ Interrupted \/ SingleNeverStarts
  <2>1. start_pc # "done" /\ start_exit' \in {start_exit, 1, StartInterrupt}
    BY <1>2 DEF KillFirst, KillRaises, KillAgain, Interrupted, SingleNeverStarts, Leaves
  <2>2. start_exit = NotYet
    BY <2>1 DEF StartInv, OwnInStep
  <2>3. QED
    BY <2>1, <2>2 DEF ReadyIsLeftAlone, StartInterrupt
<1>3. CASE Popen \/ terminate \/ WaitOrKill
  <2>1. start_pc # "done" /\ start_exit' \in {start_exit, 1}
    BY <1>3 DEF Popen, terminate, WaitOrKill, Leaves
  <2>2. start_exit = NotYet
    BY <2>1 DEF StartInv, OwnInStep
  <2>3. QED
    BY <2>1, <2>2 DEF ReadyIsLeftAlone
<1>4. CASE wait_ssh
  BY <1>4, PollOutcomes DEF ReadyIsLeftAlone
<1>5. CASE Processes
  BY <1>5 DEF Processes, Binds, GuestUp, QemuEnds, OtherStarts, StartInv, StartTypeOK,
     ReadyIsLeftAlone
<1>6. CASE UNCHANGED startVars
  BY <1>6 DEF startVars, ReadyIsLeftAlone
<1>7. QED
  BY <1>1, <1>2, <1>3, <1>4, <1>5, <1>6 DEF StartStep, StartDriver

LEMMA NothingLeftAtFirst ==
  MainInit => OldAreTold /\ FailureStopsOwn /\ ReadyIsLeftAlone
BY DEF MainInit, StartInit, OldAreTold, FailureStopsOwn, Failed, ReadyIsLeftAlone, Begins,
   NotYet

\* Before a driver starts a QEMU or reports success, who runs since before its
\* kill_existing has been told to end: the "ssh ready" of start is never that of a VM
\* it left alone.
THEOREM StartTellsOld == MainSpec => []OldAreTold
<1>1. MainInv /\ OldAreTold /\ [MainNext]_allVars => OldAreTold'
  BY StepsOfStart, ToldStaysTold
<1>2. QED
  BY <1>1, NothingLeftAtFirst, MainSafe, PTL DEF MainSpec

\* A start that failed, and not by an ssh that could not be started, has no QEMU of its
\* own that could still come up.
THEOREM StartStopsOwn == MainSpec => []FailureStopsOwn
<1>1. MainInv /\ FailureStopsOwn /\ [MainNext]_allVars => FailureStopsOwn'
  BY StepsOfStart, StoppedStaysStopped
<1>2. QED
  BY <1>1, NothingLeftAtFirst, MainSafe, PTL DEF MainSpec

\* The VM a start has just called ready is not one it told to end.
THEOREM StartLeavesReady == MainSpec => []ReadyIsLeftAlone
<1>1. MainInv /\ ReadyIsLeftAlone /\ [MainNext]_allVars => ReadyIsLeftAlone'
  BY StepsOfStart, ReadyStaysAlone
<1>2. QED
  BY <1>1, NothingLeftAtFirst, MainSafe, PTL DEF MainSpec
-----------------------------------------------------------------------------
(* Progress *)

\* Where the driver is, as a number.
LEMMA DriverPlaces ==
  ASSUME SingleInv
  PROVE  /\ DriverPlace \in 0 .. 3 * N + 6
         /\ pc # "done" => DriverPlace < 3 * N + 6
         /\ Len(typed) \in Nat /\ N \in Nat /\ k \in Nat
<1>1. /\ N \in Nat /\ k \in 1 .. N + 1 /\ typed \in Seq(Lines)
      /\ pc \in {"spawn", "menu", "ask", "prompt", "send", "marker", "after", "bye",
                 "done"}
  BY SingleAssumption DEF SingleInv, TypeOK
<1>2. pc \in {"marker", "after"} => k \in 1 .. N
  BY DEF SingleInv, ReadRight, Command
<1>3. Len(typed) \in Nat
  BY <1>1
<1>4. CASE pc = "send"
  <2>1. DriverPlace = 3 * k + 1
    BY <1>4 DEF DriverPlace
  <2>2. QED
    BY <1>1, <1>3, <2>1
<1>5. CASE pc \in {"marker", "after"}
  <2>1. DriverPlace = 3 * k + 2 \/ DriverPlace = 3 * k + 3
    BY <1>5 DEF DriverPlace
  <2>2. QED
    BY <1>1, <1>2, <1>3, <1>5, <2>1
<1>6. CASE pc \in {"spawn", "menu", "ask", "prompt", "bye", "done"}
  <2>1. /\ pc # "done" => DriverPlace \in {0, 1, 2, 3, 3 * N + 5}
        /\ pc = "done" => DriverPlace = 3 * N + 6
    BY <1>6 DEF DriverPlace
  <2>2. QED
    BY <1>1, <1>3, <2>1
<1>7. QED
  BY <1>1, <1>4, <1>5, <1>6

\* The driver never goes back to a wait, and types no command again.
LEMMA DriverAdvances ==
  ASSUME SingleInv, Driver \/ SessionInterrupted \/ (\E code : NeverStarts(code))
  PROVE  DriverPlace' > DriverPlace
<1>1. /\ DriverPlace \in Nat /\ N \in Nat /\ k \in 1 .. N + 1
      /\ pc # "done" => DriverPlace < 3 * N + 6
  BY DriverPlaces DEF SingleInv, TypeOK
<1>2. CASE pc # "done" /\ pc' = "done"
  <2>1. DriverPlace' = 3 * N + 6
    BY <1>2 DEF DriverPlace
  <2>2. QED
    BY <1>1, <1>2, <2>1
<1>3. CASE pc = "menu" /\ pc' = "ask"
  <2>1. DriverPlace = 1 /\ DriverPlace' = 2
    BY <1>3 DEF DriverPlace
  <2>2. QED
    BY <2>1
<1>4. CASE pc = "ask" /\ pc' = "prompt"
  <2>1. DriverPlace = 2 /\ DriverPlace' = 3
    BY <1>4 DEF DriverPlace
  <2>2. QED
    BY <2>1
<1>5. CASE pc = "prompt" /\ pc' = "send" /\ k' = k
  <2>1. DriverPlace = 3 /\ DriverPlace' = 3 * k + 1
    BY <1>5 DEF DriverPlace
  <2>2. QED
    BY <1>1, <2>1
<1>6. CASE pc = "send" /\ pc' \in {"marker", "bye"} /\ k' = k
  <2>1. DriverPlace = 3 * k + 1 /\ DriverPlace' \in {3 * k + 2, 3 * N + 5}
    BY <1>6 DEF DriverPlace
  <2>2. QED
    BY <1>1, <2>1
<1>7. CASE pc = "marker" /\ pc' = "after" /\ k' = k
  <2>1. DriverPlace = 3 * k + 2 /\ DriverPlace' = 3 * k + 3
    BY <1>7 DEF DriverPlace
  <2>2. QED
    BY <1>1, <2>1
<1>8. CASE pc = "after" /\ pc' = "send" /\ k' = k + 1
  <2>1. DriverPlace = 3 * k + 3 /\ DriverPlace' = 3 * (k + 1) + 1
    BY <1>8 DEF DriverPlace
  <2>2. QED
    BY <1>1, <2>1
<1>9. ExpectMenu => pc = "menu" /\ pc' \in {"ask", "done"}
  BY DEF ExpectMenu, ReturnWith
<1>10. ExpectAsk => pc = "ask" /\ pc' = "prompt"
  BY DEF ExpectAsk
<1>11. ExpectPrompt => pc = "prompt" /\ pc' = "send" /\ k' = k
  BY DEF ExpectPrompt
<1>12. SendCommand => pc = "send" /\ pc' \in {"marker", "bye"} /\ k' = k
  BY DEF SendCommand
<1>13. ExpectMarker => pc = "marker" /\ pc' = "after" /\ k' = k
  BY DEF ExpectMarker
<1>14. ExpectPromptAfter => pc = "after" /\ pc' = "send" /\ k' = k + 1
  BY DEF ExpectPromptAfter
<1>15. ExpectBye \/ Raise \/ SessionInterrupted \/ (\E code : NeverStarts(code))
         => pc # "done" /\ pc' = "done"
  BY DEF ExpectBye, Raise, SessionInterrupted, NeverStarts, ReturnWith
<1>16. Spawn => (pc = "spawn" /\ pc' = "menu") \/ NeverStarts(Failure)
  BY DEF Spawn
<1>17. CASE pc = "spawn" /\ pc' = "menu"
  <2>1. DriverPlace = 0 /\ DriverPlace' = 1
    BY <1>17 DEF DriverPlace
  <2>2. QED
    BY <2>1
<1>18. QED
  BY <1>2, <1>3, <1>4, <1>5, <1>6, <1>7, <1>8, <1>9, <1>10, <1>11, <1>12, <1>13, <1>14,
     <1>15, <1>16, <1>17 DEF Driver

\* A step of the guest reads a line or goes on without one, and lines are typed by
\* the driver only.
LEMMA GuestAdvances ==
  ASSUME SingleInv, Guest
  PROVE  /\ DriverPlace' = DriverPlace
         /\ \/ Len(typed') < Len(typed)
            \/ Len(typed') = Len(typed) /\ GuestPlace' > GuestPlace
<1>1. UNCHANGED driverVars
  BY DEF Guest, GuestOnly, LoaderStarts, MenuEnds, AskForShell, AskReads, LoginReads,
     ShellReads, CommandEnds, ShellPrompts, ShutsDown, Dies
<1>2. DriverPlace' = DriverPlace
  BY <1>1 DEF driverVars, DriverPlace
<1>3. typed \in Seq(Lines)
      /\ guest \in {"none", "boot", "menu", "multi-user", "single-user", "ask",
                    "shell", "command", "prompt", "down", "dead"}
  BY DEF SingleInv, TypeOK
<1>4. CASE typed # <<>> /\ typed' = Tail(typed)
  <2>1. Len(typed') = Len(typed) - 1 /\ Len(typed) \in Nat
    BY <1>3, <1>4
  <2>2. QED
    BY <1>2, <2>1
<1>5. CASE typed' = typed /\ guest # "dead" /\ guest' = "dead"
  <2>1. GuestPlace' = 10 /\ GuestPlace \in 0 .. 9
    BY <1>3, <1>5 DEF GuestPlace
  <2>2. QED
    BY <1>2, <1>5, <2>1
<1>6. CASE typed # <<>> /\ typed' = <<>>
  <2>1. Len(typed') < Len(typed)
    BY <1>3, <1>6
  <2>2. QED
    BY <1>2, <2>1
<1>7. CASE typed' = typed /\ guest = "boot" /\ guest' \in {"menu", "multi-user"}
  <2>1. GuestPlace = 1 /\ GuestPlace' \in {2, 3}
    BY <1>7 DEF GuestPlace
  <2>2. QED
    BY <1>2, <1>7, <2>1
<1>8. CASE typed' = typed /\ guest = "menu" /\ guest' = "multi-user"
  <2>1. GuestPlace = 2 /\ GuestPlace' = 3
    BY <1>8 DEF GuestPlace
  <2>2. QED
    BY <1>2, <1>8, <2>1
<1>9. CASE typed' = typed /\ guest = "single-user" /\ guest' = "ask"
  <2>1. GuestPlace = 4 /\ GuestPlace' = 5
    BY <1>9 DEF GuestPlace
  <2>2. QED
    BY <1>2, <1>9, <2>1
<1>10. CASE typed' = typed /\ guest = "prompt" /\ guest' = "shell"
  <2>1. GuestPlace = 6 /\ GuestPlace' = 7
    BY <1>10 DEF GuestPlace
  <2>2. QED
    BY <1>2, <1>10, <2>1
<1>11. CASE typed' = typed /\ guest = "shell" /\ guest' = "command"
  <2>1. GuestPlace = 7 /\ GuestPlace' = 8
    BY <1>11 DEF GuestPlace
  <2>2. QED
    BY <1>2, <1>11, <2>1
<1>12. LoaderStarts => typed' = typed /\ guest = "boot" /\ guest' \in {"menu", "multi-user"}
  BY DEF LoaderStarts
<1>13. MenuEnds => \/ typed # <<>> /\ typed' = Tail(typed)
                   \/ typed' = typed /\ guest = "menu" /\ guest' = "multi-user"
  BY DEF MenuEnds
<1>14. AskForShell => \/ typed' = typed /\ guest = "single-user" /\ guest' = "ask"
                      \/ typed # <<>> /\ typed' = <<>>
  BY DEF AskForShell
<1>15. AskReads \/ LoginReads => typed # <<>> /\ typed' = Tail(typed)
  BY DEF AskReads, LoginReads
<1>16. ShellReads => \/ typed # <<>> /\ typed' = Tail(typed)
                     \/ typed' = typed /\ guest = "shell" /\ guest' = "command"
  BY DEF ShellReads
<1>17. CommandEnds => typed # <<>> /\ typed' = Tail(typed)
  BY DEF CommandEnds, SingleInv, OneUnderWay
<1>18. ShellPrompts => typed' = typed /\ guest = "prompt" /\ guest' = "shell"
  BY DEF ShellPrompts
<1>19. ShutsDown \/ Dies => typed' = typed /\ guest # "dead" /\ guest' = "dead"
  BY DEF ShutsDown, Dies
<1>20. QED
  BY <1>4, <1>5, <1>6, <1>7, <1>8, <1>9, <1>10, <1>11, <1>12, <1>13, <1>14, <1>15, <1>16,
     <1>17, <1>18, <1>19 DEF Guest

\* start and stop only go on, and the QEMUs around them change nothing about it.
LEMMA StartProceeds ==
  ASSUME StartInv, StartNext
  PROVE  Proceeds
<1>1. polls \in Nat
  <2>1. polls \in 0 .. Polls
    BY DEF StartInv, StartTypeOK
  <2>2. QED
    BY <2>1, StartAssumption
<1>2. CASE UNCHANGED <<start_pc, start_exit, polls>>
  BY <1>2 DEF Proceeds
<1>3. CASE Stop \/ KillFirst \/ KillRaises
  BY <1>3 DEF Stop, KillFirst, KillRaises, Leaves, Proceeds, StartPlace, Begins
<1>4. CASE Popen
  BY <1>4 DEF Popen, Leaves, Proceeds, StartPlace, Begins
<1>5. CASE wait_ssh
  <2>1. CASE start_pc' = start_pc /\ polls' = polls + 1
    <3>1. StartPlace' = StartPlace
      BY <2>1 DEF StartPlace
    <3>2. QED
      BY <1>1, <2>1, <3>1 DEF Proceeds
  <2>2. CASE start_pc = "poll" /\ start_pc' \in {"terminate", "done"}
    BY <2>2 DEF Proceeds, StartPlace, Begins
  <2>3. QED
    BY <1>5, <2>1, <2>2 DEF wait_ssh, Leaves
<1>6. CASE terminate \/ WaitOrKill \/ KillAgain
  BY <1>6 DEF terminate, WaitOrKill, KillAgain, Leaves, Proceeds, StartPlace, Begins
<1>9. CASE Interrupted
  <2>1. start_pc \notin {"single", "session", "done"} /\ start_pc' = "done"
    BY <1>9 DEF Interrupted, Leaves
  <2>2. start_pc \in {"stop", "start", "spawn", "poll", "terminate", "wait", "kill_again"}
    BY <2>1 DEF StartInv, StartTypeOK, Begins
  <2>3. StartPlace' = 7
    BY <2>1 DEF StartPlace, Begins
  <2>4. StartPlace \in 1 .. 6
    BY <2>2 DEF StartPlace, Begins
  <2>5. QED
    BY <2>3, <2>4 DEF Proceeds
<1>7. (\E q \in Qemu : Binds(q) \/ GuestUp(q) \/ QemuEnds(q)) \/ OtherStarts
        => UNCHANGED <<start_pc, start_exit, polls>>
  BY DEF Binds, GuestUp, QemuEnds, OtherStarts
<1>8. QED
  BY <1>2, <1>3, <1>4, <1>5, <1>6, <1>7, <1>9 DEF StartNext, StartDriver

\* No subcommand goes back: no wait that timed out is begun again, no command is
\* typed twice, and a session of N commands has at most 3 * N + 7 places.
THEOREM NothingIsDoneTwice == MainSpec => Advances
<1>1. MainInv /\ [MainNext]_allVars
        => [(UNCHANGED vars \/ Converse) /\ Proceeds]_allVars
  <2>1. ASSUME MainInv, SingleRuns
        PROVE  (UNCHANGED vars \/ Converse) /\ Proceeds
    <3>1. Next /\ UNCHANGED startVars /\ SingleInv
      BY <2>1 DEF SingleRuns, MainInv
    <3>2. Proceeds
      BY <3>1 DEF Proceeds, startVars
    <3>3. Driver \/ SessionInterrupted => Converse
      BY <3>1, DriverAdvances DEF Converse
    <3>4. Guest => Converse
      BY <3>1, GuestAdvances DEF Converse
    <3>5. Finished => UNCHANGED vars
      BY DEF Finished
    <3>6. QED
      BY <3>1, <3>2, <3>3, <3>4, <3>5 DEF Next
  <2>2. ASSUME MainInv, StartRuns
        PROVE  (UNCHANGED vars \/ Converse) /\ Proceeds
    BY <2>2, StartProceeds DEF StartRuns, MainInv
  <2>3. MainReturned => UNCHANGED allVars
    BY DEF MainReturned
  <2>4. ASSUME MainInv, SingleNeverStarts
        PROVE  (UNCHANGED vars \/ Converse) /\ Proceeds
    <3>1. Converse
      BY <2>4, DriverAdvances DEF SingleNeverStarts, MainInv, Converse
    <3>2. Proceeds
      BY <2>4 DEF SingleNeverStarts, Proceeds, StartPlace, Begins
    <3>3. QED
      BY <3>1, <3>2
  <2>5. QED
    BY <2>1, <2>2, <2>3, <2>4 DEF MainNext
<1>2. QED
  BY <1>1, MainSafe, PTL DEF MainSpec, Advances
-----------------------------------------------------------------------------
(* single-command is a session *)

\* Before anything is done, nothing has run and nothing is reported.
LEMMA SessionInitial == MainInit => Session!Init
BY DEF MainInit, Init, Session!Init, Running, Session!Running

\* The end of a command is a command run by the session: the next one in order,
\* all before it with 0, while the driver waits for it or has given up on it.
LEMMA CommandRunsOne ==
  ASSUME SingleInv, CommandEnds
  PROVE  Session!Runs
<1> DEFINE Run == [command : Command, code : Codes]
<1>1. typed \in Seq(Lines) /\ ran \in Seq(Run) /\ typed # <<>> /\ Head(typed) \in Command
  BY DEF SingleInv, TypeOK, OneUnderWay, CommandEnds
<1>2. 1 \in TypedCommands /\ typed[1] = Head(typed)
  BY <1>1 DEF TypedCommands
<1>3. /\ Head(typed) = k /\ k \in Command /\ Len(ran) = k - 1
      /\ \A j \in DOMAIN ran : ran[j].code = 0
  BY <1>1, <1>2 DEF SingleInv, OneUnderWay
<1>4. k = Len(ran) + 1 /\ Len(ran) < N
  BY <1>1, <1>3, SingleAssumption DEF Command
<1>5. exit \in {Running, Failure, Interrupt}
  BY <1>2 DEF SingleInv, ReadRight
<1>6. PICK n \in Codes : ran' = Append(ran, [command |-> Head(typed), code |-> n])
  BY DEF CommandEnds
<1>7. ran' = Append(ran, [command |-> Len(ran) + 1, code |-> n])
  BY <1>3, <1>4, <1>6
<1>8. UNCHANGED exit
  BY DEF CommandEnds, driverVars
<1>9. QED
  BY <1>3, <1>4, <1>5, <1>7, <1>8
     DEF Session!Runs, Session!Succeeded, Session!Running, Session!GaveUp,
         Session!Interrupted, Running, Failure, Interrupt

\* The exit code of a session that came to its end is the code of the last command
\* that ran, and no command is left that should have run.
LEMMA ByeReports ==
  ASSUME SingleInv, ExpectBye
  PROVE  Session!Reports
<1>1. /\ pc = "bye" /\ UNCHANGED ran /\ exit' = status
  BY DEF ExpectBye, ReturnWith
<1>2. /\ Len(ran) = k - 1 /\ status = IF k = 1 THEN 0 ELSE ran[k - 1].code
      /\ k = N + 1 \/ status # 0
      /\ exit = Running
  BY <1>1 DEF SingleInv, ReadRight
<1>3. N \in Nat \ {0} /\ k \in 1 .. N + 1 /\ ran \in Seq([command : Command, code : Codes])
  BY SingleAssumption DEF SingleInv, TypeOK
<1>4. k # 1
  BY <1>2, <1>3
<1>5. ran # <<>> /\ status = ran[Len(ran)].code
  BY <1>2, <1>3, <1>4
<1>6. Len(ran) = N \/ ran[Len(ran)].code # 0
  BY <1>2, <1>3, <1>5
<1>7. QED
  BY <1>1, <1>2, <1>5, <1>6 DEF Session!Reports, Session!Settled, Session!Running, Running

\* On the boot menu the driver gives up before anything has run.
LEMMA MenuReports ==
  ASSUME SingleInv, ExpectMenu, exit' # exit
  PROVE  Session!Reports
<1>1. pc = "menu" /\ exit' = BootFailure /\ UNCHANGED ran
  BY DEF ExpectMenu, ReturnWith
<1>2. exit = Running /\ k = 1 /\ Len(ran) = k - 1
  BY <1>1 DEF SingleInv, ReadRight
<1>3. ran = <<>>
  BY <1>2 DEF SingleInv, TypeOK
<1>4. QED
  BY <1>1, <1>2, <1>3
     DEF Session!Reports, Session!Running, Session!GaveUpBoot, Running, BootFailure

\* An exception reports that the session gave up, or was stopped.
LEMMA RaiseReports ==
  ASSUME SingleInv,
         \/ Raise \/ SessionInterrupted
         \/ \E code \in {Failure, Interrupt} : NeverStarts(code)
  PROVE  Session!Reports
<1>1. pc # "done" /\ exit' \in {Failure, Interrupt} /\ UNCHANGED ran
  BY DEF Raise, SessionInterrupted, NeverStarts, ReturnWith
<1>2. exit = Running
  BY <1>1 DEF SingleInv, ReadRight
<1>3. QED
  BY <1>1, <1>2 DEF Session!Reports, Session!Running, Session!GaveUp, Session!Interrupted,
     Running, Failure, Interrupt

\* Every other step is one the session does not see.
LEMMA SessionStep ==
  ASSUME SingleInv,
         [Next]_vars \/ \E code \in {Failure, Interrupt} : NeverStarts(code)
  PROVE  [Session!Next]_(Session!vars)
<1>5. CASE SessionInterrupted \/ \E code \in {Failure, Interrupt} : NeverStarts(code)
  BY <1>5, RaiseReports DEF Session!Next
<1>1. CASE Driver
  <2>1. CASE ExpectMenu
    <3>1. UNCHANGED ran
      BY <2>1 DEF ExpectMenu
    <3>2. QED
      BY <2>1, <3>1, MenuReports DEF Session!Next, Session!vars
  <2>2. CASE ExpectAsk \/ ExpectPrompt \/ SendCommand \/ ExpectMarker \/ ExpectPromptAfter
    BY <2>2 DEF ExpectAsk, ExpectPrompt, SendCommand, ExpectMarker, ExpectPromptAfter,
       Session!vars
  <2>3. CASE Spawn
    <3>1. CASE NeverStarts(Failure)
      BY <3>1, RaiseReports DEF Session!Next
    <3>2. QED
      BY <2>3, <3>1 DEF Spawn, Session!vars
  <2>4. QED
    BY <1>1, <2>1, <2>2, <2>3, ByeReports, RaiseReports DEF Driver, Session!Next
<1>2. CASE Guest
  <2>1. CASE GuestOnly
    BY <2>1 DEF GuestOnly, driverVars, Session!vars
  <2>2. QED
    BY <1>2, <2>1, CommandRunsOne DEF Guest, Session!Next, LoaderStarts, MenuEnds, AskForShell,
       AskReads, LoginReads, ShellReads, ShellPrompts, ShutsDown, Dies
<1>3. CASE UNCHANGED vars
  BY <1>3 DEF vars, driverVars, Session!vars
<1>4. QED
  BY <1>1, <1>2, <1>3, <1>5 DEF Next, Finished

\* single-command keeps what CommandSession promises its caller: the commands run
\* in order, each once, up to the first that fails, and its exit code is the code of
\* the last one or tells that it gave up, whatever the console lost or repeated.
THEOREM SessionKept == MainSpec => KeepsSession
<1>1. MainInv /\ [MainNext]_allVars => [Session!Next]_(Session!vars)
  <2>1. MainInv /\ [MainNext]_allVars
          => /\ SingleInv
             /\ [Next]_vars \/ \E code \in {Failure, Interrupt} : NeverStarts(code)
    BY DEF MainInv, MainNext, SingleNeverStarts, SingleRuns, StartRuns, MainReturned, allVars
  <2>2. QED
    BY <2>1, SessionStep
<1>2. QED
  BY <1>1, SessionInitial, MainSafe, PTL DEF MainSpec, KeepsSession, Session!Spec

\* What the session says of its commands in every state.
SessionInv ==
  /\ ran \in Seq([command : Command, code : Codes]) /\ Len(ran) <= N
  /\ Session!InOrder /\ Session!Honest

\* A session that runs a command keeps what it says of them.
LEMMA SessionRunKeeps ==
  ASSUME SessionInv, Session!Runs
  PROVE  SessionInv'
<1> DEFINE Run == [command : Command, code : Codes]
<1>1. /\ exit \in {Running, Failure, Interrupt} /\ exit' = exit /\ Len(ran) < N
      /\ \A i \in DOMAIN ran : ran[i].code = 0
  BY DEF Session!Runs, Session!Running, Session!GaveUp, Session!Interrupted,
     Session!Succeeded, Running, Failure, Interrupt
<1>2. PICK n \in Codes : ran' = Append(ran, [command |-> Len(ran) + 1, code |-> n])
  BY DEF Session!Runs
<1> DEFINE run == [command |-> Len(ran) + 1, code |-> n]
<1>3. ran \in Seq(Run) /\ Len(ran) \in Nat /\ N \in Nat
  BY SingleAssumption DEF SessionInv
<1>4. Len(ran) + 1 \in Command
  BY <1>1, <1>3 DEF Command
<1>5. run \in Run /\ run.command = Len(ran) + 1
  BY <1>4
<1> HIDE DEF run
<1>6. ran' = Append(ran, run)
  BY <1>2 DEF run
<1> HIDE DEF Run
<1>7. /\ ran' \in Seq(Run) /\ Len(ran') = Len(ran) + 1
      /\ ran'[Len(ran) + 1] = run
      /\ \A i \in 1 .. Len(ran) : ran'[i] = ran[i]
      /\ DOMAIN ran = 1 .. Len(ran) /\ DOMAIN ran' = 1 .. Len(ran) + 1
  BY <1>3, <1>5, <1>6
<1>8. Session!InOrder'
  <2>1. SUFFICES ASSUME NEW i \in DOMAIN ran'
                 PROVE  ran'[i].command = i /\ (i < Len(ran') => ran'[i].code = 0)
    BY DEF Session!InOrder
  <2>2. CASE i = Len(ran) + 1
    BY <1>5, <1>7, <2>2
  <2>3. CASE i \in 1 .. Len(ran)
    BY <1>1, <1>7, <2>3 DEF SessionInv, Session!InOrder
  <2>4. QED
    BY <1>3, <1>7, <2>1, <2>2, <2>3
<1>9. Session!Honest'
  BY <1>1 DEF Session!Honest, Session!Running, Session!GaveUp, Session!Interrupted, Running,
     Failure, Interrupt
<1>10. Len(ran') <= N
  BY <1>1, <1>3, <1>7
<1>11. QED
  BY <1>7, <1>8, <1>9, <1>10 DEF SessionInv, Run

\* A session that reports says what is so.
LEMMA SessionReportKeeps ==
  ASSUME SessionInv, Session!Reports
  PROVE  SessionInv'
<1>1. ran' = ran
  BY DEF Session!Reports
<1>2. Session!Honest'
  BY <1>1 DEF Session!Reports, Session!Honest, Session!Settled
<1>3. QED
  BY <1>1, <1>2 DEF SessionInv, Session!InOrder

\* The promise is worth having: of every program that keeps it, whatever its
\* commands are, the caller may believe the exit code as Honest says.
THEOREM SessionIsHonest == Session!Spec => []SessionInv
<1>1. Session!Init => SessionInv
  <2>1. ASSUME Session!Init PROVE SessionInv
    <3>1. ran = <<>> /\ exit = Session!Running
      BY <2>1 DEF Session!Init
    <3>2. ran \in Seq([command : Command, code : Codes]) /\ Len(ran) = 0 /\ DOMAIN ran = {}
      BY <3>1
    <3>3. Session!InOrder /\ Session!Honest
      BY <3>1, <3>2 DEF Session!InOrder, Session!Honest
    <3>4. QED
      BY <3>2, <3>3, SingleAssumption DEF SessionInv
  <2>2. QED
    BY <2>1
<1>2. SessionInv /\ [Session!Next]_(Session!vars) => SessionInv'
  <2>1. ASSUME SessionInv, UNCHANGED Session!vars PROVE SessionInv'
    BY <2>1 DEF SessionInv, Session!vars, Session!InOrder, Session!Honest, Session!Settled
  <2>2. QED
    BY <2>1, SessionRunKeeps, SessionReportKeeps DEF Session!Next
<1>3. QED
  BY <1>1, <1>2, PTL DEF Session!Spec

\* The exit code of single-command is honest: 0, or any code but 1 and 2, is that of
\* the last command that ran, with nothing left that should have run, and 2 with no
\* command run tells that there was no shell to run one.
THEOREM ExitIsHonest == MainSpec => [](Session!InOrder /\ Session!Honest)
<1>1. SessionInv => Session!InOrder /\ Session!Honest
  BY DEF SessionInv
<1>2. QED
  BY <1>1, SessionKept, SessionIsHonest, PTL DEF KeepsSession

\* Once main returned nothing of it changes, and a command ends after that only
\* when the driver had given up on it.
THEOREM ReportIsFinal == MainSpec => Session!Final
<1>1. [Session!Next]_(Session!vars) =>
        [exit # Session!Running =>
           exit' = exit /\ (ran' # ran => exit \in {Session!GaveUp, Session!Interrupted})]_(Session!vars)
  BY DEF Session!Next, Session!Runs, Session!Reports, Session!vars
<1>2. Session!Spec => Session!Final
  BY <1>1, PTL DEF Session!Spec, Session!Final
<1>3. QED
  BY <1>2, SessionKept, PTL DEF KeepsSession
=============================================================================
