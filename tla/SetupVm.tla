------------------------------ MODULE SetupVm -------------------------------
(***************************************************************************)
(* workspace/setup-vm.py: boots the VM, logs in as root on its console and *)
(* types the command that installs an SSH key.  The script looks for words *)
(* in all the text it has read since it last cleared its buffer; the text  *)
(* comes in pieces cut anywhere, also inside a word, so each word is two   *)
(* fragments here.  The guest is external.                                 *)
(***************************************************************************)
EXTENDS Naturals, Sequences

VARIABLES
  pc,          \* where the script is
  output,      \* what was read since the last clear
  text,        \* the copy of output one iteration of the loop works on
  login_done,
  setup_done,
  guest,       \* what reads the console
  typed,       \* lines typed and not yet read by the guest
  printed,     \* text printed and not yet read by the script
  key          \* whether the key is in authorized_keys

scriptVars == <<pc, output, text, login_done, setup_done>>
guestVars == <<guest, key>>
vars == <<scriptVars, guestVars, typed, printed>>

Words == {"login:", "Password:", "root@", "# ", "SETUP_DONE"}
Fragments == Words \X {1, 2}

\* The text of a list of words.
TextOf(words) ==
  [i \in 1 .. 2 * Len(words) |-> <<words[(i + 1) \div 2], 2 - (i % 2)>>]
ShellPrompt == <<"root@", "# ">>

\* The operator "in": both halves of the word, one after the other.
Contains(string, word) ==
  \E i \in 1 .. Len(string) - 1 :
    string[i] = <<word, 1>> /\ string[i + 1] = <<word, 2>>

Init ==
  /\ pc = "read"
  /\ output = <<>> /\ text = <<>>
  /\ login_done = FALSE /\ setup_done = FALSE
  /\ guest = "boot"
  /\ typed = <<>> /\ printed = <<>>
  /\ key = FALSE
-----------------------------------------------------------------------------
(* The script *)

\* The iteration goes on with a copy of what has been read so far.
Look(read) ==
  /\ output' = read
  /\ text' = read
  /\ pc' = IF login_done THEN "check" ELSE "login"

\* Mutant: the buffer holds the last piece only.
ReadLastPiece ==
  /\ pc = "read"
  /\ \E n \in 1 .. Len(printed) :
       /\ Look(SubSeq(printed, 1, n))
       /\ printed' = SubSeq(printed, n + 1, Len(printed))
  /\ UNCHANGED <<login_done, setup_done, guestVars, typed>>

\* select and read: some of what was printed.
Read ==
  /\ pc = "read"
  /\ \E n \in 1 .. Len(printed) :
       /\ Look(output \o SubSeq(printed, 1, n))
       /\ printed' = SubSeq(printed, n + 1, Len(printed))
  /\ UNCHANGED <<login_done, setup_done, guestVars, typed>>

\* A second without output.
ReadNothing ==
  /\ pc = "read"
  /\ printed = <<>> /\ guest # "dead"
  /\ Look(output)
  /\ UNCHANGED <<login_done, setup_done, guestVars, typed, printed>>

\* End of file, or the 30 minutes are over.
EndOfFile == pc = "read" /\ printed = <<>> /\ guest = "dead"
LeaveLoop(condition) ==
  /\ condition
  /\ pc' = "report"
  /\ UNCHANGED <<output, text, login_done, setup_done, guestVars, typed, printed>>
ReadEnds == LeaveLoop(EndOfFile)
TimeIsUp == LeaveLoop(pc = "read")

\* Mutant: the buffer is not cleared.
AnswerAgain(seen, line) ==
  /\ IF seen THEN typed' = Append(typed, line) ELSE UNCHANGED typed
  /\ UNCHANGED output

\* A word was seen: the buffer is cleared and a line typed, but the iteration
\* keeps looking at its copy of the text.
Answer(seen, line) ==
  IF seen
  THEN output' = <<>> /\ typed' = Append(typed, line)
  ELSE UNCHANGED <<output, typed>>

SeesLogin ==
  /\ pc = "login"
  /\ Answer(Contains(text, "login:"), "root")
  /\ pc' = "password"
  /\ UNCHANGED <<text, login_done, setup_done, guestVars, printed>>

SeesPassword ==
  /\ pc = "password"
  /\ Answer(Contains(text, "Password:"), "root")
  /\ pc' = "shell"
  /\ UNCHANGED <<text, login_done, setup_done, guestVars, printed>>

\* Mutant: the greeting ("Last login: ...") is taken for the shell it comes from.
SeesShellGreeting ==
  /\ pc = "shell"
  /\ LET seen == Contains(text, "login:") IN
       Answer(seen, "install") /\ login_done' = seen
  /\ pc' = "check"
  /\ UNCHANGED <<text, setup_done, guestVars, printed>>

SeesShell ==
  /\ pc = "shell"
  /\ LET seen == Contains(text, "root@") /\ Contains(text, "# ") IN
       Answer(seen, "install") /\ login_done' = seen
  /\ pc' = "check"
  /\ UNCHANGED <<text, setup_done, guestVars, printed>>

\* Mutant: the next prompt is taken for the end of the command.
CheckPrompt ==
  /\ pc = "check"
  /\ setup_done' = (login_done /\ Contains(output, "# "))
  /\ output' = IF setup_done' THEN <<>> ELSE output
  /\ pc' = IF setup_done' THEN "report" ELSE "read"
  /\ UNCHANGED <<text, login_done, guestVars, typed, printed>>

Check ==
  /\ pc = "check"
  /\ setup_done' = (login_done /\ Contains(output, "SETUP_DONE"))
  /\ output' = IF setup_done' THEN <<>> ELSE output
  /\ pc' = IF setup_done' THEN "report" ELSE "read"
  /\ UNCHANGED <<text, login_done, guestVars, typed, printed>>

\* The script says how it went and then copies the console to its log for ever.
Report ==
  /\ pc = "report"
  /\ pc' = "forever"
  /\ UNCHANGED <<output, text, login_done, setup_done, guestVars, typed, printed>>

CopyToLog ==
  /\ pc = "forever"
  /\ printed # <<>>
  /\ printed' = <<>>
  /\ UNCHANGED <<scriptVars, guestVars, typed>>
\* Nothing to copy: the script sleeps, it never ends.
Sleeps == pc = "forever" /\ UNCHANGED vars
-----------------------------------------------------------------------------
(* The guest *)

Prints(words) == printed' = printed \o TextOf(words)

Boots ==
  /\ guest = "boot"
  /\ guest' = "login"
  /\ Prints(<<"login:">>)
  /\ UNCHANGED <<scriptVars, typed, key>>

\* What a shell prints first: "Last login: ...", then its prompt.
Greeting == <<"login:">> \o ShellPrompt

\* A line is read by whatever has the console; root may have no password.  The
\* terminal echoes the typed command, which ends in "echo SETUP_DONE", before
\* the shell runs it; what it runs may fail before that echo.
ReadsLine ==
  /\ typed # <<>>
  /\ typed' = Tail(typed)
  /\ \/ /\ guest = "login"
        /\ guest' = "password" /\ Prints(<<"Password:">>) /\ UNCHANGED key
     \/ /\ guest \in {"login", "password"}
        /\ guest' = "shell" /\ Prints(Greeting) /\ UNCHANGED key
     \/ /\ guest = "shell" /\ Head(typed) = "root"
        /\ Prints(ShellPrompt) /\ UNCHANGED <<guest, key>>
     \/ /\ guest = "shell" /\ Head(typed) = "install"
        /\ guest' = "install" /\ Prints(<<"SETUP_DONE">>) /\ UNCHANGED key
  /\ UNCHANGED scriptVars

Installs ==
  /\ guest = "install"
  /\ guest' = "shell"
  /\ \/ key' = TRUE /\ Prints(<<"SETUP_DONE">> \o ShellPrompt)
     \/ UNCHANGED key /\ Prints(ShellPrompt)
  /\ UNCHANGED <<scriptVars, typed>>

Dies ==
  /\ guest # "dead"
  /\ guest' = "dead"
  /\ UNCHANGED <<scriptVars, typed, printed, key>>
-----------------------------------------------------------------------------
Script ==
  \/ Read \/ ReadNothing \/ ReadEnds \/ SeesLogin \/ SeesPassword \/ SeesShell
  \/ Check \/ Report \/ CopyToLog
Guest == Boots \/ ReadsLine \/ Installs

Next == Script \/ TimeIsUp \/ Sleeps \/ Guest \/ Dies

Spec == Init /\ [][Next]_vars

\* Script and guest go on; neither the 30 minutes nor a crash is relied on.
FairSpec == Spec /\ WF_vars(Script) /\ WF_vars(Guest)
-----------------------------------------------------------------------------
\* The script never runs away from the guest: a word is answered once and not
\* again in every iteration, so at most two lines wait to be read, the answer to
\* "login:" and the command, when one piece holds the whole greeting.
AnswersOnce == Len(typed) <= 2

\* The command, with the key in it, is only ever typed to a shell, never given to
\* login as a name or a password; the shell may have died since.
AtShell == guest \in {"shell", "install", "dead"}
CommandAtShell == (\E i \in DOMAIN typed : typed[i] = "install") => AtShell

\* What "SSH key installed successfully!" does mean: the one command that was ever
\* typed has been read by a shell.  No prompt that was late and no text from before
\* the command stands for it, and none is left to be run by who logs in next.
CommandLines == {i \in DOMAIN typed : typed[i] = "install"}
SaidIsTheShells == setup_done => login_done /\ CommandLines = {}

\* However the text is cut, the script gets through: a word lost in a cleared
\* buffer is printed again because of the line typed in its place.
SetupCompletes == <>(setup_done \/ guest = "dead" \/ pc = "forever")

\* Line 89, "SSH key installed successfully!".  The code does not keep it: the
\* echo of the typed command contains the word that stands for its success.
InstalledWhenSaid == setup_done => key
-----------------------------------------------------------------------------
(***************************************************************************)
(* The inductive invariant.  Until the script has seen a shell, script and *)
(* guest take turns: there is at most one question the guest has put and   *)
(* the script has not answered, or one answer the guest has not read.      *)
(***************************************************************************)
SetupTypeOK ==
  /\ pc \in {"read", "login", "password", "shell", "check", "report", "forever"}
  /\ output \in Seq(Fragments) /\ text \in Seq(Fragments)
  /\ printed \in Seq(Fragments) /\ typed \in Seq({"root", "install"})
  /\ login_done \in BOOLEAN
  /\ guest \in {"boot", "login", "password", "shell", "install", "dead"}

\* Where a word begins, and the words the script answers before the prompt.
Starts(string, words) ==
  {i \in DOMAIN string : \E word \in words : string[i] = <<word, 1>>}
Questions == {"login:", "Password:"}
Asked(string) == Starts(string, Questions)

OneQuestion ==
  ~login_done =>
    /\ \A i, j \in Asked(output) : i = j
    /\ \A i, j \in Asked(printed) : i = j
    /\ Asked(output) = {} \/ Asked(printed) = {}
    /\ Len(typed) <= 1
    /\ typed # <<>> \/ guest = "boot" => Asked(output) = {} /\ Asked(printed) = {}
    /\ guest = "boot" => typed = <<>>

\* The copy of the text is what is in the buffer until one of its words has been
\* answered, and then it holds no other question.
CopyInStep ==
  /\ pc \in {"login", "password", "shell"} => ~login_done
  /\ pc = "login" => text = output
  /\ pc = "password" => text = output \/ Starts(text, {"Password:"}) = {}

\* Before there is a shell nobody has printed a prompt.
PromptIsTheShells ==
  ~AtShell =>
    /\ ~login_done
    /\ \A string \in {output, text, printed} : Starts(string, {"root@"}) = {}

\* The marker is first printed as the echo of the command, which is typed once.
MarkerIsTheShells ==
  /\ CommandLines # {} => login_done
  /\ \A i, j \in CommandLines : i = j
  /\ \A string \in {output, printed} :
       Starts(string, {"SETUP_DONE"}) # {} => login_done /\ CommandLines = {}
  /\ guest = "install" => login_done /\ CommandLines = {}

SetupInv ==
  /\ SetupTypeOK /\ OneQuestion /\ CopyInStep /\ PromptIsTheShells
  /\ MarkerIsTheShells /\ AnswersOnce
=============================================================================
