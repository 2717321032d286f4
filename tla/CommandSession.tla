--------------------------- MODULE CommandSession ---------------------------
(***************************************************************************)
(* What a caller of "cheri_vm.py single-command" is promised, without      *)
(* console, patterns and timeouts.  Commands run in the order they were    *)
(* given, each once, up to the first that fails; the session reports the   *)
(* code of the last one when there is nothing left to run, or that it gave *)
(* up.  A command may still end after the session gave up on it.           *)
(***************************************************************************)
EXTENDS Integers, Sequences

CONSTANTS
  N,      \* the number of commands
  Codes   \* the exit codes a command may end with

VARIABLES
  ran,    \* the commands that ran, with their exit codes
  report  \* the exit code of the session, Running before it ends

vars == <<ran, report>>

Running == -1
GaveUp == 1       \* on a wait
Interrupted == 130
GaveUpBoot == 2   \* on the boot menu

Succeeded == \A i \in DOMAIN ran : ran[i].code = 0
Settled == ran # <<>> /\ (Len(ran) = N \/ ran[Len(ran)].code # 0)

Init == ran = <<>> /\ report = Running

Runs ==
  /\ report \in {Running, GaveUp, Interrupted}
  /\ Len(ran) < N /\ Succeeded
  /\ \E n \in Codes : ran' = Append(ran, [command |-> Len(ran) + 1, code |-> n])
  /\ UNCHANGED report

Reports ==
  /\ report = Running
  /\ \/ Settled /\ report' = ran[Len(ran)].code
     \/ report' \in {GaveUp, Interrupted}
     \/ ran = <<>> /\ report' = GaveUpBoot
  /\ UNCHANGED ran

Next == Runs \/ Reports

Spec == Init /\ [][Next]_vars
-----------------------------------------------------------------------------
\* No command runs out of order, twice, or after one that failed.
InOrder ==
  \A i \in DOMAIN ran : ran[i].command = i /\ (i < Len(ran) => ran[i].code = 0)

\* What the caller may conclude from the report: the code of the last command, with
\* nothing left that should have run; or that the session gave up or was stopped, on
\* the menu before anything ran.  1, 2 and 130 may be either.
Honest ==
  \/ report \in {Running, GaveUp, Interrupted}
  \/ report = GaveUpBoot /\ ran = <<>>
  \/ Settled /\ report = ran[Len(ran)].code

\* A report is final, and only a session that gave up on a wait or was interrupted may
\* leave a command behind that still ends.
Final ==
  [][report # Running =>
       report' = report /\ (ran' # ran => report \in {GaveUp, Interrupted})]_vars
=============================================================================
