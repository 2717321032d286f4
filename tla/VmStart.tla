------------------------------- MODULE VmStart ------------------------------
(***************************************************************************)
(* tools/cheri_vm.py, start and stop, and what single-command does before  *)
(* its session.  A driver tells every QEMU that runs to end; start starts  *)
(* one of its own and asks by ssh, over the port QEMU forwards, until a    *)
(* guest answers or the time is up.  It never learns whose guest answers:  *)
(* the QEMU it told to end may take its time and keep the port, its own    *)
(* may have died without it, and another user of the container may start   *)
(* one meanwhile.                                                          *)
(*                                                                         *)
(* QEMU, ssh and the signals are external.  "other" is the QEMU that does  *)
(* not belong to this driver: an earlier start, single-command, console.   *)
(***************************************************************************)
EXTENDS Integers

CONSTANT Polls  \* the attempts that fit into --timeout
ASSUME StartAssumption == Polls \in Nat

Qemu == {"own", "other"}
Holds == {"up", "ssh"}              \* it forwards the port; "ssh": sshd answers
Alive == {"starting"} \cup Holds
StartInterrupt == 130               \* the exit code after a Ctrl-C
NotYet == -1

VARIABLES
  start_pc,    \* where boot_multi is, or kill_existing of stop and single-command
  start_exit,  \* the exit code, NotYet before the end
  polls,
  qemu,        \* the state of each QEMU
  signal,      \* the signal it was sent: 0, 15 (it may take it or not) or 9
  since,       \* history: 1 when it started after the first kill_existing
  answered,    \* history: whose guest answered the last poll
  said         \* history: what start printed last

startVars == <<start_pc, start_exit, polls, qemu, signal, since, answered, said>>

Begins == {"stop", "start", "single"}  \* before the first kill_existing

StartInit ==
  /\ start_pc \in Begins
  /\ start_exit = NotYet /\ polls = 0 /\ answered = "none" /\ said = "nothing"
  /\ qemu \in [Qemu -> {"none"} \cup Alive] /\ qemu["own"] = "none"
  /\ signal = [q \in Qemu |-> 0]
  /\ since = [q \in Qemu |-> 0]
-----------------------------------------------------------------------------
(* The driver *)

Leaves(code) == start_pc' = "done" /\ start_exit' = code

\* Mutant: only the driver's own QEMU is told to end.
kill_own ==
  signal' = [q \in Qemu |-> IF q = "own" /\ qemu[q] \in Alive /\ signal[q] = 0 THEN 15 ELSE signal[q]]

\* pkill: a SIGTERM to every QEMU there is.
kill_existing ==
  signal' = [q \in Qemu |-> IF qemu[q] \in Alive /\ signal[q] = 0 THEN 15 ELSE signal[q]]

Stop ==
  /\ start_pc = "stop"
  /\ kill_existing
  /\ Leaves(0)
  /\ UNCHANGED <<polls, qemu, since, answered, said>>

\* start and single-command, whose own QEMU is the business of VmSingle.
KillFirst ==
  /\ \/ start_pc = "start" /\ start_pc' = "spawn"
     \/ start_pc = "single" /\ start_pc' = "session"
  /\ kill_existing
  /\ UNCHANGED <<start_exit, polls, qemu, since, answered, said>>

\* One of the two pkills cannot be started: a Python exception.
KillRaises ==
  /\ start_pc \in {"stop", "start", "kill_again"}
  /\ kill_existing \/ UNCHANGED signal
  /\ Leaves(1)
  /\ UNCHANGED <<polls, qemu, since, answered, said>>

\* Mutant: what runs is told to end only after QEMU has been started.
PopenThenKill ==
  /\ start_pc = "spawn"
  /\ qemu' = [qemu EXCEPT !["own"] = "starting"]
  /\ since' = [since EXCEPT !["own"] = 1]
  /\ signal' = [signal EXCEPT !["own"] = 15]
  /\ start_pc' = "poll" /\ said' = "started"
  /\ UNCHANGED <<start_exit, polls, answered>>

\* The log cannot be opened or there is no QEMU: a Python exception.
Popen ==
  /\ start_pc = "spawn"
  /\ \/ /\ qemu' = [qemu EXCEPT !["own"] = "starting"]
        /\ since' = [since EXCEPT !["own"] = 1]
        /\ start_pc' = "poll" /\ said' = "started"
        /\ UNCHANGED start_exit
     \/ Leaves(1) /\ UNCHANGED <<qemu, since, said>>
  /\ UNCHANGED <<polls, signal, answered>>

\* Mutant: the loop waits for an answer and for nothing else.
wait_ssh_forever ==
  /\ start_pc = "poll"
  /\ \/ \E q \in Qemu :
          /\ qemu[q] = "ssh" /\ answered' = q /\ said' = "ready"
          /\ Leaves(0) /\ UNCHANGED polls
     \/ UNCHANGED <<start_pc, start_exit, answered, said>> /\ polls' = 0
  /\ UNCHANGED <<qemu, signal, since>>

\* An attempt is answered by whoever holds the port, or fails; the deadline
\* strikes between two of them.  Where ssh cannot be started subprocess.run raises,
\* and nothing cleans up behind that exception.
wait_ssh ==
  /\ start_pc = "poll"
  /\ \/ /\ polls < Polls
        /\ \E q \in Qemu : qemu[q] = "ssh" /\ answered' = q
        /\ Leaves(0) /\ said' = "ready" /\ UNCHANGED polls
     \/ /\ polls < Polls
        /\ polls' = polls + 1
        /\ UNCHANGED <<start_pc, start_exit, answered, said>>
     \/ /\ polls < Polls
        /\ Leaves(1)
        /\ UNCHANGED <<polls, answered, said>>
     \/ /\ start_pc' = "terminate" /\ said' = "not ready"
        /\ UNCHANGED <<polls, start_exit, answered>>
  /\ UNCHANGED <<qemu, signal, since>>

terminate ==
  /\ start_pc = "terminate"
  /\ signal' = IF qemu["own"] \in Alive /\ signal["own"] = 0
               THEN [signal EXCEPT !["own"] = 15] ELSE signal
  /\ start_pc' = "wait"
  /\ UNCHANGED <<start_exit, polls, qemu, since, answered, said>>

\* Mutant: a QEMU that outlives its ten seconds is left to kill_existing.
WaitThenLeave ==
  /\ start_pc = "wait"
  /\ start_pc' = "kill_again"
  /\ UNCHANGED <<start_exit, polls, qemu, signal, since, answered, said>>

\* It ends within ten seconds, or is killed.
WaitOrKill ==
  /\ start_pc = "wait"
  /\ signal' = IF qemu["own"] \in Alive THEN [signal EXCEPT !["own"] = 9] ELSE signal
  /\ start_pc' = "kill_again"
  /\ UNCHANGED <<start_exit, polls, qemu, since, answered, said>>

KillAgain ==
  /\ start_pc = "kill_again"
  /\ kill_existing
  /\ Leaves(1)
  /\ UNCHANGED <<polls, qemu, since, answered, said>>

\* Nothing cleans up behind a KeyboardInterrupt.
Interrupted ==
  /\ start_pc \notin {"single", "session", "done"}
  /\ Leaves(StartInterrupt)
  /\ \/ UNCHANGED signal
     \/ start_pc \in {"stop", "start", "kill_again"} /\ kill_existing
  /\ UNCHANGED <<polls, qemu, since, answered, said>>
-----------------------------------------------------------------------------
(* The processes *)

\* QEMU binds the forwarded port, or ends because somebody has it.
Binds(q) ==
  /\ qemu[q] = "starting"
  /\ qemu' = [qemu EXCEPT ![q] = IF \E h \in Qemu : qemu[h] \in Holds THEN "dead" ELSE "up"]
  /\ UNCHANGED <<start_pc, start_exit, polls, signal, since, answered, said>>

GuestUp(q) ==
  /\ qemu[q] = "up"
  /\ qemu' = [qemu EXCEPT ![q] = "ssh"]
  /\ UNCHANGED <<start_pc, start_exit, polls, signal, since, answered, said>>

\* It takes its signal, it crashes, its guest shuts down.
QemuEnds(q) ==
  /\ qemu[q] \in Alive
  /\ qemu' = [qemu EXCEPT ![q] = "dead"]
  /\ UNCHANGED <<start_pc, start_exit, polls, signal, since, answered, said>>

OtherStarts ==
  /\ qemu["other"] \in {"none", "dead"}
  /\ qemu' = [qemu EXCEPT !["other"] = "starting"]
  /\ signal' = [signal EXCEPT !["other"] = 0]
  /\ since' = [since EXCEPT !["other"] = IF start_pc \in Begins THEN 0 ELSE 1]
  /\ UNCHANGED <<start_pc, start_exit, polls, answered, said>>
-----------------------------------------------------------------------------
StartDriver ==
  \/ Stop \/ KillFirst \/ KillRaises \/ Popen \/ wait_ssh \/ terminate
  \/ WaitOrKill \/ KillAgain
Killed == signal["own"] = 9 /\ QemuEnds("own")

StartNext ==
  \/ StartDriver \/ Interrupted
  \/ \E q \in Qemu : Binds(q) \/ GuestUp(q) \/ QemuEnds(q)
  \/ OtherStarts

StartSpec == StartInit /\ [][StartNext]_startVars
\* The driver runs, and nothing outlives a SIGKILL.
StartFairness == WF_startVars(StartDriver) /\ WF_startVars(Killed)
-----------------------------------------------------------------------------
StartTypeOK ==
  /\ start_pc \in Begins \cup {"spawn", "poll", "terminate", "wait", "kill_again",
                               "session", "done"}
  /\ start_exit \in {NotYet, 0, 1, StartInterrupt}
  /\ polls \in 0 .. Polls
  /\ qemu \in [Qemu -> {"none", "dead"} \cup Alive]
  /\ signal \in [Qemu -> {0, 9, 15}]
  /\ since \in [Qemu -> {0, 1}]
  /\ answered \in Qemu \cup {"none"}
  /\ said \in {"nothing", "started", "ready", "not ready"}

\* Before a driver starts a QEMU or reports success, who runs since before its
\* kill_existing was told to end, and stays told until it has: "ssh ready" is never
\* the answer of a VM that is simply still there.
OldAreTold ==
  start_pc \in {"spawn", "session"} \/ said # "nothing" \/ start_exit = 0 =>
    \A q \in Qemu : qemu[q] \in Alive /\ since[q] = 0 => signal[q] # 0

\* A start that failed, and not by the exception of wait_ssh, has no QEMU of its own
\* that could still come up and take the port: it is gone, or has a signal it cannot
\* ignore.
Failed == start_exit = 1 /\ said # "started"
FailureStopsOwn == Failed => qemu["own"] \in {"none", "dead"} \/ signal["own"] = 9

\* What a driver knows of its QEMU at each place, and what it has printed.
OwnInStep ==
  /\ start_pc \in Begins \cup {"spawn", "session"} =>
       qemu["own"] = "none" /\ said = "nothing"
  /\ start_pc \in Begins \cup {"spawn", "session", "poll"} => signal["own"] = 0
  /\ start_pc = "poll" => said = "started"
  /\ start_pc \in {"terminate", "wait", "kill_again"} => said = "not ready"
  /\ said = "nothing" => qemu["own"] = "none"
  /\ start_pc \in {"poll", "terminate", "wait"} => qemu["own"] # "none"
  /\ start_pc = "kill_again" => qemu["own"] = "dead" \/ signal["own"] = 9
  /\ start_pc # "done" => start_exit = NotYet
  /\ qemu["own"] \in Alive => since["own"] = 1

\* The driver does not signal the VM it has just said is ready.
ReadyIsLeftAlone ==
  start_exit = 0 /\ answered = "own" => signal["own"] = 0

\* How far the driver is, and in its loop by the polls.  Nothing the processes do
\* takes it back, whoever starts QEMUs meanwhile.
StartPlace ==
  CASE start_pc \in Begins -> 1
    [] start_pc = "spawn" -> 2
    [] start_pc = "poll" -> 3
    [] start_pc = "terminate" -> 4
    [] start_pc = "wait" -> 5
    [] start_pc = "kill_again" -> 6
    [] OTHER -> 7
Proceeds ==
  \/ StartPlace' > StartPlace
  \/ StartPlace' = StartPlace /\ polls' > polls
  \/ UNCHANGED <<start_pc, start_exit, polls>>

StartInv == StartTypeOK /\ OwnInStep

\* After a failed start its QEMU is gone for good, whatever it makes of SIGTERM.
FailureGone == Failed ~> [](qemu["own"] \in {"none", "dead"})
=============================================================================
