------------------------------ MODULE VmDriver ------------------------------
(***************************************************************************)
(* main of tools/cheri_vm.py: one subcommand, and its return value as the  *)
(* exit code.  What another driver does at the same time reaches start as  *)
(* the QEMU that is not its own, and the session of single-command as the  *)
(* end of its QEMU (Dies).                                                 *)
(***************************************************************************)
EXTENDS VmSingle, VmStart

VARIABLE cmd

Commands == {"stop", "start", "single-command"}
allVars == <<cmd, vars, startVars>>

MainInit ==
  /\ cmd \in Commands
  /\ Init /\ StartInit
  /\ start_pc = IF cmd = "single-command" THEN "single" ELSE cmd

\* import_pexpect or a pkill raises, or a Ctrl-C comes before QEMU is started.
SingleNeverStarts ==
  /\ start_pc = "single" /\ start_pc' = "done"
  /\ kill_existing \/ UNCHANGED signal
  /\ \E code \in {Failure, Interrupt} : NeverStarts(code)
  /\ UNCHANGED <<cmd, start_exit, polls, qemu, since, answered, said>>

SingleRuns == start_pc = "session" /\ Next /\ UNCHANGED <<cmd, startVars>>
StartRuns == StartNext /\ UNCHANGED <<cmd, vars>>
MainReturned == start_pc = "done" /\ UNCHANGED allVars

MainNext == SingleNeverStarts \/ SingleRuns \/ StartRuns \/ MainReturned

MainSpec ==
  /\ MainInit /\ [][MainNext]_allVars
  /\ WF_allVars(start_pc = "session" /\ Driver /\ UNCHANGED <<cmd, startVars>>)
  /\ WF_allVars(StartDriver /\ UNCHANGED <<cmd, vars>>)
  /\ WF_allVars(Killed /\ UNCHANGED <<cmd, vars>>)
-----------------------------------------------------------------------------
MainInv == SingleInv /\ StartInv

\* No subcommand waits for ever: every expect has a timeout, the polls a deadline
\* and the wait for QEMU a kill.
MainEnds == <>(exit # Running \/ start_exit # NotYet)

\* Every step of a session brings the session nearer its end, and no step
\* of start or stop, nor of the QEMUs around it, takes the driver back: a run of
\* main makes finitely many steps of its own, however it is scheduled.
Advances == [][(UNCHANGED vars \/ Converse) /\ Proceeds]_allVars
=============================================================================
