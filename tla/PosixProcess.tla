---------------------------- MODULE PosixProcess ----------------------------
(***************************************************************************)
(* The part of the operating system every case harness of the repository   *)
(* stands on: the faults a child can take, the signals they arrive as, and *)
(* the status waitpid hands to the parent.  None of it is code of the      *)
(* repository; it is modelled from the way the harnesses use it.           *)
(***************************************************************************)
EXTENDS Integers

(***************************************************************************)
(* What can go wrong in a child.  "bounds" is the capability violation the *)
(* suites are after (SIGPROT, PROT_CHERI_BOUNDS); "tag" stands for every   *)
(* other capability violation (SIGPROT with another si_code); "page" is an *)
(* access to an unmapped page (SIGSEGV); "kill" is a signal no harness     *)
(* catches (SIGILL, SIGABRT, SIGBUS, the OOM killer).  Without capability  *)
(* hardware only "page" and "kill" exist.                                  *)
(***************************************************************************)
CapabilityFaults == {"bounds", "tag"}
Faults == CapabilityFaults \cup {"page", "kill"}
FaultsOn(purecap) == IF purecap THEN Faults ELSE Faults \ CapabilityFaults

SIGPROT == 34
SIGSEGV == 11
SIGKILL == 9
Signals == {SIGPROT, SIGSEGV, SIGKILL}

SignalOf(fault) ==
  CASE fault \in CapabilityFaults -> SIGPROT
    [] fault = "page" -> SIGSEGV
    [] OTHER -> SIGKILL

(***************************************************************************)
(* The status of a child: still there, exited with a code (eight bits, so  *)
(* WEXITSTATUS is never negative), or ended by a signal.                   *)
(***************************************************************************)
Status == [how : {"alive", "exited", "signalled"}, code : 0 .. 255,
           signal : Signals \cup {0}]

Alive == [how |-> "alive", code |-> 0, signal |-> 0]
Exited(n) == [how |-> "exited", code |-> n, signal |-> 0]
Signalled(fault) ==
  [how |-> "signalled", code |-> 0, signal |-> SignalOf(fault)]

WIFSIGNALED(status) == status.how = "signalled"
=============================================================================
