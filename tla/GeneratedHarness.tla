-------------------------- MODULE GeneratedHarness --------------------------
(***************************************************************************)
(* workspace/test_cheri_generated_bpf.c: the suite that runs the compiler- *)
(* generated eBPF objects of generated_bpf_cases.h under the CHERI JIT.    *)
(* Nothing comes back from a child but its wait status: the child compares *)
(* the returned value itself and turns the verdict into its exit code, and *)
(* so does its trap handler.                                               *)
(***************************************************************************)
EXTENDS PosixProcess, Sequences

CONSTANTS
  Values,   \* the 64-bit values generated code may return
  Cases     \* the cases of the suite, in the order main runs them

\* struct generated_bpf_case, without its texts, its object and its root.
generated_bpf_case ==
  [expectation : {"EXPECT_RETURN", "EXPECT_CHERI_TRAP"},
   expected_result : Values]

ASSUME GeneratedAssumption ==
  /\ Values \subseteq Nat
  /\ Cases \in Seq(generated_bpf_case)

\* The eight positive controls and the six out-of-bounds cases of the source.
MustReturn(v) == [expectation |-> "EXPECT_RETURN", expected_result |-> v]
MustTrap == [expectation |-> "EXPECT_CHERI_TRAP", expected_result |-> 0]
generated_bpf_cases ==
  << MustReturn(106), MustReturn(36), MustReturn(100), MustReturn(12288),
     MustReturn(8192), MustReturn(8192), MustReturn(8192), MustReturn(90),
     MustTrap, MustTrap, MustTrap, MustTrap, MustTrap, MustTrap >>

Case == 1 .. Len(Cases)
Expects(c) == Cases[c].expectation

VARIABLES
  pc,        \* where the parent is: "case", "wait" or "done"
  current,   \* the index i of main's loop
  failures,  \* main's sum of what run_case returned
  exit,      \* main's return value, Running before it returns
  child,     \* where the child of the current case is
  caught,    \* the signals the child handles
  rc,        \* what load_compile_and_call is about to return
  status,    \* what waitpid will say of the child
  did,       \* history: what really happened to each case
  verdict    \* history: what run_case said of each case

parentVars == <<pc, current, failures, exit, verdict>>
childVars == <<child, caught, rc, status, did>>
vars == <<parentVars, childVars>>

Running == -1
TrapSignals == {SIGPROT, SIGSEGV}
\* The child's way through install_trap_handlers and load_compile_and_call.
Phase == {"none", "start", "setup", "load", "compile", "call", "free", "exit",
          "gone"}
Nothing == [returned |-> 0, value |-> 0, fault |-> "none", at |-> "none"]
Happening ==
  [returned : {0, 1}, value : Values \cup {0}, fault : Faults \cup {"none"},
   at : Phase]

Init ==
  /\ pc = "case"
  /\ current = 1
  /\ failures = 0
  /\ exit = Running
  /\ child = "none"
  /\ caught = {}
  /\ rc = 0
  /\ status = Alive
  /\ did = [c \in Case |-> Nothing]
  /\ verdict = [c \in Case |-> "none"]
-----------------------------------------------------------------------------
(* The parent *)

\* run_case returns 0 or 1 and main adds it up.
Record(result) ==
  /\ verdict' = [verdict EXCEPT ![current] =
                   IF result = 0 THEN "pass" ELSE "fail"]
  /\ failures' = failures + result
  /\ current' = current + 1
  /\ pc' = "case"
  /\ UNCHANGED exit

Fork ==
  /\ pc = "case"
  /\ current \in Case
  /\ child' = "start" /\ caught' = {} /\ rc' = 0 /\ status' = Alive
  /\ pc' = "wait"
  /\ UNCHANGED <<current, failures, exit, verdict, did>>

ForkFails ==
  /\ pc = "case"
  /\ current \in Case
  /\ child' = "none" /\ caught' = {} /\ rc' = 0 /\ status' = Alive
  /\ Record(1)
  /\ UNCHANGED did

\* Mutant: a signal is a failure of the case, whatever the case expects.
run_case_signal_fails(test_case, st) ==
  IF WIFSIGNALED(st) THEN 1 ELSE IF st.code = 0 THEN 0 ELSE 1

\* What run_case makes of the wait status.
run_case(test_case, st) ==
  IF WIFSIGNALED(st)
  THEN IF test_case.expectation = "EXPECT_CHERI_TRAP" THEN 0 ELSE 1
  ELSE IF st.code = 0 THEN 0 ELSE 1

\* Mutant: the parent waits again until the child has exited by itself.
ReapUntilExited ==
  /\ pc = "wait"
  /\ status.how # "alive"
  /\ \/ status.how = "exited" /\ Record(run_case(Cases[current], status))
     \/ status.how = "signalled"
        /\ UNCHANGED <<pc, current, failures, exit, verdict>>
  /\ UNCHANGED childVars

Reap ==
  /\ pc = "wait"
  /\ status.how # "alive"
  /\ Record(run_case(Cases[current], status))
  /\ UNCHANGED childVars

\* waitpid fails only when there is no child to wait for (SIGCHLD ignored).
ReapFails ==
  /\ pc = "wait"
  /\ status.how # "alive"
  /\ Record(1)
  /\ UNCHANGED childVars

\* Mutant: the suite fails only when every case failed.
ReturnUnlessAll ==
  /\ pc = "case"
  /\ current \notin Case
  /\ exit' = IF failures = Len(Cases) THEN 1 ELSE 0
  /\ pc' = "done"
  /\ UNCHANGED <<current, failures, verdict, childVars>>

Return ==
  /\ pc = "case"
  /\ current \notin Case
  /\ exit' = IF failures # 0 THEN 1 ELSE 0
  /\ pc' = "done"
  /\ UNCHANGED <<current, failures, verdict, childVars>>
-----------------------------------------------------------------------------
(* The child *)

Leave(st) == child' = "gone" /\ status' = st

\* The handlers come first, before the object is read, loaded and compiled.
InstallTrapHandlers ==
  /\ child = "start"
  /\ \/ child' = "setup" /\ caught' = TrapSignals /\ UNCHANGED status
     \/ Leave(Exited(11)) /\ UNCHANGED caught
  /\ UNCHANGED <<parentVars, rc, did>>

\* One step of load_compile_and_call that may report failure with its code.
Prepare(from, to, code) ==
  /\ child = from
  /\ \/ child' = to /\ UNCHANGED rc
     \/ child' = "exit" /\ rc' = code
  /\ UNCHANGED <<parentVars, caught, status, did>>

\* read_file, ubpf_create and ubpf_register share their code, and so do
\* ubpf_load_elf_ex and ubpf_compile.
ReadCreateRegister == Prepare("setup", "load", 2)
LoadElf == Prepare("load", "compile", 1)
Compile == Prepare("compile", "call", 1)

\* fn(mem, mem_len) returns.
CallReturns ==
  /\ child = "call"
  /\ \E v \in Values :
       did' = [did EXCEPT ![current] =
                 [returned |-> 1, value |-> v, fault |-> "none", at |-> "none"]]
  /\ child' = "free"
  /\ UNCHANGED <<parentVars, caught, rc, status>>

\* Mutant: the code is the comparison's, also when a trap was expected.
CompareOnly(test_case, result) ==
  IF result = test_case.expected_result THEN 0 ELSE 21

\* The code of a call that returned.
Compare(test_case, result) ==
  IF test_case.expectation = "EXPECT_CHERI_TRAP" THEN 20
  ELSE IF result = test_case.expected_result THEN 0 ELSE 21

\* ubpf_destroy and free come before the result is looked at.
FreeAndCompare ==
  /\ child = "free"
  /\ rc' = Compare(Cases[current], did[current].value)
  /\ child' = "exit"
  /\ UNCHANGED <<parentVars, caught, status, did>>

ExitChild ==
  /\ child = "exit"
  /\ Leave(Exited(rc))
  /\ UNCHANGED <<parentVars, caught, rc, did>>

\* trap_handler: the same exit for SIGPROT and for SIGSEGV.
trap_handler(expectation) ==
  Exited(IF expectation = "EXPECT_CHERI_TRAP" THEN 0 ELSE 31)

\* The child faults, in the generated code or anywhere else.
Fault ==
  /\ child \notin {"none", "gone"}
  /\ \E f \in Faults :
       /\ did' = [did EXCEPT ![current] =
                    [returned |-> @.returned, value |-> @.value, fault |-> f,
                     at |-> child]]
       /\ Leave(IF SignalOf(f) \in caught THEN trap_handler(Expects(current))
                                          ELSE Signalled(f))
  /\ UNCHANGED <<parentVars, caught, rc>>
-----------------------------------------------------------------------------
ParentStep == Fork \/ ForkFails \/ Reap \/ ReapFails \/ Return

ChildStep ==
  \/ InstallTrapHandlers \/ ReadCreateRegister \/ LoadElf \/ Compile
  \/ CallReturns \/ FreeAndCompare \/ ExitChild \/ Fault

Finished == pc = "done" /\ UNCHANGED vars

Next == ParentStep \/ ChildStep \/ Finished

\* The two programs without what goes wrong in them.
ParentRuns == Fork \/ Reap \/ Return
ChildRuns ==
  \/ InstallTrapHandlers \/ ReadCreateRegister \/ LoadElf \/ Compile
  \/ CallReturns \/ FreeAndCompare \/ ExitChild

\* Both processes are scheduled, and the generated programs have no loops, so
\* a call that was entered comes back.  No fault and no failing system call is
\* relied on.
Fairness == WF_vars(ParentRuns) /\ WF_vars(ChildRuns)

Spec == Init /\ [][Next]_vars
FairSpec == Spec /\ Fairness
-----------------------------------------------------------------------------
TypeOK ==
  /\ pc \in {"case", "wait", "done"}
  /\ current \in 1 .. Len(Cases) + 1
  /\ failures \in 0 .. current - 1
  /\ exit \in {Running, 0, 1}
  /\ child \in Phase
  /\ caught \in SUBSET TrapSignals
  /\ rc \in 0 .. 255
  /\ status \in Status
  /\ did \in [Case -> Happening]
  /\ verdict \in [Case -> {"none", "pass", "fail"}]

CleanRun(c) ==
  /\ did[c].returned = 1
  /\ did[c].value = Cases[c].expected_result
  /\ did[c].fault = "none"

\* What the harness can really conclude from a pass: the expected value was
\* returned and nothing went wrong afterwards, or some fault ended the child.
Justifies(c, h) ==
  IF Expects(c) = "EXPECT_RETURN"
  THEN /\ h.returned = 1
       /\ h.value = Cases[c].expected_result
       /\ h.fault = "none"
  ELSE h.fault # "none"

\* run_case never passes a case without that evidence, although exit code 0
\* means "the value is right" in one kind of case and "it trapped" in the other.
VerdictSound == \A c \in Case : verdict[c] = "pass" => Justifies(c, did[c])

\* The other direction: what run_case is about to make of a child that behaved
\* as its case expects (a clean run, or a fault inside the generated code) is 0.
NoFalseAlarm ==
  pc = "wait" /\ child = "gone" =>
    /\ Expects(current) = "EXPECT_RETURN" /\ CleanRun(current)
         => run_case(Cases[current], status) = 0
    /\ Expects(current) = "EXPECT_CHERI_TRAP" /\ did[current].at = "call"
         => run_case(Cases[current], status) = 0

\* The suite always ends: every fault ends the child, none is resumed.
SuiteTerminates == <>(pc = "done")

\* How far main is in the suite, and the child in its case.
MainPlace == 2 * current + (IF pc = "case" THEN 0 ELSE 1)
ChildPlace ==
  CASE child = "none" -> 1
    [] child = "start" -> 2
    [] child = "setup" -> 3
    [] child = "load" -> 4
    [] child = "compile" -> 5
    [] child = "call" -> 6
    [] child = "free" -> 7
    [] child = "exit" -> 8
    [] OTHER -> 9

\* Every step, the faults and the failing calls among them, takes main further, or
\* the child where main waits: nothing is done twice, no fault is resumed, and a
\* run of the suite has an end.
Advances ==
  [][\/ MainPlace' > MainPlace
     \/ MainPlace' = MainPlace /\ ChildPlace' > ChildPlace]_vars

\* The promise of Evidence, with Justifies as what supports a pass.
report ==
  IF exit = Running THEN "running" ELSE IF exit = 0 THEN "ok" ELSE "failed"
E1 == INSTANCE Evidence WITH
        Supports <- [c \in Case |-> {h \in Happening : Justifies(c, h)}],
        happened <- did
KeepsPromise == E1!Spec

\* What docs/generated_bpf_cheri_jit_milestone.md:102-103 says a pass of an
\* out-of-bounds case records: a bounds violation raised while the generated
\* code ran.  The code does not keep it: any signal passes the case, whichever
\* it is and whenever it came, also in ubpf_destroy after the call returned.
TrapDuringExecution ==
  \A c \in Case :
    Expects(c) = "EXPECT_CHERI_TRAP" /\ verdict[c] = "pass"
      => did[c].fault = "bounds" /\ did[c].at = "call"
-----------------------------------------------------------------------------
(***************************************************************************)
(* The inductive invariant behind VerdictSound and the refinement: what    *)
(* the wait status says about what happened to the current case.           *)
(***************************************************************************)
InStep ==
  /\ pc = "wait" => current \in Case /\ child # "none"
  /\ pc # "wait" => child \in {"none", "gone"}
  /\ child = "gone" <=> status.how # "alive"
  /\ pc = "done" <=> exit # Running
  /\ pc = "done" => current \notin Case

HistoryInStep ==
  /\ \A c \in Case : c > current => did[c] = Nothing
  /\ pc = "case" /\ current \in Case => did[current] = Nothing
  /\ \A c \in Case : c < current <=> verdict[c] # "none"
  /\ failures = 0 <=> \A c \in Case : c < current => verdict[c] = "pass"
  /\ exit = 0 => failures = 0

StatusTruthful ==
  pc = "wait" =>
    LET h == did[current] IN
    /\ child # "gone" => h.fault = "none"
    /\ child \in {"start", "setup", "load", "compile", "call"} => h.returned = 0
    /\ child = "free" => h.returned = 1
    /\ child = "exit" /\ rc = 0 => Justifies(current, h)
    /\ status.how = "exited" /\ status.code = 0 => Justifies(current, h)
    /\ status.how = "signalled" => h.fault # "none"

IInv == TypeOK /\ InStep /\ HistoryInStep /\ StatusTruthful /\ VerdictSound

\* What NoFalseAlarm needs besides: a child that goes on has not faulted in the
\* generated code, and one that is about to leave after a clean run leaves with 0.
StatusFair ==
  pc = "wait" =>
    /\ child # "gone" => did[current].at = "none"
    /\ child = "exit" /\ Expects(current) = "EXPECT_RETURN" /\ CleanRun(current)
         => rc = 0
=============================================================================
