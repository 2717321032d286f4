-------------------------- MODULE HelperMapHarness --------------------------
(***************************************************************************)
(* workspace/test_helper_map_cap.c: the suite for capabilities returned by *)
(* a helper.  The parent runs its cases one after the other, each in a     *)
(* child of its own: the child compiles and calls the generated code and   *)
(* sends the value it returned through a pipe, the parent reads the pipe,  *)
(* reaps the child and decides from the two whether the case passed.       *)
(*                                                                         *)
(* The JIT (libubpf, not in the repository) appears as what it may do to   *)
(* the child: report a failure, return any value, or fault.                *)
(***************************************************************************)
EXTENDS PosixProcess, Sequences

CONSTANTS
  Purecap,  \* compiled for CheriBSD purecap (TRUE) or for the host (FALSE)
  Values,   \* the 64-bit values generated code may return
  Cases     \* the cases of the suite, in the order main runs them

Expectation == {"EXPECT_RETURN", "EXPECT_TRAP"}

\* struct helper_map_case, without its name, its description and its bytes.
helper_map_case == [expectation : Expectation, expected : Values]

ASSUME HarnessAssumption ==
  /\ Purecap \in BOOLEAN
  /\ Values \subseteq Nat
  /\ Cases \in Seq(helper_map_case)

\* The cases the source lists: two accesses in bounds, two out of bounds.
helper_map_cases ==
  << [expectation |-> "EXPECT_RETURN", expected |-> 8192],
     [expectation |-> "EXPECT_RETURN", expected |-> 90],
     [expectation |-> "EXPECT_TRAP", expected |-> 0],
     [expectation |-> "EXPECT_TRAP", expected |-> 0] >>

Case == 1 .. Len(Cases)
Expects(c) == Cases[c].expectation

VARIABLES
  pc,        \* where the parent is in main and run_case_child
  current,   \* the index i of main's loop
  outcome,   \* struct run_outcome of the current case
  received,  \* what read() left the parent: the count n and the value
  failures,  \* main's count of failed cases
  exit,      \* main's return value, Running before it returns
  child,     \* where the child of the current case is
  caught,    \* the signals the child handles
  rc,        \* the code the child is about to leave with
  status,    \* what waitpid will say of the child
  sent,      \* the bytes in the pipe of the current case
  open,      \* the open ends of that pipe
  did,       \* history: what really happened to each case
  verdict    \* history: what main said of each case

parentVars == <<pc, current, outcome, received, failures, exit, verdict>>
childVars == <<child, caught, rc, status, did>>
pipeVars == <<sent, open>>
vars == <<parentVars, childVars, pipeVars>>

Running == -1

\* The child's progress through install_trap_handlers, load_compile_and_call
\* (ubpf_create and ubpf_register, ubpf_load, ubpf_compile, the call,
\* write_all) and the way out (ubpf_destroy, close, _exit).
Phase == {"none", "start", "setup", "load", "compile", "call", "write",
          "exit", "gone"}
ParentEnds == {"parentRead", "parentWrite"}
ChildEnds == {"childRead", "childWrite"}
WriteEnds == {"parentWrite", "childWrite"}
WordSize == 8
\* The signals install_trap_handlers catches.
TrapSignals == {SIGPROT, SIGSEGV}

\* struct run_outcome, made by its exit status, by its signal and by its value.
Errored(code) ==
  [returned |-> 0, signalled |-> 0, signal |-> 0, exit_status |-> code,
   value |-> 0]
Trapped(signal, code) ==
  [returned |-> 0, signalled |-> 1, signal |-> signal, exit_status |-> code,
   value |-> 0]
Returned(value) ==
  [returned |-> 1, signalled |-> 0, signal |-> 0, exit_status |-> 0,
   value |-> value]
NoOutcome == Errored(0)
NoBytes == [n |-> 0, value |-> 0]
Nothing == [returned |-> 0, value |-> 0, fault |-> "none", at |-> "none"]

Outcome ==
  [returned : {0, 1}, signalled : {0, 1}, signal : Signals \cup {0},
   exit_status : 0 .. 255, value : Values \cup {0}]
Bytes == [n : {0, WordSize}, value : Values \cup {0}]
Happening ==
  [returned : {0, 1}, value : Values \cup {0}, fault : Faults \cup {"none"},
   at : Phase]

Init ==
  /\ pc = "case"
  /\ current = 1
  /\ outcome = NoOutcome
  /\ received = NoBytes
  /\ failures = 0
  /\ exit = Running
  /\ child = "none"
  /\ caught = {}
  /\ rc = 0
  /\ status = Alive
  /\ sent = NoBytes
  /\ open = {}
  /\ did = [c \in Case |-> Nothing]
  /\ verdict = [c \in Case |-> "none"]
-----------------------------------------------------------------------------
(* The parent *)

OpenPipe ==
  /\ pc = "case"
  /\ current \in Case
  /\ child' = "none" /\ caught' = {} /\ rc' = 0 /\ status' = Alive
  /\ received' = NoBytes /\ sent' = NoBytes
  /\ \/ /\ open' = ParentEnds
        /\ outcome' = NoOutcome
        /\ pc' = "fork"
     \/ /\ open' = {}
        /\ outcome' = Errored(90)
        /\ pc' = "judge"
  /\ UNCHANGED <<current, failures, exit, verdict, did>>

Fork ==
  /\ pc = "fork"
  /\ open' = open \cup ChildEnds
  /\ child' = "start"
  /\ pc' = "close"
  /\ UNCHANGED <<current, outcome, received, failures, exit, verdict,
                 caught, rc, status, did, sent>>

\* Mutant: a fork that failed is tried again, with a pipe of its own.
ForkRetries ==
  /\ pc = "fork"
  /\ open' = open \ ParentEnds
  /\ pc' = "case"
  /\ UNCHANGED <<current, outcome, received, failures, exit, verdict, childVars, sent>>

ForkFails ==
  /\ pc = "fork"
  /\ open' = open \ ParentEnds
  /\ outcome' = Errored(91)
  /\ pc' = "judge"
  /\ UNCHANGED <<current, received, failures, exit, verdict, childVars, sent>>

\* Mutant: the parent keeps its write end until it has read.
CloseNothing ==
  /\ pc = "close"
  /\ pc' = "read"
  /\ UNCHANGED <<current, outcome, received, failures, exit, verdict,
                 childVars, pipeVars>>

CloseWriteEnd ==
  /\ pc = "close"
  /\ open' = open \ {"parentWrite"}
  /\ pc' = "read"
  /\ UNCHANGED <<current, outcome, received, failures, exit, verdict,
                 childVars, sent>>

\* Mutant: a read that does not wait for the child.
ReadNow ==
  /\ pc = "read"
  /\ received' = sent
  /\ open' = open \ {"parentRead"}
  /\ pc' = "wait"
  /\ UNCHANGED <<current, outcome, failures, exit, verdict, childVars, sent>>

\* Mutant: the parent reads on until it has the whole word.
ReadWholeWord ==
  /\ pc = "read"
  /\ \/ /\ sent.n = WordSize
        /\ received' = sent
        /\ open' = open \ {"parentRead"}
        /\ pc' = "wait"
     \/ /\ sent.n # WordSize /\ open \cap WriteEnds = {}
        /\ UNCHANGED <<received, open, pc>>
  /\ UNCHANGED <<current, outcome, failures, exit, verdict, childVars, sent>>

\* read() returns the word once it is there, or 0 when nobody can write any
\* more; a write of eight bytes to a pipe is never split.
ReadResult ==
  /\ pc = "read"
  /\ sent.n = WordSize \/ open \cap WriteEnds = {}
  /\ received' = sent
  /\ open' = open \ {"parentRead"}
  /\ pc' = "wait"
  /\ UNCHANGED <<current, outcome, failures, exit, verdict, childVars, sent>>

\* What run_case_child makes of a wait status and of the bytes it read.
OutcomeOf(st, bytes) ==
  IF WIFSIGNALED(st) THEN Trapped(st.signal, 0)
  ELSE IF st.code = 100 THEN Trapped(IF Purecap THEN SIGPROT ELSE 0, 100)
  ELSE IF st.code = 0 /\ bytes.n = WordSize THEN Returned(bytes.value)
  ELSE Errored(st.code)

Reap ==
  /\ pc = "wait"
  /\ status.how # "alive"
  /\ outcome' = OutcomeOf(status, received)
  /\ pc' = "judge"
  /\ UNCHANGED <<current, received, failures, exit, verdict, childVars,
                 pipeVars>>

\* waitpid fails only when there is no child to wait for (SIGCHLD ignored).
ReapFails ==
  /\ pc = "wait"
  /\ status.how # "alive"
  /\ outcome' = Errored(92)
  /\ pc' = "judge"
  /\ UNCHANGED <<current, received, failures, exit, verdict, childVars,
                 pipeVars>>

case_passed(test_case, out) ==
  IF test_case.expectation = "EXPECT_TRAP"
  THEN IF Purecap THEN out.signalled = 1 /\ out.signal = SIGPROT
                  ELSE out.returned = 1 \/ out.signalled = 1
  ELSE out.returned = 1 /\ out.value = test_case.expected

Judge ==
  /\ pc = "judge"
  /\ LET ok == case_passed(Cases[current], outcome) IN
       /\ verdict' = [verdict EXCEPT ![current] = IF ok THEN "pass" ELSE "fail"]
       /\ failures' = failures + (IF ok THEN 0 ELSE 1)
  /\ current' = current + 1
  /\ pc' = "case"
  /\ UNCHANGED <<outcome, received, exit, childVars, pipeVars>>

\* Mutant: main's result is that of its last case.
ReturnLast ==
  /\ pc = "case"
  /\ current \notin Case
  /\ exit' = IF verdict[Len(Cases)] = "fail" THEN 1 ELSE 0
  /\ pc' = "done"
  /\ UNCHANGED <<current, outcome, received, failures, verdict, childVars,
                 pipeVars>>

Return ==
  /\ pc = "case"
  /\ current \notin Case
  /\ exit' = IF failures # 0 THEN 1 ELSE 0
  /\ pc' = "done"
  /\ UNCHANGED <<current, outcome, received, failures, verdict, childVars,
                 pipeVars>>
-----------------------------------------------------------------------------
(* The child *)

\* The child is gone: its descriptors close with it.
Leave(st) ==
  /\ child' = "gone"
  /\ status' = st
  /\ open' = open \ ChildEnds

\* close(pipefd[0]); then, on purecap, install_trap_handlers, which gives up
\* with 11 when sigaction fails.
InstallTrapHandlers ==
  /\ child = "start"
  /\ \/ /\ child' = "setup"
        /\ caught' = IF Purecap THEN TrapSignals ELSE {}
        /\ open' = open \ {"childRead"}
        /\ UNCHANGED status
     \/ /\ Purecap
        /\ Leave(Exited(11))
        /\ UNCHANGED caught
  /\ UNCHANGED <<parentVars, rc, did, sent>>

\* One step of load_compile_and_call that may report failure with its code.
Prepare(from, to, code) ==
  /\ child = from
  /\ \/ child' = to /\ UNCHANGED rc
     \/ child' = "exit" /\ rc' = code
  /\ UNCHANGED <<parentVars, caught, status, did, pipeVars>>

CreateAndRegister == Prepare("setup", "load", 2)
Load == Prepare("load", "compile", 3)
Compile == Prepare("compile", "call", 4)

\* fn(mem, mem_len) returns.
CallReturns ==
  /\ child = "call"
  /\ \E v \in Values :
       did' = [did EXCEPT ![current] =
                 [returned |-> 1, value |-> v, fault |-> "none", at |-> "none"]]
  /\ child' = "write"
  /\ UNCHANGED <<parentVars, caught, rc, status, pipeVars>>

WriteResult ==
  /\ child = "write"
  /\ child' = "exit"
  /\ \/ /\ sent' = [n |-> WordSize, value |-> did[current].value]
        /\ rc' = 0
     \/ /\ rc' = 5
        /\ UNCHANGED sent
  /\ UNCHANGED <<parentVars, caught, status, did, open>>

ExitChild ==
  /\ child = "exit"
  /\ Leave(Exited(rc))
  /\ UNCHANGED <<parentVars, caught, rc, did, sent>>

\* Mutant: the handler leaves with 0 when a trap was expected.
trap_handler_zero(expectation) ==
  Exited(IF expectation = "EXPECT_TRAP" THEN 0 ELSE 31)

\* trap_handler: the same exit for SIGPROT and for SIGSEGV.
trap_handler(expectation) ==
  Exited(IF expectation = "EXPECT_TRAP" THEN 100 ELSE 31)

\* The child faults, in the generated code or anywhere else.
Fault ==
  /\ child \notin {"none", "gone"}
  /\ \E f \in FaultsOn(Purecap) :
       /\ did' = [did EXCEPT ![current] =
                    [returned |-> @.returned, value |-> @.value, fault |-> f,
                     at |-> child]]
       /\ Leave(IF SignalOf(f) \in caught THEN trap_handler(Expects(current))
                                          ELSE Signalled(f))
  /\ UNCHANGED <<parentVars, caught, rc, sent>>
-----------------------------------------------------------------------------
ParentStep ==
  \/ OpenPipe \/ Fork \/ ForkFails \/ CloseWriteEnd \/ ReadResult
  \/ Reap \/ ReapFails \/ Judge \/ Return

ChildStep ==
  \/ InstallTrapHandlers \/ CreateAndRegister \/ Load \/ Compile
  \/ CallReturns \/ WriteResult \/ ExitChild \/ Fault

Finished == pc = "done" /\ UNCHANGED vars

Next == ParentStep \/ ChildStep \/ Finished

\* The two programs without what goes wrong in them.
ParentRuns ==
  OpenPipe \/ Fork \/ CloseWriteEnd \/ ReadResult \/ Reap \/ Judge \/ Return
ChildRuns ==
  \/ InstallTrapHandlers \/ CreateAndRegister \/ Load \/ Compile
  \/ CallReturns \/ WriteResult \/ ExitChild

\* Both processes are scheduled, and the generated programs have no loops, so
\* a call that was entered comes back.  No fault and no failing system call is
\* relied on.
Fairness == WF_vars(ParentRuns) /\ WF_vars(ChildRuns)

Spec == Init /\ [][Next]_vars
FairSpec == Spec /\ Fairness
-----------------------------------------------------------------------------
TypeOK ==
  /\ pc \in {"case", "fork", "close", "read", "wait", "judge", "done"}
  /\ current \in 1 .. Len(Cases) + 1
  /\ outcome \in Outcome
  /\ received \in Bytes
  /\ failures \in 0 .. current - 1
  /\ exit \in {Running, 0, 1}
  /\ child \in Phase
  /\ caught \in SUBSET TrapSignals
  /\ rc \in 0 .. 255
  /\ status \in Status
  /\ sent \in Bytes
  /\ open \in SUBSET (ParentEnds \cup ChildEnds)
  /\ did \in [Case -> Happening]
  /\ verdict \in [Case -> {"none", "pass", "fail"}]

\* What the harness can really conclude from a pass.  A case that must return
\* passes only when the generated code returned the expected value and the
\* child then left without a fault.  A case that must trap passes, on purecap,
\* only when the child took a memory fault somewhere.
Justifies(c, h) ==
  IF Expects(c) = "EXPECT_RETURN"
  THEN h.returned = 1 /\ h.value = Cases[c].expected /\ h.fault = "none"
  ELSE IF Purecap
  THEN h.fault \in Faults \ {"kill"}
  ELSE h.returned = 1 \/ h.fault # "none"

\* A pass of case_passed is never given without that evidence, whatever order
\* the child's write, fault and exit and the parent's read and wait come in.
VerdictSound == \A c \in Case : verdict[c] = "pass" => Justifies(c, did[c])

\* main returns 0 only when every case passed on evidence of its own.
SuiteSound == exit = 0 => \A c \in Case : Justifies(c, did[c])

\* The other direction: a child in which nothing went wrong, whose generated
\* code returned the expected value, is not failed unless the parent could
\* not reap it or the child could not write.
CleanRun(c) ==
  /\ did[c].returned = 1
  /\ did[c].value = Cases[c].expected
  /\ did[c].fault = "none"
NoFalseAlarm ==
  pc = "judge" /\ Expects(current) = "EXPECT_RETURN" /\ CleanRun(current)
    => \/ case_passed(Cases[current], outcome)
       \/ outcome.exit_status \in {5, 92}

\* No path through run_case_child, the failing ones included, leaves a
\* descriptor of the pipe open in the parent or a child running.
NothingLeaks ==
  pc \in {"judge", "case", "done"}
    => /\ open = {}
       /\ child \in {"none", "gone"}

\* The suite always ends: no read of the pipe waits for a writer that will
\* never come.
SuiteTerminates == <>(pc = "done")

\* How far parent and child are in a case.
ParentPlace ==
  CASE pc = "case" -> 1
    [] pc = "fork" -> 2
    [] pc = "close" -> 3
    [] pc = "read" -> 4
    [] pc = "wait" -> 5
    [] pc = "judge" -> 6
    [] OTHER -> 7
ChildPlace ==
  CASE child = "none" -> 1
    [] child = "start" -> 2
    [] child = "setup" -> 3
    [] child = "load" -> 4
    [] child = "compile" -> 5
    [] child = "call" -> 6
    [] child = "write" -> 7
    [] child = "exit" -> 8
    [] OTHER -> 9

\* Nothing is done twice: every step, the faults and the failing calls among
\* them, takes the parent further, or the child where the parent stays, and no
\* case is gone back to.  A run of the suite has an end, however it is scheduled.
Advances ==
  [][\/ current' > current
     \/ current' = current /\ ParentPlace' > ParentPlace
     \/ /\ current' = current /\ ParentPlace' = ParentPlace
        /\ ChildPlace' > ChildPlace]_vars

\* It does not end too soon: where the parent waits, for the word or for the
\* child, it is for a child that can still go on, and once there is none both
\* waits are over.  So the last state of a run is the one main returned in.
NeverStuck ==
  child \in {"none", "gone"} =>
    /\ pc = "read" => sent.n = WordSize \/ open \cap WriteEnds = {}
    /\ pc = "wait" => status.how # "alive"

\* The promise of Evidence, with Justifies as what supports a pass.
report ==
  IF exit = Running THEN "running" ELSE IF exit = 0 THEN "ok" ELSE "failed"
E1 == INSTANCE Evidence WITH
        Supports <- [c \in Case |-> {h \in Happening : Justifies(c, h)}],
        happened <- did
KeepsPromise == E1!Spec

\* What the source asks of a passing trap case: case_passed requires that the
\* child was ended by SIGPROT, and docs/helper_map_capability_milestone.md
\* records both trap cases as SIGPROT.  The code does not keep it: trap_handler
\* leaves with the same 100 for SIGSEGV, and run_case_child reads 100 as SIGPROT.
TrapIsSigprot ==
  \A c \in Case :
    Purecap /\ Expects(c) = "EXPECT_TRAP" /\ verdict[c] = "pass"
      => did[c].fault # "none" /\ SignalOf(did[c].fault) = SIGPROT
-----------------------------------------------------------------------------
(***************************************************************************)
(* The inductive invariant behind VerdictSound, SuiteSound, NothingLeaks   *)
(* and the refinement: what the wait status, the bytes in the pipe and the *)
(* parent's outcome each say about what happened.                          *)
(***************************************************************************)
Busy == pc \in {"fork", "close", "read", "wait", "judge"}

\* A case that is being run is one of the cases.
Located == Busy => current \in Case

\* Where the two processes are with respect to each other.
InStep ==
  /\ pc \in {"case", "judge", "done"} => child \in {"none", "gone"}
  /\ pc = "fork" => child = "none"
  /\ pc \in {"close", "read", "wait"} => child # "none"
  /\ child = "gone" <=> status.how # "alive"
  /\ pc = "done" <=> exit # Running
  /\ pc = "done" => current \notin Case

\* Which ends of the pipe are open.
EndsInStep ==
  /\ pc \in {"case", "judge", "done"} => open = {}
  /\ pc = "fork" => open = ParentEnds
  /\ pc = "close" => open \ ChildEnds = ParentEnds
  /\ pc = "read" => open \ ChildEnds = {"parentRead"}
  /\ pc = "wait" => open \ ChildEnds = {}
  /\ child = "gone" => open \cap ChildEnds = {}

\* Cases not yet run have no history, cases already judged have a verdict.
HistoryInStep ==
  /\ \A c \in Case : c > current => did[c] = Nothing
  /\ pc \in {"case", "fork"} /\ current \in Case => did[current] = Nothing
  /\ \A c \in Case : c < current <=> verdict[c] # "none"
  /\ failures = 0 <=> \A c \in Case : c < current => verdict[c] = "pass"
  /\ exit = 0 => failures = 0

\* What the child, its status and the pipe say about the current case.
StatusTruthful ==
  Busy =>
    LET h == did[current] IN
    /\ child \notin {"none", "gone"} => h.fault = "none"
    /\ child \in {"none", "start", "setup", "load", "compile", "call"}
         => h.returned = 0
    /\ child = "write" => h.returned = 1
    /\ child = "exit" => rc < 100 /\ (rc = 0 => h.returned = 1)
    /\ status.how = "exited"
         => /\ status.code = 0 => h.returned = 1 /\ h.fault = "none"
            /\ status.code = 100 => h.fault \in Faults \ {"kill"}
    /\ status.how = "signalled"
         => h.fault \in Faults /\ status.signal = SignalOf(h.fault)
    /\ sent.n = WordSize => h.returned = 1 /\ sent.value = h.value
    /\ received.n = WordSize => h.returned = 1 /\ received.value = h.value

\* What the parent's outcome says about the current case.
OutcomeTruthful ==
  /\ pc \in {"fork", "close", "read", "wait"} => outcome = NoOutcome
  /\ pc = "judge" =>
       LET h == did[current] IN
       /\ outcome.returned = 1
            => h.returned = 1 /\ h.value = outcome.value /\ h.fault = "none"
       /\ outcome.signalled = 1 => h.fault \in Faults
       /\ outcome.signalled = 1 /\ Purecap /\ outcome.signal = SIGPROT
            => h.fault # "kill"

IInv ==
  /\ TypeOK
  /\ Located
  /\ InStep
  /\ EndsInStep
  /\ HistoryInStep
  /\ StatusTruthful
  /\ OutcomeTruthful
  /\ VerdictSound

\* What NoFalseAlarm rests on: how a clean call goes on to its status.  The
\* child holds its write end as long as it lives, so a read that ends without
\* the word ends because the child is gone.
StatusFair ==
  /\ child \notin {"none", "gone"} => "childWrite" \in open
  /\ Busy /\ sent.n = WordSize => child \in {"exit", "gone"}
  /\ pc = "wait" => received = sent /\ child \in {"exit", "gone"}
  /\ Busy /\ did[current].returned = 1 /\ did[current].fault = "none" =>
       /\ child = "exit" => rc = 5 \/ (rc = 0 /\ sent.n = WordSize)
       /\ child = "gone" =>
            /\ status.how = "exited"
            /\ status.code = 5 \/ (status.code = 0 /\ sent.n = WordSize)
=============================================================================
