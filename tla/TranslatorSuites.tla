-------------------------- MODULE TranslatorSuites ---------------------------
(***************************************************************************)
(* The suites that put programs to a translator and run what comes out in  *)
(* a child per program.  They differ in their harness:                     *)
(*   compile    test_cheri_objjit_compile.c, and the refusals that main    *)
(*              itself asks for, also in test_cheri_translate_reject.c;    *)
(*   loader     test_cheri_loader_jit_repro.c and                          *)
(*              test_cheri_objjit_context_repro.c, whose code comes in a   *)
(*              shared object;                                             *)
(*   generated  test_cheri_generated_bpf.c;                                *)
(*   host       test_generated_bpf_host.c, the same cases on x86_64;       *)
(*   exploit    the CHERI column of exploit_tests.c.                       *)
(* A child executes its program on BpfMachine.  The last two send the      *)
(* result through a pipe, the others compare it themselves.                *)
(***************************************************************************)
EXTENDS BpfMachine, PosixProcess

CONSTANTS
  Suites,      \* the harness, the rows and the memory of each suite
  RightSuites  \* those of the repository; others may have rows that are wrong

Harnesses == {"compile", "loader", "generated", "host", "exploit"}
Translating == {"compile", "generated", "exploit"}  \* with the CHERI translator
Piped == {"host", "exploit"}
Calls == {"value", "trap", "reject", "accept"}
Outcomes == {"expected", "bounds", "idle", "refused", "translated"}
Rows == Seq([call : Calls, program : Program, expected : Word, outcome : Outcomes])
ASSUME SuitesAssumption ==
  \A s \in DOMAIN Suites : Suites[s].harness \in Harnesses /\ Suites[s].rows \in Rows
ASSUME AnalyseAssumption ==
  \A s \in DOMAIN Suites : \A i \in DOMAIN Suites[s].rows :
    Analysed(Suites[s].rows[i].program, Analyse(Suites[s].rows[i].program))

VARIABLES
  suite,     \* the suite that runs
  pc,        \* where main is: "row", "wait" or "done"
  current,   \* the row it is at
  failures,
  exit,      \* main's return value, Running before it returns
  verdict,   \* what the last row's function returned, or Running
  child,     \* where the child is
  status,    \* what waitpid will say
  sent,      \* 1 when the result is in the pipe
  disturbed, \* history: 1 for a foreign fault in the last row, 2 for a failed call
  happened,  \* history: what came of the last row
  missing    \* history: 1 when some row was judged without its evidence

mainVars == <<suite, pc, current, failures, exit, verdict, happened, missing>>
childVars == <<child, status, sent, disturbed>>
vars == <<mainVars, childVars, machineVars>>

Running == -1
harness == Suites[suite].harness
rows == Suites[suite].rows
this == rows[current]
ExpectsTrap == this.call = "trap"

Init ==
  /\ suite \in DOMAIN Suites
  /\ pc = "row" /\ current = 1 /\ failures = 0 /\ exit = Running
  /\ verdict = Running /\ happened = "none" /\ missing = 0
  /\ child = "none" /\ status = Alive /\ sent = 0 /\ disturbed = 0
  /\ Idle
-----------------------------------------------------------------------------
(* Main *)

\* The harnesses that take every exit code but 20, or 1, for a trap: it only tells
\* them that the call did not return to a child that lived to say so.
Lenient == {"compile", "loader", "exploit"}

\* What a row is about came about, as far as its harness can tell.  The host suite
\* expects that an unsafe access goes through, or faults by chance; the exploit
\* suite has nothing against a program that is kept from its safe value.
Evidence(what, foreign) ==
  CASE this.call = "value" ->
         \/ what = "expected"
         \/ harness = "exploit" /\ (what # "unexpected" \/ foreign # 0)
    [] this.call = "trap" ->
         \/ foreign = 1
         \/ harness = "generated" /\ what \in {"bounds", "forged"}
         \/ harness = "host" /\ what # "idle"
         \/ harness \in Lenient /\ (what \notin {"expected", "unexpected"} \/ foreign = 2)
    [] this.call = "reject" -> what = "refused"
    [] OTHER -> what = "translated"

\* failures += ...
Judge(result, what, foreign) ==
  /\ verdict' = result
  /\ happened' = what
  /\ missing' = IF Evidence(what, foreign) THEN missing ELSE 1
  /\ failures' = failures + result
  /\ current' = current + 1
  /\ pc' = "row"
  /\ UNCHANGED <<suite, exit>>

\* What the machine made of the program of the current row.
Outcome ==
  IF end # "returned" THEN end
  ELSE IF regs[0] = Scalar(this.expected) THEN "expected" ELSE "unexpected"

\* "refused" stands for the messages a suite lists, "failed" for every other:
\* ubpf_create or ubpf_load fails, no memory, a wording it does not know.
expect_compile_reject(result) == IF result = "refused" THEN 0 ELSE 1
expect_translate_ok(result) == IF result = "translated" THEN 0 ELSE 1

Translates ==
  /\ pc = "row" /\ current <= Len(rows) /\ this.call \in {"reject", "accept"}
  /\ \E result \in
        {IF Refusals(this.program) = {} THEN "translated" ELSE "refused", "failed"} :
       LET foreign == IF result = "failed" THEN 2 ELSE 0 IN
       /\ disturbed' = foreign
       /\ Judge(IF this.call = "reject" THEN expect_compile_reject(result)
                ELSE expect_translate_ok(result), result, foreign)
  /\ UNCHANGED <<child, status, sent, machineVars>>

Fork ==
  /\ pc = "row" /\ current <= Len(rows) /\ this.call \in {"value", "trap"}
  /\ pc' = "wait"
  /\ verdict' = Running /\ happened' = "none"
  /\ child' = IF harness \in Piped THEN "compile" ELSE "start"
  /\ status' = Alive /\ sent' = 0 /\ disturbed' = 0
  /\ UNCHANGED <<suite, current, failures, exit, missing, machineVars>>

\* No pipe or no child (compile, loader: waitpid(-1) finds none).
ForkFails ==
  /\ pc = "row" /\ current <= Len(rows) /\ this.call \in {"value", "trap"}
  /\ disturbed' = 2
  /\ Judge(1, "idle", 2)
  /\ UNCHANGED <<child, status, sent, machineVars>>

\* Mutant: no exit code of a trap case is a failure.
wait_for_child_any(expect_trap, st) ==
  IF WIFSIGNALED(st) \/ expect_trap THEN IF expect_trap THEN 0 ELSE 1
  ELSE IF st.code = 0 THEN 0 ELSE 1

wait_for_child(expect_trap, st) ==
  IF WIFSIGNALED(st) THEN IF expect_trap THEN 0 ELSE 1
  ELSE IF expect_trap THEN IF st.code = 20 THEN 1 ELSE 0
  ELSE IF st.code = 0 THEN 0 ELSE 1

run_case(expect_trap, st) ==
  IF WIFSIGNALED(st) THEN IF expect_trap THEN 0 ELSE 1
  ELSE IF st.code = 0 THEN 0 ELSE 1

\* HOST_RETURNED and RESULT_EXPLOIT_SUCCEEDED: the parent has read the result of a
\* child that exited with 0.
Returned(st) == ~WIFSIGNALED(st) /\ st.code = 0 /\ sent = 1

host_outcome_matches(expect_trap, st) ==
  IF expect_trap THEN IF Returned(st) \/ WIFSIGNALED(st) THEN 0 ELSE 1
  ELSE IF Returned(st) /\ Outcome = "expected" THEN 0 ELSE 1

RESULT_EXPLOIT_BLOCKED == 1
\* Mutant: a child that crashed has not been kept from anything.
cheri_blocked_or_safe(expect_trap, st) ==
  IF \/ ~WIFSIGNALED(st) /\ st.code = RESULT_EXPLOIT_BLOCKED
     \/ Returned(st) /\ ~expect_trap /\ Outcome = "expected"
  THEN 0 ELSE 1

\* RESULT_CRASH, RESULT_EXPLOIT_BLOCKED or cheri_safe_return.
cheri_blocked(expect_trap, st) ==
  IF \/ WIFSIGNALED(st) \/ st.code = RESULT_EXPLOIT_BLOCKED
     \/ Returned(st) /\ ~expect_trap /\ Outcome = "expected"
  THEN 0 ELSE 1

Verdict(st) ==
  CASE harness = "generated" -> run_case(ExpectsTrap, st)
    [] harness = "host" -> host_outcome_matches(ExpectsTrap, st)
    [] harness = "exploit" -> cheri_blocked(ExpectsTrap, st)
    [] OTHER -> wait_for_child(ExpectsTrap, st)

\* The read of the pipe before it waits for the word or for the end of the child.
Reap ==
  /\ pc = "wait" /\ child = "gone"
  /\ Judge(Verdict(status), Outcome, disturbed)
  /\ child' = "none"
  /\ Reset
  /\ UNCHANGED <<status, sent, disturbed>>

\* waitpid fails for a child that is gone (SIGCHLD ignored by who started main);
\* the exploit suite does not look, and judges the status it initialised.
ReapFails ==
  /\ pc = "wait" /\ child = "gone"
  /\ disturbed' = 2
  /\ Judge(IF harness = "exploit" THEN cheri_blocked(ExpectsTrap, Exited(0)) ELSE 1, Outcome, 2)
  /\ child' = "none"
  /\ Reset
  /\ UNCHANGED <<status, sent>>

Return ==
  /\ pc = "row" /\ current > Len(rows)
  /\ exit' = IF failures = 0 THEN 0 ELSE 1
  /\ pc' = "done"
  /\ UNCHANGED <<suite, current, failures, verdict, happened, missing, childVars,
                 machineVars>>
-----------------------------------------------------------------------------
(* The child *)

Leave(st) == child' = "gone" /\ status' = st

\* The signals a child catches, once its handlers are installed.
Caught ==
  CASE harness \in Piped -> {}
    [] harness = "generated" -> {SIGPROT, SIGSEGV}
    [] OTHER -> {SIGPROT}

trap_handler(fault) ==
  IF SignalOf(fault) \in Caught /\ child # "start"
  THEN Exited(IF ExpectsTrap THEN 0 ELSE 31)
  ELSE Signalled(fault)

\* Mutant: the handler returns and the access is tried again.
TrappedReturning ==
  /\ child = "run" /\ end \in {"bounds", "forged"}
  /\ end' = "running"
  /\ UNCHANGED <<mainVars, childVars, program, ip, regs, memory, bounds>>

Trapped ==
  /\ child = "run" /\ end \in {"bounds", "forged"}
  /\ Leave(trap_handler(IF harness = "host" THEN "page"
                        ELSE IF end = "bounds" THEN "bounds" ELSE "tag"))
  /\ UNCHANGED <<mainVars, sent, disturbed, machineVars>>

install_trap_handlers ==
  /\ child = "start"
  /\ child' = "compile"
  /\ UNCHANGED <<mainVars, status, sent, disturbed, machineVars>>

\* Without the CHERI translator there is nobody to refuse a program.
Admitted == harness \in Translating => Refusals(this.program) = {}

\* Mutant: what is refused is called all the same.
CompileAnything ==
  /\ child = "compile"
  /\ child' = "run"
  /\ Call(this.program, Suites[suite].space)
  /\ UNCHANGED <<mainVars, status, sent, disturbed>>

\* Loads and compiles, and calls what comes of it; or leaves.
load_compile_and_call ==
  /\ child = "compile"
  /\ IF Admitted
     THEN child' = "run" /\ Call(this.program, Suites[suite].space) /\ UNCHANGED status
     ELSE /\ Leave(Exited(IF harness = "compile" THEN 10 ELSE RESULT_EXPLOIT_BLOCKED))
          /\ UNCHANGED machineVars
  /\ UNCHANGED <<mainVars, sent, disturbed>>

Runs ==
  /\ child = "run" /\ Executes
  /\ UNCHANGED <<mainVars, childVars>>

CallReturns ==
  /\ child = "run" /\ end = "returned"
  /\ child' = "returned"
  /\ UNCHANGED <<mainVars, status, sent, disturbed, machineVars>>

write_payload ==
  /\ child = "returned" /\ harness \in Piped
  /\ child' = "written" /\ sent' = 1
  /\ UNCHANGED <<mainVars, status, disturbed, machineVars>>

\* ubpf_destroy and the exit code.
ExitChild ==
  /\ child = IF harness \in Piped THEN "written" ELSE "returned"
  /\ Leave(Exited(IF harness \in Piped THEN 0
                  ELSE IF ExpectsTrap THEN 20
                  ELSE IF Outcome = "expected" THEN 0 ELSE 21))
  /\ UNCHANGED <<mainVars, sent, disturbed, machineVars>>

\* Something fails on the way: sigaction; dlopen and dlsym; reading the object,
\* ubpf_create and ubpf_register; loading; compiling, whatever the reason; the
\* write to the pipe.
CompileFailure ==
  [compile |-> {10}, loader |-> {10, 11}, generated |-> {1, 2}, host |-> {2, 3, 4},
   exploit |-> {RESULT_EXPLOIT_BLOCKED, 3}]
WriteFailure == [host |-> 5, exploit |-> 3]

GivesUp ==
  /\ \/ child = "start" /\ Leave(Exited(11))
     \/ child = "compile" /\ \E n \in CompileFailure[harness] : Leave(Exited(n))
     \/ child = "returned" /\ harness \in Piped /\ Leave(Exited(WriteFailure[harness]))
  /\ disturbed' = 2
  /\ UNCHANGED <<mainVars, sent, machineVars>>

\* A fault that is not the program's: of the JIT, the C library, a kill.
ForeignFault ==
  /\ child \notin {"none", "gone"}
  /\ \E fault \in FaultsOn(harness # "host") : Leave(trap_handler(fault))
  /\ disturbed' = 1
  /\ UNCHANGED <<mainVars, sent, machineVars>>
-----------------------------------------------------------------------------
MainRuns == Translates \/ Fork \/ Reap \/ Return
ChildRuns ==
  \/ install_trap_handlers \/ load_compile_and_call \/ Runs \/ Trapped
  \/ CallReturns \/ write_payload \/ ExitChild
Finished == pc = "done" /\ UNCHANGED vars

Next ==
  \/ MainRuns \/ ForkFails \/ ReapFails
  \/ ChildRuns \/ GivesUp \/ ForeignFault
  \/ Finished

Spec == Init /\ [][Next]_vars
FairSpec == Spec /\ WF_vars(MainRuns) /\ WF_vars(ChildRuns)
-----------------------------------------------------------------------------
TypeOK ==
  /\ suite \in DOMAIN Suites
  /\ pc \in {"row", "wait", "done"}
  /\ current \in 1 .. Len(rows) + 1
  /\ failures \in 0 .. current - 1
  /\ exit \in {Running, 0, 1}
  /\ missing \in {0, 1} /\ sent \in {0, 1} /\ disturbed \in {0, 1, 2}
  /\ child \in {"none", "start", "compile", "run", "returned", "written", "gone"}
  /\ status \in Status
  /\ DOMAIN regs = Register
  /\ end \in {"idle", "running", "returned", "bounds", "forged"}

\* The child of a row runs the program of that row, and only one that was
\* translated; there is an instruction to go on with.
InStep ==
  /\ pc = "wait" => current <= Len(rows) /\ this.call \in {"value", "trap"}
  /\ child # "none" => pc = "wait"
  /\ end # "idle" =>
       /\ child \in {"run", "returned", "written", "gone"}
       /\ program = this.program /\ Admitted /\ ip \in DOMAIN program
  /\ child = "run" => end # "idle"
  /\ child \in {"returned", "written"} => end = "returned"

\* A register the translator takes for a capability holds one, from the root
\* the translator takes it from.
KindsHold ==
  end = "running" => \A r \in Register :
    cheri_bpf_is_capability(Analyse(program)[ip], r)
      => regs[r].source = Analyse(program)[ip][r]
KindsTrue == harness \in Translating => KindsHold

\* A child whose end will pass its row has brought about what the row is about.
StatusTrue == child = "gone" /\ Verdict(status) = 0 => Evidence(Outcome, disturbed)

\* What main counted and returned says about the rows behind it.
CountTrue ==
  /\ missing = 1 => failures # 0
  /\ exit # Running => pc = "done" /\ current = Len(rows) + 1
  /\ exit = 0 => failures = 0

\* A translated program never uses a number as an address: what the kinds say
\* holds on every path, so the only trap left to it is the one of its bounds.
NoForgedAccess == harness \in Translating => end # "forged"

IInv == TypeOK /\ InStep /\ KindsTrue /\ StatusTrue /\ CountTrue

\* Every row of the repository's suites is right about the program it holds:
\* unless something foreign happens the suite passes it, and for the reason the
\* row is there for (a bounds violation, a refusal, its value).
RowsRight ==
  suite \in RightSuites /\ verdict # Running /\ disturbed = 0 =>
    verdict = 0 /\ happened = rows[current - 1].outcome

\* A row that nothing foreign disturbed and that brought about what it is about is
\* not failed, by whichever function judges it and in whichever harness.
NoFalseAlarm ==
  [][current' # current /\ disturbed' = 0 /\ Evidence(happened', 0) => verdict' = 0]_vars

\* What a translated program reaches through the context stays as the suite made
\* it: whatever the paths and the aliases, stores go to the stack or a map value.
Through(source, bytes) == [p \in {q \in DOMAIN bytes : q[1] = source} |-> bytes[p]]
ContextReadOnly ==
  harness \in Translating /\ end # "idle" =>
    Through("context", memory) = Through("context", Suites[suite].space.memory)

\* What NoFalseAlarm rests on: the converse of StatusTrue, and the one phase in
\* which a pipe without the result is not a failure.
StatusFair ==
  /\ child = "gone" /\ disturbed = 0 /\ Evidence(Outcome, 0) => Verdict(status) = 0
  /\ child = "written" => sent = 1

\* main returns 0 only when every row was judged on its evidence.
SuiteSound == exit = 0 => missing = 0 /\ current = Len(rows) + 1

\* The suite ends.
SuiteTerminates == <>(pc = "done")

\* How far main is in its rows, the child in its row and the machine in the program.
MainPlace == 2 * current + (IF pc = "row" THEN 0 ELSE 1)
ChildPlace ==
  CASE child = "none" -> 0
    [] child = "start" -> 1
    [] child = "compile" -> 2
    [] child = "run" -> 3
    [] child = "returned" -> 4
    [] child = "written" -> 5
    [] OTHER -> 6
MachinePlace == 2 * ip + (IF end = "running" THEN 0 ELSE 1)

\* Every step of a suite, the foreign faults and the failing calls among them, takes
\* main further, or the child where main waits, or the machine in its program: no
\* access is tried again after its trap, and a run has an end.
Advances ==
  [][\/ MainPlace' > MainPlace
     \/ MainPlace' = MainPlace /\ ChildPlace' > ChildPlace
     \/ /\ MainPlace' = MainPlace /\ ChildPlace' = ChildPlace
        /\ MachinePlace' > MachinePlace]_vars
=============================================================================
