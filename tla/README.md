# Verification of the capeBPF test and VM tooling

The repository holds the harnesses, repros and VM tools around a CHERI (Morello
purecap) port of the uBPF JIT.  The JIT itself lives in the submodule
`workspace/ubpf`, which is not part of the commit these modules were written
against.  What the repository's own code decides is *what counts as evidence*:
which value, signal or exit code of a child process makes a suite print "OK",
and which console text makes a VM tool report success.  That is what is
modelled, checked and proved here.

## The system

| Part | Source | State | Interacts by |
|---|---|---|---|
| helper-map suite | `workspace/test_helper_map_cap.c` | parent loop and failure count, one child per case, a pipe, the child's handlers | fork, pipe, `_exit` code, `waitpid` |
| generated-BPF suite (CHERI) | `workspace/test_cheri_generated_bpf.c`, `generated_bpf_cases.h` | the same without a pipe: the child compares, its exit code is the verdict | fork, `_exit` code, `waitpid` |
| generated-BPF suite (host) | `workspace/test_generated_bpf_host.c` | the same cases on x86_64, with the result sent through a pipe; an unsafe access may go through | fork, pipe, `waitpid` |
| eBPF programs | `workspace/bpf/*.c`, `generated_bpf_cases.h` | none: 14 C functions that clang compiles | the two generated-BPF suites |
| tail-helper mitigation | `workspace/test_cheri_tail_helper_context.c` | a five-instruction compiler, code pages, two children | generated code calls a C helper |
| direct JIT repro | `workspace/test_cheri_direct_jit_repro.c` | a page with its protection, the code in it, the entry capability, 39 cases | fork, generated code |
| translator suites | `test_cheri_objjit_compile.c`, `test_cheri_translate_reject.c`, `cheri_jit_contract.h` | failure count, one child per called program; register kinds per instruction | fork, libubpf |
| loader and object repros | `test_cheri_loader_jit_repro.c`, `test_cheri_objjit_context_repro.c`, `test_cheri_context_load.c` | one child per case | fork, `dlopen` |
| exploit testbench | `exploit_tests.c`, `exploit_programs.h` | interpreter and JIT result of three programs, their classification | fork, pipe, libubpf |
| object JIT emitter | `tools/cheri_objjit_emit.py` | none (a function from bytes to assembly) | files |
| VM driver | `tools/cheri_vm.py` | start, stop: the QEMUs there are, who holds the port; single-command: QEMU child, console position, current command, status | serial console, ssh, `pkill` |
| VM key setup | `workspace/setup-vm.py` | text buffer, two flags | serial console |
| VM poll, build, container | `wait-for-vm.sh`, `Makefile`, `Dockerfile` | none of their own | shell |
| diagnostics | `test_m3*.c`, `test_tag*.c`, `test_perms.c`, ... | none, they print what the machine did | - |

What is hard in it:

* parent and child race: bytes in a pipe, the exit status and the parent's
  reads come from different moments, and either process may stop anywhere;
* exit codes are overloaded: 0 is "the value compared equal" and "it trapped as
  expected", 100 stands for two signals, every code but 20 is a trap;
* system calls in the middle of a case fail (pipe, fork, waitpid, mmap,
  mprotect), and not every caller looks;
* generated code shuffles argument registers in place, is entered through a
  sealed capability with a mode bit, and needs stores, cache synchronisation,
  sealing and narrowing in one order;
* what a register holds depends on the path that was taken, the translator
  decides for all paths at once, and every expected value is worked out by hand;
* a QEMU that is told to end takes its time, or does not, and holds the port a
  new one needs; the poll cannot tell whose guest answers it;
* console text arrives in arbitrary pieces, late or never; it contains the echo
  of what was typed; some timeouts are ignored on purpose.

What makes each part correct: a suite reports success only on evidence for each
case (soundness), does not fail what went right (no false alarm), leaves no
descriptor or child behind and ends; a generated call gets its arguments and
the state it runs in; a program that is translated reaches memory through
capabilities only, and a suite expects of it what it does; the VM tools end, run
each command once and in order, say what really happened, and leave no QEMU
behind that they gave up on.

## Modules

| Module | What it is |
|---|---|
| `Evidence` | The abstract suite: cases happen, are judged on their evidence, and success is concluded from all the verdicts; a suite that cannot be set up gives up. |
| `CommandSession` | The abstract session: commands run in order, each once, up to the first that fails, and the session reports the code of the last one or that it gave up. |
| `PosixProcess` | External: faults, the signals they arrive as, wait statuses. |
| `HelperMapHarness` | `test_helper_map_cap.c`: parent, child and pipe. Implements `Evidence`. |
| `GeneratedHarness` | `test_cheri_generated_bpf.c`: parent and child, verdict by exit code. Implements `Evidence`. |
| `TailHelper` | `test_cheri_tail_helper_context.c`: the compiler, its output executed instruction by instruction, two children. Implements `Evidence`. |
| `DirectJit` | `test_cheri_direct_jit_repro.c`: page, code, entry and processor over the case table of `main`. |
| `BpfMachine` | The instructions of the test programs over words, capabilities and bounded memory, and the register kinds of `cheri_jit_contract.h` by which a program is translated or refused. |
| `TestPrograms` | The programs and rows of the two translator suites. |
| `SuitePrograms` | The programs and rows of the other suites: `workspace/bpf/*.c`, `exploit_programs.h`, the loader payload, and `tools/cheri_objjit_emit.py` as a function from programs to programs; the memory each suite calls them with. |
| `TranslatorSuites` | `test_cheri_objjit_compile.c`, `test_cheri_translate_reject.c`, the loader and object repros, `test_cheri_generated_bpf.c`, `test_generated_bpf_host.c` and the CHERI column of `exploit_tests.c`: main, and the children that execute their program on `BpfMachine`. |
| `VmSingle` | `tools/cheri_vm.py single-command`: driver and guest over two text streams. Implements `CommandSession`. |
| `VmStart` | `tools/cheri_vm.py start` and `stop`: the driver, its QEMU and one that is not its own, and the port they share. |
| `VmDriver` | `main` of `tools/cheri_vm.py`, which composes the two. |
| `SetupVm` | `workspace/setup-vm.py`: the polling loop and the guest over text cut anywhere. |
| `EvidenceProofs`, `HelperMapHarnessProofs`, `GeneratedHarnessProofs`, `TailHelperProofs`, `TranslatorSuitesProofs`, `DirectJitProofs`, `VmDriverProofs`, `SetupVmProofs` | The theorems. |
| `MC*` | The instances TLC checks. |

### How state and actions correspond to the code

In every harness `pc` is where the parent is (`main`'s loop, `fork`, the reads,
`waitpid`, the verdict), `current` its loop index, `failures` its counter,
`exit` its return value; `child` is where the child is, `caught` what its
handlers catch, `rc` the code it is about to leave with and `status` what
`waitpid` will say.  `did` and `verdict` (and `supported`) are history: what
really happened, and what the suite said of it.  Parent and child take their
steps independently.  One action is one call of the code that another process
can see or that can fail; the error path of the call is a disjunct of the same
action or a `...Fails` action.  The JIT is nondeterministic where the suites
call it: it reports failure, returns any value of `Values`, or faults.  A
`Fault` may strike in every phase of a child, with every kind of fault, because
nothing in the code restricts handlers or signals to the generated code.

`TailHelper` gives code and registers: `Emit` is the list of words
`compile_final_context_load_tail_helper` writes, `Execute` runs one of them.
`DirectJit` gives the page (`prot`, `code`, `synced`), the entry (`entry`) and
the few registers its programs use; `compile_generated_program` is the chain
`Mmap`, `Emit`, `ClearCache`, `EntryBefore`, `Mprotect`, `EntryAfter`.  The first
case of `main` makes no mapping: it is one `ReferenceLoad`.

`BpfMachine` is the one module whose subject is mostly external: the JIT is
absent, so what an instruction does is modelled from what the suites expect of
it.  A capability is the root it comes from (context, stack, map value) and an
offset; its
tag is lost with the root, bounds are checked at the access, pointer arithmetic
keeps the root.  `Analyse` is the translator's view, the kinds before each
instruction; all that is assumed of it is that it agrees with `Transfer` along
every edge and with `Join` where edges meet.  `Refusals` are the reasons the
suites' messages name.  `TranslatorSuites` is the harness round it: `Translates`
is a row judged in main, `Fork` to `Reap` one in a child, `Runs` an instruction
of the child's program.  `happened` and `missing` are history.

The five harnesses of `TranslatorSuites` are one program with five verdicts:
`wait_for_child` (compile and loader), `run_case` (generated),
`host_outcome_matches` and `cheri_blocked`; they differ in the signals a child
catches (`Caught`), in the codes it gives up with (`CompileFailure`,
`WriteFailure`), in whether the result goes through a pipe (`Piped`) and
whether anybody refuses a program (`Admitted`).  The read of the pipe is part of
`Reap`: it returns when the word is there or the last writer is gone, and its
value counts only together with exit status 0.  `Evidence` says what each
harness can know at all.  `GeneratedHarness` keeps the CHERI suite's processes
in more detail, with an arbitrary JIT; here its cases are executed.

`SuitePrograms` gives each file of `workspace/bpf` as the machine code that does
what the C says, instruction for instruction (`slots_at` is a volatile store and
a volatile load; clang itself is external).  `SupportedProgram`,
`offset_from_supported_program`, `validate_offset` and `emit_assembly` are the
functions of the object JIT emitter; `bpf_entry` is what the Makefile has it
emit.  On CHERI a capability ends with the 16 bytes it was made for.  On the
host nothing ends there: context and map value reach over the 8192 bytes of the
backing array, with the sentinel at 4096, and the stack over as much of the
callers' frames; the two are kept as separate roots with the same bytes, which
no program of the suite can tell.  The values expected of unsafe host cases are
those of the table in `docs/generated_bpf_x86_cheri_comparison.md` (lines 42 to
57).

In `VmStart` a QEMU is starting, up (it holds the forwarded port), or answers
ssh; `signal` is what it was sent.  `kill_existing` only sends, `QemuEnds` may
come at any time or never, and `Binds` fails for the second one.  A poll is
answered by whoever holds the port (`answered`); `since` says whether a QEMU
started after the first `kill_existing`.  single-command begins with the same
`kill_existing` (`KillFirst`), and then its `session` is `VmSingle`, to which
whatever another driver does is the end of its QEMU (`Dies`).  `said` is what
start printed last; it tells the two ways apart in which start ends with 1.  A
Ctrl-C may come anywhere and exits with 130: in `VmStart` nothing cleans up
behind it (`Interrupted`), in `VmSingle` the `finally` does
(`SessionInterrupted`).

In `VmSingle` each `expect` is one action that consumes the first match and
everything before it from `printed`; timeouts and end of file are enabled when
nothing matches.  Waits that list `pexpect.TIMEOUT` go on, the others are
`Raise`.  `ReturnWith` includes the `finally` block, whose SIGTERM ends the guest
there or later (`Dies`): a command that was under way may still run after the
driver gave up on it.  In `SetupVm` a word is two
fragments and a read takes any prefix of what was printed; one iteration of the
loop is `Read`, `SeesLogin`, `SeesPassword`, `SeesShell`, `Check`, so the guest
runs between them, as it does during the script's sleeps.  The guest lets root in
with whatever password is typed, or with none; one that refuses it is left out,
and `SetupCompletes` rests on that.

## What the runs check

| Run | Question |
|---|---|
| `helper_map` | on purecap: verdicts, suite result, descriptors and children left behind, no false alarm, the refinement of `Evidence`, that nothing is done twice, nobody waits in vain, and the suite ends |
| `helper_map_sigprot` | *violated:* a trap case passes on SIGSEGV |
| `generated` | verdicts, no false alarm, the refinement of `Evidence`, and that the suite ends |
| `generated_bounds` | *violated:* an out-of-bounds case passes without a bounds violation of the generated code |
| `tail_helper` | register shuffling, verdicts, the refinement of `Evidence`, and that only foreign events, failing forks and waits among them, make the suite fail |
| `tail_helper_fork` | *violated:* a failed fork prints "in-bounds helper load matched" |
| `direct_jit` | the cases of `main`: nothing runs before it is ready, every undisturbed case ends as it should; then four odd cases that go wrong, over which the suite result stays truthful; nothing runs twice and `main` returns |
| `direct_jit_trap` | *violated:* a trap case passes without reaching its access |
| `translator_suites` | every row of the seven suites is right about its program, register kinds hold on every path, nothing is stored through the context, success is not reported over rows without evidence, a row with its evidence is not failed, no trapped access is tried again, and the suites end |
| `vm_driver` | single-command: the exit code tells the truth, and the refinement of `CommandSession` (commands run once, in order, up to the first failure, and the exit code is that of the last); start: what ran before was told to end, the VM that is ready is not, and a failed start leaves no QEMU of its own behind, unless it failed because ssh could not be started; driver and guest go one way, and every subcommand ends |
| `setup_vm` | the script gets through however the text is cut; script and guest take turns until there is a shell, each word is answered once, the command is typed to a shell only, and once its success is announced a shell has read it |
| `setup_vm_echo` | *violated:* "SSH key installed successfully!" from the echo of the command |

An invariant that is a conjunct of another one of its run, or that the refinement
of its run implies, is not listed again: `IInv`, `JitInv`,
`MainInv`, `SetupInv` and `KeepsPromise` stand for the type invariants, for
`VerdictSound` and `SuiteSound` of three harnesses, for `NothingLeaks` of the
helper-map suite, for `StopsAtFirstFailure`,
`SuccessSound` and `ExitIsTheCommands` of single-command and for `AnswersOnce`
of setup-vm; each has a theorem of its own all the same.  What is listed beside
them is not part of them: `OldAreTold`, `FailureStopsOwn` and `ReadyIsLeftAlone`,
`CommandAtShell` and `SaidIsTheShells`, `TailCallABI`, and `NoForgedAccess` are
each proved from the invariant of their run and a step of their own.

`Advances` stands beside the liveness properties and says what they rest on: a
step takes a process further through its code, in an order that has an end.  It
is an action property, so it can be proved (below); a run checks it where a
handler that returned, a retried call or a line typed again would break it.

In `TailHelper` neither fork nor waitpid is checked, and the promise has that gap:
a first test whose child was never started, or whose status main could not get
(`WaitFails`), supports a pass whatever the child did (`Unseen`, `Supported`); the
finding of `tail_helper_fork` is the first of the two.  A second test of which main
has seen nothing fails, which counts as foreign in `OnlyForeignFailures`.
Everything else about its verdicts is `Evidence` as for the other harnesses.

`FailureStopsOwn` and `FailureGone` are about the failures of start after which it
cleans up: the timeout, a QEMU that could not be started, a pkill that could not.
When ssh itself cannot be started `subprocess.run` raises (line 94), start ends
with 1 and its QEMU stays, with no signal: `wait_ssh` has that step, and `Failed`
leaves it out, as it does a Ctrl-C.

A trap case of the direct repro passes on any signal, so `SuiteSound` excludes of
it only that the access returned and the child lived to say so; a child that
returned and was then killed passes (`Justifies`).

`ContextReadOnly` is about stores through a capability of the context.  Context
and map value are separate roots of the machine, while on the CHERI suite the
helper's map value is a capability to the same words; what a program writes
through that one is not excluded.

The five violated runs are disagreements of the code with what its documents or
its own output say; `PROJECT.json` quotes the lines under `findings`.

### Bounds

* `MCValues` has the expected value and one other: verdicts only compare for
  equality.
* The harness runs use two cases, one of each expectation: cases share nothing
  but the failure count and the loop index, and the theorems hold for every
  list of cases and, in `HelperMapHarness`, for the host build too.
* `direct_jit` uses the whole case table of `main` (39 children), because its history is kept for one case at a
  time, and four odd cases: an access that does not trap, pages that cannot be
  executed or written, an offset that does not fit.
* `TailHelper` runs the two programs of `main`, with the offsets 8 and 4096; the
  theorems hold for all programs and every 16-bit offset.
* `translator_suites` has seven suites whole: 51 rows of the two translator
  suites, 2 and 2 of the loader and object repros, 14 and 14 of the generated
  suites, 3 of the exploit suite.  Eighteen more have one row each that is
  wrong (a trap row whose program is refused or stays in bounds, a value that is
  not the right one, a refused store through the context that is expected to trap), under every harness, because over the right rows no verdict
  can be wrong.
  `MCAnalyse` is the translator that goes through the program once; the programs
  of the suites have no loops and neither have those of the theorems
  (`Program`).  Addresses, and whether a capability moved far out of its bounds
  keeps its tag, are left out: an access through it traps in both cases.
* In `vm_driver` single-command has three commands, so there is a first, a middle and a last one,
  and codes 0, 1 (also the code of a Python exception), 10 and 100 (one a
  prefix of the other).  start has three polls, so its own guest may come up
  before, between and after them; one other QEMU stands for all that hold the
  port, since only one can.
* `SetupVm` needs no bound: the guest prints a bounded text.
* No module has a state constraint.

### Fairness

Liveness is asked of the suites and the two VM tools.  The suites assume
weak fairness of what parent and child do when nothing goes wrong
(`ParentRuns` or `MainRuns`, `ChildRuns`; in `DirectJit` of `Parent` as a
whole): both are runnable processes, and the programs they run have no loops.  Faults and failing system calls may happen and are not
relied on.  `VmDriver` assumes weak fairness of the driver, and that a QEMU ends
that was sent a SIGKILL, and nothing of the guest; what lets the driver go on
are its timeouts, which are real time and therefore come.  An attempt of ssh is
taken to return: ConnectTimeout bounds it up to the key exchange, and nothing in
the driver what comes after.
`SetupVm` assumes weak fairness of
script and guest but neither that the thirty minutes pass nor that QEMU dies.

## What is proved

For every value of the constants, with TLAPS:

* `EvidenceProofs`: `Soundness`, from an invariant that relates verdicts and
  report, and `NothingIsTakenBack`, that a judged case keeps its verdict and its
  evidence and that nothing changes after the report.  `Evidence` has no run of its own; the suites' runs check that they
  implement it.
* `HelperMapHarnessProofs`: `Invariant`, `TypeCorrect`, `VerdictsAreSound`,
  `SuiteIsSound`, `NothingFailedWrongly`, `NothingIsLeaked`, `NobodyIsStuck`,
  `NothingIsDoneTwice`, and `Refinement`, that the harness implements `Evidence`.
* `GeneratedHarnessProofs`: `Invariant`, `VerdictsAreSound`,
  `NothingFailedWrongly`, `NothingIsDoneTwice`, `Refinement`.
* `TailHelperProofs`: `Invariant`, `HelperGetsItsArguments`,
  `VerdictsAreSound`, `FailuresAreForeign`, `NothingIsDoneTwice`, and
  `Refinement`, that the suite implements `Evidence`, for any two programs.
* `TranslatorSuitesProofs`: `Invariant`, `TrackedAccess`, `ReadsContextOnly`,
  `NothingFailedWrongly` (an action property), `NothingIsDoneTwice` and
  `SuitesAreSound`, for every set of suites under any of the five harnesses; and
  `SupportedLoads` and `EmitterKeepsMeaning`, for every program the object JIT
  emitter accepts and every memory.
* `DirectJitProofs`: `JitSafe`, `JitTypes`, `JitEntryReady`, `JitVariantsWork`,
  `JitSuiteSound`, `NothingIsDoneTwice`, for every list of cases, page protections and variants.
* `VmDriverProofs`: `MainSafe`, `SingleTypes`, `SingleSuccess`, `SingleStops`, `SingleExit`,
  `SessionKept` (single-command implements `CommandSession`), `SessionIsHonest`,
  `ExitIsHonest`, `ReportIsFinal`, `StartTellsOld`, `StartStopsOwn`,
  `StartLeavesReady`, `NothingIsDoneTwice`, for every number of commands, exit
  codes and polls.
* `SetupVmProofs`: `TakesTurns`, `NeverRunsAhead`, `CommandIsTheShells`,
  `SaidOnceRead`, for the console text cut anywhere and any order of script and
  guest.

The assumptions are the named `ASSUME`s of the modules: cases are a sequence of
records of the source's type (`JitAssumption` for the direct repro), values are
naturals, the two programs are records of bytes and a signed 16-bit offset; rows hold programs without loops
(`SuitesAssumption`), and the kinds a translator finds for them agree with
`Transfer` and `Join` (`AnalyseAssumption`).

The argument is the same in the harnesses.  `VerdictSound` is not inductive: a
verdict is given from the wait status and the bytes read, so one has to know
what these say about the child.  `StatusTruthful` is that strengthening: while
a case is busy, an exit code, a signal or a word in the pipe exists only if the
event it stands for happened.  `InStep` and `EndsInStep` say which phases of
the two processes go together (no status without a dead child, no open child
end without a child), `HistoryInStep` that judged cases are behind the loop
index and untouched ones ahead, which gives `failures = 0` its meaning for the
suite result, and `OutcomeTruthful` carries the knowledge from the reap to the
verdict.  `IInv` is their conjunction; it is checked by TLC in the runs and
proved inductive, one lemma per action, and the refinement follows from it: a
parent step that judges is `Judge`, a child step that changes `did` is
`Happen`, everything else stutters.  In `TailHelper` the refinement needs one
more invariant, `PromiseInv`: main has not returned before its end, and
`failures` is 0 exactly when no test it judged was failed.  In `TailHelper` the strengthening is
`Registers`: what each argument register holds before each emitted instruction,
from which `TailCallABI` follows where the helper is entered.

That nothing is failed wrongly needs the converse of `StatusTruthful`.
`StatusFair` says that a child whose generated code did what its case asks, and
to which nothing else happened, has a status or a word that passes it;
`ChildFair` says it of the two children of `TailHelper`, where each program is
executed instruction by instruction, and `FailuresForeign` carries it to the
count of failures.

In `TranslatorSuites` it is `KindsTrue`: a register the translator takes for a
capability before an instruction holds one, from that root, whenever execution
is there.  A join is below each of its branches (`JoinBelow`), so what a step
makes of the kinds covers what the successor assumes (`KindsFlow`), and each
instruction does to the registers at least what `Transfer` says
(`ComputesKinds`, `LoadsKinds`, `StoresKinds`).  With the refusals
(`NotRefused`) no access goes through a number: `NoForgedAccess`, which the proof
carries along with `IInv` (`Tracked`), because a verdict on a trap rests on it.  A store whose
base is of the context is one of the refusals, so by the same kinds none is ever
executed: `ContextReadOnly`.  `NoFalseAlarm` rests on the converse of
`StatusTrue`, again a `StatusFair`: whatever harness judges it, the status of an
undisturbed child with the evidence of its row is one that passes the row.

In `DirectJit` it is `PageReady`: what protection, code, cache and entry are at
each place of `compile_generated_program`, from which `EntryReady` follows where
the call is made; `StatusTrue` carries from the child's status to the verdict
that a trap case whose access returned leaves with 20.  `VariantsWork` rests on
`AsMeant`: the page holds the program of the case, and `Computed` says what is in
the registers before each of its instructions; that every variant of `main` is
writable, executable and entered in C64 state when it has to be is proved from
the table (`MainsVariants`).  `TypeOK` rests on `FetchInStep`; both are part of `JitInv`, with
`CodeInv`, which collects the three others.
In `VmDriver` it is
`SingleInv`, which says that what is typed and printed and not yet read contains at most
the line and the marker of the one command under way (`OneUnderWay`, `Markers`),
so that a number the driver reads is that command's (`ReadRight`).  The
refinement of `CommandSession` follows from it step by step: the end of a
command is `Runs`, because the line at the head of `typed` is command `k` and all
before it ended with 0; `ExpectBye` reports, because then `status` is the code of
the last command and none is left to run; a wait that gives up reports that, on
the boot menu before anything has run; and nothing else is visible.  For `start`
it is
`OwnInStep`, what the driver knows of its QEMU and has printed at each place of
`boot_multi`; `OldAreTold`, `FailureStopsOwn` and `ReadyIsLeftAlone` are kept by
every step under it (`ToldStaysTold`, `StoppedStaysStopped`, `ReadyStaysAlone`).

What `CommandSession` is good for is proved of it alone: `SessionIsHonest` says
that commands run in order, each after the success of the one before, and what
a caller may conclude from each report; `Final` that a report stands.  The
refinement then carries both to single-command (`ExitIsHonest`,
`ReportIsFinal`).

`NothingIsDoneTwice` (`Advances`) is the part of termination that a prover of
safety can reach.  Each process has a number for where it is (`MainPlace` or
`ParentPlace`, `ChildPlace`, and the place in the program it executes), and
every step, faults, failing calls and interruptions included, makes the first
number that changes greater.  The numbers are bounded by the type invariants, so
no behaviour has infinitely many steps: no retry, no handler that returns to the
fault, no case gone back to.  In `VmDriver` driver and guest answer each other,
and it is the driver's place, then the lines still to be read, then the guest's
place (`Converse`); `start` goes on through its own places and polls while any
number of QEMUs end around it (`Proceeds`).  That a run does not end too soon is
`NeverStuck`: whoever waits, for the word in the pipe or for the child, waits for a
child that is there, or finds the pipe closed and the status ready.  What is left
to fairness is that the scheduler runs who can run.

The emitter is a function, and its theorem is about the programs it maps between.
`OnItsWay` says what a program of a supported shape has done before each of its two
or three instructions; it is kept by the alias, by the load and by the exit
(`AliasStep`, `LoadStep`, `ExitStep`), and gives `LoadsWord`: the program returns the
word at its offset, or traps because the context does not reach so far, and
nothing else.  The emitted code has one of the shapes itself, with the same
offset.

In `SetupVm` the strengthening is `OneQuestion`: until the script has seen a
shell, script and guest take turns.  Console and buffer together hold at most one
question, at most one line waits to be read, and while it waits, or the guest
boots, there is no question.  `CopyInStep` says what the copy of the buffer, which
an iteration goes on looking at, may still hold once the buffer was cleared, and
`PromptIsTheShells` that before there is a shell nobody has printed its prompt; in
the proof `PromptInStep` adds that nothing but the name was typed, although "Last login:" holds the word of
getty.  `MarkerIsTheShells` follows the marker of the command the same way: it is in the
console or in the buffer only when a shell has read the line, which is typed once,
so that `Check` takes nothing older for it.  (That it may be no more than the echo of
that line is the finding of `setup_vm_echo`.)

Model-checked only: all liveness (fairness and `ENABLED` are out of the
prover's reach, `Advances` and `NeverStuck` are what is proved of it), `SetupCompletes`
among it, and `RowsRight`, which is the
execution of 86 given rows and has nothing to quantify over.

## Not modelled

* The JIT: its submodule is absent from the commit.
* `test_instruction_matrix.c`, `test_m2.c`, `test_m2_jmp.c`: one opcode and its
  value per line; modelling them would make the table of the test the semantics
  it is checked against.
* `test_cheri_context_load.c`: an earlier form of the compile suite.
* What the direct repro prints of its capabilities, and its procctl settings.
* The interpreter and stock JIT columns of `exploit_tests.c`, which are printed
  and decide nothing, and its host build, which always returns 0.
* `wait-for-vm.sh`, which nothing calls, and `vm-ready` of the Makefile.
* Compiler invocations and container layers, the slides, and single-shot
  diagnostics (`test42.c`, `test_tag.c`, ...) that print and decide nothing.
* Whether the lists of refusal messages (`test_cheri_objjit_compile.c:187`) match
  the translator's wording, which is in the submodule.
* Wording and layout of the output, except where a tool reads it back.

The modules were written in the order abstract suite, harnesses with a pipe or
an exit code, generated code (`TailHelper`, `DirectJit`), VM tools, then the
machine and the suites whose programs it executes.  What could follow:
a history per case in `DirectJit` and `TranslatorSuites`, so that they too can be
shown to implement `Evidence`; `NeverStuck` for the other harnesses; and, with the submodule, the translator itself against
`Transfer`, `Join` and `Refusals`.
