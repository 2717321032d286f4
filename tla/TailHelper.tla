----------------------------- MODULE TailHelper -----------------------------
(***************************************************************************)
(* workspace/test_cheri_tail_helper_context.c: a five-instruction compiler *)
(* that turns one context load into a tail call of a compiled C helper,    *)
(* and the two children that run its output, one in bounds and one not.    *)
(* The emitted instructions are executed one by one: they shuffle the      *)
(* argument registers in place, so their order is what makes the helper    *)
(* get its arguments.                                                      *)
(***************************************************************************)
EXTENDS PosixProcess, Sequences

CONSTANT Programs  \* <<in_bounds_prog, oob_prog>>

\* What compile_final_context_load_tail_helper looks at: the length, the first
\* instruction and the opcode of the second.
\* Sixteen bits, signed and unsigned.
UInt16 == {n \in Nat : n < 65536}
Int16 == {n \in Int : n + 32768 >= 0 /\ n < 32768}
program ==
  [len : Nat, op : 0 .. 255, dst : 0 .. 15, src : 0 .. 15,
   off : Int16, last : 0 .. 255]

Test == 1 .. 2  \* run_child_expect_value, run_child_expect_trap

ASSUME TailAssumption == Programs \in [Test -> program]

\* The two programs of main: r0 = *(u64 *)(r1 + off); exit.
Load(off) ==
  [len |-> 16, op |-> 121, dst |-> 0, src |-> 1, off |-> off, last |-> 149]
main_programs == <<Load(8), Load(4096)>>

VARIABLES
  pc,        \* where main is: "compile", "run", "wait" or "done"
  current,   \* the program it is at
  code,      \* the code pages: what was emitted for each program
  failures,  \* main's sum
  exit,      \* main's return value, Running before it returns
  child,     \* where the child of the current test is
  ip,        \* its instruction pointer in the emitted code
  reg,       \* its argument registers c0 .. c3
  status,    \* what main's status holds once waitpid returned
  did,       \* history: what really happened in each child
  verdict    \* history: what main said of each test

parentVars == <<pc, current, code, failures, exit, verdict>>
childVars == <<child, ip, reg, status, did>>
vars == <<parentVars, childVars>>

Running == -1
MemLen == 16  \* sizeof(mem), two words

\* What a register holds: the helper, the memory root, or an integer.
Cap(name) == [kind |-> name, n |-> 0]
Word(n) == [kind |-> "int", n |-> n]
Contents == [kind : {"helper", "mem", "int"}, n : UInt16]

\* An instruction: its operation, its two registers and its immediate.
Instruction ==
  [op : {"mov", "movz", "br"}, rd : 0 .. 3, rn : 0 .. 3, imm : UInt16]
Insn(op, rd, rn, imm) == [op |-> op, rd |-> rd, rn |-> rn, imm |-> imm]

\* The word an eight-byte load at an aligned offset sees; Torn otherwise.
Torn == -1
WordAt(off) == IF off % 8 = 0 THEN off \div 8 ELSE Torn
ExpectedWord == 1  \* 0xfeedfacecafebeef is mem[1]
Words == {Torn, 0, ExpectedWord}

Unborn == [returned |-> 0, value |-> 0, fault |-> "none", at |-> "unborn"]
Phase == {"none", "code", "helper", "exit", "gone", "lost"}
Happening ==
  [returned : {0, 1}, value : Words, fault : Faults \cup {"none"},
   at : Phase \cup {"load", "unborn"}]

Init ==
  /\ pc = "compile"
  /\ current = 1
  /\ code = [t \in Test |-> <<>>]
  /\ failures = 0
  /\ exit = Running
  /\ child = "none"
  /\ ip = 1
  /\ reg = [r \in 0 .. 3 |-> Word(0)]
  /\ status = Alive
  /\ did = [t \in Test |-> Unborn]
  /\ verdict = [t \in Test |-> "none"]
-----------------------------------------------------------------------------
(* The compiler *)

Accepts(prog) ==
  /\ prog.len = 16 /\ prog.op = 121 /\ prog.dst = 0 /\ prog.src = 1
  /\ prog.last = 149
  /\ prog.off \in Nat

\* The immediate of movz has sixteen bits.
Imm16(off) == off % 65536

\* Mutant: the offset is loaded before the length is moved out of the way.
EmitOffsetFirst(off) ==
  << Insn("mov", 3, 0, 0), Insn("mov", 0, 1, 0), Insn("movz", 2, 2, Imm16(off)),
     Insn("mov", 1, 2, 0), Insn("br", 3, 3, 0) >>

\* mov c3, c0; mov c0, c1; mov x1, x2; movz x2, #offset; br c3.
Emit(off) ==
  << Insn("mov", 3, 0, 0), Insn("mov", 0, 1, 0), Insn("mov", 1, 2, 0),
     Insn("movz", 2, 2, Imm16(off)), Insn("br", 3, 3, 0) >>

\* main compiles both programs first, and gives up when one is rejected or
\* has no code page.
Compile ==
  /\ pc = "compile"
  /\ \/ /\ Accepts(Programs[current])
        /\ code' = [code EXCEPT ![current] = Emit(Programs[current].off)]
        /\ current' = IF current = 1 THEN 2 ELSE 1
        /\ pc' = IF current = 1 THEN "compile" ELSE "run"
        /\ UNCHANGED exit
     \/ exit' = 1 /\ pc' = "done" /\ UNCHANGED <<code, current>>
  /\ UNCHANGED <<failures, verdict, childVars>>
-----------------------------------------------------------------------------
(* The parent *)

\* Mutant: only an exit with another code than 0 is a failure.
expect_value_unless_exit(st) == IF st.how = "exited" /\ st.code # 0 THEN 1 ELSE 0

run_child_expect_value(st) ==
  IF WIFSIGNALED(st) THEN 1
  ELSE IF st.how # "exited" \/ st.code # 0 THEN 1 ELSE 0

\* Mutant: the child that was to trap reports it by exiting with 2.
expect_trap_exit(st) == IF st.how = "exited" /\ st.code = 2 THEN 0 ELSE 1

run_child_expect_trap(st) == IF WIFSIGNALED(st) THEN 0 ELSE 1

Judged(st) ==
  IF current = 1 THEN run_child_expect_value(st) ELSE run_child_expect_trap(st)

\* Mutant: the result of a test overwrites that of the one before.
RecordLast(result) ==
  /\ verdict' = [verdict EXCEPT ![current] =
                   IF result = 0 THEN "pass" ELSE "fail"]
  /\ failures' = result
  /\ current' = current + 1
  /\ pc' = "run"
  /\ UNCHANGED <<code, exit>>

Record(result) ==
  /\ verdict' = [verdict EXCEPT ![current] =
                   IF result = 0 THEN "pass" ELSE "fail"]
  /\ failures' = failures + result
  /\ current' = current + 1
  /\ pc' = "run"
  /\ UNCHANGED <<code, exit>>

\* fn(ctx_load_u64_helper, mem, sizeof(mem)).
Fork ==
  /\ pc = "run"
  /\ current \in Test
  /\ child' = "code"
  /\ ip' = 1
  /\ reg' = [r \in 0 .. 3 |-> CASE r = 0 -> Cap("helper")
                                [] r = 1 -> Cap("mem")
                                [] r = 2 -> Word(MemLen)
                                [] OTHER -> Word(0)]
  /\ status' = Alive
  /\ did' = [did EXCEPT ![current] = [Unborn EXCEPT !.at = "none"]]
  /\ pc' = "wait"
  /\ UNCHANGED <<current, code, failures, exit, verdict>>

\* The code has no test for a failed fork: it waits for process -1, which
\* fails as well, and judges the status it initialised to 0.
ForkFails ==
  /\ pc = "run"
  /\ current \in Test
  /\ child' = "none" /\ status' = Alive
  /\ Record(Judged(Exited(0)))
  /\ UNCHANGED <<ip, reg, did>>

\* waitpid fails for a child that is gone when there is none to wait for (SIGCHLD
\* ignored by who started main).  The code does not look: main has lost the child's
\* status, and Reap judges the 0 it was initialised to.
WaitFails ==
  /\ pc = "wait"
  /\ child = "gone"
  /\ child' = "lost" /\ status' = Exited(0)
  /\ did' = [did EXCEPT ![current].at = "lost"]
  /\ UNCHANGED <<parentVars, ip, reg>>

Reap ==
  /\ pc = "wait"
  /\ status.how # "alive"
  /\ Record(Judged(status))
  /\ UNCHANGED childVars

Return ==
  /\ pc = "run"
  /\ current \notin Test
  /\ exit' = IF failures = 0 THEN 0 ELSE 1
  /\ pc' = "done"
  /\ UNCHANGED <<current, code, failures, verdict, childVars>>
-----------------------------------------------------------------------------
(* The child *)

Leave(st) == child' = "gone" /\ status' = st

\* One instruction of the emitted code.
Execute ==
  /\ child = "code"
  /\ LET i == code[current][ip] IN
       \/ /\ i.op = "mov"
          /\ reg' = [reg EXCEPT ![i.rd] = reg[i.rn]]
          /\ ip' = ip + 1 /\ UNCHANGED child
       \/ /\ i.op = "movz"
          /\ reg' = [reg EXCEPT ![i.rd] = Word(i.imm)]
          /\ ip' = ip + 1 /\ UNCHANGED child
       \/ /\ i.op = "br"
          /\ reg[i.rn] = Cap("helper")
          /\ child' = "helper" /\ UNCHANGED <<ip, reg>>
  /\ UNCHANGED <<parentVars, status, did>>

\* The capability of mem lets the helper read the bytes 0 .. MemLen - 1.
HelperInBounds(off) == 0 <= off /\ off + 8 <= MemLen

\* ctx_load_u64_helper: the load through the capability it was given.
Helper ==
  /\ child = "helper"
  /\ \/ /\ reg[0] = Cap("mem") /\ HelperInBounds(reg[2].n)
        /\ did' = [did EXCEPT ![current] =
                     [returned |-> 1, value |-> WordAt(reg[2].n),
                      fault |-> "none", at |-> "none"]]
        /\ child' = "exit" /\ UNCHANGED status
     \/ /\ ~(reg[0] = Cap("mem") /\ HelperInBounds(reg[2].n))
        /\ LET f == IF reg[0] = Cap("mem") THEN "bounds" ELSE "tag" IN
             /\ did' = [did EXCEPT ![current] =
                          [returned |-> 0, value |-> 0, fault |-> f,
                           at |-> "load"]]
             /\ Leave(Signalled(f))
  /\ UNCHANGED <<parentVars, ip, reg>>

\* _exit(result == expected ? 0 : 2) in one child, _exit(2) in the other.
ExitChild ==
  /\ child = "exit"
  /\ Leave(Exited(IF current = 1 /\ did[1].value = ExpectedWord THEN 0 ELSE 2))
  /\ UNCHANGED <<parentVars, ip, reg, did>>

\* Anything else that ends a child by a signal: a code page that cannot be
\* executed, a kill from outside.
Fault ==
  /\ child \in {"code", "helper", "exit"}
  /\ \E f \in Faults :
       /\ did' = [did EXCEPT ![current] =
                    [returned |-> @.returned, value |-> @.value, fault |-> f,
                     at |-> child]]
       /\ Leave(Signalled(f))
  /\ UNCHANGED <<parentVars, ip, reg>>
-----------------------------------------------------------------------------
Finished == pc = "done" /\ UNCHANGED vars

Next ==
  \/ Compile \/ Fork \/ ForkFails \/ WaitFails \/ Reap \/ Return
  \/ Execute \/ Helper \/ ExitChild \/ Fault \/ Finished

Spec == Init /\ [][Next]_vars
-----------------------------------------------------------------------------
TypeOK ==
  /\ pc \in {"compile", "run", "wait", "done"}
  /\ current \in 1 .. 3
  /\ code \in [Test -> Seq(Instruction)]
  /\ failures \in 0 .. 2
  /\ exit \in {Running, 0, 1}
  /\ child \in Phase
  /\ ip \in 1 .. 5
  /\ reg \in [0 .. 3 -> Contents]
  /\ status \in Status
  /\ did \in [Test -> Happening]
  /\ verdict \in [Test -> {"none", "pass", "fail"}]

\* The calling convention of the emitted code: when the helper runs it has
\* the memory root, the length and the offset of the program, whatever the
\* instructions did to the registers they came in.
TailCallABI ==
  child = "helper" =>
    /\ reg[0] = Cap("mem")
    /\ reg[1] = Word(MemLen)
    /\ reg[2] = Word(Programs[current].off)

\* What a child that was really started has to have done for its test to pass.
Justifies(t, h) ==
  IF t = 1 THEN h.returned = 1 /\ h.value = ExpectedWord /\ h.fault = "none"
           ELSE h.fault # "none"

\* main has no status of a child that was not started or not waited for, and takes
\* it for an exit with 0: a pass of the first test, a failure of the second.
Unseen(h) == h.at \in {"unborn", "lost"}
Supported(t, h) == Justifies(t, h) \/ (t = 1 /\ Unseen(h))

\* A test whose child main has the status of passes only on that evidence, and the
\* second test passes on nothing else.
VerdictSound == \A t \in Test : verdict[t] = "pass" => Supported(t, did[t])

\* The differential is exact: the two programs of main fail the suite only when
\* a child could not be started or waited for or something else than a load ended
\* it.
OnlyForeignFailures ==
  Programs = main_programs /\ exit = 1
    => \E t \in Test : did[t].at \notin {"none", "load"}

\* How far main is: compiling, then at one test after the other; and the child,
\* in the emitted code by its instruction.
MainPlace ==
  CASE pc = "compile" -> current
    [] pc = "run" -> 2 * current + 1
    [] pc = "wait" -> 2 * current + 2
    [] OTHER -> 8
ChildPlace ==
  CASE child = "none" -> 0
    [] child = "code" -> ip
    [] child = "helper" -> 6
    [] child = "exit" -> 7
    [] child = "gone" -> 8
    [] OTHER -> 9

\* Every step takes main further, or the child where main waits: the emitted code
\* has no way back, the tail call does not return into it, and a run has an end.
Advances ==
  [][\/ MainPlace' > MainPlace
     \/ MainPlace' = MainPlace /\ ChildPlace' > ChildPlace]_vars

\* What the code prints for a pass of the first test ("in-bounds helper load
\* matched", line 107): the load happened and saw the expected word.  After a
\* failed fork or waitpid it is printed whatever was loaded.
MatchedMeansLoaded == verdict[1] = "pass" => Justifies(1, did[1])
-----------------------------------------------------------------------------
(***************************************************************************)
(* The inductive invariant: what the registers hold before each emitted    *)
(* instruction, what the status says of the child, which tests are judged. *)
(***************************************************************************)
Compiled(t) == code[t] = Emit(Programs[t].off) /\ Accepts(Programs[t])

InStep ==
  /\ pc = "compile" => current \in Test /\ (current = 2 => Compiled(1))
  /\ pc \in {"run", "wait"} => \A t \in Test : Compiled(t)
  /\ pc = "wait" => current \in Test /\ child # "none"
  /\ pc # "wait" => child \in {"none", "gone", "lost"}
  /\ child \in {"gone", "lost"} <=> status.how # "alive"

Registers ==
  child = "code" =>
    /\ ip \in 1 .. 5
    /\ ip = 1 => reg[0] = Cap("helper") /\ reg[1] = Cap("mem")
    /\ ip = 2 => reg[3] = Cap("helper") /\ reg[1] = Cap("mem")
    /\ ip \in 1 .. 3 => reg[2] = Word(MemLen)
    /\ ip \in 2 .. 5 => reg[3] = Cap("helper")
    /\ ip \in 3 .. 5 => reg[0] = Cap("mem")
    /\ ip \in 4 .. 5 => reg[1] = Word(MemLen)
    /\ ip = 5 => reg[2] = Word(Programs[current].off)

StatusTruthful ==
  pc = "wait" =>
    LET h == did[current] IN
    /\ h.at # "unborn"
    /\ h.at = "lost" <=> child = "lost"
    /\ child \in {"code", "helper", "exit"} => h.fault = "none"
    /\ child = "exit" => h.returned = 1
    /\ child = "lost" => status = Exited(0)
    /\ child = "gone" /\ status.how = "exited" /\ status.code = 0
         => current = 1 /\ Justifies(1, h)
    /\ status.how = "signalled" => h.fault # "none"

HistoryInStep ==
  /\ pc = "compile"
       => failures = 0 /\ \A t \in Test : verdict[t] = "none" /\ did[t] = Unborn
  /\ pc \in {"run", "wait"}
       => /\ failures < current
          /\ \A t \in Test : t >= current => verdict[t] = "none"
          /\ \A t \in Test : t > current => did[t] = Unborn
  /\ pc = "run" /\ current \in Test => did[current] = Unborn

IInv ==
  /\ TypeOK
  /\ InStep
  /\ Registers
  /\ StatusTruthful
  /\ HistoryInStep
  /\ VerdictSound

\* What OnlyForeignFailures rests on, for the two programs of main: a child that
\* is still undisturbed is on its way to the status its test asks for.
Foreign(t) == did[t].at \notin {"none", "load"}

ChildFair ==
  pc = "wait" =>
    /\ child \in {"code", "helper", "exit"} => did[current].at = "none"
    /\ child = "exit" => current = 1 /\ did[1].value = ExpectedWord
    /\ child \in {"gone", "lost"} => Foreign(current) \/ Judged(status) = 0

FailuresForeign ==
  /\ pc # "done" => exit = Running
  /\ pc \in {"run", "wait"} =>
       failures = 0 \/ \E t \in Test : t < current /\ Foreign(t)
  /\ exit = 1 => \E t \in Test : Foreign(t)

\* The promise of Evidence.  A pass of the first test is supported as well by a child
\* that was not started or not waited for, which is all that sets this suite apart.
Supporting(t) == {h \in Happening : Supported(t, h)}
report ==
  IF exit = Running THEN "running" ELSE IF exit = 0 THEN "ok" ELSE "failed"
E1 == INSTANCE Evidence WITH
        Case <- Test, Nothing <- Unborn,
        Supports <- [t \in Test |-> Supporting(t)],
        happened <- did
KeepsPromise == E1!Spec

\* What KeepsPromise rests on: main returns at the end only, and failures counts
\* the tests it judged.
PromiseInv ==
  /\ pc # "done" => exit = Running
  /\ pc \in {"run", "wait"} =>
       /\ \A t \in Test : t < current => verdict[t] # "none"
       /\ failures = 0 <=> \A t \in Test : verdict[t] # "fail"

FairInv == Programs = main_programs => ChildFair /\ FailuresForeign
=============================================================================
