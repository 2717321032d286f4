-------------------------- MODULE TailHelperProofs --------------------------
(***************************************************************************)
(* Proofs about TailHelper, for every pair of programs main could hold.    *)
(***************************************************************************)
EXTENDS TailHelper, TLAPS

\* A sixteen-bit offset that is not negative is its own immediate.
LEMMA Immediates ==
  \A n \in Int16 : n \in Nat => n \in UInt16 /\ Imm16(n) = n
<1> SUFFICES ASSUME NEW n \in Int16, n \in Nat
             PROVE  n < 65536 /\ n % 65536 = n
  BY DEF Imm16, UInt16
<1>1. n < 32768
  BY DEF Int16
<1>2. QED
  BY <1>1

\* An accepted offset fits the immediate of movz unchanged.
LEMMA OffsetFits ==
  \A prog \in program : Accepts(prog)
    => prog.off \in UInt16 /\ Imm16(prog.off) = prog.off
<1> SUFFICES ASSUME NEW prog \in program, Accepts(prog)
             PROVE  prog.off \in UInt16 /\ Imm16(prog.off) = prog.off
  OBVIOUS
<1>1. prog.off \in Int16
  BY DEF program
<1>2. prog.off \in Nat
  BY DEF Accepts
<1>3. QED
  BY <1>1, <1>2, Immediates

LEMMA Fits ==
  \A t \in Test : Accepts(Programs[t])
    => /\ Programs[t].off \in UInt16
       /\ Imm16(Programs[t].off) = Programs[t].off
<1> TAKE t \in Test
<1>1. Programs[t] \in program
  BY TailAssumption
<1>2. QED
  BY <1>1, OffsetFits

LEMMA SmallWords == 0 \in UInt16 /\ MemLen \in UInt16
BY DEF UInt16, MemLen

\* The five instructions, one by one.
LEMMA EmitTypes ==
  \A off : Imm16(off) \in UInt16 => Emit(off) \in Seq(Instruction)
BY SmallWords DEF Emit, Insn, Instruction

LEMMA EmitOrder ==
  \A off : /\ Emit(off)[1] = Insn("mov", 3, 0, 0)
           /\ Emit(off)[2] = Insn("mov", 0, 1, 0)
           /\ Emit(off)[3] = Insn("mov", 1, 2, 0)
           /\ Emit(off)[4] = Insn("movz", 2, 2, Imm16(off))
           /\ Emit(off)[5] = Insn("br", 3, 3, 0)
BY DEF Emit

LEMMA Emitted ==
  ASSUME NEW t \in Test, Compiled(t)
  PROVE  /\ code[t][1] = Insn("mov", 3, 0, 0)
         /\ code[t][2] = Insn("mov", 0, 1, 0)
         /\ code[t][3] = Insn("mov", 1, 2, 0)
         /\ code[t][4] = Insn("movz", 2, 2, Programs[t].off)
         /\ code[t][5] = Insn("br", 3, 3, 0)
<1>1. code[t] = Emit(Programs[t].off) /\ Accepts(Programs[t])
  BY DEF Compiled
<1>2. Imm16(Programs[t].off) = Programs[t].off
  BY <1>1, Fits
<1>3. QED
  BY <1>1, <1>2, EmitOrder

LEMMA AliveStatus == Alive \in Status /\ Alive.how = "alive"
BY DEF Alive, Status

LEMMA Statuses ==
  /\ Alive \in Status /\ Alive.how = "alive"
  /\ \A n \in 0 .. 255 : /\ Exited(n) \in Status
                         /\ Exited(n).how = "exited"
                         /\ Exited(n).code = n
  /\ \A f : /\ Signalled(f) \in Status
            /\ Signalled(f).how = "signalled"
BY DEF Alive, Exited, Signalled, SignalOf, Signals, Status

LEMMA RegisterTypes ==
  /\ Cap("helper") \in Contents
  /\ Cap("mem") \in Contents
  /\ \A n \in UInt16 : Word(n) \in Contents
<1>1. Cap("helper") \in Contents
  BY SmallWords DEF Cap, Contents
<1>2. Cap("mem") \in Contents
  BY SmallWords DEF Cap, Contents
<1>3. \A n \in UInt16 : Word(n) \in Contents
  BY DEF Word, Contents
<1>4. QED
  BY <1>1, <1>2, <1>3

\* The two verdicts are 0 or 1.
LEMMA Judgements == \A st : Judged(st) \in {0, 1}
BY DEF Judged, run_child_expect_value, run_child_expect_trap

\* main starts in the invariant.
LEMMA InitInv == Init => IInv
<1> SUFFICES ASSUME Init PROVE IInv
  OBVIOUS
<1>1. Unborn \in Happening
  BY DEF Unborn, Happening, Words
<1>2. TypeOK
  <2>1. code \in [Test -> Seq(Instruction)]
    BY DEF Init
  <2>2. reg \in [0 .. 3 -> Contents]
    BY RegisterTypes, SmallWords DEF Init
  <2>3. did \in [Test -> Happening] /\ verdict \in [Test -> {"none", "pass", "fail"}]
    BY <1>1 DEF Init
  <2>4. QED
    BY <2>1, <2>2, <2>3, Statuses DEF Init, TypeOK, Running, Phase
<1>3. InStep /\ Registers
  BY Statuses DEF Init, InStep, Registers, Test, Running
<1>4. StatusTruthful /\ HistoryInStep /\ VerdictSound
  BY DEF Init, StatusTruthful, HistoryInStep, VerdictSound
<1>5. QED
  BY <1>2, <1>3, <1>4 DEF IInv

\* The compiler leaves the code Registers speaks of.
LEMMA CompileInv == IInv /\ Compile => IInv'
<1> SUFFICES ASSUME IInv, Compile PROVE IInv'
  OBVIOUS
<1> USE DEF IInv
<1>1. UNCHANGED <<failures, verdict, child, ip, reg, status, did>>
  BY DEF Compile, childVars
<1>2. pc = "compile" /\ current \in Test
  BY DEF Compile, InStep
<1>3. code \in [Test -> Seq(Instruction)]
  BY DEF TypeOK
<1>4. \A t \in Test : Compiled(t) /\ t # current => Compiled(t)'
  BY <1>3 DEF Compile, Compiled
<1>5. pc' # "done"
        => /\ code'[current] = Emit(Programs[current].off)
           /\ Accepts(Programs[current])
  BY <1>2, <1>3 DEF Compile
<1>6. TypeOK'
  <2>1. code' \in [Test -> Seq(Instruction)]
    <3>1. CASE UNCHANGED code
      BY <1>3, <3>1
    <3>2. CASE /\ Accepts(Programs[current])
               /\ code' = [code EXCEPT ![current] =
                            Emit(Programs[current].off)]
      <4>1. Emit(Programs[current].off) \in Seq(Instruction)
        BY <1>2, <3>2, Fits, EmitTypes
      <4>2. QED
        BY <1>3, <3>2, <4>1
    <3>3. QED
      BY <3>1, <3>2 DEF Compile
  <2>2. pc' \in {"compile", "run", "done"} /\ current' \in 1 .. 3
    BY <1>2 DEF Compile, TypeOK
  <2>3. exit' \in {Running, 0, 1}
    BY DEF Compile, TypeOK
  <2>4. QED
    BY <1>1, <2>1, <2>2, <2>3 DEF TypeOK
<1>7. InStep'
  <2>1. CASE pc' = "done"
    BY <1>1, <1>2, <2>1 DEF Compile, InStep
  <2>2. CASE pc' # "done" /\ current = 1
    <3>1. current' = 2 /\ pc' = "compile"
      BY <2>2 DEF Compile
    <3>2. Compiled(1)'
      BY <1>5, <2>2 DEF Compiled
    <3>3. QED
      BY <1>1, <1>2, <3>1, <3>2 DEF InStep, Test
  <2>3. CASE pc' # "done" /\ current = 2
    <3>1. current' = 1 /\ pc' = "run"
      BY <2>3 DEF Compile
    <3>2. Compiled(2)'
      BY <1>5, <2>3 DEF Compiled
    <3>3. Compiled(1)'
      BY <1>2, <1>4, <2>3 DEF InStep, Test
    <3>4. QED
      BY <1>1, <1>2, <3>1, <3>2, <3>3 DEF InStep, Test
  <2>4. QED
    BY <1>2, <2>1, <2>2, <2>3 DEF Test
<1>8. Registers'
  BY <1>1, <1>2 DEF InStep, Registers
<1>9. StatusTruthful' /\ HistoryInStep' /\ VerdictSound'
  <2>1. pc' \in {"compile", "run", "done"} /\ current' \in Nat \ {0}
    BY <1>2 DEF Compile, Test
  <2>2. /\ failures' = 0
        /\ \A t \in Test : verdict'[t] = "none" /\ did'[t] = Unborn
    BY <1>1, <1>2 DEF HistoryInStep
  <2>3. HistoryInStep'
    BY <2>1, <2>2 DEF HistoryInStep
  <2>4. QED
    BY <2>1, <2>2, <2>3 DEF StatusTruthful, VerdictSound
<1>10. QED
  BY <1>6, <1>7, <1>8, <1>9

-----------------------------------------------------------------------------
(* The parent *)

\* A verdict is recorded for the test that is current, and only for it.
LEMMA RecordInv ==
  ASSUME IInv, pc \in {"run", "wait"}, current \in Test,
         NEW st, Record(Judged(st)),
         child' \in {"none", "gone", "lost"}, status' \in Status,
         child' \in {"gone", "lost"} <=> status'.how # "alive",
         UNCHANGED <<ip, reg, did>>,
         Judged(st) = 0 => Supported(current, did[current])
  PROVE  IInv'
<1> USE DEF IInv
<1>1. /\ pc' = "run" /\ UNCHANGED <<code, exit>>
      /\ current' = current + 1
      /\ failures' = failures + Judged(st)
      /\ verdict' = [verdict EXCEPT ![current] =
                       IF Judged(st) = 0 THEN "pass" ELSE "fail"]
  BY DEF Record
<1>2. TypeOK'
  <2>1. failures' \in Nat
    BY <1>1, Judgements DEF TypeOK
  <2>2. current' \in 1 .. 3 /\ failures' \in 0 .. 2
    BY <1>1, <2>1, Judgements DEF Test, TypeOK, HistoryInStep
  <2>3. verdict' \in [Test -> {"none", "pass", "fail"}]
    BY <1>1 DEF TypeOK
  <2>4. QED
    BY <1>1, <2>1, <2>2, <2>3 DEF TypeOK, Phase
<1>3. InStep' /\ Registers'
  BY <1>1 DEF InStep, Registers, Compiled
<1>4. StatusTruthful'
  BY <1>1 DEF StatusTruthful
<1>5. HistoryInStep'
  BY <1>1, Judgements DEF HistoryInStep, TypeOK, Test
<1>6. VerdictSound'
  BY <1>1 DEF VerdictSound, TypeOK, Supported, Justifies, Unseen
<1>7. QED
  BY <1>2, <1>3, <1>4, <1>5, <1>6

LEMMA ForkInv == IInv /\ Fork => IInv'
<1> SUFFICES ASSUME IInv, Fork PROVE IInv'
  OBVIOUS
<1> USE DEF IInv
<1>1. /\ pc = "run" /\ pc' = "wait" /\ current \in Test
      /\ child' = "code" /\ ip' = 1 /\ status' = Alive
      /\ UNCHANGED <<current, code, failures, exit, verdict>>
  BY DEF Fork
<1>2. /\ reg' \in [0 .. 3 -> Contents]
      /\ reg'[0] = Cap("helper") /\ reg'[1] = Cap("mem")
      /\ reg'[2] = Word(MemLen)
  BY RegisterTypes, SmallWords DEF Fork
<1>3. [Unborn EXCEPT !.at = "none"] =
        [returned |-> 0, value |-> 0, fault |-> "none", at |-> "none"]
  BY DEF Unborn
<1>4. [returned |-> 0, value |-> 0, fault |-> "none", at |-> "none"]
        \in Happening
  BY DEF Happening, Phase, Words
<1>5. /\ did' \in [Test -> Happening]
      /\ \A t \in Test : t # current => did'[t] = did[t]
      /\ did'[current] = [returned |-> 0, value |-> 0, fault |-> "none",
                          at |-> "none"]
  BY <1>1, <1>3, <1>4 DEF Fork, TypeOK
<1>6. TypeOK'
  <2>1. status' \in Status /\ child' \in Phase /\ ip' \in 1 .. 5
    BY <1>1, AliveStatus DEF Phase
  <2>2. QED
    BY <1>1, <1>2, <1>5, <2>1 DEF TypeOK
<1>7. InStep' /\ Registers'
  BY <1>1, <1>2, AliveStatus DEF InStep, Registers, Compiled
<1>8. StatusTruthful' /\ HistoryInStep'
  <2>1. StatusTruthful'
    BY <1>1, <1>5, AliveStatus DEF StatusTruthful
  <2>2. HistoryInStep'
    BY <1>1, <1>5 DEF HistoryInStep, Test
  <2>3. QED
    BY <2>1, <2>2
<1>9. VerdictSound'
  <2> SUFFICES ASSUME NEW t \in Test, verdict'[t] = "pass"
               PROVE  Supported(t, did'[t])
    BY DEF VerdictSound, Supported, Justifies, Unseen
  <2>1. t # current
    BY <1>1 DEF HistoryInStep, Test
  <2>2. QED
    BY <1>1, <1>5, <2>1 DEF VerdictSound, Supported, Justifies, Unseen
<1>10. QED
  BY <1>6, <1>7, <1>8, <1>9

LEMMA ForkFailsInv == IInv /\ ForkFails => IInv'
<1> SUFFICES ASSUME IInv, ForkFails PROVE IInv'
  OBVIOUS
<1>1. /\ pc = "run" /\ current \in Test /\ Record(Judged(Exited(0)))
      /\ child' = "none" /\ status' = Alive
      /\ UNCHANGED <<ip, reg, did>>
  BY DEF ForkFails
<1>2. did[current].at = "unborn"
  BY <1>1 DEF IInv, HistoryInStep, Unborn
<1>3. Judged(Exited(0)) = 0 => current = 1
  BY <1>1 DEF Judged, run_child_expect_trap, WIFSIGNALED, Exited, Test
<1>4. Judged(Exited(0)) = 0 => Supported(current, did[current])
  BY <1>2, <1>3 DEF Supported, Unseen
<1>5. QED
  BY <1>1, <1>4, RecordInv, Statuses

\* A status of 0 or a signal is read as what it means to the current test.
LEMMA PassIsJustified ==
  ASSUME IInv, Reap, Judged(status) = 0
  PROVE  Supported(current, did[current])
<1>1. pc = "wait" /\ current \in Test /\ child \in {"gone", "lost"}
  BY DEF Reap, IInv, InStep
<1>2. CASE current = 1
  <2>1. status.how = "exited" /\ status.code = 0
    BY <1>2 DEF Judged, run_child_expect_value
  <2>2. CASE child = "lost"
    BY <1>1, <1>2, <2>2 DEF IInv, StatusTruthful, Supported, Unseen
  <2>3. CASE child = "gone"
    BY <1>1, <1>2, <2>1, <2>3 DEF IInv, StatusTruthful, Supported
  <2>4. QED
    BY <1>1, <2>2, <2>3
<1>3. CASE current = 2
  <2>1. status.how = "signalled"
    BY <1>3 DEF Judged, run_child_expect_trap, WIFSIGNALED
  <2>2. QED
    BY <1>1, <1>3, <2>1 DEF IInv, StatusTruthful, Supported, Justifies
<1>4. QED
  BY <1>1, <1>2, <1>3 DEF Test

\* main loses the status of a child, and only of the one it waits for.
LEMMA WaitFailsInv == IInv /\ WaitFails => IInv'
<1> SUFFICES ASSUME IInv, WaitFails PROVE IInv'
  OBVIOUS
<1> USE DEF IInv
<1> DEFINE h == [did[current] EXCEPT !.at = "lost"]
<1>1. /\ pc = "wait" /\ child = "gone" /\ child' = "lost" /\ status' = Exited(0)
      /\ did' = [did EXCEPT ![current] = h]
      /\ UNCHANGED <<pc, current, code, failures, exit, verdict, ip, reg>>
  BY DEF WaitFails, parentVars
<1>2. current \in Test /\ verdict[current] = "none" /\ did[current] \in Happening
  BY <1>1 DEF InStep, HistoryInStep, TypeOK, Test
<1>3. h \in Happening /\ h.at = "lost"
  BY <1>2 DEF Happening, Phase
<1>4. /\ did' \in [Test -> Happening] /\ did'[current] = h
      /\ \A t \in Test : t # current => did'[t] = did[t]
  BY <1>1, <1>2, <1>3 DEF TypeOK
<1> HIDE DEF h
<1>5. status' \in Status /\ status'.how = "exited" /\ status'.code = 0
  BY <1>1, Statuses
<1>6. TypeOK'
  BY <1>1, <1>4, <1>5 DEF TypeOK, Phase
<1>7. InStep' /\ Registers'
  BY <1>1, <1>5 DEF InStep, Registers, Compiled
<1>8. StatusTruthful'
  BY <1>1, <1>3, <1>4, <1>5 DEF StatusTruthful
<1>9. HistoryInStep'
  BY <1>1, <1>2, <1>4 DEF HistoryInStep, Test
<1>10. VerdictSound'
  BY <1>1, <1>2, <1>4 DEF VerdictSound, Supported, Justifies, Unseen
<1>11. QED
  BY <1>6, <1>7, <1>8, <1>9, <1>10

LEMMA ReapInv == IInv /\ Reap => IInv'
<1> SUFFICES ASSUME IInv, Reap PROVE IInv'
  OBVIOUS
<1>1. /\ pc = "wait" /\ status.how # "alive" /\ Record(Judged(status))
      /\ UNCHANGED <<child, ip, reg, status, did>>
  BY DEF Reap, childVars
<1>2. current \in Test /\ child \in {"gone", "lost"} /\ status \in Status
  BY <1>1 DEF IInv, InStep, TypeOK
<1>3. QED
  BY <1>1, <1>2, PassIsJustified, RecordInv

LEMMA ReturnInv == IInv /\ Return => IInv'
<1> SUFFICES ASSUME IInv, Return PROVE IInv'
  OBVIOUS
<1> USE DEF IInv
<1>1. /\ pc = "run" /\ pc' = "done" /\ exit' \in {0, 1}
      /\ UNCHANGED <<current, code, failures, verdict, child, ip, reg, status,
                     did>>
  BY DEF Return, childVars
<1>2. TypeOK'
  BY <1>1 DEF TypeOK
<1>3. InStep' /\ Registers'
  BY <1>1 DEF InStep, Registers
<1>4. StatusTruthful' /\ HistoryInStep' /\ VerdictSound'
  BY <1>1 DEF StatusTruthful, HistoryInStep, VerdictSound, Supported, Justifies, Unseen
<1>5. QED
  BY <1>2, <1>3, <1>4

-----------------------------------------------------------------------------
(* The child *)

\* A child that is still there belongs to the test main is waiting for.
LEMMA ChildRuns ==
  ASSUME IInv, child \in {"code", "helper", "exit"}
  PROVE  /\ pc = "wait" /\ current \in Test /\ status.how = "alive"
         /\ Compiled(current)
BY DEF IInv, InStep

\* Each instruction establishes what Registers says of the next one.
LEMMA ExecuteInv == IInv /\ Execute => IInv'
<1> SUFFICES ASSUME IInv, Execute PROVE IInv'
  OBVIOUS
<1> USE DEF IInv
<1>1. /\ child = "code"
      /\ UNCHANGED <<pc, current, code, failures, exit, verdict, status, did>>
  BY DEF Execute, parentVars
<1>2. /\ pc = "wait" /\ current \in Test /\ status.how = "alive"
      /\ Compiled(current)
  BY <1>1, ChildRuns
<1>3. reg \in [0 .. 3 -> Contents] /\ ip \in 1 .. 5
  BY DEF TypeOK
<1> DEFINE i == code[current][ip]
<1>4. /\ ip = 1 => i = Insn("mov", 3, 0, 0)
      /\ ip = 2 => i = Insn("mov", 0, 1, 0)
      /\ ip = 3 => i = Insn("mov", 1, 2, 0)
      /\ ip = 4 => i = Insn("movz", 2, 2, Programs[current].off)
      /\ ip = 5 => i = Insn("br", 3, 3, 0)
  BY <1>2, Emitted
<1>5. \/ /\ i.op = "mov" /\ reg' = [reg EXCEPT ![i.rd] = reg[i.rn]]
         /\ ip' = ip + 1 /\ child' = "code"
      \/ /\ i.op = "movz" /\ reg' = [reg EXCEPT ![i.rd] = Word(i.imm)]
         /\ ip' = ip + 1 /\ child' = "code"
      \/ /\ i.op = "br" /\ child' = "helper" /\ UNCHANGED <<ip, reg>>
  BY <1>1 DEF Execute
<1>6. /\ ip \in 1 .. 4 => ip' = ip + 1 /\ child' = "code"
      /\ ip = 1 => reg' = [reg EXCEPT ![3] = reg[0]]
      /\ ip = 2 => reg' = [reg EXCEPT ![0] = reg[1]]
      /\ ip = 3 => reg' = [reg EXCEPT ![1] = reg[2]]
      /\ ip = 4 => reg' = [reg EXCEPT ![2] = Word(Programs[current].off)]
      /\ ip = 5 => child' = "helper" /\ UNCHANGED <<ip, reg>>
  BY <1>3, <1>4, <1>5 DEF Insn
<1>7. Word(Programs[current].off) \in Contents
  BY <1>2, Fits, RegisterTypes DEF Compiled
<1>8. reg' \in [0 .. 3 -> Contents] /\ ip' \in 1 .. 5
                                  /\ child' \in {"code", "helper"}
  BY <1>3, <1>6, <1>7
<1>9. TypeOK'
  BY <1>1, <1>8 DEF TypeOK, Phase
<1>10. InStep'
  BY <1>1, <1>2, <1>8 DEF InStep, Compiled
<1>11. Registers'
  BY <1>1, <1>3, <1>6 DEF Registers
<1>12. StatusTruthful' /\ HistoryInStep' /\ VerdictSound'
  BY <1>1, <1>8 DEF StatusTruthful, HistoryInStep, VerdictSound, Supported, Justifies, Unseen
<1>13. QED
  BY <1>9, <1>10, <1>11, <1>12

\* The child is gone with a status that says what happened.
LEMMA LeaveInv ==
  ASSUME IInv, child \in {"code", "helper", "exit"},
         NEW h \in Happening, h.at \notin {"unborn", "lost"},
         NEW st \in Status, st.how # "alive", Leave(st),
         did' = [did EXCEPT ![current] = h],
         UNCHANGED <<parentVars, ip, reg>>,
         st.how = "exited" /\ st.code = 0 => current = 1 /\ Justifies(1, h),
         st.how = "signalled" => h.fault # "none"
  PROVE  IInv'
<1> USE DEF IInv
<1>1. /\ pc = "wait" /\ current \in Test /\ verdict[current] = "none"
      /\ UNCHANGED <<pc, current, code, failures, exit, verdict, ip, reg>>
      /\ child' = "gone" /\ status' = st
  BY ChildRuns DEF Leave, parentVars, HistoryInStep, Test
<1>2. /\ did' \in [Test -> Happening] /\ did'[current] = h
      /\ \A t \in Test : t # current => did'[t] = did[t]
  BY <1>1 DEF TypeOK
<1>3. TypeOK'
  BY <1>1, <1>2 DEF TypeOK, Phase
<1>4. InStep' /\ Registers'
  BY <1>1, ChildRuns DEF InStep, Registers, Compiled
<1>5. StatusTruthful'
  BY <1>1, <1>2 DEF StatusTruthful, Justifies
<1>6. HistoryInStep'
  BY <1>1, <1>2 DEF HistoryInStep, Test
<1>7. VerdictSound'
  BY <1>1, <1>2 DEF VerdictSound, Supported, Justifies, Unseen
<1>8. QED
  BY <1>3, <1>4, <1>5, <1>6, <1>7

\* The helper either loads the word of the program or takes the fault.
LEMMA HelperInv == IInv /\ TailCallABI /\ Helper => IInv'
<1> SUFFICES ASSUME IInv, TailCallABI, Helper PROVE IInv'
  OBVIOUS
<1>1. child = "helper"
  BY DEF Helper
<1>2. CASE ~(reg[0] = Cap("mem") /\ HelperInBounds(reg[2].n))
  <2> DEFINE f == IF reg[0] = Cap("mem") THEN "bounds" ELSE "tag"
             h == [returned |-> 0, value |-> 0, fault |-> f, at |-> "load"]
  <2>1. /\ Leave(Signalled(f)) /\ did' = [did EXCEPT ![current] = h]
        /\ UNCHANGED <<parentVars, ip, reg>>
    BY <1>2 DEF Helper
  <2>2. h \in Happening /\ h.at \notin {"unborn", "lost"} /\ h.fault # "none"
    BY DEF Happening, Words, Faults, CapabilityFaults
  <2>3. Signalled(f) \in Status /\ Signalled(f).how = "signalled"
    BY Statuses
  <2>4. QED
    BY <1>1, <2>1, <2>2, <2>3, LeaveInv
<1>3. CASE reg[0] = Cap("mem") /\ HelperInBounds(reg[2].n)
  <2> USE DEF IInv
  <2> DEFINE h == [returned |-> 1, value |-> WordAt(reg[2].n),
                   fault |-> "none", at |-> "none"]
  <2>1. /\ child' = "exit" /\ did' = [did EXCEPT ![current] = h]
        /\ UNCHANGED <<pc, current, code, failures, exit, verdict, ip, reg,
                       status>>
    BY <1>3 DEF Helper, parentVars
  <2>2. /\ pc = "wait" /\ current \in Test /\ status.how = "alive"
        /\ Compiled(current) /\ verdict[current] = "none"
    BY <1>1, ChildRuns DEF HistoryInStep, Test
  <2>3. reg[2] = Word(Programs[current].off)
    BY <1>1 DEF TailCallABI
  <2>4. WordAt(reg[2].n) \in Words
    <3>1. reg[2].n \in UInt16
      BY <2>2, <2>3, Fits DEF Word, Compiled
    <3>2. reg[2].n \in 0 .. 8
      BY <1>3, <3>1 DEF UInt16, HelperInBounds, MemLen
    <3>3. QED
      BY <3>2 DEF WordAt, Words, Torn, ExpectedWord
  <2>5. h \in Happening
    BY <2>4 DEF Happening, Phase
  <2>6. /\ did' \in [Test -> Happening] /\ did'[current] = h
        /\ \A t \in Test : t # current => did'[t] = did[t]
    BY <2>1, <2>2, <2>5 DEF TypeOK
  <2>7. TypeOK'
    BY <2>1, <2>6 DEF TypeOK, Phase
  <2>8. InStep' /\ Registers'
    BY <2>1, <2>2 DEF InStep, Registers, Compiled
  <2>9. StatusTruthful'
    BY <2>1, <2>2, <2>6 DEF StatusTruthful, InStep, Justifies
  <2>10. HistoryInStep'
    BY <2>1, <2>2, <2>6 DEF HistoryInStep, Test
  <2>11. VerdictSound'
    BY <2>1, <2>2, <2>6 DEF VerdictSound, Supported, Justifies, Unseen
  <2>12. QED
    BY <2>7, <2>8, <2>9, <2>10, <2>11
<1>4. QED
  BY <1>2, <1>3

LEMMA ExitChildInv == IInv /\ ExitChild => IInv'
<1> SUFFICES ASSUME IInv, ExitChild PROVE IInv'
  OBVIOUS
<1> DEFINE n == IF current = 1 /\ did[1].value = ExpectedWord THEN 0 ELSE 2
<1>1. /\ child = "exit" /\ Leave(Exited(n))
      /\ UNCHANGED <<parentVars, ip, reg, did>>
  BY DEF ExitChild
<1>2. /\ pc = "wait" /\ current \in Test /\ status.how = "alive"
  BY <1>1, ChildRuns
<1>3. /\ did \in [Test -> Happening]
      /\ did[current].at \notin {"unborn", "lost"}
      /\ did[current].fault = "none" /\ did[current].returned = 1
  BY <1>1, <1>2 DEF IInv, TypeOK, StatusTruthful
<1>4. did' = [did EXCEPT ![current] = did[current]]
                                        /\ did[current] \in Happening
  BY <1>1, <1>2, <1>3
<1>5. Exited(n) \in Status /\ Exited(n).how = "exited" /\ Exited(n).code = n
  BY Statuses
<1>6. n = 0 => current = 1 /\ Justifies(1, did[current])
  BY <1>3 DEF Justifies
<1>7. QED
  BY <1>1, <1>3, <1>4, <1>5, <1>6, LeaveInv

LEMMA FaultInv == IInv /\ Fault => IInv'
<1> SUFFICES ASSUME IInv, Fault PROVE IInv'
  OBVIOUS
<1>1. child \in {"code", "helper", "exit"} /\ UNCHANGED <<parentVars, ip, reg>>
  BY DEF Fault
<1>2. PICK f \in Faults :
        /\ did' = [did EXCEPT ![current] =
                     [returned |-> @.returned, value |-> @.value, fault |-> f,
                      at |-> child]]
        /\ Leave(Signalled(f))
  BY DEF Fault
<1> DEFINE h == [returned |-> did[current].returned,
                 value |-> did[current].value, fault |-> f, at |-> child]
<1>3. current \in Test /\ did[current] \in Happening
  BY <1>1, ChildRuns DEF IInv, TypeOK
<1>4. did' = [did EXCEPT ![current] = h]
  BY <1>2
<1>5. h \in Happening /\ h.at \notin {"unborn", "lost"} /\ h.fault # "none"
  BY <1>1, <1>3 DEF Happening, Phase, Faults, CapabilityFaults
<1>6. Signalled(f) \in Status /\ Signalled(f).how = "signalled"
  BY Statuses
<1>7. QED
  BY <1>1, <1>2, <1>4, <1>5, <1>6, LeaveInv

-----------------------------------------------------------------------------
\* The branch is the last instruction, and enters the helper with the registers the
\* other four left; nothing but it enters the helper.
LEMMA HelperIsEntered == IInv /\ TailCallABI /\ [Next]_vars => TailCallABI'
<1> SUFFICES ASSUME IInv, TailCallABI, [Next]_vars, child' = "helper"
             PROVE  /\ reg'[0] = Cap("mem") /\ reg'[1] = Word(MemLen)
                    /\ reg'[2] = Word(Programs[current'].off)
  BY DEF TailCallABI
<1>1. CASE Execute
  <2>1. child = "code" /\ UNCHANGED <<current, code>>
    BY <1>1 DEF Execute, parentVars
  <2>2. Compiled(current) /\ current \in Test /\ ip \in 1 .. 5
    BY <2>1, ChildRuns DEF IInv, TypeOK
  <2>3. /\ ip \in 1 .. 3 => code[current][ip].op = "mov"
        /\ ip = 4 => code[current][ip].op = "movz"
    <3>1. /\ ip \in 1 .. 3 =>
               code[current][ip] \in {Insn("mov", 3, 0, 0), Insn("mov", 0, 1, 0),
                                     Insn("mov", 1, 2, 0)}
          /\ ip = 4 =>
               code[current][ip] = Insn("movz", 2, 2, Programs[current].off)
      BY <2>2, Emitted
    <3>2. \A op, rd, rn, imm : Insn(op, rd, rn, imm).op = op
      BY DEF Insn
    <3>3. QED
      BY <3>1, <3>2
  <2>4. code[current][ip].op = "br" /\ UNCHANGED reg
    BY <1>1 DEF Execute
  <2>5. ip = 5
    BY <2>2, <2>3, <2>4
  <2>6. QED
    BY <2>1, <2>4, <2>5 DEF IInv, Registers
<1>2. CASE child = "helper" /\ UNCHANGED <<current, reg>>
  BY <1>2 DEF TailCallABI
<1>3. Execute \/ (child = "helper" /\ UNCHANGED <<current, reg>>)
  <2>1. CASE Compile \/ Return
    BY <2>1 DEF Compile, Return, childVars, IInv, InStep
  <2>2. CASE Fork \/ ForkFails \/ WaitFails
    BY <2>2 DEF Fork, ForkFails, WaitFails
  <2>3. CASE Reap
    BY <2>3 DEF Reap, childVars, IInv, InStep
  <2>4. CASE Helper \/ ExitChild \/ Fault
    BY <2>4 DEF Helper, ExitChild, Fault, Leave
  <2>5. CASE UNCHANGED vars
    BY <2>5 DEF vars, parentVars, childVars
  <2>6. QED
    BY <2>1, <2>2, <2>3, <2>4, <2>5 DEF Next, Finished
<1>4. QED
  BY <1>1, <1>2, <1>3

\* Neither holds without the other: the invariant says what the registers hold up to
\* the branch, TailCallABI what they hold after it.
LEMMA InvariantWithABI == Spec => [](IInv /\ TailCallABI)
<1>1. IInv /\ TailCallABI /\ [Next]_vars => IInv'
  <2> SUFFICES ASSUME IInv, TailCallABI, [Next]_vars PROVE IInv'
    OBVIOUS
  <2>1. CASE Compile
    BY <2>1, CompileInv
  <2>2. CASE Fork
    BY <2>2, ForkInv
  <2>3. CASE ForkFails
    BY <2>3, ForkFailsInv
  <2>4. CASE Reap
    BY <2>4, ReapInv
  <2>5. CASE Return
    BY <2>5, ReturnInv
  <2>6. CASE Execute
    BY <2>6, ExecuteInv
  <2>7. CASE Helper
    BY <2>7, HelperInv
  <2>8. CASE ExitChild
    BY <2>8, ExitChildInv
  <2>9. CASE Fault
    BY <2>9, FaultInv
  <2>10. CASE WaitFails
    BY <2>10, WaitFailsInv
  <2>11. CASE UNCHANGED vars
    BY <2>11 DEF vars, parentVars, childVars, IInv, TypeOK, InStep, Registers,
                 StatusTruthful, HistoryInStep, VerdictSound, Compiled,
                 Supported, Justifies, Unseen
  <2>12. QED
    BY <2>1, <2>2, <2>3, <2>4, <2>5, <2>6, <2>7, <2>8, <2>9, <2>10, <2>11
       DEF Next, Finished
<1>2. Init => TailCallABI
  BY DEF Init, TailCallABI
<1>3. QED
  BY <1>1, <1>2, InitInv, HelperIsEntered, PTL DEF Spec

\* The invariant holds in every state main can reach, for any two programs.
THEOREM Invariant == Spec => []IInv
BY InvariantWithABI, PTL

\* Whatever program the compiler accepts, the helper it tail-calls gets the
\* memory root, the length and the program's own offset.
THEOREM HelperGetsItsArguments == Spec => []TailCallABI
BY InvariantWithABI, PTL

\* No test passes without evidence, but for the first when main has no status of its
\* child: the fork or the waitpid failed, which the code does not notice.
THEOREM VerdictsAreSound == Spec => []VerdictSound
<1>1. IInv => VerdictSound
  BY DEF IInv
<1>2. QED
  BY <1>1, Invariant, PTL

-----------------------------------------------------------------------------
(* The differential of main's two programs *)

\* The two offsets of main, one in bounds and one not, and the word at the first.
LEMMA MainOffsets ==
  ASSUME Programs = main_programs
  PROVE  /\ Programs[1].off = 8 /\ Programs[2].off = 4096
         /\ HelperInBounds(8) /\ WordAt(8) = ExpectedWord
         /\ ~HelperInBounds(4096)
BY DEF main_programs, Load, HelperInBounds, MemLen, WordAt, ExpectedWord

\* A step of the child changes what is known of its own test only.
LEMMA FailuresKept ==
  ASSUME FailuresForeign, pc = "wait", UNCHANGED parentVars,
         \A t \in Test : t # current => did'[t] = did[t]
  PROVE  FailuresForeign'
<1>1. UNCHANGED <<pc, current, failures, exit>> /\ exit = Running
  BY DEF parentVars, FailuresForeign
<1>2. failures = 0 \/ \E t \in Test : t < current /\ Foreign(t)
  BY DEF FailuresForeign
<1>3. CASE failures # 0
  <2>1. PICK t \in Test : t < current /\ Foreign(t)
    BY <1>2, <1>3
  <2>2. Foreign(t)'
    BY <2>1 DEF Foreign, Test
  <2>3. QED
    BY <1>1, <2>1, <2>2 DEF FailuresForeign, Running
<1>4. CASE failures = 0
  BY <1>1, <1>4 DEF FailuresForeign, Running
<1>5. QED
  BY <1>3, <1>4

\* A child that leaves with the status its test asks for, or is marked.
LEMMA LeaveFair ==
  ASSUME IInv, child \in {"code", "helper", "exit"}, FailuresForeign,
         NEW h, did' = [did EXCEPT ![current] = h],
         UNCHANGED <<parentVars, ip, reg>>,
         NEW st, Leave(st),
         h.at \notin {"none", "load"} \/ Judged(st) = 0
  PROVE  ChildFair' /\ FailuresForeign'
<1>1. /\ pc = "wait" /\ current \in Test /\ UNCHANGED <<pc, current>>
      /\ child' = "gone" /\ status' = st
  BY ChildRuns DEF Leave, parentVars
<1>2. did'[current] = h /\ \A t \in Test : t # current => did'[t] = did[t]
  BY <1>1 DEF IInv, TypeOK
<1>3. ChildFair'
  BY <1>1, <1>2 DEF ChildFair, Foreign, Judged
<1>4. QED
  BY <1>1, <1>2, <1>3, FailuresKept

\* The child's steps: in bounds the load comes back with the word, out of
\* bounds it does not come back.
LEMMA ChildStepFair ==
  ASSUME IInv, Programs = main_programs, ChildFair, FailuresForeign,
         TailCallABI, Execute \/ Helper \/ ExitChild \/ Fault
  PROVE  ChildFair' /\ FailuresForeign'
<1>1. child \in {"code", "helper", "exit"} /\ UNCHANGED parentVars
  BY DEF Execute, Helper, ExitChild, Fault
<1>2. pc = "wait" /\ current \in Test /\ UNCHANGED <<pc, current>>
  BY <1>1, ChildRuns DEF parentVars
<1>3. did[current].at = "none" /\ did \in [Test -> Happening]
  BY <1>1, <1>2 DEF ChildFair, IInv, TypeOK
<1>4. CASE Execute
  <2>1. child' \in {"code", "helper"} /\ UNCHANGED did
    BY <1>4 DEF Execute
  <2>2. ChildFair'
    BY <1>2, <1>3, <2>1 DEF ChildFair
  <2>3. QED
    BY <1>1, <1>2, <2>1, <2>2, FailuresKept
<1>5. CASE Helper
  <2>1. /\ child = "helper" /\ UNCHANGED <<parentVars, ip, reg>>
        /\ reg[0] = Cap("mem") /\ reg[2].n = Programs[current].off
    BY <1>5 DEF Helper, TailCallABI, Word
  <2>2. CASE HelperInBounds(reg[2].n)
    <3>1. current = 1 /\ WordAt(reg[2].n) = ExpectedWord
      BY <1>2, <2>1, <2>2, MainOffsets DEF Test
    <3> DEFINE h == [returned |-> 1, value |-> WordAt(reg[2].n),
                     fault |-> "none", at |-> "none"]
    <3>2. did' = [did EXCEPT ![current] = h] /\ child' = "exit"
      BY <1>5, <2>1, <2>2 DEF Helper
    <3>3. /\ did'[current] = h
          /\ \A t \in Test : t # current => did'[t] = did[t]
      BY <1>2, <1>3, <3>2
    <3>4. ChildFair'
      BY <1>2, <3>1, <3>2, <3>3 DEF ChildFair
    <3>5. QED
      BY <1>1, <1>2, <3>3, <3>4, FailuresKept
  <2>3. CASE ~HelperInBounds(reg[2].n)
    <3>1. current = 2
      BY <1>2, <2>1, <2>3, MainOffsets DEF Test
    <3>2. PICK h, f : did' = [did EXCEPT ![current] = h] /\ Leave(Signalled(f))
      BY <1>5, <2>3 DEF Helper
    <3>3. Judged(Signalled(f)) = 0
      BY <3>1 DEF Judged, run_child_expect_trap, WIFSIGNALED, Signalled
    <3>4. QED
      BY <1>1, <2>1, <3>2, <3>3, LeaveFair
  <2>4. QED
    BY <2>2, <2>3
<1>6. CASE ExitChild
  <2>1. /\ child = "exit" /\ UNCHANGED <<parentVars, ip, reg, did>>
        /\ Leave(Exited(IF current = 1 /\ did[1].value = ExpectedWord
                        THEN 0 ELSE 2))
    BY <1>6 DEF ExitChild
  <2>2. current = 1 /\ did[1].value = ExpectedWord
    BY <1>2, <2>1 DEF ChildFair
  <2>3. Leave(Exited(0))
    BY <2>1, <2>2
  <2>4. Judged(Exited(0)) = 0
    BY <2>2 DEF Judged, run_child_expect_value, WIFSIGNALED, Exited
  <2>5. did' = [did EXCEPT ![current] = did[current]]
    BY <1>2, <1>3, <2>1
  <2>6. QED
    BY <1>1, <2>1, <2>3, <2>4, <2>5, LeaveFair
<1>7. CASE Fault
  <2>1. PICK f \in Faults :
          /\ did' = [did EXCEPT ![current] =
                       [returned |-> @.returned, value |-> @.value, fault |-> f,
                        at |-> child]]
          /\ Leave(Signalled(f))
    BY <1>7 DEF Fault
  <2> DEFINE h == [returned |-> did[current].returned,
                   value |-> did[current].value, fault |-> f, at |-> child]
  <2>2. did' = [did EXCEPT ![current] = h] /\ h.at \notin {"none", "load"}
    BY <1>1, <2>1
  <2>3. UNCHANGED <<parentVars, ip, reg>>
    BY <1>7 DEF Fault
  <2> HIDE DEF h
  <2>4. QED
    BY <1>1, <2>1, <2>2, <2>3, LeaveFair
<1>8. QED
  BY <1>4, <1>5, <1>6, <1>7

\* A result other than 0 is recorded only of a child that was marked.
LEMMA RecordFair ==
  ASSUME IInv, FailuresForeign, pc \in {"run", "wait"}, current \in Test,
         NEW st, Record(Judged(st)), UNCHANGED did,
         Judged(st) = 0 \/ Foreign(current)
  PROVE  ChildFair' /\ FailuresForeign'
<1>1. /\ pc' = "run" /\ exit' = exit /\ current' = current + 1
      /\ failures' = failures + Judged(st)
  BY DEF Record
<1>2. failures \in Nat /\ Judged(st) \in {0, 1} /\ exit = Running
  BY Judgements DEF IInv, TypeOK, FailuresForeign
<1>3. \A t : Foreign(t)' <=> Foreign(t)
  BY DEF Foreign
<1>4. failures' = 0 \/ \E t \in Test : t < current' /\ Foreign(t)
  <2>1. CASE Judged(st) = 0
    <3>1. failures' = failures /\ \A t \in Test : t < current => t < current'
      BY <1>1, <1>2, <2>1 DEF Test
    <3>2. QED
      BY <3>1 DEF FailuresForeign
  <2>2. CASE Foreign(current)
    BY <1>1, <2>2 DEF Test
  <2>3. QED
    BY <2>1, <2>2
<1>5. FailuresForeign'
  BY <1>1, <1>2, <1>3, <1>4 DEF FailuresForeign, Running
<1>6. QED
  BY <1>1, <1>5 DEF ChildFair

\* The parent's steps.
LEMMA ParentStepFair ==
  ASSUME IInv, Programs = main_programs, ChildFair, FailuresForeign,
         Compile \/ Fork \/ ForkFails \/ WaitFails \/ Reap \/ Return
  PROVE  ChildFair' /\ FailuresForeign'
<1>1. CASE Compile
  <2>1. /\ pc = "compile" /\ pc' \in {"compile", "run", "done"}
        /\ UNCHANGED <<failures, did>>
        /\ exit' # Running => pc' = "done"
        /\ failures = 0 /\ did[1] = Unborn
    BY <1>1 DEF Compile, childVars, FailuresForeign, IInv, HistoryInStep, Test
  <2>2. Foreign(1)'
    BY <2>1 DEF Foreign, Unborn
  <2>3. QED
    BY <2>1, <2>2 DEF ChildFair, FailuresForeign, Test
<1>2. CASE Fork
  <2>1. /\ pc = "run" /\ pc' = "wait" /\ current \in Test /\ child' = "code"
        /\ UNCHANGED <<current, failures, exit>>
        /\ did' = [did EXCEPT ![current] = [Unborn EXCEPT !.at = "none"]]
    BY <1>2 DEF Fork
  <2>2. [Unborn EXCEPT !.at = "none"].at = "none"
    BY DEF Unborn
  <2>3. /\ did'[current].at = "none"
        /\ \A t \in Test : t # current => did'[t] = did[t]
    BY <2>1, <2>2 DEF IInv, TypeOK
  <2>4. \A t \in Test : t < current /\ Foreign(t) => Foreign(t)'
    BY <2>3 DEF Foreign, Test
  <2>5. exit = Running
    BY <2>1 DEF FailuresForeign
  <2>6. FailuresForeign'
    BY <2>1, <2>4, <2>5 DEF FailuresForeign, Running
  <2>7. QED
    BY <2>1, <2>3, <2>6 DEF ChildFair
<1>3. CASE ForkFails
  <2>1. /\ pc = "run" /\ current \in Test /\ Record(Judged(Exited(0)))
        /\ did' = did /\ did[current] = Unborn
    BY <1>3 DEF ForkFails, IInv, HistoryInStep
  <2>2. Foreign(current)
    BY <2>1 DEF Foreign, Unborn
  <2>3. QED
    BY <2>1, <2>2, RecordFair
<1>4. CASE Reap
  <2>1. /\ pc = "wait" /\ child \in {"gone", "lost"} /\ current \in Test
        /\ Record(Judged(status)) /\ did' = did
    BY <1>4 DEF Reap, childVars, IInv, InStep
  <2>2. Judged(status) = 0 \/ Foreign(current)
    BY <2>1 DEF ChildFair
  <2>3. QED
    BY <2>1, <2>2, RecordFair
<1>5. CASE Return
  <2>1. /\ pc = "run" /\ pc' = "done" /\ did' = did
        /\ exit' = IF failures = 0 THEN 0 ELSE 1
    BY <1>5 DEF Return, childVars
  <2>2. exit' = 1 => \E t \in Test : Foreign(t)
    BY <2>1 DEF FailuresForeign
  <2>3. QED
    BY <2>1, <2>2 DEF ChildFair, FailuresForeign, Foreign
<1>6. CASE WaitFails
  <2>1. /\ pc = "wait" /\ child' = "lost" /\ UNCHANGED parentVars
        /\ did' = [did EXCEPT ![current].at = "lost"]
    BY <1>6 DEF WaitFails
  <2>2. current \in Test /\ did[current] \in Happening
    BY <2>1 DEF IInv, InStep, TypeOK
  <2>3. did'[current].at = "lost" /\ \A t \in Test : t # current => did'[t] = did[t]
    BY <2>1, <2>2 DEF IInv, TypeOK, Happening
  <2>4. Foreign(current)' /\ pc' = "wait"
    BY <2>1, <2>3 DEF Foreign, parentVars
  <2>5. QED
    BY <2>1, <2>3, <2>4, FailuresKept DEF ChildFair
<1>7. QED
  BY <1>1, <1>2, <1>3, <1>4, <1>5, <1>6

\* The two programs of main fail the suite only when a child could not be
\* started or waited for or something else than its load ended it.
THEOREM FailuresAreForeign == Spec => []OnlyForeignFailures
<1>1. Init => FairInv
  BY DEF Init, FairInv, ChildFair, FailuresForeign, Running
<1>2. IInv /\ TailCallABI /\ FairInv /\ [Next]_vars => FairInv'
  <2> SUFFICES ASSUME IInv, TailCallABI, Programs = main_programs, ChildFair,
                      FailuresForeign, [Next]_vars
               PROVE  ChildFair' /\ FailuresForeign'
    BY DEF FairInv
  <2>1. CASE Compile \/ Fork \/ ForkFails \/ WaitFails \/ Reap \/ Return
    BY <2>1, ParentStepFair
  <2>2. CASE Execute \/ Helper \/ ExitChild \/ Fault
    BY <2>2, ChildStepFair
  <2>3. CASE UNCHANGED vars
    BY <2>3 DEF vars, parentVars, childVars, ChildFair, FailuresForeign, Foreign,
                Judged
  <2>4. QED
    BY <2>1, <2>2, <2>3 DEF Next, Finished
<1>3. FairInv => OnlyForeignFailures
  BY DEF FairInv, FailuresForeign, Foreign, OnlyForeignFailures
<1>4. QED
  BY <1>1, <1>2, <1>3, InvariantWithABI, PTL DEF Spec
-----------------------------------------------------------------------------
(* The suite keeps its promise *)

LEMMA PromiseInitial == Init => PromiseInv /\ E1!Init
BY DEF Init, PromiseInv, E1!Init, report

\* Whatever a step does that leaves main where it is, its count stands.
LEMMA PromiseKept ==
  ASSUME PromiseInv, UNCHANGED <<current, failures, exit, verdict>>,
         pc \in {"run", "wait"}, pc' \in {"run", "wait"}
  PROVE  PromiseInv'
BY DEF PromiseInv

\* A verdict that is recorded is counted.
LEMMA PromiseRecorded ==
  ASSUME IInv, PromiseInv, pc \in {"run", "wait"}, current \in Test,
         NEW st, Record(Judged(st))
  PROVE  PromiseInv'
<1>1. /\ pc' = "run" /\ exit' = exit /\ current' = current + 1
      /\ failures' = failures + Judged(st)
      /\ verdict' = [verdict EXCEPT ![current] =
                       IF Judged(st) = 0 THEN "pass" ELSE "fail"]
  BY DEF Record
<1>2. /\ failures \in Nat /\ Judged(st) \in {0, 1} /\ exit = Running
      /\ verdict \in [Test -> {"none", "pass", "fail"}]
      /\ verdict[current] = "none"
  BY Judgements DEF IInv, TypeOK, HistoryInStep, PromiseInv
<1>3. /\ verdict'[current] = IF Judged(st) = 0 THEN "pass" ELSE "fail"
      /\ \A t \in Test : t # current => verdict'[t] = verdict[t]
  BY <1>1, <1>2
<1>4. \A t \in Test : t < current' => verdict'[t] # "none"
  <2>1. TAKE t \in Test
  <2>2. HAVE t < current'
  <2>3. t = current \/ t < current
    BY <1>1, <2>2 DEF Test
  <2>4. QED
    BY <1>3, <2>3 DEF PromiseInv
<1>5. failures' = 0 <=> failures = 0 /\ Judged(st) = 0
  BY <1>1, <1>2
<1>6. (\A t \in Test : verdict'[t] # "fail")
        <=> (\A t \in Test : verdict[t] # "fail") /\ Judged(st) = 0
  BY <1>2, <1>3
<1>7. failures' = 0 <=> \A t \in Test : verdict'[t] # "fail"
  BY <1>5, <1>6 DEF PromiseInv
<1>8. QED
  BY <1>1, <1>2, <1>4, <1>7 DEF PromiseInv

LEMMA PromiseStep ==
  ASSUME IInv, PromiseInv, [Next]_vars
  PROVE  PromiseInv'
<1>1. CASE Compile
  <2>1. /\ pc = "compile" /\ pc' \in {"compile", "run", "done"}
        /\ UNCHANGED <<failures, verdict>>
        /\ exit' # exit => pc' = "done"
        /\ pc' = "run" => current' = 1
        /\ failures = 0 /\ \A t \in Test : verdict[t] = "none"
    BY <1>1 DEF Compile, childVars, IInv, InStep, HistoryInStep, Test
  <2>2. QED
    BY <2>1 DEF PromiseInv, Test
<1>2. CASE ForkFails \/ Reap
  <2>1. pc \in {"run", "wait"} /\ current \in Test
    BY <1>2 DEF ForkFails, Reap, IInv, InStep
  <2>2. QED
    BY <1>2, <2>1, PromiseRecorded DEF ForkFails, Reap
<1>3. CASE Return
  BY <1>3 DEF Return, PromiseInv
<1>4. CASE Fork
  BY <1>4, PromiseKept DEF Fork
<1>5. CASE Execute \/ Helper \/ ExitChild \/ Fault \/ WaitFails
  <2>1. pc = "wait" /\ UNCHANGED parentVars
    BY <1>5, ChildRuns DEF Execute, Helper, ExitChild, Fault, WaitFails
  <2>2. QED
    BY <2>1, PromiseKept DEF parentVars
<1>6. CASE UNCHANGED vars
  BY <1>6 DEF vars, parentVars, PromiseInv
<1>7. QED
  BY <1>1, <1>2, <1>3, <1>4, <1>5, <1>6 DEF Next, Finished

\* A verdict is given in the sense of Evidence.
LEMMA RecordJudges ==
  ASSUME IInv, PromiseInv, pc \in {"run", "wait"}, current \in Test,
         NEW st, Record(Judged(st)), UNCHANGED did,
         Judged(st) = 0 => did[current] \in Supporting(current)
  PROVE  E1!Judge(current)
<1>1. /\ exit' = exit /\ exit = Running /\ verdict[current] = "none"
      /\ verdict' = [verdict EXCEPT ![current] =
                       IF Judged(st) = 0 THEN "pass" ELSE "fail"]
  BY DEF Record, IInv, HistoryInStep, PromiseInv, Test
<1> DEFINE v == IF Judged(st) = 0 THEN "pass" ELSE "fail"
<1>2. /\ v \in {"pass", "fail"}
      /\ v = "pass" => did[current] \in Supporting(current)
      /\ verdict' = [verdict EXCEPT ![current] = v]
  BY <1>1
<1>3. report = "running" /\ report' = report
  BY <1>1 DEF report
<1> HIDE DEF v
<1>4. QED
  BY <1>1, <1>2, <1>3 DEF E1!Judge

\* What a child does happens to the test main has not judged yet.
LEMMA ChildHappens ==
  ASSUME IInv, PromiseInv, IInv',
         Execute \/ Helper \/ ExitChild \/ Fault \/ Fork \/ WaitFails
  PROVE  E1!Happen(current)
<1>1. /\ pc \in {"run", "wait"} /\ current \in Test
      /\ UNCHANGED <<exit, verdict>>
  BY ChildRuns DEF Execute, Helper, ExitChild, Fault, Fork, WaitFails, parentVars,
                   IInv, InStep
<1>2. exit = Running /\ verdict[current] = "none"
  BY <1>1 DEF IInv, HistoryInStep, PromiseInv, Test
<1>3. did \in [Test -> Happening] /\ did' \in [Test -> Happening]
  BY DEF IInv, TypeOK
<1>4. \A t \in Test : t # current => did'[t] = did[t]
  BY <1>1, <1>3 DEF Execute, Helper, ExitChild, Fault, Fork, WaitFails
<1>5. did' = [did EXCEPT ![current] = did'[current]] /\ did'[current] \in Happening
  BY <1>1, <1>3, <1>4
<1>6. report = "running" /\ report' = report
  BY <1>1, <1>2 DEF report
<1>7. QED
  BY <1>1, <1>2, <1>5, <1>6 DEF E1!Happen

\* main's return value follows from all the verdicts, or it gave up before any.
LEMMA MainConcludes ==
  ASSUME IInv, PromiseInv, Compile \/ Return, exit' # exit
  PROVE  E1!Conclude \/ E1!GiveUp
<1>1. CASE Compile
  <2>1. /\ pc = "compile" /\ exit' = 1 /\ UNCHANGED <<verdict, did>>
    BY <1>1 DEF Compile, childVars
  <2>2. /\ exit = Running
        /\ \A t \in Test : did[t] = Unborn /\ verdict[t] = "none"
    BY <2>1 DEF PromiseInv, IInv, HistoryInStep
  <2>3. report = "running" /\ report' = "failed"
    BY <2>1, <2>2 DEF report, Running
  <2>4. QED
    BY <2>1, <2>2, <2>3 DEF E1!GiveUp
<1>2. CASE Return
  <2>1. /\ pc = "run" /\ current \notin Test /\ UNCHANGED <<verdict, did>>
        /\ exit' = IF failures = 0 THEN 0 ELSE 1
    BY <1>2 DEF Return, childVars
  <2>2. current = 3 /\ verdict \in [Test -> {"none", "pass", "fail"}]
    BY <2>1 DEF IInv, TypeOK, Test
  <2>3. /\ exit = Running /\ \A t \in Test : verdict[t] # "none"
        /\ failures = 0 <=> \A t \in Test : verdict[t] # "fail"
    BY <2>1, <2>2 DEF PromiseInv, Test
  <2>4. failures = 0 <=> \A t \in Test : verdict[t] = "pass"
    BY <2>2, <2>3
  <2>5. /\ report = "running"
        /\ report' = IF failures = 0 THEN "ok" ELSE "failed"
    BY <2>1, <2>3 DEF report, Running
  <2>6. QED
    BY <2>1, <2>3, <2>4, <2>5 DEF E1!Conclude
<1>3. QED
  BY <1>1, <1>2

\* The suite implements Evidence, for any two programs: a test is judged once, on
\* what happened to it by then, and main returns 0 only when both were passed.  A
\* pass of the first test needs the load in every case but that of a failed fork or
\* waitpid.
THEOREM Refinement == Spec => KeepsPromise
<1>1. IInv /\ PromiseInv /\ IInv' /\ [Next]_vars => [E1!Next]_(E1!vars)
  <2> SUFFICES ASSUME IInv, PromiseInv, IInv', [Next]_vars
               PROVE  [E1!Next]_(E1!vars)
    OBVIOUS
  <2>1. CASE Compile \/ Return
    <3>1. UNCHANGED <<verdict, did>>
      BY <2>1 DEF Compile, Return, childVars
    <3>2. exit' = exit => UNCHANGED E1!vars
      BY <3>1 DEF E1!vars, report
    <3>3. QED
      BY <2>1, <3>2, MainConcludes DEF E1!Next
  <2>2. CASE ForkFails
    <3>1. /\ pc = "run" /\ current \in Test /\ Record(Judged(Exited(0)))
          /\ did' = did /\ did[current] = Unborn
      BY <2>2 DEF ForkFails, IInv, HistoryInStep
    <3>2. Judged(Exited(0)) = 0 => current = 1
      BY <3>1 DEF Judged, run_child_expect_trap, WIFSIGNALED, Exited, Test
    <3>3. did[current] \in Happening
      BY <3>1 DEF IInv, TypeOK
    <3>4. Judged(Exited(0)) = 0 => did[current] \in Supporting(current)
      BY <3>1, <3>2, <3>3 DEF Supporting, Supported, Unseen, Unborn
    <3>5. E1!Judge(current)
      BY <3>1, <3>4, RecordJudges
    <3>6. QED
      BY <3>1, <3>5 DEF E1!Next
  <2>3. CASE Reap
    <3>1. /\ pc = "wait" /\ current \in Test /\ Record(Judged(status))
          /\ did' = did /\ did[current] \in Happening
      BY <2>3 DEF Reap, childVars, IInv, InStep, TypeOK
    <3>2. Judged(status) = 0 => Supported(current, did[current])
      BY <2>3, <3>1, PassIsJustified
    <3>3. Judged(status) = 0 => did[current] \in Supporting(current)
      BY <3>1, <3>2 DEF Supporting
    <3>4. E1!Judge(current)
      BY <3>1, <3>3, RecordJudges
    <3>5. QED
      BY <3>1, <3>4 DEF E1!Next
  <2>4. CASE Execute \/ Helper \/ ExitChild \/ Fault \/ Fork \/ WaitFails
    <3>1. current \in Test
      BY <2>4, ChildRuns DEF Execute, Helper, ExitChild, Fault, Fork, WaitFails,
                             IInv, InStep
    <3>2. QED
      BY <2>4, <3>1, ChildHappens DEF E1!Next
  <2>5. CASE UNCHANGED vars
    BY <2>5 DEF vars, parentVars, childVars, E1!vars, report
  <2>6. QED
    BY <2>1, <2>2, <2>3, <2>4, <2>5 DEF Next, Finished
<1>2. IInv /\ PromiseInv /\ [Next]_vars => PromiseInv'
  BY PromiseStep
<1>3. QED
  BY <1>1, <1>2, PromiseInitial, Invariant, PTL DEF Spec, KeepsPromise, E1!Spec
-----------------------------------------------------------------------------
(* A run has an end *)

\* A step of main takes main on.
LEMMA MainAdvances ==
  ASSUME IInv, Compile \/ Fork \/ ForkFails \/ Reap \/ Return
  PROVE  MainPlace' > MainPlace
<1>1. current \in 1 .. 3
  BY DEF IInv, TypeOK
<1>2. CASE Compile
  BY <1>1, <1>2 DEF Compile, MainPlace, IInv, InStep, Test
<1>3. CASE Fork
  BY <1>1, <1>3 DEF Fork, MainPlace
<1>4. CASE ForkFails \/ Reap
  <2>1. /\ pc \in {"run", "wait"} /\ current \in Test
        /\ pc' = "run" /\ current' = current + 1
    BY <1>4 DEF ForkFails, Reap, Record, IInv, InStep
  <2>2. QED
    BY <1>1, <2>1 DEF MainPlace
<1>5. CASE Return
  BY <1>1, <1>5 DEF Return, MainPlace
<1>6. QED
  BY <1>2, <1>3, <1>4, <1>5

\* A step of the child, an instruction of the emitted code among them, takes the
\* child on.
LEMMA ChildAdvances ==
  ASSUME IInv, Execute \/ Helper \/ ExitChild \/ Fault \/ WaitFails
  PROVE  MainPlace' = MainPlace /\ ChildPlace' > ChildPlace
<1>1. UNCHANGED parentVars
  BY DEF Execute, Helper, ExitChild, Fault, WaitFails
<1>2. MainPlace' = MainPlace
  BY <1>1 DEF parentVars, MainPlace
<1>3. ip \in 1 .. 5
  BY DEF IInv, TypeOK
<1>4. CASE Execute
  <2>1. child = "code" /\ ((child' = "code" /\ ip' = ip + 1) \/ child' = "helper")
    BY <1>4 DEF Execute
  <2>2. QED
    BY <1>2, <1>3, <2>1 DEF ChildPlace
<1>5. CASE Helper \/ ExitChild \/ Fault \/ WaitFails
  <2>1. \/ child = "helper" /\ child' = "exit"
        \/ child \in {"code", "helper", "exit"} /\ child' = "gone"
        \/ child = "gone" /\ child' = "lost"
    BY <1>5 DEF Helper, ExitChild, Fault, WaitFails, Leave
  <2>2. QED
    BY <1>2, <1>3, <2>1 DEF ChildPlace
<1>6. QED
  BY <1>4, <1>5

\* No step of the suite goes back, those of the emitted code included.
THEOREM NothingIsDoneTwice == Spec => Advances
<1> DEFINE Further ==
      MainPlace' > MainPlace \/ (MainPlace' = MainPlace /\ ChildPlace' > ChildPlace)
<1>1. IInv /\ [Next]_vars => [Further]_vars
  BY MainAdvances, ChildAdvances DEF Next, Finished
<1>2. QED
  BY <1>1, Invariant, PTL DEF Spec, Advances
=============================================================================
