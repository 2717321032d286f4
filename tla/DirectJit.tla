----------------------------- MODULE DirectJit ------------------------------
(***************************************************************************)
(* workspace/test_cheri_direct_jit_repro.c: code generated into anonymous  *)
(* memory and called through a capability made from it.  Each case of main *)
(* is a child that maps a page, writes a small Morello program into it,    *)
(* narrows the mapping, makes the entry capability and calls it, in the    *)
(* order its variant asks for; the parent judges by the wait status.  The  *)
(* first case is a load in C, for reference.                               *)
(*                                                                         *)
(* The processor and the kernel are external.  They appear as what the     *)
(* cases tell apart: page protections, the C64 state an entry with bit 0   *)
(* set brings, tags and bounds, and instructions that are fetched stale    *)
(* when the caches were not synchronised.                                  *)
(***************************************************************************)
EXTENDS PosixProcess, Sequences, Functions

CONSTANT Cases   \* the cases of main, in order

VARIABLES
  pc,        \* where the parent is: "case", "wait" or "done"
  current,   \* the case main is at
  failures,
  exit,      \* main's return value, Running before it returns
  verdict,   \* what wait_for_child said of the last case
  supported, \* history: 1 while every pass had its evidence
  child,     \* where the child is
  prot,      \* the protection of its page
  code,      \* the instructions in the page
  synced,    \* 1 when the caches know of them
  entry,     \* the callable capability, or NoEntry
  ip, r0, r8, ne,   \* the processor while generated code runs
  status,    \* what waitpid will say
  did        \* history: what happened to the last case

parentVars == <<pc, current, failures, exit, verdict, supported>>
pageVars == <<prot, code, synced>>
cpuVars == <<ip, r0, r8, ne>>
childVars == <<child, pageVars, entry, cpuVars, status, did>>
vars == <<parentVars, childVars>>

Running == -1

\* mem[], the two words every case passes to its code, the capability to them
\* and their address without a tag.
mem == <<1111, 2222>>
MemCap == -1
MemAddress == -2
-----------------------------------------------------------------------------
(* The cases of main *)

RWX == {"R", "W", "X"}
RX == {"R", "X"}
Cap(p) == p \cup {"CAP"}

repro_variant(mmap_prot, mprotect_prot, before, sentry) ==
  [mmap_prot |-> mmap_prot, mprotect_prot |-> mprotect_prot,
   use_mprotect |-> mprotect_prot # {}, make_sentry_before_mprotect |-> before,
   use_sentry |-> sentry, use_capmode_entry |-> TRUE]

variants ==
  << repro_variant(Cap(RWX), {}, FALSE, TRUE),
     repro_variant(Cap(RWX), Cap(RX), FALSE, TRUE),
     repro_variant(Cap(RWX), Cap(RX), TRUE, TRUE),
     repro_variant(Cap({"R", "W"}), Cap(RX), FALSE, TRUE),
     repro_variant(RWX, {}, FALSE, TRUE),
     repro_variant(Cap(RWX), {}, FALSE, FALSE) >>

\* fault is what a trap case is about; it is not in the code, which only says
\* that a trap is expected.
Case(program, offset, argument, expected, expect_trap, fault, variant) ==
  [program |-> program, offset |-> offset, argument |-> argument,
   expected |-> expected, expect_trap |-> expect_trap, fault |-> fault,
   variant |-> variant]

run_const42_child(v) == Case("CONST42", 0, 0, 42, FALSE, "none", v)
run_tag_child(v) == Case("TAG_C0", 0, MemCap, 1, FALSE, "none", v)
run_len_child(v) == Case("LEN_C0", 0, MemCap, 16, FALSE, "none", v)
run_load_child(v, offset, expect_trap) ==
  Case("LOAD_C0_OFFSET", offset, MemCap, mem[2], expect_trap,
       IF expect_trap THEN "bounds" ELSE "none", v)
run_scalar_address_load_child(v) ==
  Case("LOAD_C0_OFFSET", 8, MemAddress, 0, TRUE, "tag", v)

\* The procctl settings of the second case take effect at the next exec only
\* and their failure is ignored: nothing but a load is left of it.
run_procctl_load_child(v) == run_load_child(v, 8, FALSE)

\* The reference: a load by a function of the program's own text.  It makes no
\* mapping, so nothing looks at its variant.
run_elf_text_load_child ==
  Case("ELF_TEXT", 0, MemCap, mem[2], FALSE, "none", variants[1])

VariantCases(v) ==
  << run_const42_child(v), run_tag_child(v), run_len_child(v),
     run_load_child(v, 8, FALSE), run_load_child(v, 4096, TRUE),
     run_scalar_address_load_child(v) >>

main_cases ==
  << run_elf_text_load_child,
     run_procctl_load_child(variants[2]), run_procctl_load_child(variants[2]) >>
    \o [i \in 1 .. 36 |->
          VariantCases(variants[1 + ((i - 1) \div 6)])[1 + ((i - 1) % 6)]]

\* Any protections within a mapping's, any offset, argument and result.
jit_variant ==
  [mmap_prot : SUBSET Cap(RWX), mprotect_prot : SUBSET Cap(RWX),
   use_mprotect : BOOLEAN, make_sentry_before_mprotect : BOOLEAN,
   use_sentry : BOOLEAN, use_capmode_entry : BOOLEAN]
jit_case ==
  [program : {"CONST42", "TAG_C0", "LEN_C0", "LOAD_C0_OFFSET", "ELF_TEXT"},
   offset : Nat, argument : Int, expected : Int, expect_trap : BOOLEAN,
   fault : Faults \cup {"none"}, variant : jit_variant]

ASSUME JitAssumption == Cases \in Seq(jit_case)

this == Cases[current]
variant == this.variant

NoEntry == [made |-> 0, capmode |-> FALSE, sentry |-> FALSE]
Doing(returned, value, fault, at, foreign) ==
  [returned |-> returned, value |-> value, fault |-> fault, at |-> at, foreign |-> foreign]
NothingDone == Doing(0, 0, "none", "none", 0)

Init ==
  /\ pc = "case" /\ current = 1 /\ failures = 0 /\ exit = Running
  /\ verdict = "none" /\ supported = 1
  /\ child = "none"
  /\ prot = {} /\ code = <<>> /\ synced = 0 /\ entry = NoEntry
  /\ ip = 0 /\ r0 = 0 /\ r8 = 0 /\ ne = 0
  /\ status = Alive
  /\ did = NothingDone
-----------------------------------------------------------------------------
(* The parent *)

\* The child's fresh address space; a failed fork leaves none.
FreshChild(phase) ==
  /\ child' = phase
  /\ prot' = {} /\ code' = <<>> /\ synced' = 0 /\ entry' = NoEntry
  /\ ip' = 0 /\ r0' = 0 /\ r8' = 0 /\ ne' = 0
  /\ status' = Alive
  /\ did' = NothingDone

\* What the case was about happened, as far as its exit can tell.
Justifies(c, h) ==
  IF c.expect_trap
  THEN ~(h.returned = 1 /\ h.fault = "none")
  ELSE h.returned = 1 /\ h.value = c.expected /\ h.fault = "none"

Record(result, happened) ==
  /\ verdict' = IF result = 0 THEN "pass" ELSE "fail"
  /\ supported' = IF result = 0 => Justifies(this, happened) THEN supported ELSE 0
  /\ failures' = failures + result
  /\ current' = current + 1
  /\ pc' = "case"
  /\ UNCHANGED exit

Fork ==
  /\ pc = "case" /\ current <= Len(Cases)
  /\ FreshChild("start")
  /\ pc' = "wait"
  /\ verdict' = "none"
  /\ UNCHANGED <<current, failures, exit, supported>>

\* fork returns -1, waitpid(-1) finds no child and the case fails.
ForkFails ==
  /\ pc = "case" /\ current <= Len(Cases)
  /\ FreshChild("none")
  /\ Record(1, NothingDone)

\* Mutant: every exit code of a trap case is a trap.
wait_for_child_any(expect_trap, st) ==
  IF WIFSIGNALED(st) \/ expect_trap THEN IF expect_trap THEN 0 ELSE 1
  ELSE IF st.code = 0 THEN 0 ELSE 1

wait_for_child(expect_trap, st) ==
  IF WIFSIGNALED(st) THEN IF expect_trap THEN 0 ELSE 1
  ELSE IF expect_trap THEN IF st.code = 20 THEN 1 ELSE 0
  ELSE IF st.code = 0 THEN 0 ELSE 1

\* Mutant: a case that failed is run again.
ReapAgain ==
  /\ pc = "wait" /\ child = "gone"
  /\ IF wait_for_child(this.expect_trap, status) = 0
     THEN Record(0, did)
     ELSE pc' = "case" /\ UNCHANGED <<current, failures, exit, verdict, supported>>
  /\ UNCHANGED childVars

Reap ==
  /\ pc = "wait" /\ child = "gone"
  /\ Record(wait_for_child(this.expect_trap, status), did)
  /\ UNCHANGED childVars

\* waitpid fails.
ReapFails ==
  /\ pc = "wait" /\ child = "gone"
  /\ Record(1, did)
  /\ UNCHANGED childVars

Return ==
  /\ pc = "case" /\ current > Len(Cases)
  /\ exit' = IF failures = 0 THEN 0 ELSE 1
  /\ pc' = "done"
  /\ UNCHANGED <<current, failures, verdict, supported, childVars>>
-----------------------------------------------------------------------------
(* The child: install the handler, compile_generated_program, call *)

Leave(st) == child' = "gone" /\ status' = st

\* A system call fails and the child gives up with its code.
GiveUp(n) ==
  /\ Leave(Exited(n))
  /\ did' = Doing(did.returned, did.value, did.fault, child, 1)

\* Mutant: sigprot_handler returns, and the access it interrupted is made again
\* and again.
FaultAgain(f, foreign) ==
  /\ did' = Doing(did.returned, did.value, f, child, foreign)
  /\ IF SignalOf(f) = SIGPROT /\ child # "start"
     THEN child' = "again" /\ UNCHANGED status
     ELSE Leave(Signalled(f))

\* A fault: sigprot_handler ends the child for a capability violation once it
\* is installed, the signal itself does for everything else.
Fault(f, foreign) ==
  /\ did' = Doing(did.returned, did.value, f, child, foreign)
  /\ Leave(IF SignalOf(f) = SIGPROT /\ child # "start"
           THEN Exited(IF this.expect_trap THEN 0 ELSE 31)
           ELSE Signalled(f))

install_sigprot_handler ==
  /\ child = "start"
  /\ \/ /\ child' = IF this.program = "ELF_TEXT" THEN "elf" ELSE "mmap"
        /\ UNCHANGED <<status, did>>
     \/ GiveUp(11)
  /\ UNCHANGED <<parentVars, pageVars, entry, cpuVars>>

\* elf_c_load_ref(mem).
ReferenceLoad ==
  /\ child = "elf"
  /\ did' = Doing(1, mem[2], did.fault, did.at, did.foreign)
  /\ child' = "returned"
  /\ UNCHANGED <<parentVars, pageVars, entry, cpuVars, status>>

\* The protections the mapping may ever have.
max_prot ==
  RWX \cup ((variant.mmap_prot \cup variant.mprotect_prot) \cap {"CAP"})

Mmap ==
  /\ child = "mmap"
  /\ \/ /\ variant.mmap_prot \subseteq max_prot
        /\ prot' = variant.mmap_prot /\ child' = "emit"
        /\ UNCHANGED <<status, did>>
     \/ GiveUp(10) /\ UNCHANGED prot
  /\ UNCHANGED <<parentVars, code, synced, entry, cpuVars>>

Insn(op) == [op |-> op, imm |-> 0]

\* Mutant: the byte offset goes into the instruction unscaled.
encode_ldr_unscaled(byte_offset) == [op |-> "ldr", imm |-> byte_offset]

\* ldr x0, [c0, #imm]: the immediate counts words.
encode_ldr_x0_c0_offset(byte_offset) ==
  [op |-> "ldr", imm |-> byte_offset \div 8]
Encodable(byte_offset) == byte_offset % 8 = 0 /\ byte_offset \div 8 < 4096

emit_program(program, byte_offset) ==
  CASE program = "CONST42" -> << Insn("mov42"), Insn("ret") >>
    [] program = "TAG_C0" ->
         << Insn("gctag"), Insn("cmp"), Insn("cset"), Insn("ret") >>
    [] program = "LEN_C0" -> << Insn("gclen"), Insn("ret") >>
    [] OTHER -> << encode_ldr_x0_c0_offset(byte_offset), Insn("ret") >>

\* The stores into the page need it writable; an offset that does not fit
\* ends the child with 100.
Emit ==
  /\ child = "emit"
  /\ IF this.program = "LOAD_C0_OFFSET" /\ ~Encodable(this.offset)
     THEN GiveUp(100) /\ UNCHANGED code
     ELSE IF "W" \notin prot
     THEN Fault("page", 0) /\ UNCHANGED code
     ELSE /\ code' = emit_program(this.program, this.offset)
          /\ child' = "sync"
          /\ UNCHANGED <<status, did>>
  /\ UNCHANGED <<parentVars, prot, synced, entry, cpuVars>>

ClearCache ==
  /\ child = "sync"
  /\ synced' = 1
  /\ child' = "before"
  /\ UNCHANGED <<parentVars, prot, code, entry, cpuVars, status, did>>

make_entry_cap(v) ==
  [made |-> 1, capmode |-> v.use_capmode_entry, sentry |-> v.use_sentry]

EntryBefore ==
  /\ child = "before"
  /\ entry' = IF variant.make_sentry_before_mprotect
              THEN make_entry_cap(variant) ELSE entry
  /\ child' = "mprotect"
  /\ UNCHANGED <<parentVars, pageVars, cpuVars, status, did>>

\* Mutant: the mapping keeps the protection it was made with.
MprotectNot ==
  /\ child = "mprotect"
  /\ child' = "after"
  /\ UNCHANGED <<parentVars, prot, code, synced, entry, cpuVars, status, did>>

\* The kernel refuses what PROT_MAX does not hold, and may refuse anything.
Mprotect ==
  /\ child = "mprotect"
  /\ \/ /\ ~variant.use_mprotect
        /\ child' = "after" /\ UNCHANGED <<prot, status, did>>
     \/ /\ variant.use_mprotect /\ variant.mprotect_prot \subseteq max_prot
        /\ prot' = variant.mprotect_prot
        /\ child' = "after" /\ UNCHANGED <<status, did>>
     \/ variant.use_mprotect /\ GiveUp(10) /\ UNCHANGED prot
  /\ UNCHANGED <<parentVars, code, synced, entry, cpuVars>>

\* The entry, if it was not made before, and the call.
EntryAfter ==
  /\ child = "after"
  /\ entry' = IF entry.made = 0 THEN make_entry_cap(variant) ELSE entry
  /\ ip' = 1
  /\ r0' = this.argument
  /\ child' = "run"
  /\ UNCHANGED <<parentVars, pageVars, r8, ne, status, did>>
-----------------------------------------------------------------------------
(* The processor *)

Executes(op) ==
  /\ child = "run" /\ "X" \in prot /\ ip <= Len(code) /\ code[ip].op = op
  /\ synced = 1
  /\ ip' = ip + 1
  /\ UNCHANGED <<parentVars, pageVars, entry>>

Computes ==
  /\ \/ Executes("mov42") /\ r0' = 42 /\ UNCHANGED <<r8, ne>>
     \/ Executes("gctag") /\ r8' = (IF r0 = MemCap THEN 1 ELSE 0) /\ UNCHANGED <<r0, ne>>
     \/ Executes("cmp") /\ ne' = (IF r8 # 0 THEN 1 ELSE 0) /\ UNCHANGED <<r0, r8>>
     \/ Executes("cset") /\ r0' = ne /\ UNCHANGED <<r8, ne>>
     \/ Executes("gclen") /\ r0' = 8 * Len(mem) /\ UNCHANGED <<r8, ne>>
  /\ UNCHANGED <<child, status, did>>

\* A load is relative to the capability in c0 in C64 state and to the default
\* data capability, which has no tag in a purecap process, in any other.
Loads ==
  /\ Executes("ldr")
  /\ LET offset == 8 * code[ip].imm IN
       IF ~entry.capmode \/ r0 # MemCap THEN Fault("tag", 0) /\ UNCHANGED r0
       ELSE IF offset + 8 > 8 * Len(mem) THEN Fault("bounds", 0) /\ UNCHANGED r0
       ELSE r0' = mem[code[ip].imm + 1] /\ UNCHANGED <<child, status, did>>
  /\ UNCHANGED <<r8, ne>>

Returns ==
  /\ Executes("ret")
  /\ did' = Doing(1, r0, did.fault, did.at, did.foreign)
  /\ child' = "returned"
  /\ UNCHANGED <<r0, r8, ne, status>>

\* Code that cannot be fetched, or that the processor fetches stale.
FetchFaults ==
  /\ child = "run"
  /\ "X" \notin prot \/ synced = 0
  /\ Fault(IF "X" \notin prot THEN "page" ELSE "kill", 0)
  /\ UNCHANGED <<parentVars, pageVars, entry, cpuVars>>

\* The code of a call that came back.
ExitChild ==
  /\ child = "returned"
  /\ Leave(Exited(IF this.expect_trap THEN 20
                  ELSE IF did.value = this.expected THEN 0 ELSE 21))
  /\ UNCHANGED <<parentVars, pageVars, entry, cpuVars, did>>

\* A fault that is not the generated code's: in the C library, a kill.
ForeignFault ==
  /\ child \notin {"none", "gone"}
  /\ \E f \in Faults : Fault(f, 1)
  /\ UNCHANGED <<parentVars, pageVars, entry, cpuVars>>
-----------------------------------------------------------------------------
Parent == Fork \/ ForkFails \/ Reap \/ ReapFails \/ Return

ChildRuns ==
  \/ install_sigprot_handler \/ ReferenceLoad
  \/ Mmap \/ Emit \/ ClearCache \/ EntryBefore \/ Mprotect \/ EntryAfter
  \/ Computes \/ Loads \/ Returns \/ FetchFaults \/ ExitChild
Child == ChildRuns \/ ForeignFault

Finished == pc = "done" /\ UNCHANGED vars

Next == Parent \/ Child \/ Finished

Spec == Init /\ [][Next]_vars

\* Both processes are scheduled, and generated code has no loops; nothing foreign
\* is relied on.
FairSpec == Spec /\ WF_vars(Parent) /\ WF_vars(ChildRuns)
-----------------------------------------------------------------------------
TypeOK ==
  /\ pc \in {"case", "wait", "done"}
  /\ current \in 1 .. Len(Cases) + 1
  /\ failures \in 0 .. current - 1
  /\ exit \in {Running, 0, 1}
  /\ verdict \in {"none", "pass", "fail"}
  /\ prot \subseteq Cap(RWX)
  /\ ip <= Len(code) + 1
  /\ status \in Status

\* Whether the current case is one of main's.
IsMains == this \in Range(main_cases)

\* When generated code of main starts to run everything it stands on is in place:
\* complete, synchronised, in a page that can be executed and, where the
\* variant narrows the mapping, no longer written, entered in C64 state.
EntryReady ==
  child = "run" /\ IsMains =>
    /\ code # <<>> /\ synced = 1
    /\ "X" \in prot
    /\ variant.use_mprotect => "W" \notin prot
    /\ entry.made = 1 /\ entry.capmode

\* Every variant works: a case nothing foreign disturbed ends as it should, a
\* load with its value and a trap with the violation it is about, raised by
\* the generated code.
VariantsWork ==
  child = "gone" /\ did.foreign = 0 /\ pc = "wait" /\ IsMains =>
    /\ did.fault = this.fault
    /\ this.expect_trap => did.at = "run"
    /\ ~this.expect_trap => did.returned = 1 /\ did.value = this.expected
    /\ wait_for_child(this.expect_trap, status) = 0

\* main returns 0 only when no control failed and no access that had to trap
\* returned to a child that lived to say so.
SuiteSound == exit = 0 => supported = 1

\* main returns: waitpid has no timeout, so every child must come to an end, the
\* one whose access traps through the _exit of sigprot_handler.
MainReturns == <>(pc = "done")

\* How far main is in its cases, and the child on its way to the call and back.
MainPlace == 2 * current + (IF pc = "case" THEN 0 ELSE 1)
ChildPlace ==
  CASE child = "start" -> 1
    [] child \in {"elf", "mmap"} -> 2
    [] child = "emit" -> 3
    [] child = "sync" -> 4
    [] child = "before" -> 5
    [] child = "mprotect" -> 6
    [] child = "after" -> 7
    [] child = "run" -> 8
    [] child = "returned" -> 9
    [] child = "gone" -> 10
    [] OTHER -> 0

\* Every step takes main further, or the child where main waits, or the processor
\* in the generated code: what sigprot_handler interrupted is not tried again, no
\* instruction runs twice, and a run of the repro has an end.
Advances ==
  [][\/ MainPlace' > MainPlace
     \/ MainPlace' = MainPlace /\ ChildPlace' > ChildPlace
     \/ MainPlace' = MainPlace /\ ChildPlace' = ChildPlace /\ ip' > ip]_vars

\* Where the child is, and what it has done so far.
InStep ==
  /\ pc = "wait" => current <= Len(Cases)
  /\ child \notin {"none", "gone"} => pc = "wait"
  /\ child \notin {"returned", "gone"} => did.returned = 0 /\ did.fault = "none"
  /\ child = "returned" => did.returned = 1 /\ did.fault = "none"

\* What the page and the entry have become on the way to the call.
PageReady ==
  /\ child \in {"sync", "before", "mprotect", "after", "run"} => code # <<>>
  /\ child \in {"before", "mprotect", "after", "run"} => synced = 1
  /\ child \in {"emit", "sync", "before", "mprotect"} => prot = variant.mmap_prot
  /\ child \in {"after", "run"} =>
       prot = IF variant.use_mprotect THEN variant.mprotect_prot ELSE variant.mmap_prot
  /\ child \in {"start", "mmap", "emit", "sync", "before"} => entry.made = 0
  /\ child \in {"mprotect", "after"} =>
       entry.made = 0 \/ entry = make_entry_cap(variant)
  /\ child = "run" => entry = make_entry_cap(variant)

\* A child whose end will pass its case has done what the case is about.
StatusTrue ==
  child = "gone" /\ pc = "wait" /\ wait_for_child(this.expect_trap, status) = 0
    => Justifies(this, did)

CodeInv == InStep /\ PageReady /\ StatusTrue /\ supported = 1

\* What TypeOK rests on: the instruction pointer is set when the call is made.
FetchInStep ==
  /\ ip \in Nat /\ Len(code) \in Nat
  /\ child \notin {"run", "returned", "gone"} => ip = 0

JitInv == TypeOK /\ FetchInStep /\ CodeInv

\* What VariantsWork rests on: how far the generated code of a case of main is,
\* and what it has in its registers.
Computed ==
  /\ this.program = "CONST42" => ip = 1 \/ (ip = 2 /\ r0 = 42)
  /\ this.program = "TAG_C0" =>
       \/ ip = 1 /\ r0 = MemCap
       \/ ip = 2 /\ r8 = 1
       \/ ip = 3 /\ ne = 1
       \/ ip = 4 /\ r0 = 1
  /\ this.program = "LEN_C0" => ip = 1 \/ (ip = 2 /\ r0 = 16)
  /\ this.program = "LOAD_C0_OFFSET" =>
       \/ ip = 1 /\ r0 = this.argument
       \/ ip = 2 /\ r0 = this.expected /\ ~this.expect_trap

AsMeant ==
  pc = "wait" /\ IsMains =>
    /\ child # "gone" => did.foreign = 0
    /\ child = "elf" => this.program = "ELF_TEXT"
    /\ child \in {"mmap", "emit", "sync", "before", "mprotect", "after", "run"} =>
         this.program # "ELF_TEXT"
    /\ child \in {"sync", "before", "mprotect", "after", "run"} =>
         code = emit_program(this.program, this.offset)
    /\ child = "run" => Computed
    /\ child = "returned" => ~this.expect_trap /\ did.value = this.expected

\* docs/cheri_direct_jit_repro.md:53 and :55: out-of-bounds loads trap with
\* PROT_CHERI_BOUNDS, scalar addresses with PROT_CHERI_TAG, and the repro "now
\* passes".  A pass does not show it: wait_for_child fails a trap case for exit
\* code 20 only, so a child whose mmap failed passes it as well.
PassIsTheTrap ==
  verdict = "pass" /\ Cases[current - 1].expect_trap
    => did.fault = Cases[current - 1].fault
=============================================================================
