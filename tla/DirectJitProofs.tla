--------------------------- MODULE DirectJitProofs ---------------------------
(***************************************************************************)
(* Proofs about DirectJit, for any sequence of cases.  The page and the    *)
(* entry of a child are what its variant makes of them at every place, and *)
(* the exit code of a child tells main what it takes it to tell.           *)
(***************************************************************************)
EXTENDS DirectJit, SequenceTheorems, TLAPS

-----------------------------------------------------------------------------
(* The cases of main *)

LEMMA FunctionSeq ==
  ASSUME NEW S, NEW n \in Nat, NEW t \in [1 .. n -> S]
  PROVE  t \in Seq(S)
OBVIOUS

\* Every variant enters in C64 state, is writable while its code is emitted, ends
\* up executable, and is not writable any more where it calls mprotect.
LEMMA VariantsRight ==
  ASSUME NEW n \in 1 .. 6
  PROVE  /\ variants[n].use_capmode_entry
         /\ "W" \in variants[n].mmap_prot
         /\ "X" \in (IF variants[n].use_mprotect THEN variants[n].mprotect_prot
                     ELSE variants[n].mmap_prot)
         /\ variants[n].use_mprotect => "W" \notin variants[n].mprotect_prot
<1>1. n = 1 \/ n = 2 \/ n = 3 \/ n = 4 \/ n = 5 \/ n = 6
  OBVIOUS
<1> DEFINE Right(v) ==
      /\ v.use_capmode_entry
      /\ "W" \in v.mmap_prot
      /\ "X" \in (IF v.use_mprotect THEN v.mprotect_prot ELSE v.mmap_prot)
      /\ v.use_mprotect => "W" \notin v.mprotect_prot
<1>2. Right(repro_variant(Cap(RWX), {}, FALSE, TRUE))
  BY DEF repro_variant, Cap, RWX
<1>3. Right(repro_variant(Cap(RWX), Cap(RX), FALSE, TRUE))
  BY DEF repro_variant, Cap, RX, RWX
<1>4. Right(repro_variant(Cap(RWX), Cap(RX), TRUE, TRUE))
  BY DEF repro_variant, Cap, RX, RWX
<1>5. Right(repro_variant(Cap({"R", "W"}), Cap(RX), FALSE, TRUE))
  BY DEF repro_variant, Cap, RX
<1>6. Right(repro_variant(RWX, {}, FALSE, TRUE))
  BY DEF repro_variant, RWX
<1>7. Right(repro_variant(Cap(RWX), {}, FALSE, FALSE))
  BY DEF repro_variant, Cap, RWX
<1> HIDE DEF Right
<1>8. Right(variants[n])
  <2>1. /\ variants[1] = repro_variant(Cap(RWX), {}, FALSE, TRUE)
        /\ variants[2] = repro_variant(Cap(RWX), Cap(RX), FALSE, TRUE)
        /\ variants[3] = repro_variant(Cap(RWX), Cap(RX), TRUE, TRUE)
        /\ variants[4] = repro_variant(Cap({"R", "W"}), Cap(RX), FALSE, TRUE)
        /\ variants[5] = repro_variant(RWX, {}, FALSE, TRUE)
        /\ variants[6] = repro_variant(Cap(RWX), {}, FALSE, FALSE)
    BY DEF variants
  <2>2. Right(variants[1]) /\ Right(variants[2]) /\ Right(variants[3])
        /\ Right(variants[4]) /\ Right(variants[5]) /\ Right(variants[6])
    BY <2>1, <1>2, <1>3, <1>4, <1>5, <1>6, <1>7
  <2>3. QED
    BY <2>2, <1>1
<1>9. QED
  BY <1>8 DEF Right

\* The cases of a variant have that variant.
LEMMA VariantCasesOf ==
  ASSUME NEW v, NEW m \in 1 .. 6
  PROVE  VariantCases(v)[m].variant = v
<1>1. m = 1 \/ m = 2 \/ m = 3 \/ m = 4 \/ m = 5 \/ m = 6
  OBVIOUS
<1>2. VariantCases(v)[1].variant = v
  BY DEF VariantCases, run_const42_child, Case
<1>3. VariantCases(v)[2].variant = v
  BY DEF VariantCases, run_tag_child, Case
<1>4. VariantCases(v)[3].variant = v
  BY DEF VariantCases, run_len_child, Case
<1>5. VariantCases(v)[4].variant = v
  BY DEF VariantCases, run_load_child, Case
<1>6. VariantCases(v)[5].variant = v
  BY DEF VariantCases, run_load_child, Case
<1>7. VariantCases(v)[6].variant = v
  BY DEF VariantCases, run_scalar_address_load_child, Case
<1> DEFINE p(i) == VariantCases(v)[i].variant
<1>8. p(1) = v /\ p(2) = v /\ p(3) = v /\ p(4) = v /\ p(5) = v /\ p(6) = v
  BY <1>2, <1>3, <1>4, <1>5, <1>6, <1>7
<1> HIDE DEF p
<1>9. p(m) = v
  BY <1>1, <1>8
<1>10. QED
  BY <1>9 DEF p

\* Every case of main is the reference or one of the six cases of a variant.
LEMMA MainsShape ==
  ASSUME NEW c \in Range(main_cases)
  PROVE  \/ c = run_elf_text_load_child
         \/ \E n, m \in 1 .. 6 : c = VariantCases(variants[n])[m]
<1> DEFINE elf == run_elf_text_load_child
           first == run_procctl_load_child(variants[2])
           tail == [i \in 1 .. 36 |->
                      VariantCases(variants[1 + ((i - 1) \div 6)])[1 + ((i - 1) % 6)]]
<1>1. main_cases = <<elf, first, first>> \o tail
  BY DEF main_cases
<1>2. first = VariantCases(variants[2])[4]
  BY DEF run_procctl_load_child, VariantCases
<1>3. \E n, m \in 1 .. 6 : first = VariantCases(variants[n])[m]
  <2> HIDE DEF first
  <2>1. 2 \in 1 .. 6 /\ 4 \in 1 .. 6
    OBVIOUS
  <2>2. QED
    BY <1>2, <2>1
<1>4. ASSUME NEW i \in 1 .. 36
      PROVE  \E n, m \in 1 .. 6 : tail[i] = VariantCases(variants[n])[m]
  <2>1. (i - 1) \div 6 \in 0 .. 5 /\ (i - 1) % 6 \in 0 .. 5
    <3>1. i - 1 \in Int /\ 0 <= i - 1 /\ i - 1 <= 35
      OBVIOUS
    <3>2. QED
      BY <3>1, SMTT(30)
  <2>2. 1 + ((i - 1) \div 6) \in 1 .. 6 /\ 1 + ((i - 1) % 6) \in 1 .. 6
    BY <2>1
  <2> DEFINE n == 1 + ((i - 1) \div 6)
             m == 1 + ((i - 1) % 6)
  <2>3. tail[i] = VariantCases(variants[n])[m] /\ n \in 1 .. 6 /\ m \in 1 .. 6
    BY <2>2
  <2> HIDE DEF n, m, tail
  <2>4. QED
    BY <2>3
<1>5. tail = [i \in 1 .. 36 |-> tail[i]]
  OBVIOUS
<1> HIDE DEF elf, first, tail
<1> DEFINE Shaped(x) == \/ x = elf
                        \/ \E n, m \in 1 .. 6 : x = VariantCases(variants[n])[m]
           S == {x \in {elf, first} \cup {tail[i] : i \in 1 .. 36} : Shaped(x)}
<1>a. Shaped(elf) /\ Shaped(first) /\ \A i \in 1 .. 36 : Shaped(tail[i])
  BY <1>3, <1>4
<1> HIDE DEF Shaped
<1>6. elf \in S /\ first \in S /\ \A i \in 1 .. 36 : tail[i] \in S
  BY <1>a
<1>7. \A x \in S : Shaped(x)
  OBVIOUS
<1> HIDE DEF S
<1>8. tail \in Seq(S)
  <2>1. tail \in [1 .. 36 -> S]
    BY <1>5, <1>6
  <2>2. 36 \in Nat
    OBVIOUS
  <2>3. QED
    BY <2>1, <2>2, FunctionSeq
<1>9. <<elf, first, first>> \in Seq(S)
  BY <1>6
<1>10. main_cases \in Seq(S)
  BY <1>1, <1>8, <1>9, ConcatProperties
<1>11. PICK j \in DOMAIN main_cases : c = main_cases[j]
  BY DEF Range
<1>12. c \in S
  BY <1>10, <1>11
<1>13. QED
  BY <1>7, <1>12 DEF Shaped, elf

LEMMA MainsVariants ==
  ASSUME NEW c \in Range(main_cases)
  PROVE  \E n \in 1 .. 6 : c.variant = variants[n]
<1>1. CASE c = run_elf_text_load_child
  <2>1. run_elf_text_load_child.variant = variants[1]
    BY DEF run_elf_text_load_child, Case
  <2>2. QED
    BY <1>1, <2>1
<1>2. CASE \E n, m \in 1 .. 6 : c = VariantCases(variants[n])[m]
  BY <1>2, VariantCasesOf
<1>3. QED
  BY <1>1, <1>2, MainsShape

\* The fields of a case, without its variant.
Fields(c, program, offset, argument, expected, expect_trap, fault) ==
  /\ c.program = program /\ c.offset = offset /\ c.argument = argument
  /\ c.expected = expected /\ c.expect_trap = expect_trap /\ c.fault = fault

\* The functions main calls, by what they ask for.
Kind(c) ==
  \/ Fields(c, "CONST42", 0, 0, 42, FALSE, "none")
  \/ Fields(c, "TAG_C0", 0, MemCap, 1, FALSE, "none")
  \/ Fields(c, "LEN_C0", 0, MemCap, 16, FALSE, "none")
  \/ Fields(c, "LOAD_C0_OFFSET", 8, MemCap, mem[2], FALSE, "none")
  \/ Fields(c, "LOAD_C0_OFFSET", 4096, MemCap, mem[2], TRUE, "bounds")
  \/ Fields(c, "LOAD_C0_OFFSET", 8, MemAddress, 0, TRUE, "tag")
  \/ Fields(c, "ELF_TEXT", 0, MemCap, mem[2], FALSE, "none")

LEMMA VariantCasesKind ==
  ASSUME NEW v, NEW m \in 1 .. 6
  PROVE  Kind(VariantCases(v)[m])
<1>1. m = 1 \/ m = 2 \/ m = 3 \/ m = 4 \/ m = 5 \/ m = 6
  OBVIOUS
<1>2. Kind(VariantCases(v)[1])
  BY DEF VariantCases, run_const42_child, Case, Kind, Fields
<1>3. Kind(VariantCases(v)[2])
  BY DEF VariantCases, run_tag_child, Case, Kind, Fields
<1>4. Kind(VariantCases(v)[3])
  BY DEF VariantCases, run_len_child, Case, Kind, Fields
<1>5. Kind(VariantCases(v)[4])
  BY DEF VariantCases, run_load_child, Case, Kind, Fields
<1>6. Kind(VariantCases(v)[5])
  BY DEF VariantCases, run_load_child, Case, Kind, Fields
<1>7. Kind(VariantCases(v)[6])
  BY DEF VariantCases, run_scalar_address_load_child, Case, Kind, Fields
<1> DEFINE p(i) == VariantCases(v)[i]
<1>8. Kind(p(1)) /\ Kind(p(2)) /\ Kind(p(3)) /\ Kind(p(4)) /\ Kind(p(5)) /\ Kind(p(6))
  BY <1>2, <1>3, <1>4, <1>5, <1>6, <1>7
<1> HIDE DEF p
<1>9. Kind(p(m))
  BY <1>1, <1>8
<1>10. QED
  BY <1>9 DEF p

LEMMA MainsKinds ==
  ASSUME NEW c \in Range(main_cases)
  PROVE  Kind(c)
<1>1. Kind(run_elf_text_load_child)
  BY DEF run_elf_text_load_child, Case, Kind, Fields
<1>2. QED
  BY <1>1, MainsShape, VariantCasesKind
-----------------------------------------------------------------------------
(* The child *)

\* A child of main that is ready to run is ready in the sense of EntryReady.
LEMMA ReadyToRun ==
  ASSUME PageReady
  PROVE  EntryReady
<1>1. SUFFICES ASSUME child = "run", IsMains
               PROVE  /\ code # <<>> /\ synced = 1
                      /\ "X" \in prot
                      /\ variant.use_mprotect => "W" \notin prot
                      /\ entry.made = 1 /\ entry.capmode
  BY DEF EntryReady
<1>2. this \in Range(main_cases)
  BY <1>1 DEF IsMains
<1>3. PICK n \in 1 .. 6 : variant = variants[n]
  BY <1>2, MainsVariants DEF variant
<1>4. /\ variant.use_capmode_entry
      /\ "X" \in (IF variant.use_mprotect THEN variant.mprotect_prot ELSE variant.mmap_prot)
      /\ variant.use_mprotect => "W" \notin variant.mprotect_prot
  BY <1>3, VariantsRight
<1>5. /\ code # <<>> /\ synced = 1 /\ entry = make_entry_cap(variant)
      /\ prot = IF variant.use_mprotect THEN variant.mprotect_prot ELSE variant.mmap_prot
  BY <1>1 DEF PageReady
<1>6. entry.made = 1 /\ entry.capmode = variant.use_capmode_entry
  BY <1>5 DEF make_entry_cap
<1>7. QED
  BY <1>4, <1>5, <1>6

\* A child that leaves with a status that is no false witness.
LEMMA LeaveInv ==
  ASSUME CodeInv, child \notin {"none", "gone"}, UNCHANGED parentVars,
         NEW st, Leave(st),
         wait_for_child(this.expect_trap, st) = 0 => Justifies(this, did')
  PROVE  CodeInv'
<1>1. child' = "gone" /\ status' = st /\ pc' = pc /\ current' = current /\ supported' = supported
      /\ this' = this /\ pc = "wait"
  BY DEF Leave, parentVars, CodeInv, InStep, this
<1>2. InStep' /\ PageReady'
  BY <1>1 DEF CodeInv, InStep, PageReady
<1>3. StatusTrue'
  BY <1>1 DEF StatusTrue
<1>4. QED
  BY <1>1, <1>2, <1>3 DEF CodeInv

\* The verdicts of a failing code and of the end of a call that was not made.
LEMMA GiveUpInv ==
  ASSUME CodeInv, child \notin {"none", "gone", "returned"}, UNCHANGED parentVars,
         NEW n \in {10, 11, 100}, GiveUp(n)
  PROVE  CodeInv'
<1>1. did.returned = 0
  BY DEF CodeInv, InStep
<1>2. did'.returned = 0
  BY <1>1 DEF GiveUp, Doing
<1>3. Leave(Exited(n))
  BY DEF GiveUp
<1>4. wait_for_child(this.expect_trap, Exited(n)) = 0 => this.expect_trap
  BY DEF wait_for_child, Exited, WIFSIGNALED
<1>5. wait_for_child(this.expect_trap, Exited(n)) = 0 => Justifies(this, did')
  BY <1>2, <1>4 DEF Justifies
<1>6. QED
  BY <1>3, <1>5, LeaveInv

LEMMA FaultInv ==
  ASSUME CodeInv, child \notin {"none", "gone"}, UNCHANGED parentVars,
         NEW f \in Faults, NEW foreign, Fault(f, foreign)
  PROVE  CodeInv'
<1> DEFINE st == IF SignalOf(f) = SIGPROT /\ child # "start"
                 THEN Exited(IF this.expect_trap THEN 0 ELSE 31) ELSE Signalled(f)
<1>1. did'.fault = f /\ f # "none"
  BY DEF Fault, Doing, Faults, CapabilityFaults
<1>2. Leave(st)
  BY DEF Fault
<1>3. wait_for_child(this.expect_trap, st) = 0 => this.expect_trap
  BY DEF wait_for_child, Exited, Signalled, WIFSIGNALED
<1>4. wait_for_child(this.expect_trap, st) = 0 => Justifies(this, did')
  BY <1>1, <1>3 DEF Justifies
<1> HIDE DEF st
<1>5. QED
  BY <1>2, <1>4, LeaveInv

\* A step of the child that goes on to its next place.
LEMMA GoesOn ==
  ASSUME CodeInv, child \notin {"none", "gone"}, UNCHANGED <<parentVars, status>>,
         child' \in {"elf", "mmap", "emit", "sync", "before", "mprotect", "after",
                     "run"},
         child # "returned", UNCHANGED did, PageReady'
  PROVE  CodeInv'
<1>1. pc' = pc /\ current' = current /\ supported' = supported /\ pc = "wait"
  BY DEF parentVars, CodeInv, InStep
<1>2. InStep'
  BY <1>1 DEF CodeInv, InStep
<1>3. StatusTrue'
  BY DEF StatusTrue
<1>4. QED
  BY <1>1, <1>2, <1>3 DEF CodeInv

\* The steps before the call.
LEMMA PreparesInv ==
  ASSUME CodeInv,
         \/ install_sigprot_handler \/ Mmap \/ Emit \/ ClearCache \/ EntryBefore
         \/ Mprotect \/ EntryAfter
  PROVE  CodeInv'
<1>1. PageReady
  BY DEF CodeInv
<1>2. UNCHANGED current => variant' = variant
  BY DEF variant, this
<1>3. CASE install_sigprot_handler
  <2>1. CASE child' \in {"elf", "mmap"} /\ UNCHANGED <<status, did>>
    <3>1. PageReady'
      BY <1>1, <1>3, <2>1 DEF install_sigprot_handler, PageReady, pageVars, parentVars
    <3>2. QED
      BY <1>3, <2>1, <3>1, GoesOn DEF install_sigprot_handler
  <2>2. QED
    BY <1>3, <2>1, GiveUpInv DEF install_sigprot_handler
<1>4. CASE Mmap
  <2>1. CASE /\ prot' = variant.mmap_prot /\ child' = "emit"
             /\ UNCHANGED <<status, did>>
    <3>1. PageReady'
      BY <1>1, <1>2, <1>4, <2>1 DEF Mmap, PageReady, parentVars
    <3>2. QED
      BY <1>4, <2>1, <3>1, GoesOn DEF Mmap
  <2>2. QED
    BY <1>4, <2>1, GiveUpInv DEF Mmap
<1>5. CASE Emit
  <2>1. CASE /\ code' = emit_program(this.program, this.offset)
             /\ child' = "sync" /\ UNCHANGED <<status, did>>
    <3>1. code' # <<>>
      BY <2>1 DEF emit_program
    <3>2. PageReady'
      BY <1>1, <1>2, <1>5, <2>1, <3>1 DEF Emit, PageReady, parentVars
    <3>3. QED
      BY <1>5, <2>1, <3>2, GoesOn DEF Emit
  <2>2. QED
    BY <1>5, <2>1, GiveUpInv, FaultInv DEF Emit, Faults, CapabilityFaults
<1>6. CASE ClearCache
  <2>1. PageReady'
    BY <1>1, <1>2, <1>6 DEF ClearCache, PageReady, parentVars
  <2>2. QED
    BY <1>6, <2>1, GoesOn DEF ClearCache
<1>7. CASE EntryBefore
  <2>1. PageReady'
    BY <1>1, <1>2, <1>7 DEF EntryBefore, PageReady, parentVars, pageVars, make_entry_cap
  <2>2. QED
    BY <1>7, <2>1, GoesOn DEF EntryBefore
<1>8. CASE Mprotect
  <2>1. CASE /\ child' = "after" /\ UNCHANGED <<status, did>>
             /\ prot' = IF variant.use_mprotect THEN variant.mprotect_prot ELSE prot
    <3>1. PageReady'
      BY <1>1, <1>2, <1>8, <2>1 DEF Mprotect, PageReady, parentVars, make_entry_cap
    <3>2. QED
      BY <1>8, <2>1, <3>1, GoesOn DEF Mprotect
  <2>2. QED
    BY <1>8, <2>1, GiveUpInv DEF Mprotect
<1>9. CASE EntryAfter
  <2>1. PageReady'
    BY <1>1, <1>2, <1>9 DEF EntryAfter, PageReady, parentVars, pageVars, make_entry_cap
  <2>2. QED
    BY <1>9, <2>1, GoesOn DEF EntryAfter
<1>10. QED
  BY <1>3, <1>4, <1>5, <1>6, <1>7, <1>8, <1>9

\* The call.
LEMMA CallInv ==
  ASSUME CodeInv,
         \/ ReferenceLoad \/ Computes \/ Loads \/ Returns \/ FetchFaults
         \/ ExitChild \/ ForeignFault
  PROVE  CodeInv'
<1>1. UNCHANGED current => variant' = variant
  BY DEF variant, this
<1>2. UNCHANGED <<parentVars, pageVars, entry, child>> => PageReady'
  BY <1>1 DEF CodeInv, PageReady, parentVars, pageVars
<1>3. CASE Computes
  <2>1. child = "run" /\ UNCHANGED <<parentVars, pageVars, entry, child, status, did>>
    BY <1>3 DEF Computes, Executes
  <2>2. QED
    BY <1>2, <2>1, GoesOn
<1>4. CASE Loads
  <2>1. child = "run" /\ UNCHANGED <<parentVars, pageVars, entry>>
    BY <1>4 DEF Loads, Executes
  <2>2. CASE UNCHANGED <<child, status, did>>
    BY <1>2, <2>1, <2>2, GoesOn
  <2>3. CASE Fault("tag", 0) \/ Fault("bounds", 0)
    BY <2>1, <2>3, FaultInv DEF Faults, CapabilityFaults
  <2>4. QED
    BY <1>4, <2>2, <2>3 DEF Loads
<1>5. CASE Returns
  <2>1. /\ child = "run" /\ child' = "returned" /\ pc' = pc /\ current' = current
        /\ supported' = supported
        /\ did' = Doing(1, r0, did.fault, did.at, did.foreign)
    BY <1>5 DEF Returns, Executes, parentVars
  <2>2. did'.returned = 1 /\ did'.fault = did.fault
    BY <2>1 DEF Doing
  <2>3. QED
    BY <2>1, <2>2 DEF CodeInv, InStep, PageReady, StatusTrue
<1>5a. CASE ReferenceLoad
  <2>1. /\ child = "elf" /\ child' = "returned" /\ pc' = pc /\ current' = current
        /\ supported' = supported
        /\ did' = Doing(1, mem[2], did.fault, did.at, did.foreign)
    BY <1>5a DEF ReferenceLoad, parentVars
  <2>2. did'.returned = 1 /\ did'.fault = did.fault
    BY <2>1 DEF Doing
  <2>3. QED
    BY <2>1, <2>2 DEF CodeInv, InStep, PageReady, StatusTrue
<1>6. CASE FetchFaults
  <2>1. PICK f \in Faults : Fault(f, 0)
    BY <1>6 DEF FetchFaults, Faults, CapabilityFaults
  <2>2. QED
    BY <1>6, <2>1, FaultInv DEF FetchFaults
<1>7. CASE ExitChild
  <2>1. /\ did' = did /\ child = "returned" /\ UNCHANGED parentVars
        /\ Leave(Exited(IF this.expect_trap THEN 20
                        ELSE IF did.value = this.expected THEN 0 ELSE 21))
        /\ did.returned = 1 /\ did.fault = "none"
    BY <1>7 DEF ExitChild, CodeInv, InStep
  <2>2. CASE this.expect_trap
    <3>1. wait_for_child(this.expect_trap, Exited(20)) # 0
      BY <2>2 DEF wait_for_child, Exited, WIFSIGNALED
    <3>2. QED
      BY <2>1, <2>2, <3>1, LeaveInv
  <2>3. CASE ~this.expect_trap /\ did.value = this.expected
    <3>1. Justifies(this, did')
      BY <2>1, <2>3 DEF Justifies
    <3>2. QED
      BY <2>1, <2>3, <3>1, LeaveInv
  <2>4. CASE ~this.expect_trap /\ did.value # this.expected
    <3>1. wait_for_child(this.expect_trap, Exited(21)) # 0
      BY <2>4 DEF wait_for_child, Exited, WIFSIGNALED
    <3>2. QED
      BY <2>1, <2>4, <3>1, LeaveInv
  <2>5. QED
    BY <2>2, <2>3, <2>4
<1>8. CASE ForeignFault
  BY <1>8, FaultInv DEF ForeignFault
<1>9. QED
  BY <1>3, <1>4, <1>5, <1>5a, <1>6, <1>7, <1>8
-----------------------------------------------------------------------------
(* The parent *)

\* A result is recorded; a pass had its evidence.
LEMMA RecordInv ==
  ASSUME CodeInv, NEW result, NEW happened, Record(result, happened),
         result = 0 => Justifies(this, happened),
         child' = "gone"
  PROVE  CodeInv'
<1>1. supported' = 1 /\ pc' = "case"
  BY DEF Record, CodeInv
<1>2. QED
  BY <1>1 DEF CodeInv, InStep, PageReady, StatusTrue

LEMMA ParentInv ==
  ASSUME CodeInv, Parent
  PROVE  CodeInv'
<1>1. CASE Fork
  <2>1. /\ pc' = "wait" /\ child' = "start" /\ entry'.made = 0
        /\ did'.returned = 0 /\ did'.fault = "none"
        /\ UNCHANGED <<current, supported>> /\ current <= Len(Cases)
    BY <1>1 DEF Fork, FreshChild, NoEntry, NothingDone, Doing
  <2>2. QED
    BY <2>1 DEF CodeInv, InStep, PageReady, StatusTrue
<1>2. CASE ForkFails
  <2>1. /\ pc' = "case" /\ child' = "none" /\ supported' = supported
        /\ did'.returned = 0 /\ did'.fault = "none"
    BY <1>2 DEF ForkFails, FreshChild, NothingDone, Doing, Record
  <2>2. QED
    BY <2>1 DEF CodeInv, InStep, PageReady, StatusTrue
<1>3. CASE Reap
  <2>1. wait_for_child(this.expect_trap, status) = 0 => Justifies(this, did)
    BY <1>3 DEF Reap, CodeInv, StatusTrue
  <2>2. QED
    BY <1>3, <2>1, RecordInv DEF Reap, childVars
<1>4. CASE ReapFails
  BY <1>4, RecordInv DEF ReapFails, childVars
<1>5. CASE Return
  <2>1. UNCHANGED <<current, supported, childVars>> /\ pc = "case" /\ pc' = "done"
    BY <1>5 DEF Return
  <2>2. QED
    BY <2>1 DEF CodeInv, InStep, PageReady, StatusTrue, childVars, pageVars, variant, this
<1>6. QED
  BY <1>1, <1>2, <1>3, <1>4, <1>5 DEF Parent
-----------------------------------------------------------------------------
LEMMA JitInitial == Init => CodeInv
BY DEF Init, CodeInv, InStep, PageReady, StatusTrue, NoEntry, NothingDone, Doing

LEMMA JitInductive == CodeInv /\ [Next]_vars => CodeInv'
<1>1. SUFFICES ASSUME CodeInv, [Next]_vars PROVE CodeInv'
  OBVIOUS
<1>2. CASE Parent
  BY <1>1, <1>2, ParentInv
<1>3. CASE Child
  BY <1>1, <1>3, PreparesInv, CallInv DEF Child, ChildRuns
<1>4. CASE UNCHANGED vars
  BY <1>1, <1>4 DEF vars, parentVars, childVars, pageVars, CodeInv, InStep, PageReady,
     StatusTrue, variant, this
<1>5. QED
  BY <1>1, <1>2, <1>3, <1>4 DEF Next, Finished

\* The part of the inductive invariant that is not about types.
LEMMA CodeSafe == Spec => []CodeInv
BY JitInitial, JitInductive, PTL DEF Spec

\* When generated code of a case of main starts to run, it is complete, known to the
\* caches, in a page that can be executed and is no longer written, and entered in
\* C64 state: the order of compile_generated_program in every variant.
THEOREM JitEntryReady == Spec => []EntryReady
<1>1. CodeInv => EntryReady
  BY ReadyToRun DEF CodeInv
<1>2. QED
  BY <1>1, CodeSafe, PTL

\* main returns 0 only when every control had its value and no access that had to
\* trap returned to a child that lived to say so.
THEOREM JitSuiteSound == Spec => []SuiteSound
<1>1. CodeInv => SuiteSound
  BY DEF CodeInv, SuiteSound
<1>2. QED
  BY <1>1, CodeSafe, PTL

-----------------------------------------------------------------------------
(* Every variant works *)

\* What is emitted for each program, instruction by instruction.
LEMMA EmittedCode ==
  ASSUME NEW o
  PROVE  /\ emit_program("CONST42", o)[1].op = "mov42"
         /\ emit_program("CONST42", o)[2].op = "ret"
         /\ emit_program("TAG_C0", o)[1].op = "gctag"
         /\ emit_program("TAG_C0", o)[2].op = "cmp"
         /\ emit_program("TAG_C0", o)[3].op = "cset"
         /\ emit_program("TAG_C0", o)[4].op = "ret"
         /\ emit_program("LEN_C0", o)[1].op = "gclen"
         /\ emit_program("LEN_C0", o)[2].op = "ret"
         /\ emit_program("LOAD_C0_OFFSET", o)[1] = encode_ldr_x0_c0_offset(o)
         /\ emit_program("LOAD_C0_OFFSET", o)[2].op = "ret"
<1>1. /\ emit_program("CONST42", o) = << Insn("mov42"), Insn("ret") >>
      /\ emit_program("TAG_C0", o) =
           << Insn("gctag"), Insn("cmp"), Insn("cset"), Insn("ret") >>
      /\ emit_program("LEN_C0", o) = << Insn("gclen"), Insn("ret") >>
      /\ emit_program("LOAD_C0_OFFSET", o) =
           << encode_ldr_x0_c0_offset(o), Insn("ret") >>
  BY DEF emit_program
<1>2. \A op : Insn(op).op = op
  BY DEF Insn
<1>3. QED
  BY <1>1, <1>2

\* A child that is gone as its case wants it, or because of something foreign.
LEMMA LeaveMeant ==
  ASSUME CodeInv, child \notin {"none", "gone"}, UNCHANGED parentVars,
         NEW st, Leave(st),
         did'.foreign = 0 =>
           /\ did'.fault = this.fault
           /\ this.expect_trap => did'.at = "run"
           /\ ~this.expect_trap => did'.returned = 1 /\ did'.value = this.expected
           /\ wait_for_child(this.expect_trap, st) = 0
  PROVE  AsMeant' /\ VariantsWork'
<1>1. child' = "gone" /\ status' = st /\ this' = this
  BY DEF Leave, parentVars, this
<1>2. AsMeant'
  BY <1>1 DEF AsMeant
<1>3. VariantsWork'
  BY <1>1 DEF VariantsWork
<1>4. QED
  BY <1>2, <1>3

LEMMA ForeignMeant ==
  ASSUME CodeInv, child \notin {"none", "gone"}, UNCHANGED parentVars,
         NEW st, Leave(st), did'.foreign = 1
  PROVE  AsMeant' /\ VariantsWork'
BY LeaveMeant

LEMMA GiveUpMeant ==
  ASSUME CodeInv, child \notin {"none", "gone"}, UNCHANGED parentVars,
         NEW n, GiveUp(n)
  PROVE  AsMeant' /\ VariantsWork'
<1>1. Leave(Exited(n)) /\ did'.foreign = 1
  BY DEF GiveUp, Doing
<1>2. QED
  BY <1>1, ForeignMeant

\* The generated code of a trap case raises the violation the case is about.
LEMMA FaultMeant ==
  ASSUME CodeInv, child = "run", UNCHANGED parentVars,
         NEW f \in {"tag", "bounds"}, Fault(f, 0),
         this.expect_trap, this.fault = f
  PROVE  AsMeant' /\ VariantsWork'
<1>1. SignalOf(f) = SIGPROT
  BY DEF SignalOf, CapabilityFaults
<1>2. Leave(Exited(0)) /\ did'.fault = f /\ did'.at = "run"
  BY <1>1 DEF Fault, Doing
<1>3. wait_for_child(TRUE, Exited(0)) = 0
  BY DEF wait_for_child, Exited, WIFSIGNALED
<1>4. wait_for_child(this.expect_trap, Exited(0)) = 0
  BY <1>3
<1>5. QED
  BY <1>2, <1>4, LeaveMeant

\* The steps before the call.
LEMMA PreparesMeant ==
  ASSUME CodeInv, AsMeant, IsMains,
         \/ install_sigprot_handler \/ Mmap \/ Emit \/ ClearCache \/ EntryBefore
         \/ Mprotect \/ EntryAfter
  PROVE  AsMeant' /\ VariantsWork'
<1>0. /\ UNCHANGED parentVars /\ child \notin {"none", "gone"}
      /\ child \in {"start", "mmap", "emit", "sync", "before", "mprotect", "after"}
  BY DEF install_sigprot_handler, Mmap, Emit, ClearCache, EntryBefore, Mprotect,
         EntryAfter
<1>1. this' = this /\ UNCHANGED <<pc, current>> /\ pc = "wait" /\ did.foreign = 0
  BY <1>0 DEF parentVars, this, CodeInv, InStep, AsMeant
<1>2. ASSUME UNCHANGED did, child' # "gone", child' # "returned",
             child' = "elf" => this.program = "ELF_TEXT",
             child' \in {"mmap", "emit", "sync", "before", "mprotect", "after", "run"}
               => this.program # "ELF_TEXT",
             child' \in {"sync", "before", "mprotect", "after", "run"} =>
               code' = emit_program(this.program, this.offset),
             child' = "run" => ip' = 1 /\ r0' = this.argument
      PROVE  AsMeant' /\ VariantsWork'
  <2>1. child' = "run" => Computed'
    <3>1. SUFFICES ASSUME child' = "run" PROVE Computed'
      OBVIOUS
    <3>2. ip' = 1 /\ r0' = this'.argument
      BY <1>1, <1>2, <3>1
    <3>3. Kind(this')
      BY <1>1, MainsKinds DEF IsMains
    <3>4. this'.program = "TAG_C0" => this'.argument = MemCap
      BY <3>3 DEF Kind, Fields
    <3>5. QED
      BY <3>2, <3>4 DEF Computed
  <2>2. AsMeant'
    BY <1>1, <1>2, <2>1 DEF AsMeant
  <2>3. VariantsWork'
    BY <1>2 DEF VariantsWork
  <2>4. QED
    BY <2>2, <2>3
<1>3. CASE install_sigprot_handler
  BY <1>0, <1>2, <1>3, GiveUpMeant DEF install_sigprot_handler
<1>3a. child \in {"mmap", "emit", "sync", "before", "mprotect", "after", "run"}
         => this.program # "ELF_TEXT"
  BY <1>1 DEF AsMeant
<1>4. CASE Mmap
  <2>1. \/ GiveUp(10)
        \/ child = "mmap" /\ child' = "emit" /\ UNCHANGED did
    BY <1>4 DEF Mmap
  <2>2. QED
    BY <1>0, <1>2, <1>3a, <2>1, GiveUpMeant
<1>5. CASE Emit
  <2>1. "W" \in prot
    <3>1. PICK n \in 1 .. 6 : variant = variants[n]
      BY MainsVariants DEF IsMains, variant
    <3>2. prot = variant.mmap_prot
      BY <1>5 DEF Emit, CodeInv, PageReady
    <3>3. QED
      BY <3>1, <3>2, VariantsRight
  <2>2. \/ GiveUp(100)
        \/ /\ code' = emit_program(this.program, this.offset)
           /\ child' = "sync" /\ UNCHANGED did
    BY <1>5, <2>1 DEF Emit
  <2>3. child = "emit"
    BY <1>5 DEF Emit
  <2>4. QED
    BY <1>0, <1>2, <1>3a, <2>2, <2>3, GiveUpMeant
<1>6. CASE ClearCache \/ EntryBefore
  <2>1. /\ child \in {"sync", "before"} /\ child' \in {"before", "mprotect"}
        /\ UNCHANGED <<code, did>>
    BY <1>6 DEF ClearCache, EntryBefore, pageVars
  <2>2. QED
    BY <1>1, <1>2, <1>3a, <2>1 DEF AsMeant
<1>7. CASE Mprotect
  <2>1. \/ \E n : GiveUp(n)
        \/ child = "mprotect" /\ child' = "after" /\ UNCHANGED <<code, did>>
    BY <1>7 DEF Mprotect
  <2>2. CASE \E n : GiveUp(n)
    BY <1>0, <2>2, GiveUpMeant
  <2>3. CASE child = "mprotect" /\ child' = "after" /\ UNCHANGED <<code, did>>
    BY <1>1, <1>2, <1>3a, <2>3 DEF AsMeant
  <2>4. QED
    BY <2>1, <2>2, <2>3
<1>8. CASE EntryAfter
  <2>1. /\ child = "after" /\ child' = "run" /\ UNCHANGED <<code, did>>
        /\ ip' = 1 /\ r0' = this.argument
    BY <1>8 DEF EntryAfter, pageVars
  <2>2. QED
    BY <1>1, <1>2, <1>3a, <2>1 DEF AsMeant
<1>9. QED
  BY <1>3, <1>4, <1>5, <1>6, <1>7, <1>8

\* While the generated code of a case of main runs.
LEMMA RunsMeant ==
  ASSUME CodeInv, AsMeant, IsMains, child = "run"
  PROVE  /\ pc = "wait" /\ did.foreign = 0 /\ did.fault = "none" /\ Computed
         /\ Kind(this) /\ this.program # "ELF_TEXT"
         /\ code = emit_program(this.program, this.offset)
         /\ entry.capmode /\ "X" \in prot /\ synced = 1
BY ReadyToRun, MainsKinds DEF CodeInv, InStep, AsMeant, IsMains, EntryReady

\* The instructions that compute.
LEMMA ComputesMeant ==
  ASSUME CodeInv, AsMeant, IsMains, Computes
  PROVE  AsMeant' /\ VariantsWork'
<1>1. /\ child = "run" /\ UNCHANGED <<parentVars, code, child, did>> /\ ip' = ip + 1
  BY DEF Computes, Executes, pageVars
<1>2. /\ pc = "wait" /\ did.foreign = 0 /\ Computed /\ Kind(this)
      /\ this.program # "ELF_TEXT"
      /\ code = emit_program(this.program, this.offset)
  BY <1>1, RunsMeant
<1>3. this' = this /\ UNCHANGED <<pc, current>>
  BY <1>1 DEF parentVars, this
<1> DEFINE op == code[ip].op
<1>4. \/ op = "mov42" /\ r0' = 42
      \/ op = "gctag" /\ r8' = (IF r0 = MemCap THEN 1 ELSE 0)
      \/ op = "cmp" /\ ne' = (IF r8 # 0 THEN 1 ELSE 0)
      \/ op = "cset" /\ r0' = ne
      \/ op = "gclen" /\ r0' = 8 * Len(mem)
  BY DEF Computes, Executes
<1>5. 8 * Len(mem) = 16
  BY DEF mem
<1>6. Computed'
  <2>1. CASE this.program = "CONST42"
    <3>1. ip = 1 \/ ip = 2
      BY <1>2, <2>1 DEF Computed
    <3>2. (ip = 1 => op = "mov42") /\ (ip = 2 => op = "ret")
      BY <1>2, <2>1, EmittedCode
    <3> HIDE DEF op
    <3>3. ip' = 2 /\ r0' = 42
      BY <1>1, <1>4, <3>1, <3>2
    <3>4. QED
      BY <1>3, <2>1, <3>3 DEF Computed
  <2>2. CASE this.program = "TAG_C0"
    <3>1. \/ ip = 1 /\ r0 = MemCap
          \/ ip = 2 /\ r8 = 1
          \/ ip = 3 /\ ne = 1
          \/ ip = 4 /\ r0 = 1
      BY <1>2, <2>2 DEF Computed
    <3>2. /\ ip = 1 => op = "gctag"
          /\ ip = 2 => op = "cmp"
          /\ ip = 3 => op = "cset"
          /\ ip = 4 => op = "ret"
      BY <1>2, <2>2, EmittedCode
    <3> HIDE DEF op
    <3>3. \/ ip' = 2 /\ r8' = 1
          \/ ip' = 3 /\ ne' = 1
          \/ ip' = 4 /\ r0' = 1
      BY <1>1, <1>4, <3>1, <3>2
    <3>4. QED
      BY <1>3, <2>2, <3>3 DEF Computed
  <2>3. CASE this.program = "LEN_C0"
    <3>1. ip = 1 \/ ip = 2
      BY <1>2, <2>3 DEF Computed
    <3>2. (ip = 1 => op = "gclen") /\ (ip = 2 => op = "ret")
      BY <1>2, <2>3, EmittedCode
    <3> HIDE DEF op
    <3>3. ip' = 2 /\ r0' = 16
      BY <1>1, <1>4, <1>5, <3>1, <3>2
    <3>4. QED
      BY <1>3, <2>3, <3>3 DEF Computed
  <2>4. CASE this.program = "LOAD_C0_OFFSET"
    <3>1. ip = 1 \/ ip = 2
      BY <1>2, <2>4 DEF Computed
    <3>2. encode_ldr_x0_c0_offset(this.offset).op = "ldr"
      BY DEF encode_ldr_x0_c0_offset
    <3>3. (ip = 1 => op = "ldr") /\ (ip = 2 => op = "ret")
      BY <1>2, <2>4, <3>2, EmittedCode
    <3> HIDE DEF op
    <3>4. QED
      BY <1>4, <3>1, <3>3
  <2>5. QED
    BY <1>2, <2>1, <2>2, <2>3, <2>4 DEF Kind, Fields
<1>7. AsMeant'
  BY <1>1, <1>2, <1>3, <1>6 DEF AsMeant
<1>8. QED
  BY <1>1, <1>7 DEF VariantsWork

\* The load: its word in bounds, its violation for every other case.
LEMMA LoadsMeant ==
  ASSUME CodeInv, AsMeant, IsMains, Loads
  PROVE  AsMeant' /\ VariantsWork'
<1>1. /\ child = "run" /\ UNCHANGED <<parentVars, code>> /\ ip' = ip + 1
      /\ code[ip].op = "ldr"
  BY DEF Loads, Executes, pageVars
<1>2. /\ pc = "wait" /\ did.foreign = 0 /\ Computed /\ Kind(this) /\ entry.capmode
      /\ this.program # "ELF_TEXT"
      /\ code = emit_program(this.program, this.offset)
  BY <1>1, RunsMeant
<1>3. this' = this /\ UNCHANGED <<pc, current>>
  BY <1>1 DEF parentVars, this
<1>4. this.program = "LOAD_C0_OFFSET" /\ ip = 1 /\ r0 = this.argument
  <2>1. CASE this.program = "CONST42"
    BY <1>1, <1>2, <2>1, EmittedCode DEF Computed
  <2>2. CASE this.program = "TAG_C0"
    BY <1>1, <1>2, <2>2, EmittedCode DEF Computed
  <2>3. CASE this.program = "LEN_C0"
    BY <1>1, <1>2, <2>3, EmittedCode DEF Computed
  <2>4. CASE this.program = "LOAD_C0_OFFSET"
    BY <1>1, <1>2, <2>4, EmittedCode DEF Computed
  <2>5. QED
    BY <1>2, <2>1, <2>2, <2>3, <2>4 DEF Kind, Fields
<1>5. code[ip].imm = this.offset \div 8
  <2>1. code[ip] = encode_ldr_x0_c0_offset(this.offset)
    BY <1>2, <1>4, EmittedCode
  <2>2. encode_ldr_x0_c0_offset(this.offset).imm = this.offset \div 8
    BY DEF encode_ldr_x0_c0_offset
  <2>3. QED
    BY <2>1, <2>2
<1>6. Len(mem) = 2
  BY DEF mem
<1> DEFINE InBounds == Fields(this, "LOAD_C0_OFFSET", 8, MemCap, mem[2], FALSE, "none")
           OutOfBounds == Fields(this, "LOAD_C0_OFFSET", 4096, MemCap, mem[2], TRUE, "bounds")
           Scalar == Fields(this, "LOAD_C0_OFFSET", 8, MemAddress, 0, TRUE, "tag")
<1>7. CASE InBounds
  <2>1. code[ip].imm = 1 /\ r0 = MemCap /\ this.expected = mem[2] /\ ~this.expect_trap
    BY <1>4, <1>5, <1>7 DEF Fields
  <2>2. r0' = mem[2] /\ UNCHANGED <<child, status, did>>
    BY <1>2, <1>6, <2>1 DEF Loads
  <2>3. Computed'
    BY <1>1, <1>3, <1>4, <2>1, <2>2 DEF Computed
  <2>4. AsMeant'
    BY <1>1, <1>2, <1>3, <2>2, <2>3 DEF AsMeant
  <2>5. QED
    BY <1>1, <2>2, <2>4 DEF VariantsWork
<1>8. CASE OutOfBounds
  <2>1. /\ code[ip].imm = 512 /\ r0 = MemCap /\ this.expect_trap
        /\ this.fault = "bounds"
    BY <1>4, <1>5, <1>8 DEF Fields
  <2>2. Fault("bounds", 0)
    BY <1>2, <1>6, <2>1 DEF Loads
  <2>3. QED
    BY <1>1, <2>1, <2>2, FaultMeant
<1>9. CASE Scalar
  <2>1. r0 # MemCap /\ this.expect_trap /\ this.fault = "tag"
    BY <1>4, <1>9 DEF Fields, MemCap, MemAddress
  <2>2. Fault("tag", 0)
    BY <2>1 DEF Loads
  <2>3. QED
    BY <1>1, <2>1, <2>2, FaultMeant
<1>10. InBounds \/ OutOfBounds \/ Scalar
  <2>1. Kind(this) /\ this.program = "LOAD_C0_OFFSET"
    BY <1>2, <1>4
  <2>2. QED
    BY <2>1 DEF Kind, Fields
<1> HIDE DEF InBounds, OutOfBounds, Scalar
<1>11. QED
  BY <1>7, <1>8, <1>9, <1>10

\* The end of the call: only a control comes here, with its value.
LEMMA ReturnsMeant ==
  ASSUME CodeInv, AsMeant, IsMains, Returns
  PROVE  AsMeant' /\ VariantsWork'
<1>1. /\ child = "run" /\ child' = "returned" /\ UNCHANGED <<parentVars, code>>
      /\ code[ip].op = "ret"
      /\ did' = Doing(1, r0, did.fault, did.at, did.foreign)
  BY DEF Returns, Executes, pageVars
<1>2. /\ pc = "wait" /\ did.foreign = 0 /\ Computed /\ Kind(this)
      /\ this.program # "ELF_TEXT"
      /\ code = emit_program(this.program, this.offset)
  BY <1>1, RunsMeant
<1>3. this' = this /\ UNCHANGED <<pc, current>>
  BY <1>1 DEF parentVars, this
<1>4. did'.value = r0 /\ did'.foreign = 0
  BY <1>1, <1>2 DEF Doing
<1>5. r0 = this.expected /\ ~this.expect_trap
  <2>1. CASE this.program = "CONST42"
    <3>1. r0 = 42
      BY <1>1, <1>2, <2>1, EmittedCode DEF Computed
    <3>2. QED
      BY <1>2, <2>1, <3>1 DEF Kind, Fields
  <2>2. CASE this.program = "TAG_C0"
    <3>1. r0 = 1
      BY <1>1, <1>2, <2>2, EmittedCode DEF Computed
    <3>2. QED
      BY <1>2, <2>2, <3>1 DEF Kind, Fields
  <2>3. CASE this.program = "LEN_C0"
    <3>1. r0 = 16
      BY <1>1, <1>2, <2>3, EmittedCode DEF Computed
    <3>2. QED
      BY <1>2, <2>3, <3>1 DEF Kind, Fields
  <2>4. CASE this.program = "LOAD_C0_OFFSET"
    <3>1. encode_ldr_x0_c0_offset(this.offset).op = "ldr"
      BY DEF encode_ldr_x0_c0_offset
    <3>2. QED
      BY <1>1, <1>2, <2>4, <3>1, EmittedCode DEF Computed
  <2>5. QED
    BY <1>2, <2>1, <2>2, <2>3, <2>4 DEF Kind, Fields
<1>6. AsMeant'
  BY <1>1, <1>3, <1>4, <1>5 DEF AsMeant
<1>7. QED
  BY <1>1, <1>6 DEF VariantsWork

\* The reference load has its value.
LEMMA ReferenceMeant ==
  ASSUME CodeInv, AsMeant, IsMains, ReferenceLoad
  PROVE  AsMeant' /\ VariantsWork'
<1>1. /\ child = "elf" /\ child' = "returned" /\ UNCHANGED parentVars
      /\ did' = Doing(1, mem[2], did.fault, did.at, did.foreign)
  BY DEF ReferenceLoad
<1>2. this' = this /\ UNCHANGED <<pc, current>> /\ pc = "wait"
  BY <1>1 DEF parentVars, this, CodeInv, InStep
<1>3. this.program = "ELF_TEXT" /\ did.foreign = 0 /\ Kind(this)
  BY <1>1, <1>2, MainsKinds DEF AsMeant, IsMains
<1>4. this.expected = mem[2] /\ ~this.expect_trap
  BY <1>3 DEF Kind, Fields
<1>5. did'.value = mem[2] /\ did'.foreign = 0
  BY <1>1, <1>3 DEF Doing
<1>6. AsMeant'
  BY <1>1, <1>2, <1>4, <1>5 DEF AsMeant
<1>7. QED
  BY <1>1, <1>6 DEF VariantsWork

LEMMA ExitMeant ==
  ASSUME CodeInv, AsMeant, IsMains, ExitChild
  PROVE  AsMeant' /\ VariantsWork'
<1>1. /\ child = "returned" /\ UNCHANGED <<parentVars, did>>
      /\ did.returned = 1 /\ did.fault = "none" /\ pc = "wait"
  BY DEF ExitChild, CodeInv, InStep
<1>2. ~this.expect_trap /\ did.value = this.expected
  BY <1>1 DEF AsMeant
<1>3. this.fault = "none"
  <2>1. Kind(this)
    BY MainsKinds DEF IsMains
  <2>2. QED
    BY <1>2, <2>1 DEF Kind, Fields
<1>4. Leave(Exited(0))
  BY <1>2 DEF ExitChild
<1>5. wait_for_child(this.expect_trap, Exited(0)) = 0
  BY <1>2 DEF wait_for_child, Exited, WIFSIGNALED
<1>6. QED
  BY <1>1, <1>2, <1>3, <1>4, <1>5, LeaveMeant

\* A step of a child of one of main's cases.
LEMMA ChildMeant ==
  ASSUME CodeInv, AsMeant, IsMains, Child
  PROVE  AsMeant' /\ VariantsWork'
<1>1. CASE FetchFaults
  BY <1>1, RunsMeant DEF FetchFaults
<1>2. CASE ForeignFault
  <2>1. PICK f \in Faults : Fault(f, 1)
    BY <1>2 DEF ForeignFault
  <2>2. did'.foreign = 1 /\ \E st : Leave(st)
    BY <2>1 DEF Fault, Doing
  <2>3. QED
    BY <1>2, <2>2, ForeignMeant DEF ForeignFault
<1>3. QED
  BY <1>1, <1>2, PreparesMeant, ReferenceMeant, ComputesMeant, LoadsMeant, ReturnsMeant, ExitMeant
     DEF Child, ChildRuns

\* A step of the parent.
LEMMA ParentMeant ==
  ASSUME CodeInv, AsMeant, VariantsWork, Parent
  PROVE  AsMeant' /\ VariantsWork'
<1>1. CASE Fork
  <2>1. child' = "start" /\ did'.foreign = 0
    BY <1>1 DEF Fork, FreshChild, NothingDone, Doing
  <2>2. QED
    BY <2>1 DEF AsMeant, VariantsWork
<1>2. CASE ForkFails \/ Reap \/ ReapFails \/ Return
  <2>1. pc' # "wait"
    BY <1>2 DEF ForkFails, Reap, ReapFails, Return, Record
  <2>2. QED
    BY <2>1 DEF AsMeant, VariantsWork
<1>3. QED
  BY <1>1, <1>2 DEF Parent

\* In every variant main tries, a case that nothing foreign disturbed ends as it
\* should: a control with its value, a trap case with the violation it is about,
\* raised by its generated code, and neither is failed.
THEOREM JitVariantsWork == Spec => []VariantsWork
<1>1. Init => AsMeant /\ VariantsWork
  BY DEF Init, AsMeant, VariantsWork
<1>2. CodeInv /\ AsMeant /\ VariantsWork /\ [Next]_vars => (AsMeant /\ VariantsWork)'
  <2> SUFFICES ASSUME CodeInv, AsMeant, VariantsWork, [Next]_vars
               PROVE  AsMeant' /\ VariantsWork'
    OBVIOUS
  <2>1. CASE Parent
    BY <2>1, ParentMeant
  <2>2. CASE Child /\ IsMains
    BY <2>2, ChildMeant
  <2>3. CASE Child /\ ~IsMains
    <3>1. UNCHANGED current
      BY <2>3 DEF Child, ChildRuns, install_sigprot_handler, ReferenceLoad, Mmap, Emit, ClearCache, EntryBefore,
         Mprotect, EntryAfter, Computes, Loads, Returns, Executes, FetchFaults,
         ExitChild, ForeignFault, parentVars
    <3>2. ~IsMains'
      BY <2>3, <3>1 DEF IsMains, this
    <3>3. QED
      BY <3>2 DEF AsMeant, VariantsWork
  <2>4. CASE UNCHANGED vars
    BY <2>4 DEF vars, parentVars, childVars, pageVars, cpuVars, AsMeant, VariantsWork,
       Computed, IsMains, this
  <2>5. QED
    BY <2>1, <2>2, <2>3, <2>4 DEF Next, Finished
<1>3. QED
  BY <1>1, <1>2, CodeSafe, PTL DEF Spec

-----------------------------------------------------------------------------
(* Type correctness *)

\* Every status a child can leave is a wait status.
LEMMA StatusTypes ==
  /\ Alive \in Status
  /\ \A n \in 0 .. 255 : Exited(n) \in Status
  /\ \A f : Signalled(f) \in Status
BY DEF Status, Alive, Exited, Signalled, SignalOf, Signals

\* A case under way is one of the list, with protections a page can have.
LEMMA ThisTypes ==
  ASSUME current \in 1 .. Len(Cases)
  PROVE  variant.mmap_prot \subseteq Cap(RWX) /\ variant.mprotect_prot \subseteq Cap(RWX)
<1>1. this \in jit_case
  BY JitAssumption DEF this
<1>2. variant \in jit_variant
  BY <1>1 DEF jit_case, variant
<1>3. QED
  BY <1>2 DEF jit_variant

LEMMA LeaveTypes ==
  /\ \A n \in {10, 11, 100} : GiveUp(n) => child' = "gone" /\ status' \in Status
  /\ \A f, g : Fault(f, g) => child' = "gone" /\ status' \in Status
<1>1. ASSUME NEW n \in {10, 11, 100}, GiveUp(n)
      PROVE  child' = "gone" /\ status' \in Status
  BY <1>1, StatusTypes DEF GiveUp, Leave
<1>2. ASSUME NEW f, NEW g, Fault(f, g)
      PROVE  child' = "gone" /\ status' \in Status
  <2>1. Exited(IF this.expect_trap THEN 0 ELSE 31) \in Status
    BY StatusTypes
  <2>2. QED
    BY <1>2, <2>1, StatusTypes DEF Fault, Leave
<1>3. QED
  BY <1>1, <1>2

\* The steps before the call.
LEMMA PreparesType ==
  ASSUME TypeOK, FetchInStep, InStep,
         \/ install_sigprot_handler \/ Mmap \/ Emit \/ ClearCache \/ EntryBefore
         \/ Mprotect \/ EntryAfter
  PROVE  TypeOK' /\ FetchInStep'
<1>0. /\ UNCHANGED parentVars
      /\ child \in {"start", "mmap", "emit", "sync", "before", "mprotect", "after"}
  BY DEF install_sigprot_handler, Mmap, Emit, ClearCache, EntryBefore, Mprotect,
         EntryAfter
<1>1. current \in 1 .. Len(Cases) /\ ip = 0 /\ Len(code) \in Nat
  BY <1>0, JitAssumption DEF TypeOK, FetchInStep, InStep
<1>2. variant.mmap_prot \subseteq Cap(RWX) /\ variant.mprotect_prot \subseteq Cap(RWX)
  BY <1>1, ThisTypes
<1>3. ASSUME prot' \in {prot, variant.mmap_prot, variant.mprotect_prot},
             status' = status \/ status' \in Status,
             \/ ip' = 0
             \/ ip' = 1 /\ child' = "run",
             Len(code') \in Nat
      PROVE  TypeOK' /\ FetchInStep'
  <2>1. ip' \in Nat /\ ip' <= Len(code') + 1
    BY <1>3
  <2>2. prot' \subseteq Cap(RWX) /\ status' \in Status
    BY <1>2, <1>3 DEF TypeOK
  <2>3. TypeOK'
    BY <1>0, <2>1, <2>2 DEF TypeOK, parentVars
  <2>4. FetchInStep'
    BY <1>3, <2>1 DEF FetchInStep
  <2>5. QED
    BY <2>3, <2>4
<1>4. CASE install_sigprot_handler
  BY <1>1, <1>3, <1>4, LeaveTypes DEF install_sigprot_handler, pageVars, cpuVars
<1>5. CASE Mmap
  BY <1>1, <1>3, <1>5, LeaveTypes DEF Mmap, cpuVars
<1>6. CASE Emit
  <2>1. \A p, o : Len(emit_program(p, o)) \in Nat
    <3>1. \A p, o : \/ \E a, b : emit_program(p, o) = <<a, b>>
                    \/ \E a, b, c, d : emit_program(p, o) = <<a, b, c, d>>
      BY DEF emit_program
    <3>2. QED
      BY <3>1
  <2>2. Len(code') \in Nat /\ prot' = prot /\ ip' = 0
    BY <1>1, <1>6, <2>1 DEF Emit, cpuVars
  <2>3. status' = status \/ status' \in Status
    BY <1>6, LeaveTypes DEF Emit
  <2>4. QED
    BY <1>3, <2>2, <2>3
<1>7. CASE ClearCache \/ EntryBefore
  BY <1>1, <1>3, <1>7 DEF ClearCache, EntryBefore, pageVars, cpuVars
<1>8. CASE Mprotect
  BY <1>1, <1>3, <1>8, LeaveTypes DEF Mprotect, cpuVars
<1>9. CASE EntryAfter
  BY <1>1, <1>3, <1>9 DEF EntryAfter, pageVars
<1>10. QED
  BY <1>4, <1>5, <1>6, <1>7, <1>8, <1>9

\* The call: no instruction is fetched beyond the end of the code.
LEMMA CallType ==
  ASSUME TypeOK, FetchInStep,
         \/ ReferenceLoad \/ Computes \/ Loads \/ Returns \/ FetchFaults
         \/ ExitChild \/ ForeignFault
  PROVE  TypeOK' /\ FetchInStep'
<1>1. ASSUME UNCHANGED <<parentVars, prot, code>>,
             status' = status \/ status' \in Status,
             \/ ip' = ip
             \/ ip <= Len(code) /\ ip' = ip + 1,
             child' \in {"run", "returned", "gone"}
      PROVE  TypeOK' /\ FetchInStep'
  <2>1. ip' \in Nat /\ ip' <= Len(code) + 1
    BY <1>1 DEF TypeOK, FetchInStep
  <2>2. TypeOK'
    BY <1>1, <2>1 DEF TypeOK, parentVars
  <2>3. FetchInStep'
    BY <1>1, <2>1 DEF FetchInStep
  <2>4. QED
    BY <2>2, <2>3
<1>2. CASE ReferenceLoad
  BY <1>1, <1>2 DEF ReferenceLoad, pageVars, cpuVars
<1>3. CASE Computes
  BY <1>1, <1>3 DEF Computes, Executes, pageVars
<1>4. CASE Loads
  <2>1. /\ UNCHANGED <<parentVars, prot, code>> /\ child = "run"
        /\ ip <= Len(code) /\ ip' = ip + 1
    BY <1>4 DEF Loads, Executes, pageVars
  <2>2. \/ Fault("tag", 0) \/ Fault("bounds", 0)
        \/ UNCHANGED <<child, status>>
    BY <1>4 DEF Loads
  <2>3. child' \in {"run", "gone"} /\ (status' = status \/ status' \in Status)
    BY <2>1, <2>2, LeaveTypes
  <2>4. QED
    BY <1>1, <2>1, <2>3
<1>5. CASE Returns
  BY <1>1, <1>5 DEF Returns, Executes, pageVars
<1>6. CASE FetchFaults \/ ForeignFault
  <2>1. PICK f, g : Fault(f, g)
    BY <1>6 DEF FetchFaults, ForeignFault
  <2>2. child' = "gone" /\ status' \in Status
    BY <2>1, LeaveTypes
  <2>3. UNCHANGED <<parentVars, prot, code, ip>>
    BY <1>6 DEF FetchFaults, ForeignFault, pageVars, cpuVars
  <2>4. QED
    BY <1>1, <2>2, <2>3
<1>7. CASE ExitChild
  <2>1. PICK n \in {0, 20, 21} : Leave(Exited(n))
    BY <1>7 DEF ExitChild
  <2>2. child' = "gone" /\ status' \in Status
    BY <2>1, StatusTypes DEF Leave
  <2>3. UNCHANGED <<parentVars, prot, code, ip>>
    BY <1>7 DEF ExitChild, pageVars, cpuVars
  <2>4. QED
    BY <1>1, <2>2, <2>3
<1>8. QED
  BY <1>2, <1>3, <1>4, <1>5, <1>6, <1>7

LEMMA FreshTypes ==
  ASSUME NEW phase \in {"start", "none"}, FreshChild(phase)
  PROVE  /\ prot' = {} /\ ip' = 0 /\ Len(code') = 0 /\ status' \in Status
         /\ child' = phase
BY StatusTypes DEF FreshChild

LEMMA ParentType ==
  ASSUME TypeOK, FetchInStep, InStep, Parent
  PROVE  TypeOK' /\ FetchInStep'
<1>0. current \in Nat /\ failures \in Nat /\ Len(Cases) \in Nat
  BY JitAssumption DEF TypeOK
<1>1. ASSUME NEW result \in {0, 1}, NEW happened, Record(result, happened),
             current <= Len(Cases)
      PROVE  /\ current' \in 1 .. Len(Cases) + 1 /\ failures' \in 0 .. current' - 1
             /\ verdict' \in {"none", "pass", "fail"} /\ exit' = exit /\ pc' = "case"
  BY <1>0, <1>1 DEF Record, TypeOK
<1>2. CASE Fork
  BY <1>2, FreshTypes DEF Fork, TypeOK, FetchInStep
<1>3. CASE ForkFails
  <2>1. /\ prot' = {} /\ ip' = 0 /\ Len(code') = 0 /\ status' \in Status
    BY <1>3, FreshTypes DEF ForkFails
  <2>2. QED
    BY <1>1, <1>3, <2>1 DEF ForkFails, TypeOK, FetchInStep
<1>4. CASE Reap \/ ReapFails
  <2>1. wait_for_child(this.expect_trap, status) \in {0, 1}
    BY DEF wait_for_child
  <2>2. PICK result, happened : result \in {0, 1} /\ Record(result, happened)
    BY <1>4, <2>1 DEF Reap, ReapFails
  <2>3. current <= Len(Cases) /\ UNCHANGED <<child, prot, code, ip, status>>
    BY <1>4 DEF Reap, ReapFails, InStep, childVars, pageVars, cpuVars
  <2>4. QED
    BY <1>1, <2>2, <2>3 DEF TypeOK, FetchInStep
<1>5. CASE Return
  BY <1>5 DEF Return, TypeOK, FetchInStep, childVars, pageVars, cpuVars
<1>6. QED
  BY <1>2, <1>3, <1>4, <1>5 DEF Parent

\* The inductive invariant of all of test_cheri_direct_jit_repro.c, for any cases of
\* the type main's have.
THEOREM JitSafe == Spec => []JitInv
<1>1. Init => TypeOK /\ FetchInStep
  <2> SUFFICES ASSUME Init PROVE TypeOK /\ FetchInStep
    OBVIOUS
  <2>1. 1 \in 1 .. Len(Cases) + 1 /\ Len(code) = 0
    BY JitAssumption DEF Init
  <2>2. QED
    BY <2>1, StatusTypes DEF Init, TypeOK, FetchInStep
<1>2. CodeInv /\ TypeOK /\ FetchInStep /\ [Next]_vars => (TypeOK /\ FetchInStep)'
  <2> SUFFICES ASSUME CodeInv, TypeOK, FetchInStep, [Next]_vars
               PROVE  TypeOK' /\ FetchInStep'
    OBVIOUS
  <2>1. InStep
    BY DEF CodeInv
  <2>2. CASE Parent
    BY <2>1, <2>2, ParentType
  <2>3. CASE Child
    BY <2>1, <2>3, PreparesType, CallType DEF Child, ChildRuns
  <2>4. CASE UNCHANGED vars
    BY <2>4 DEF vars, parentVars, childVars, pageVars, cpuVars, TypeOK, FetchInStep
  <2>5. QED
    BY <2>2, <2>3, <2>4 DEF Next, Finished
<1>3. TypeOK /\ FetchInStep /\ CodeInv => JitInv
  BY DEF JitInv
<1>4. QED
  BY <1>1, <1>2, <1>3, CodeSafe, PTL DEF Spec

\* Type correctness.
THEOREM JitTypes == Spec => []TypeOK
<1>1. JitInv => TypeOK
  BY DEF JitInv
<1>2. QED
  BY <1>1, JitSafe, PTL

-----------------------------------------------------------------------------
(* A run has an end *)

\* A step of main takes main on.
LEMMA MainAdvances ==
  ASSUME TypeOK, Parent
  PROVE  MainPlace' > MainPlace
<1>1. current \in Nat
  BY JitAssumption DEF TypeOK
<1>2. CASE Fork \/ Return
  BY <1>1, <1>2 DEF Fork, Return, MainPlace
<1>3. CASE ForkFails \/ Reap \/ ReapFails
  <2>1. pc' = "case" /\ current' = current + 1
    BY <1>3 DEF ForkFails, Reap, ReapFails, Record
  <2>2. QED
    BY <1>1, <2>1 DEF MainPlace
<1>4. QED
  BY <1>2, <1>3 DEF Parent

\* Whatever ends a child takes it to the last of its places.
LEMMA LeaveAdvances ==
  ASSUME child # "gone", child' = "gone"
  PROVE  ChildPlace' > ChildPlace
BY DEF ChildPlace

\* A step of the child takes it on, or its processor to the next instruction.
LEMMA ChildAdvances ==
  ASSUME FetchInStep, Child
  PROVE  \/ ChildPlace' > ChildPlace
         \/ ChildPlace' = ChildPlace /\ ip' > ip
<1>1. CASE install_sigprot_handler \/ ReferenceLoad \/ Mmap \/ Emit
  <2>1. \/ child = "start" /\ child' \in {"elf", "mmap", "gone"}
        \/ child = "elf" /\ child' = "returned"
        \/ child = "mmap" /\ child' \in {"emit", "gone"}
        \/ child = "emit" /\ child' \in {"sync", "gone"}
    BY <1>1 DEF install_sigprot_handler, ReferenceLoad, Mmap, Emit, GiveUp, Fault, Leave
  <2>2. QED
    BY <2>1 DEF ChildPlace
<1>2. CASE ClearCache \/ EntryBefore \/ Mprotect \/ EntryAfter
  <2>1. \/ child = "sync" /\ child' = "before"
        \/ child = "before" /\ child' = "mprotect"
        \/ child = "mprotect" /\ child' \in {"after", "gone"}
        \/ child = "after" /\ child' = "run"
    BY <1>2 DEF ClearCache, EntryBefore, Mprotect, EntryAfter, GiveUp, Leave
  <2>2. QED
    BY <2>1 DEF ChildPlace
<1>3. CASE Computes
  BY <1>3 DEF Computes, Executes, ChildPlace, FetchInStep
<1>4. CASE Loads
  <2>1. child = "run" /\ ip' > ip /\ child' \in {"run", "gone"}
    BY <1>4 DEF Loads, Executes, Fault, Leave, FetchInStep
  <2>2. QED
    BY <2>1 DEF ChildPlace
<1>5. CASE Returns
  BY <1>5 DEF Returns, Executes, ChildPlace
<1>6. CASE FetchFaults \/ ExitChild \/ ForeignFault
  <2>1. child # "gone" /\ child' = "gone"
    BY <1>6 DEF FetchFaults, ExitChild, ForeignFault, Fault, Leave
  <2>2. QED
    BY <2>1, LeaveAdvances
<1>7. QED
  BY <1>1, <1>2, <1>3, <1>4, <1>5, <1>6 DEF Child, ChildRuns

\* No step of the repro goes back, in generated code neither: what trapped is not
\* tried again, because sigprot_handler does not return.
THEOREM NothingIsDoneTwice == Spec => Advances
<1> DEFINE Further ==
      \/ MainPlace' > MainPlace
      \/ MainPlace' = MainPlace /\ ChildPlace' > ChildPlace
      \/ MainPlace' = MainPlace /\ ChildPlace' = ChildPlace /\ ip' > ip
<1>1. JitInv /\ [Next]_vars => [Further]_vars
  <2> SUFFICES ASSUME JitInv, Next, vars' # vars PROVE Further
    OBVIOUS
  <2>1. CASE Parent
    BY <2>1, MainAdvances DEF JitInv
  <2>2. CASE Child
    <3>1. MainPlace' = MainPlace
      BY <2>2 DEF Child, ChildRuns, install_sigprot_handler, ReferenceLoad, Mmap, Emit,
         ClearCache, EntryBefore, Mprotect, EntryAfter, Computes, Loads, Returns, Executes,
         FetchFaults, ExitChild, ForeignFault, parentVars, MainPlace
    <3>2. QED
      BY <2>2, <3>1, ChildAdvances DEF JitInv
  <2>3. QED
    BY <2>1, <2>2 DEF Next, Finished
<1>2. QED
  BY <1>1, JitSafe, PTL DEF Spec, Advances
=============================================================================
