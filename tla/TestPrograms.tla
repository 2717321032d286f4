---------------------------- MODULE TestPrograms -----------------------------
(***************************************************************************)
(* The programs of workspace/test_cheri_objjit_compile.c and               *)
(* workspace/test_cheri_translate_reject.c and what the two suites expect  *)
(* of them.  A program the suites share under two names is here once.      *)
(***************************************************************************)
EXTENDS BpfMachine

exit_insn == INSN(\h95, 0, 0, 0, 0)
mov(dst, src) == INSN(\hbf, dst, src, 0, 0)
movi(dst, imm) == INSN(\hb7, dst, 0, 0, imm)
add(dst, imm) == INSN(\h07, dst, 0, 0, imm)
ldx(op, src, off) == INSN(op, 0, src, off, 0)   \* into R0
stx(op, dst, src, off) == INSN(op, dst, src, off, 0)

(* Loads from the context. *)
context_load(op, off) == <<ldx(op, 1, off), exit_insn>>
context_alias_load(off) == <<mov(6, 1), ldx(\h79, 6, off), exit_insn>>
context_ptr_add_load(n) == <<mov(6, 1), add(6, n), ldx(\h79, 6, 0), exit_insn>>
branch_preserves_context ==
  << mov(6, 1), movi(0, 0), INSN(\h15, 0, 0, 1, 0), movi(0, 1),
     ldx(\h79, 6, 8), exit_insn >>
branch_join_clobbered_context ==
  << mov(6, 1), movi(0, 0), INSN(\h15, 0, 0, 2, 0), movi(6, 0),
     INSN(\h05, 0, 0, 0, 0), ldx(\h79, 6, 8), exit_insn >>
context_width_loads ==
  << ldx(\h71, 1, 8), ldx(\h69, 1, 8), ldx(\h61, 1, 8), ldx(\h79, 1, 8),
     ldx(\h91, 1, 8), ldx(\h89, 1, 8), ldx(\h81, 1, 8), exit_insn >>

(* Stores to the stack and loads from it. *)
stack_store_load(imm, store, load, off) ==
  << movi(0, imm), stx(store, 10, 0, off), movi(0, 0), ldx(load, 10, off),
     exit_insn >>
stack_imm_store_load(store, load, off, imm) ==
  << INSN(store, 10, 0, off, imm), ldx(load, 10, off), exit_insn >>
stack_reg_index_store_load ==
  << movi(2, 3), movi(4, \h5a), mov(5, 10), add(5, -40), INSN(\h0f, 5, 2, 0, 0),
     stx(\h73, 5, 4, 0), ldx(\h71, 5, 0), exit_insn >>
stack_reg_sub_store_load ==
  << movi(0, 42), movi(2, 8), mov(5, 10), INSN(\h1f, 5, 2, 0, 0),
     stx(\h7b, 5, 0, 0), ldx(\h79, 5, 0), exit_insn >>
stack_ptr_add_store_load ==
  << mov(2, 10), add(2, -16), movi(0, 42), stx(\h7b, 2, 0, 8), ldx(\h79, 2, 8),
     exit_insn >>
stack_ptr_add_load(n) == <<mov(2, 10), add(2, n), ldx(\h79, 2, 0), exit_insn>>
stack_store_oob == <<movi(0, 42), stx(\h7b, 10, 0, -4104), exit_insn>>
stack_load_oob == <<ldx(\h79, 10, -4104), exit_insn>>
immediate_stack_store == <<INSN(\h7a, 10, 0, -8, 42), exit_insn>>
stack_width_store_loads ==
  << movi(0, \h12345678),
     stx(\h73, 10, 0, -1), ldx(\h71, 10, -1), stx(\h6b, 10, 0, -2), ldx(\h69, 10, -2),
     stx(\h63, 10, 0, -4), ldx(\h61, 10, -4), stx(\h7b, 10, 0, -16), ldx(\h79, 10, -16),
     INSN(\h72, 10, 0, -17, -1), ldx(\h91, 10, -17),
     INSN(\h6a, 10, 0, -20, -1), ldx(\h89, 10, -20),
     INSN(\h62, 10, 0, -24, -1), ldx(\h81, 10, -24), exit_insn >>

(* Programs to refuse. *)
context_store == <<movi(0, 42), stx(\h7b, 1, 0, 0), exit_insn>>
capability_stack_store == <<mov(2, 1), stx(\h7b, 10, 2, -8), exit_insn>>
clobbered_r1_load == <<movi(1, 0), ldx(\h79, 1, 0), exit_insn>>
pointer_leak == <<mov(2, 10), mov(0, 2), exit_insn>>
scalar == <<movi(0, 42), exit_insn>>
-----------------------------------------------------------------------------
(* Rows: a program, the suite function it is given to, the value of        *)
(* run_compile_and_call(..., expected_result, 0), and what is to come of   *)
(* it.                                                                     *)

Row(call, p, expected, outcome) ==
  [call |-> call, program |-> p, expected |-> expected, outcome |-> outcome]
Returns(p, expected) == Row("value", p, expected, "expected")
Traps(p) == Row("trap", p, WordOf(0), "bounds")
Rejected(p) == Row("reject", p, WordOf(0), "refused")
Translated(p) == Row("accept", p, WordOf(0), "translated")

\* Cases of other suites that share the trap's verdict: a program that does not
\* get to run, and one whose access goes through and returns a value.
Blocked(p) == Row("trap", p, WordOf(0), "idle")
Escapes(p, expected) == Row("trap", p, expected, "expected")

\* The context: 0x1111111111111111, 0xfeedfacecafebeef.
feedface == <<\hef, \hbe, \hfe, \hca, \hce, \hfa, \hed, \hfe>>
context ==
  [p \in {"context"} \X (0 .. 15) |-> IF p[2] < 8 THEN \h11 ELSE feedface[p[2] - 7]]

objjit_compile ==
  << Returns(context_load(\h79, 8), Bytes(feedface, 0)),
     Returns(context_load(\h71, 8), Bytes(<<\hef>>, 0)),
     Returns(context_load(\h69, 8), Bytes(<<\hef, \hbe>>, 0)),
     Returns(context_load(\h61, 8), Bytes(<<\hef, \hbe, \hfe, \hca>>, 0)),
     Returns(context_load(\h91, 8), Bytes(<<\hef>>, 255)),
     Returns(context_load(\h89, 8), Bytes(<<\hef, \hbe>>, 255)),
     Returns(context_load(\h81, 8), Bytes(<<\hef, \hbe, \hfe, \hca>>, 255)),
     Traps(context_load(\h79, 4096)),
     Returns(context_alias_load(8), Bytes(feedface, 0)),
     Traps(context_alias_load(4096)),
     Returns(context_ptr_add_load(8), Bytes(feedface, 0)),
     Traps(context_ptr_add_load(4096)),
     Returns(branch_preserves_context, Bytes(feedface, 0)),
     Returns(stack_store_load(42, \h7b, \h79, -8), WordOf(42)),
     Returns(stack_store_load(\h12345678, \h73, \h71, -1), WordOf(\h78)),
     Returns(stack_store_load(\h12345678, \h6b, \h69, -2), WordOf(\h5678)),
     Returns(stack_store_load(\h12345678, \h63, \h61, -4), WordOf(\h12345678)),
     Returns(stack_imm_store_load(\h72, \h91, -1, -1), Bytes(<<>>, 255)),
     Returns(stack_imm_store_load(\h6a, \h89, -2, -1), Bytes(<<>>, 255)),
     Returns(stack_imm_store_load(\h62, \h81, -4, -1), Bytes(<<>>, 255)),
     Returns(stack_reg_index_store_load, WordOf(\h5a)),
     Returns(stack_reg_sub_store_load, WordOf(42)),
     Returns(stack_imm_store_load(\h7a, \h79, -8, 42), WordOf(42)),
     Returns(stack_ptr_add_store_load, WordOf(42)),
     Returns(stack_ptr_add_load(-8), WordOf(0)),
     Traps(stack_store_oob),
     Traps(stack_load_oob),
     Traps(stack_ptr_add_load(-4104)),
     Rejected(context_store), Rejected(capability_stack_store),
     Rejected(clobbered_r1_load), Rejected(branch_join_clobbered_context) >>

translate_reject ==
  << Translated(scalar), Translated(context_load(\h79, 0)),
     Translated(context_width_loads), Translated(context_load(\h79, 4096)),
     Translated(context_ptr_add_load(8)), Translated(context_ptr_add_load(4096)),
     Translated(branch_preserves_context),
     Translated(stack_store_load(42, \h7b, \h79, -8)),
     Translated(stack_ptr_add_store_load), Translated(stack_width_store_loads),
     Translated(stack_reg_index_store_load), Translated(stack_reg_sub_store_load),
     Translated(stack_ptr_add_load(-8)), Translated(immediate_stack_store),
     Rejected(context_store), Rejected(capability_stack_store),
     Rejected(clobbered_r1_load), Rejected(branch_join_clobbered_context),
     Rejected(pointer_leak) >>
=============================================================================
