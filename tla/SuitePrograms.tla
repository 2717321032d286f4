--------------------------- MODULE SuitePrograms -----------------------------
(***************************************************************************)
(* The programs and the rows of the other suites: the C programs of        *)
(* workspace/bpf, which clang compiles, as machine code that does what the *)
(* C says; the programs of workspace/exploit_programs.h; the functions of  *)
(* workspace/cheri_loader_jit_payload.c; and what                          *)
(* tools/cheri_objjit_emit.py makes of a program.                          *)
(*                                                                         *)
(* struct ctx { u64 a; u64 b; } is the context: a at 0, b at 8.            *)
(***************************************************************************)
EXTENDS TestPrograms, TLC

ldxdw(dst, src, off) == INSN(\h79, dst, src, off, 0)
addr(dst, src) == INSN(\h0f, dst, src, 0, 0)
rsh(dst, imm) == INSN(RSH_IMM, dst, 0, 0, imm)
lsh(dst, imm) == INSN(LSH_IMM, dst, 0, 0, imm)
and(dst, imm) == INSN(AND_IMM, dst, 0, 0, imm)
jeq(dst, imm, off) == INSN(JEQ_IMM, dst, 0, off, imm)
returning(src) == <<mov(0, src), exit_insn>>
-----------------------------------------------------------------------------
(* workspace/bpf.  slots is at r10 - 40, slot at r10 - 8. *)

\* slots[index] = 0x5a, and R3 = slots[index].
slots_at(index) ==
  << mov(4, 10), add(4, -40), addr(4, index), INSN(\h72, 4, 0, 0, \h5a),
     INSN(\h71, 3, 4, 0, 0) >>

stack_array ==
  <<ldxdw(2, 1, 0), and(2, 7)>> \o slots_at(2)
  \o << ldxdw(5, 1, 8), ldxdw(0, 1, 0), INSN(\h1f, 5, 0, 0, 0), rsh(5, 8),
        addr(3, 5) >> \o returning(3)
stack_oob == <<ldxdw(2, 1, 0)>> \o slots_at(2) \o returning(3)

branch_stack ==
  << ldxdw(2, 1, 0), and(2, 1), jeq(2, 0, 2),
     INSN(\h72, 10, 0, -5, \h11), INSN(JA, 0, 0, 1, 0),
     INSN(\h72, 10, 0, -5, \h22),
     INSN(\h71, 0, 10, -5, 0), ldxdw(3, 1, 8), rsh(3, 12), addr(0, 3), exit_insn >>

\* wide at r10 - 8, word at r10 - 12, half at r10 - 14.
stack_widths ==
  << ldxdw(2, 1, 0), stx(\h7b, 10, 2, -8), ldxdw(2, 1, 8), stx(\h63, 10, 2, -12),
     INSN(\h6a, 10, 0, -14, \h1234),
     ldxdw(0, 10, -8), rsh(0, 8), INSN(\h61, 3, 10, -12, 0), rsh(3, 8), addr(0, 3),
     INSN(\h69, 3, 10, -14, 0), and(3, \hff), addr(0, 3), exit_insn >>

context_in_bounds == <<ldxdw(0, 1, 0), ldxdw(2, 1, 8), addr(0, 2), exit_insn>>
context_oob == <<ldxdw(0, 1, 8 * 512), exit_insn>>

\* if (ctx->a == 0x1000) return the word at yes; return the word at no.
branch_context(yes, no) ==
  << ldxdw(2, 1, 0), jeq(2, \h1000, 2), ldxdw(0, 1, no), exit_insn,
     ldxdw(0, 1, yes), exit_insn >>
branch_context_in_bounds == branch_context(8, 0)
branch_context_oob == branch_context(8 * 512, 8)

\* return words[index + from], with index = ctx->a >> 12, masked or not.
arithmetic_context(masked, from) ==
  <<ldxdw(2, 1, 0), rsh(2, 12)>> \o masked
  \o <<lsh(2, 3), addr(1, 2), ldxdw(0, 1, 8 * from), exit_insn>>
arithmetic_context_in_bounds == arithmetic_context(<<and(2, 1)>>, 0)
arithmetic_context_oob == arithmetic_context(<<>>, 511)

\* map = map_lookup_value(ctx), by GENERATED_BPF_HELPER_MAP_LOOKUP.
map_lookup_value == INSN(CALL, 0, 0, 0, 7)
helper_map_read(index) == <<map_lookup_value, ldxdw(0, 0, 8 * index), exit_insn>>
helper_map_write(index) == <<map_lookup_value, INSN(\h7a, 0, 0, 8 * index, \h5a)>>
helper_map_read_in_bounds == helper_map_read(1)
helper_map_read_oob == helper_map_read(512)
helper_map_write_in_bounds == helper_map_write(1) \o <<ldxdw(0, 0, 8), exit_insn>>
helper_map_write_oob == helper_map_write(512) \o <<movi(0, 0), exit_insn>>

\* A row of generated_bpf_cases: what the CHERI suite and, with the value of the
\* table of docs/generated_bpf_x86_cheri_comparison.md, the host suite expect.
Case(p, cheri, host) == [program |-> p, cheri |-> cheri, host |-> host]
Control(p, value) == Case(p, Returns(p, value), Returns(p, value))
Unsafe(p, value) == Case(p, Traps(p), Escapes(p, value))

generated_bpf_cases ==
  << Control(stack_array, WordOf(\h6a)), Control(branch_stack, WordOf(\h24)),
     Control(stack_widths, WordOf(\h64)), Control(context_in_bounds, WordOf(\h3000)),
     Control(branch_context_in_bounds, WordOf(\h2000)),
     Control(arithmetic_context_in_bounds, WordOf(\h2000)),
     Control(helper_map_read_in_bounds, WordOf(\h2000)),
     Control(helper_map_write_in_bounds, WordOf(\h5a)),
     Unsafe(context_oob, Bytes(feedface, 0)),
     Unsafe(branch_context_oob, Bytes(feedface, 0)),
     Unsafe(arithmetic_context_oob, Bytes(feedface, 0)),
     Unsafe(stack_oob, WordOf(\h5a)),
     Unsafe(helper_map_read_oob, Bytes(feedface, 0)),
     Unsafe(helper_map_write_oob, WordOf(0)) >>

generated == [i \in DOMAIN generated_bpf_cases |-> generated_bpf_cases[i].cheri]
generated_host == [i \in DOMAIN generated_bpf_cases |-> generated_bpf_cases[i].host]
-----------------------------------------------------------------------------
(* exploit_programs.h.  A row with has_safe_return expects a value. *)

exploit_oob_read == <<mov(6, 1), ldxdw(0, 6, 4096), exit_insn>>
exploit_pointer_leak == <<mov(2, 10), mov(0, 2), exit_insn>>
exploit_uninit_read == <<mov(2, 10), add(2, -8), ldxdw(0, 2, 0), exit_insn>>

exploit_test ==
  << Traps(exploit_oob_read), Blocked(exploit_pointer_leak),
     Returns(exploit_uninit_read, WordOf(0)) >>
-----------------------------------------------------------------------------
(* Code that comes in a shared object. *)

loader_jit_load_u64 == <<ldxdw(0, 1, 8), exit_insn>>
loader_jit_load_u64_oob == <<ldxdw(0, 1, 4096), exit_insn>>
loader_repro == <<Returns(loader_jit_load_u64, Bytes(feedface, 0)), Traps(loader_jit_load_u64_oob)>>

\* The offset of a load from the context, through R1 or through one alias of it;
\* any other program is turned down.
Alias(insn) ==
  /\ insn.op = \hbf /\ insn.src = 1 /\ insn.dst \in 2 .. 9
  /\ insn.off = 0 /\ insn.imm = 0
LoadFrom(insn, context_reg) ==
  insn.op = \h79 /\ insn.dst = 0 /\ insn.src = context_reg /\ insn.imm = 0
SupportedProgram(p) ==
  \/ Len(p) = 2 /\ LoadFrom(p[1], 1) /\ p[2] = exit_insn
  \/ Len(p) = 3 /\ Alias(p[1]) /\ LoadFrom(p[2], p[1].dst) /\ p[3] = exit_insn
offset_from_supported_program(p) == p[Len(p) - 1].off

\* What fits the scaled unsigned immediate of ldr x0, [c0, #offset].
validate_offset(offset) == offset \in {8 * n : n \in 0 .. \h1000 - 1}

\* The emitted ldr and ret, if the program is not turned down.
Emits(p) == SupportedProgram(p) /\ validate_offset(offset_from_supported_program(p))
emit_assembly(p) ==
  IF Emits(p) THEN {context_load(\h79, offset_from_supported_program(p))} ELSE {}

\* The two programs the Makefile gives to the emitter, and what the suite calls.
bpf_entry(p) == CHOOSE code \in emit_assembly(p) : TRUE
objjit_context ==
  << Returns(bpf_entry(context_load(\h79, 8)), Bytes(feedface, 0)),
     Traps(bpf_entry(context_load(\h79, 4096))) >>
-----------------------------------------------------------------------------
(* What the child of a suite calls its program with.                       *)

Bounds(context_end, stack_end) ==
  [context |-> <<0, context_end>>, map_value |-> <<0, context_end>>,
   stack |-> <<-4096, stack_end>>]

\* The capabilities of the CHERI translator end with what they point to.
Bounded(bytes, length) ==
  [memory |-> bytes, bounds |-> Bounds(length - 1, -1), length |-> length]

\* words[0] = 0x1000 and words[1] = 0x2000, of the context or the map value.
prepare_words ==
  [p \in {"context", "map_value"} \X {1, 9} |-> IF p[2] = 1 THEN \h10 ELSE \h20]

\* The host passes 16 bytes of 8192, with a word at 4096; nothing ends there, and
\* above the stack of the program is that of its callers.
host_words ==
  prepare_words @@
  [p \in {"context", "map_value"} \X (4096 .. 4103) |-> feedface[p[2] - 4095]]
host_space ==
  [memory |-> host_words, bounds |-> Bounds(8191, 8191), length |-> 16]

\* memset(mem_buffer, 0xAA, MEM_SIZE)
MEM_SIZE == 64
mem_buffer == [p \in {"context"} \X (0 .. MEM_SIZE - 1) |-> \haa]
=============================================================================
