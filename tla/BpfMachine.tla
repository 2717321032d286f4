----------------------------- MODULE BpfMachine ------------------------------
(***************************************************************************)
(* The eBPF machine the test programs of workspace/ are written for, and   *)
(* the register kinds of workspace/cheri_jit_contract.h by which a program *)
(* is admitted to it.  The JIT itself is external; what it makes of an     *)
(* instruction is modelled from what the suites and documents expect:      *)
(* registers hold words or capabilities, memory is reached only through    *)
(* the capability in a register and only inside its bounds, and the stack  *)
(* is cleared.                                                             *)
(*                                                                         *)
(* The module has the instructions the suites use.  A word is eight bytes, *)
(* least significant first; a capability is the root it comes from and its *)
(* offset from where that root points.                                     *)
(***************************************************************************)
EXTENDS Integers, Sequences

\* The register kinds a translator finds for a program (before each
\* instruction).  How it finds them is its own business.
CONSTANT Analyse(_)

CHERI_BPF_REG_COUNT == 11
Register == 0 .. CHERI_BPF_REG_COUNT - 1

\* enum cheri_bpf_cap_source; a register is a scalar when its source is "none".
Source == {"none", "context", "stack", "map_value", "helper_return"}
Kinds == [Register -> Source]

Instruction ==
  [op : 0 .. 255, dst : Register, src : Register, off : Int, imm : Int]
INSN(op, dst, src, off, imm) ==
  [op |-> op, dst |-> dst, src |-> src, off |-> off, imm |-> imm]
-----------------------------------------------------------------------------
(* Words *)

Byte == 0 .. 255
Word == [1 .. 8 -> Byte]

\* The bytes s, then fill up to eight.
Bytes(s, fill) == [i \in 1 .. 8 |-> IF i <= Len(s) THEN s[i] ELSE fill]

\* An integer modulo 2^64, and a word read as a signed integer.
WordOf(n) ==
  LET rest[i \in 1 .. 8] == IF i = 1 THEN n ELSE rest[i - 1] \div 256
  IN  [i \in 1 .. 8 |-> rest[i] % 256]
IntOf(w) ==
  LET high[i \in 1 .. 9] ==
        IF i = 9 THEN IF w[8] >= 128 THEN -1 ELSE 0 ELSE 256 * high[i + 1] + w[i]
  IN  high[1]
-----------------------------------------------------------------------------
(* Registers and memory *)

Scalar(w) == [source |-> "none", at |-> 0, word |-> w]
Capability(source, at) == [source |-> source, at |-> at, word |-> WordOf(0)]

\* Pointer arithmetic moves the offset and keeps the root.
Plus(v, n) ==
  IF v.source = "none" THEN Scalar(WordOf(IntOf(v.word) + n))
  ELSE Capability(v.source, v.at + n)

\* bounds[source] are the first and the last offset a root reaches.
InBounds(bounds, v, off, width) ==
  /\ bounds[v.source][1] <= v.at + off
  /\ v.at + off + width - 1 <= bounds[v.source][2]

\* Memory is the bytes that are not zero, by root and offset, and some that are.
ByteAt(memory, source, o) ==
  IF <<source, o>> \in DOMAIN memory THEN memory[<<source, o>>] ELSE 0

Loaded(memory, v, off, width) ==
  [i \in 1 .. width |-> ByteAt(memory, v.source, v.at + off + i - 1)]

Stored(memory, v, off, width, w) ==
  LET place(i) == <<v.source, v.at + off + i - 1>>
      written == {place(i) : i \in 1 .. width}
  IN  [p \in DOMAIN memory \cup written |->
         IF p \in written THEN w[CHOOSE i \in 1 .. width : place(i) = p]
         ELSE memory[p]]
-----------------------------------------------------------------------------
(* Instructions *)

Moves == {\hb7, \hbf}
Sums == {\h07, \h0f, \h1f}
AND_IMM == \h57
LSH_IMM == \h67
RSH_IMM == \h77
BitOps == {AND_IMM, LSH_IMM, RSH_IMM}
CALL == \h85
ZeroExtending == {\h61, \h69, \h71, \h79}
SignExtending == {\h81, \h89, \h91}
LoadOps == ZeroExtending \cup SignExtending
ImmStores == {\h62, \h6a, \h72, \h7a}
RegStores == {\h63, \h6b, \h73, \h7b}
StoreOps == ImmStores \cup RegStores
JA == \h05
JEQ_IMM == \h15
EXIT == \h95
Opcodes ==
  Moves \cup Sums \cup BitOps \cup LoadOps \cup StoreOps \cup {CALL, JA, JEQ_IMM, EXIT}

\* The masks of the programs are low bits (2^k - 1), and the words they mask and
\* shift are small and not negative.
Bits(op, v, n) ==
  LET m == IntOf(v.word) IN
  Scalar(WordOf(CASE op = AND_IMM -> m % (n + 1)
                  [] op = LSH_IMM -> m * 2^n
                  [] OTHER -> m \div 2^n))

\* The size bits W, H, B, DW.
Width(op) == <<4, 2, 1, 8>>[1 + ((op \div 8) % 4)]

\* Where execution may go on after instruction i.
Successors(p, i) ==
  CASE p[i].op = EXIT -> {}
    [] p[i].op = JA -> {i + 1 + p[i].off}
    [] p[i].op = JEQ_IMM -> {i + 1, i + 1 + p[i].off}
    [] OTHER -> {i + 1}

\* What ubpf_load lets through: known opcodes, and no way out but exit.  The
\* programs of the suites have no loops.
Program ==
  {p \in Seq(Instruction) :
     /\ p # <<>>
     /\ \A i \in DOMAIN p :
          /\ p[i].op \in Opcodes
          /\ Successors(p, i) \subseteq i + 1 .. Len(p)}
-----------------------------------------------------------------------------
(* The register kinds *)

cheri_bpf_mark_scalar(k, r) == [k EXCEPT ![r] = "none"]
cheri_bpf_mark_capability(k, r, source) == [k EXCEPT ![r] = source]
cheri_bpf_is_capability(k, r) == k[r] # "none"

EntryKinds ==
  LET scalars == [r \in Register |-> "none"]
  IN  cheri_bpf_mark_capability(
        cheri_bpf_mark_capability(scalars, 1, "context"), 10, "stack")

\* The registers a helper does not keep, besides R0.
CallerSaved == 1 .. 5

\* Mutant: the kind of a register survives a constant that is moved into it.
TransferKeeping(insn, k) ==
  IF insn.op = \hbf /\ cheri_bpf_is_capability(k, insn.src)
  THEN cheri_bpf_mark_capability(k, insn.dst, k[insn.src])
  ELSE IF insn.op = \hbf \/ insn.op \in LoadOps
  THEN cheri_bpf_mark_scalar(k, insn.dst)
  ELSE k

\* What an instruction makes of the kinds.  The one helper of the suites is the
\* one marked with ubpf_cheri_set_map_value_helper_index.
Transfer(insn, k) ==
  IF insn.op = CALL
  THEN [r \in Register |->
          IF r = 0 THEN "map_value" ELSE IF r \in CallerSaved THEN "none" ELSE k[r]]
  ELSE IF insn.op = \hbf /\ cheri_bpf_is_capability(k, insn.src)
  THEN cheri_bpf_mark_capability(k, insn.dst, k[insn.src])
  ELSE IF insn.op \in Moves \cup LoadOps
  THEN cheri_bpf_mark_scalar(k, insn.dst)
  ELSE k

\* A register is a capability where all paths agree on its source.
Join(ks) ==
  [r \in Register |->
     IF \E source \in Source : {k[r] : k \in ks} = {source}
     THEN CHOOSE source \in Source : {k[r] : k \in ks} = {source}
     ELSE "none"]

Analysed(p, kinds) ==
  /\ kinds \in [DOMAIN p -> Kinds]
  /\ kinds[1] = EntryKinds
  /\ \A i \in DOMAIN p \ {1} :
       kinds[i] = Join({Transfer(p[j], kinds[j]) :
                          j \in {n \in DOMAIN p : i \in Successors(p, n)}})

\* Mutant: stores go through any capability.
RefusalStoring(insn, k) ==
  CASE insn.op \in LoadOps \cup StoreOps
         /\ ~cheri_bpf_is_capability(k, IF insn.op \in LoadOps THEN insn.src ELSE insn.dst) -> "load"
    [] insn.op \in RegStores /\ cheri_bpf_is_capability(k, insn.src) -> "stored"
    [] insn.op \in BitOps /\ cheri_bpf_is_capability(k, insn.dst) -> "bits"
    [] insn.op \in {\h0f, \h1f} /\ cheri_bpf_is_capability(k, insn.src) -> "sum"
    [] insn.op = EXIT /\ cheri_bpf_is_capability(k, 0) -> "returned"
    [] OTHER -> "none"

\* Scalar loads through any capability, scalar stores through one to the stack
\* or a map value, capability arithmetic with scalars only, and a scalar to
\* return.
Refusal(insn, k) ==
  CASE insn.op \in LoadOps /\ ~cheri_bpf_is_capability(k, insn.src) -> "load"
    [] insn.op \in StoreOps /\ k[insn.dst] \notin {"stack", "map_value"} -> "store"
    [] insn.op \in RegStores /\ cheri_bpf_is_capability(k, insn.src) -> "stored"
    [] insn.op \in BitOps /\ cheri_bpf_is_capability(k, insn.dst) -> "bits"
    [] insn.op \in {\h0f, \h1f} /\ cheri_bpf_is_capability(k, insn.src) -> "sum"
    [] insn.op = EXIT /\ cheri_bpf_is_capability(k, 0) -> "returned"
    [] OTHER -> "none"

\* Why a program is refused; empty for one that is translated.
Refusals(p) ==
  {Refusal(p[i], Analyse(p)[i]) : i \in DOMAIN p} \ {"none"}
-----------------------------------------------------------------------------
(* Execution *)

VARIABLES
  program,  \* the translated program
  ip,       \* its next instruction
  regs,
  memory,   \* the bytes that are not zero, by root and offset, and some that are
  bounds,   \* what each root reaches
  end       \* how it ended: "returned", "bounds", "forged", or "running", "idle"

machineVars == <<program, ip, regs, memory, bounds, end>>

Idle ==
  /\ program = <<>> /\ ip = 1
  /\ regs = [r \in Register |-> Scalar(WordOf(0))]
  /\ memory = <<>> /\ bounds = <<>>
  /\ end = "idle"

Reset ==
  /\ program' = <<>> /\ ip' = 1
  /\ regs' = [r \in Register |-> Scalar(WordOf(0))]
  /\ memory' = <<>> /\ bounds' = <<>>
  /\ end' = "idle"

\* fn(mem, mem_len), the call of a translated program.  R1 points at the first
\* byte of the context, R10 one past the last of the stack.
Call(p, space) ==
  /\ program' = p
  /\ ip' = 1
  /\ regs' = [r \in Register |->
                CASE r = 1 -> Capability("context", 0)
                  [] r = 2 -> Scalar(WordOf(space.length))
                  [] r = 10 -> Capability("stack", 0)
                  [] OTHER -> Scalar(WordOf(0))]
  /\ memory' = space.memory
  /\ bounds' = space.bounds
  /\ end' = "running"

current_insn == program[ip]

Computes ==
  /\ end = "running" /\ current_insn.op \in Moves \cup Sums \cup BitOps
  /\ LET d == regs[current_insn.dst]
         s == regs[current_insn.src]
     IN  regs' = [regs EXCEPT ![current_insn.dst] =
                    CASE current_insn.op = \hb7 -> Scalar(WordOf(current_insn.imm))
                      [] current_insn.op = \hbf -> s
                      [] current_insn.op = \h07 -> Plus(d, current_insn.imm)
                      [] current_insn.op = \h0f -> Plus(d, IntOf(s.word))
                      [] current_insn.op = \h1f -> Plus(d, -IntOf(s.word))
                      [] OTHER -> Bits(current_insn.op, d, current_insn.imm)]
  /\ ip' = ip + 1
  /\ UNCHANGED <<program, memory, bounds, end>>

\* map_lookup_helper returns the memory the program was called with, which
\* the generated code makes a capability of to a map value.
CallsHelper ==
  /\ end = "running" /\ current_insn.op = CALL
  /\ regs' = [r \in Register |->
                IF r = 0 THEN Capability("map_value", 0)
                ELSE IF r \in CallerSaved THEN Scalar(WordOf(0)) ELSE regs[r]]
  /\ ip' = ip + 1
  /\ UNCHANGED <<program, memory, bounds, end>>

\* A capability may compare either way; its address is left out.
Jumps ==
  /\ end = "running" /\ current_insn.op \in {JA, JEQ_IMM}
  /\ ip' \in Successors(program, ip)
  /\ current_insn.op = JEQ_IMM /\ regs[current_insn.dst].source = "none" =>
       ip' = ip + 1 + (IF regs[current_insn.dst].word = WordOf(current_insn.imm) THEN current_insn.off ELSE 0)
  /\ UNCHANGED <<program, regs, memory, bounds, end>>

\* An access through register r: a trap, or its effect.
TrapAt(r) ==
  IF regs[r].source = "none" THEN "forged"
  ELSE IF InBounds(bounds, regs[r], current_insn.off, Width(current_insn.op)) THEN "none"
  ELSE "bounds"

TrapsThrough(r) ==
  /\ TrapAt(r) # "none"
  /\ end' = TrapAt(r)
  /\ UNCHANGED <<program, ip, regs, memory, bounds>>

\* Mutant: a sign-extending load fills with zeros.
ExtendedZero(op, s) == Bytes(s, 0)

Extended(op, s) ==
  Bytes(s, IF op \in SignExtending /\ s[Len(s)] >= 128 THEN 255 ELSE 0)

Loads ==
  /\ end = "running" /\ current_insn.op \in LoadOps
  /\ \/ TrapsThrough(current_insn.src)
     \/ /\ TrapAt(current_insn.src) = "none"
        /\ regs' = [regs EXCEPT ![current_insn.dst] =
             Scalar(Extended(current_insn.op,
               Loaded(memory, regs[current_insn.src], current_insn.off, Width(current_insn.op))))]
        /\ ip' = ip + 1
        /\ UNCHANGED <<program, memory, bounds, end>>

Stores ==
  /\ end = "running" /\ current_insn.op \in StoreOps
  /\ \/ TrapsThrough(current_insn.dst)
     \/ /\ TrapAt(current_insn.dst) = "none"
        /\ memory' = Stored(memory, regs[current_insn.dst], current_insn.off, Width(current_insn.op),
                       IF current_insn.op \in ImmStores THEN WordOf(current_insn.imm)
                       ELSE regs[current_insn.src].word)
        /\ ip' = ip + 1
        /\ UNCHANGED <<program, regs, bounds, end>>

Exits ==
  /\ end = "running" /\ current_insn.op = EXIT
  /\ end' = "returned"
  /\ UNCHANGED <<program, ip, regs, memory, bounds>>

Executes == Computes \/ CallsHelper \/ Jumps \/ Loads \/ Stores \/ Exits
=============================================================================
