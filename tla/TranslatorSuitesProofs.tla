----------------------- MODULE TranslatorSuitesProofs ------------------------
(***************************************************************************)
(* Proofs about TranslatorSuites, for all suites of programs without loops *)
(* and every translator whose kinds agree with Transfer and Join.  The     *)
(* argument has two halves: the kinds of a program hold while it runs, and *)
(* the exit code of a child tells main what it takes it to tell.           *)
(***************************************************************************)
EXTENDS TranslatorSuites, SuitePrograms, TLAPS

-----------------------------------------------------------------------------
(* The kinds *)

\* Where paths meet, a register that is a capability is one on each of them.
LEMMA JoinBelow ==
  ASSUME NEW ks, NEW k \in ks, NEW r \in Register, Join(ks)[r] # "none"
  PROVE  Join(ks)[r] = k[r]
<1> DEFINE S == {h[r] : h \in ks}
<1>1. Join(ks)[r] = IF \E source \in Source : S = {source}
                    THEN CHOOSE source \in Source : S = {source} ELSE "none"
  BY DEF Join
<1>2. PICK source \in Source : S = {source}
  BY <1>1
<1>3. S = {Join(ks)[r]}
  BY <1>1, <1>2
<1>4. k[r] \in S
  OBVIOUS
<1>5. QED
  BY <1>3, <1>4

\* The kinds at a successor claim no more than the instruction before it gives.
LEMMA KindsFlow ==
  ASSUME NEW p \in Program, NEW kinds, Analysed(p, kinds),
         NEW i \in DOMAIN p, NEW j \in Successors(p, i), NEW r \in Register,
         cheri_bpf_is_capability(kinds[j], r)
  PROVE  kinds[j][r] = Transfer(p[i], kinds[i])[r]
<1>1. /\ p \in Seq(Instruction)
      /\ Successors(p, i) \subseteq i + 1 .. Len(p)
  BY DEF Program
<1>2. DOMAIN p = 1 .. Len(p) /\ Len(p) \in Nat
  BY <1>1
<1>3. j \in DOMAIN p \ {1}
  BY <1>1, <1>2
<1> DEFINE ks == {Transfer(p[n], kinds[n]) : n \in {m \in DOMAIN p : j \in Successors(p, m)}}
<1>4. kinds[j] = Join(ks)
  BY <1>3 DEF Analysed
<1>5. Transfer(p[i], kinds[i]) \in ks
  OBVIOUS
<1>6. kinds[j][r] # "none"
  BY DEF cheri_bpf_is_capability
<1> HIDE DEF ks
<1>7. QED
  BY <1>4, <1>5, <1>6, JoinBelow

\* What Transfer says of one register.
LEMMA TransferOf ==
  ASSUME NEW k \in Kinds, NEW i \in Instruction, i.op \in Opcodes,
         NEW r \in Register
  PROVE  Transfer(i, k)[r] =
           IF i.op = CALL
           THEN IF r = 0 THEN "map_value" ELSE IF r \in CallerSaved THEN "none" ELSE k[r]
           ELSE IF r = i.dst /\ i.op = \hbf THEN k[i.src]
           ELSE IF r = i.dst /\ i.op \in Moves \cup LoadOps THEN "none"
           ELSE k[r]
<1>1. i.dst \in Register /\ i.src \in Register
  BY DEF Instruction
<1>2. k = [x \in Register |-> k[x]]
  BY DEF Kinds
<1>3. \A s : \A d \in Register :
        [k EXCEPT ![d] = s][r] = IF r = d THEN s ELSE k[r]
  BY <1>2
<1>4. \hbf \in Moves
  BY DEF Moves
<1>5. CASE i.op = CALL
  BY <1>5 DEF Transfer
<1>6. CASE i.op # CALL
  BY <1>1, <1>3, <1>4, <1>6
  DEF Transfer, cheri_bpf_mark_scalar, cheri_bpf_mark_capability,
      cheri_bpf_is_capability
<1>7. QED
  BY <1>5, <1>6

\* No instruction of a translated program is refused.
LEMMA NotRefused ==
  ASSUME Refusals(program) = {}, ip \in DOMAIN program
  PROVE  Refusal(current_insn, Analyse(program)[ip]) = "none"
BY DEF Refusals, current_insn

\* The refusals the proofs are about.
LEMMA RefusalOf ==
  ASSUME NEW i, NEW k, Refusal(i, k) = "none"
  PROVE  /\ i.op \in LoadOps => cheri_bpf_is_capability(k, i.src)
         /\ i.op \in StoreOps => cheri_bpf_is_capability(k, i.dst)
                                 /\ k[i.dst] \in {"stack", "map_value"}
         /\ i.op \in BitOps => ~cheri_bpf_is_capability(k, i.dst)
<1> DEFINE load == i.op \in LoadOps /\ ~cheri_bpf_is_capability(k, i.src)
           store == i.op \in StoreOps /\ k[i.dst] \notin {"stack", "map_value"}
           stored == i.op \in RegStores /\ cheri_bpf_is_capability(k, i.src)
           bits == i.op \in BitOps /\ cheri_bpf_is_capability(k, i.dst)
           sum == i.op \in {\h0f, \h1f} /\ cheri_bpf_is_capability(k, i.src)
           returned == i.op = EXIT /\ cheri_bpf_is_capability(k, 0)
<1>1. Refusal(i, k) = CASE load -> "load" [] store -> "store" [] stored -> "stored"
                        [] bits -> "bits" [] sum -> "sum" [] returned -> "returned" [] OTHER -> "none"
  BY DEF Refusal
<1> HIDE DEF load, store, stored, bits, sum, returned
<1>2. ~load /\ ~store /\ ~bits
  BY <1>1
<1>3. QED
  BY <1>2 DEF load, store, bits, cheri_bpf_is_capability

\* The elements of a sequence.
LEMMA ElementOf ==
  ASSUME NEW S, NEW q \in Seq(S), NEW n \in DOMAIN q
  PROVE  q[n] \in S
OBVIOUS

\* What a running program is: translated, analysed, and at an instruction.
LEMMA RowTypes ==
  ASSUME suite \in DOMAIN Suites, current \in 1 .. Len(rows) + 1
  PROVE  /\ Len(rows) \in Nat /\ harness \in Harnesses
         /\ current <= Len(rows) =>
              /\ this.call \in Calls
              /\ this.program \in Program
              /\ Analysed(this.program, Analyse(this.program))
<1>1. rows \in Rows /\ harness \in Harnesses
  BY SuitesAssumption DEF rows, harness
<1>2. DOMAIN rows = 1 .. Len(rows) /\ Len(rows) \in Nat
  BY <1>1 DEF Rows
<1>3. CASE current <= Len(rows)
  <2>1. current \in DOMAIN rows
    BY <1>2, <1>3
  <2>2. this \in [call : Calls, program : Program, expected : Word, outcome : Outcomes]
    BY <1>1, <2>1, ElementOf DEF this, Rows
  <2>3. Analysed(this.program, Analyse(this.program))
    BY <2>1, AnalyseAssumption DEF this, rows
  <2>4. QED
    BY <1>1, <1>2, <2>2, <2>3
<1>4. QED
  BY <1>1, <1>2, <1>3

\* Where an instruction leads is in the program.
LEMMA SuccessorsIn ==
  ASSUME NEW p \in Program, NEW i \in DOMAIN p
  PROVE  /\ DOMAIN p = 1 .. Len(p) /\ Len(p) \in Nat
         /\ p[i] \in Instruction /\ p[i].op \in Opcodes
         /\ Successors(p, i) \subseteq DOMAIN p
<1>1. /\ p \in Seq(Instruction)
      /\ p[i].op \in Opcodes
      /\ Successors(p, i) \subseteq i + 1 .. Len(p)
  BY DEF Program
<1>2. DOMAIN p = 1 .. Len(p) /\ Len(p) \in Nat
  BY <1>1
<1>3. i + 1 .. Len(p) \subseteq 1 .. Len(p)
  BY <1>2
<1>4. QED
  BY <1>1, <1>2, <1>3

\* The opcodes that are not jumps go on with the next instruction.
LEMMA NextInsn ==
  ASSUME NEW p, NEW i,
         p[i].op \in Moves \cup Sums \cup BitOps \cup LoadOps \cup StoreOps \cup {CALL}
  PROVE  i + 1 \in Successors(p, i)
BY DEF Successors, Moves, Sums, BitOps, AND_IMM, LSH_IMM, RSH_IMM, CALL, LoadOps, ZeroExtending, SignExtending, StoreOps,
       ImmStores, RegStores, EXIT, JA, JEQ_IMM

\* The sets of opcodes are disjoint where it matters.
LEMMA OpcodeSets ==
  /\ \hbf \in Moves /\ \hbf \notin LoadOps
  /\ \A op \in Moves : op # CALL /\ op \notin BitOps
  /\ \A op \in Sums \cup BitOps : op \notin Moves \cup LoadOps \cup {CALL}
  /\ \A op \in Sums : op \notin BitOps
  /\ \A op \in StoreOps : op \notin Moves \cup LoadOps \cup {CALL}
  /\ \A op \in {JA, JEQ_IMM} : op \notin Moves \cup LoadOps \cup {CALL}
  /\ \A op \in LoadOps : op \notin Moves /\ op # CALL
BY DEF Moves, Sums, BitOps, AND_IMM, LSH_IMM, RSH_IMM, CALL, LoadOps, ZeroExtending, SignExtending, StoreOps,
       ImmStores, RegStores, JA, JEQ_IMM

\* An instruction that leads to another keeps the kinds true, given what it
\* does to the roots of the registers.
LEMMA KindsKept ==
  ASSUME program \in Program, Analysed(program, Analyse(program)),
         ip \in DOMAIN program, ip' \in Successors(program, ip),
         program' = program,
         \A r \in Register :
           cheri_bpf_is_capability(Transfer(current_insn, Analyse(program)[ip]), r)
             => regs'[r].source = Transfer(current_insn, Analyse(program)[ip])[r]
  PROVE  KindsHold'
<1> DEFINE K == Analyse(program)
<1>1. SUFFICES ASSUME NEW r \in Register, cheri_bpf_is_capability(K[ip'], r)
               PROVE  regs'[r].source = K[ip'][r]
  BY DEF KindsHold
<1>2. K[ip'][r] = Transfer(program[ip], K[ip])[r]
  BY <1>1, KindsFlow
<1>3. cheri_bpf_is_capability(Transfer(program[ip], K[ip]), r)
  BY <1>1, <1>2 DEF cheri_bpf_is_capability
<1>4. QED
  BY <1>2, <1>3 DEF current_insn

-----------------------------------------------------------------------------
(* The machine *)

\* The machine is at an instruction of a translated program, with true kinds.
Sound ==
  /\ program \in Program /\ Analysed(program, Analyse(program))
  /\ Refusals(program) = {} /\ ip \in DOMAIN program
  /\ DOMAIN regs = Register /\ KindsHold

\* What is known of the instruction and the registers it finds.
LEMMA AtInsn ==
  ASSUME Sound, end = "running"
  PROVE  /\ current_insn \in Instruction /\ current_insn.op \in Opcodes
         /\ current_insn.dst \in Register /\ current_insn.src \in Register
         /\ Analyse(program)[ip] \in Kinds
         /\ Successors(program, ip) \subseteq DOMAIN program
         /\ \A r \in Register :
              cheri_bpf_is_capability(Analyse(program)[ip], r)
                => regs[r].source = Analyse(program)[ip][r]
<1>1. current_insn \in Instruction /\ current_insn.op \in Opcodes
      /\ Successors(program, ip) \subseteq DOMAIN program
  BY SuccessorsIn DEF Sound, current_insn
<1>2. Analyse(program)[ip] \in Kinds
  BY DEF Sound, Analysed
<1>3. QED
  BY <1>1, <1>2 DEF Sound, KindsHold, Instruction

\* Only the root of the destination changes in a computation, and as Transfer
\* says.
LEMMA ComputesKinds ==
  ASSUME Sound, Computes
  PROVE  DOMAIN regs' = Register /\ KindsHold' /\ ip' \in DOMAIN program
<1> DEFINE d == current_insn.dst
           s == current_insn.src
           K == Analyse(program)[ip]
           v == CASE current_insn.op = \hb7 -> Scalar(WordOf(current_insn.imm))
                  [] current_insn.op = \hbf -> regs[s]
                  [] current_insn.op = \h07 -> Plus(regs[d], current_insn.imm)
                  [] current_insn.op = \h0f -> Plus(regs[d], IntOf(regs[s].word))
                  [] current_insn.op = \h1f -> Plus(regs[d], -IntOf(regs[s].word))
                  [] OTHER -> Bits(current_insn.op, regs[d], current_insn.imm)
<1>1. /\ end = "running" /\ current_insn.op \in Moves \cup Sums \cup BitOps
      /\ program' = program /\ ip' = ip + 1
  BY DEF Computes
<1>2. regs' = [regs EXCEPT ![d] = v]
  BY DEF Computes
<1>3. d \in Register /\ s \in Register /\ K \in Kinds
      /\ current_insn \in Instruction /\ current_insn.op \in Opcodes
  BY <1>1, AtInsn
<1>4. DOMAIN regs = Register
  BY DEF Sound
<1>5. /\ DOMAIN regs' = Register
      /\ \A r \in Register : regs'[r] = IF r = d THEN v ELSE regs[r]
  <2> HIDE DEF v, d
  <2>1. QED
    BY <1>2, <1>3, <1>4
<1>6. \A u, n : Plus(u, n).source = u.source
  BY DEF Plus, Scalar, Capability
<1>7. /\ current_insn.op = \hbf => v = regs[s]
      /\ current_insn.op \in Sums => v.source = regs[d].source
  BY <1>6 DEF Sums
<1>8. ip' \in Successors(program, ip)
  BY <1>1, NextInsn DEF current_insn
<1>9. ASSUME NEW r \in Register,
             cheri_bpf_is_capability(Transfer(current_insn, K), r)
      PROVE  regs'[r].source = Transfer(current_insn, K)[r]
  <2> DEFINE t == Transfer(current_insn, K)[r]
  <2>1. t = IF r = d /\ current_insn.op = \hbf THEN K[s]
            ELSE IF r = d /\ current_insn.op \in Moves \cup LoadOps THEN "none"
            ELSE K[r]
    BY <1>1, <1>3, TransferOf, OpcodeSets
  <2>2. t # "none"
    BY <1>9 DEF cheri_bpf_is_capability
  <2>3. \A x \in Register : K[x] # "none" => regs[x].source = K[x]
    BY <1>1, AtInsn DEF cheri_bpf_is_capability
  <2>8. current_insn.op \in BitOps => K[d] = "none"
    <3>1. Refusal(current_insn, K) = "none"
      BY NotRefused DEF Sound
    <3>2. QED
      BY <3>1, RefusalOf DEF cheri_bpf_is_capability
  <2> HIDE DEF t, K, d, s, v
  <2>4. CASE r # d
    BY <2>1, <2>2, <2>3, <2>4, <1>5 DEF t
  <2>5. CASE r = d /\ current_insn.op = \hbf
    BY <2>1, <2>2, <2>3, <2>5, <1>3, <1>5, <1>7 DEF t
  <2>6. CASE r = d /\ current_insn.op # \hbf
    <3>1. current_insn.op \in Sums
      BY <2>1, <2>2, <2>6, <2>8, <1>1, OpcodeSets
    <3>2. QED
      BY <2>1, <2>2, <2>3, <2>6, <3>1, <1>3, <1>5, <1>7, OpcodeSets DEF t
  <2>7. QED
    BY <2>4, <2>5, <2>6
<1>10. KindsHold'
  BY <1>1, <1>8, <1>9, KindsKept DEF Sound
<1>11. QED
  BY <1>1, <1>5, <1>8, <1>10, AtInsn

\* A load makes its destination a scalar.
LEMMA LoadsKinds ==
  ASSUME Sound, Loads
  PROVE  /\ DOMAIN regs' = Register /\ KindsHold' /\ ip' \in DOMAIN program
         /\ end' \in {"running", "bounds"}
<1> DEFINE d == current_insn.dst
           s == current_insn.src
           K == Analyse(program)[ip]
<1>1. /\ end = "running" /\ current_insn.op \in LoadOps
      /\ program' = program
  BY DEF Loads, TrapsThrough
<1>2. d \in Register /\ s \in Register /\ K \in Kinds
      /\ current_insn \in Instruction /\ current_insn.op \in Opcodes
  BY <1>1, AtInsn
<1>3. \A x \in Register : K[x] # "none" => regs[x].source = K[x]
  BY <1>1, AtInsn DEF cheri_bpf_is_capability
<1>4. regs[s].source # "none"
  <2>1. Refusal(current_insn, K) = "none"
    BY NotRefused DEF Sound
  <2>2. K[s] # "none"
    BY <1>1, <2>1, RefusalOf DEF cheri_bpf_is_capability
  <2>3. QED
    BY <1>2, <1>3, <2>2
<1>5. CASE TrapsThrough(s)
  <2>1. end' = "bounds" /\ ip' = ip /\ regs' = regs
    BY <1>4, <1>5 DEF TrapsThrough, TrapAt
  <2>2. KindsHold'
    BY <2>1 DEF KindsHold
  <2>3. QED
    BY <2>1, <2>2 DEF Sound
<1>6. CASE TrapAt(s) = "none"
  <2>1. /\ ip' = ip + 1 /\ end' = end
        /\ \E w : regs' = [regs EXCEPT ![d] = Scalar(w)]
    BY <1>6 DEF Loads, TrapsThrough
  <2>2. PICK w : regs' = [regs EXCEPT ![d] = Scalar(w)]
    BY <2>1
  <2>3. DOMAIN regs' = Register
        /\ \A r \in Register : r # d => regs'[r] = regs[r]
    BY <2>2, <1>2 DEF Sound
  <2>4. ip' \in Successors(program, ip)
    BY <2>1, <1>1, NextInsn DEF current_insn
  <2>5. ASSUME NEW r \in Register,
               cheri_bpf_is_capability(Transfer(current_insn, K), r)
        PROVE  regs'[r].source = Transfer(current_insn, K)[r]
    <3>1. Transfer(current_insn, K)[r] = IF r = d THEN "none" ELSE K[r]
      BY <1>1, <1>2, TransferOf, OpcodeSets
    <3>2. r # d /\ K[r] # "none"
      BY <2>5, <3>1 DEF cheri_bpf_is_capability
    <3>3. QED
      BY <1>3, <2>3, <3>1, <3>2
  <2>6. KindsHold'
    BY <1>1, <2>4, <2>5, KindsKept DEF Sound
  <2>7. QED
    BY <1>1, <2>1, <2>3, <2>4, <2>6, AtInsn
<1>7. QED
  BY <1>5, <1>6 DEF Loads

\* Instructions that change no register keep the kinds.
LEMMA QuietKinds ==
  ASSUME Sound, end = "running", regs' = regs, program' = program,
         current_insn.op \notin Moves \cup LoadOps \cup {CALL},
         ip' \in Successors(program, ip)
  PROVE  DOMAIN regs' = Register /\ KindsHold' /\ ip' \in DOMAIN program
<1> DEFINE K == Analyse(program)[ip]
<1>1. ASSUME NEW r \in Register,
             cheri_bpf_is_capability(Transfer(current_insn, K), r)
      PROVE  regs'[r].source = Transfer(current_insn, K)[r]
  <2>1. /\ current_insn \in Instruction /\ current_insn.op \in Opcodes
        /\ K \in Kinds
        /\ K[r] # "none" => regs[r].source = K[r]
    BY AtInsn DEF cheri_bpf_is_capability
  <2>2. Transfer(current_insn, K)[r] = K[r]
    BY <2>1, TransferOf, OpcodeSets
  <2>3. QED
    BY <1>1, <2>1, <2>2 DEF cheri_bpf_is_capability
<1>2. KindsHold'
  BY <1>1, KindsKept DEF Sound
<1>3. QED
  BY <1>2, AtInsn DEF Sound

\* A store through a tracked capability traps for its bounds only.
LEMMA StoresKinds ==
  ASSUME Sound, Stores
  PROVE  /\ DOMAIN regs' = Register /\ KindsHold' /\ ip' \in DOMAIN program
         /\ end' \in {"running", "bounds"}
<1> DEFINE d == current_insn.dst
           K == Analyse(program)[ip]
<1>1. /\ end = "running" /\ current_insn.op \in StoreOps
      /\ program' = program /\ regs' = regs
  BY DEF Stores, TrapsThrough
<1>2. regs[d].source # "none"
  <2>1. Refusal(current_insn, K) = "none"
    BY NotRefused DEF Sound
  <2>2. K[d] # "none"
    BY <1>1, <2>1, RefusalOf DEF cheri_bpf_is_capability
  <2>3. QED
    BY <1>1, <2>2, AtInsn DEF cheri_bpf_is_capability
<1>3. CASE TrapsThrough(d)
  <2>1. end' = "bounds" /\ ip' = ip
    BY <1>2, <1>3 DEF TrapsThrough, TrapAt
  <2>2. KindsHold'
    BY <2>1 DEF KindsHold
  <2>3. QED
    BY <1>1, <2>1, <2>2 DEF Sound
<1>4. CASE TrapAt(d) = "none"
  <2>1. ip' = ip + 1 /\ end' = end
    BY <1>4 DEF Stores, TrapsThrough
  <2>2. ip' \in Successors(program, ip)
    BY <1>1, <2>1, NextInsn DEF current_insn
  <2>3. QED
    BY <1>1, <2>1, <2>2, QuietKinds, OpcodeSets
<1>5. QED
  BY <1>3, <1>4 DEF Stores

\* After a helper R0 is the map value and R1 to R5 are nobody's.
LEMMA CallsHelperKinds ==
  ASSUME Sound, CallsHelper
  PROVE  DOMAIN regs' = Register /\ KindsHold' /\ ip' \in DOMAIN program
<1> DEFINE K == Analyse(program)[ip]
<1>1. /\ end = "running" /\ current_insn.op = CALL
      /\ program' = program /\ ip' = ip + 1
      /\ DOMAIN regs' = Register
      /\ \A r \in Register :
           regs'[r] = IF r = 0 THEN Capability("map_value", 0)
                      ELSE IF r \in CallerSaved THEN Scalar(WordOf(0)) ELSE regs[r]
  BY DEF CallsHelper
<1>2. ip' \in Successors(program, ip)
  BY <1>1, NextInsn DEF current_insn
<1>3. ASSUME NEW r \in Register,
             cheri_bpf_is_capability(Transfer(current_insn, K), r)
      PROVE  regs'[r].source = Transfer(current_insn, K)[r]
  <2>1. Transfer(current_insn, K)[r] =
          IF r = 0 THEN "map_value" ELSE IF r \in CallerSaved THEN "none" ELSE K[r]
    BY <1>1, AtInsn, TransferOf
  <2>2. K[r] # "none" => regs[r].source = K[r]
    BY <1>1, AtInsn DEF cheri_bpf_is_capability
  <2>3. Transfer(current_insn, K)[r] # "none"
    BY <1>3 DEF cheri_bpf_is_capability
  <2>4. CASE r = 0
    BY <2>1, <2>4, <1>1 DEF Capability
  <2>5. CASE r # 0
    <3>1. r \notin CallerSaved /\ regs'[r] = regs[r]
      BY <2>1, <2>3, <2>5, <1>1
    <3>2. QED
      BY <3>1, <2>1, <2>2, <2>3, <2>5
  <2>6. QED
    BY <2>4, <2>5
<1>4. KindsHold'
  BY <1>1, <1>2, <1>3, KindsKept DEF Sound
<1>5. QED
  BY <1>1, <1>2, <1>4, AtInsn

\* One instruction: the machine stays sound and never ends as "forged".
LEMMA ExecutesSound ==
  ASSUME Sound, Executes
  PROVE  /\ Sound' /\ program' = program
         /\ end = "running" /\ end' \in {"running", "bounds", "returned"}
<1>1. end = "running" /\ program' = program
  BY DEF Executes, Computes, CallsHelper, Jumps, Loads, Stores, Exits, TrapsThrough
<1>2. SUFFICES /\ DOMAIN regs' = Register /\ KindsHold' /\ ip' \in DOMAIN program
               /\ end' \in {"running", "bounds", "returned"}
  BY <1>1 DEF Sound, Refusals
<1>3. CASE Computes
  <2>1. end' = end
    BY <1>3 DEF Computes
  <2>2. QED
    BY <1>1, <1>3, <2>1, ComputesKinds
<1>4. CASE Jumps
  <2>1. /\ end' = end /\ regs' = regs
        /\ ip' \in Successors(program, ip)
        /\ current_insn.op \in {JA, JEQ_IMM}
    BY <1>4 DEF Jumps
  <2>2. QED
    BY <1>1, <2>1, QuietKinds, OpcodeSets
<1>5. CASE Loads
  BY <1>5, LoadsKinds
<1>6. CASE Stores
  BY <1>6, StoresKinds
<1>7. CASE Exits
  <2>1. end' = "returned" /\ regs' = regs /\ ip' = ip
    BY <1>7 DEF Exits
  <2>2. KindsHold'
    BY <2>1 DEF KindsHold
  <2>3. QED
    BY <2>1, <2>2 DEF Sound
<1>8. CASE CallsHelper
  <2>1. end' = end
    BY <1>8 DEF CallsHelper
  <2>2. QED
    BY <1>1, <1>8, <2>1, CallsHelperKinds
<1>9. QED
  BY <1>3, <1>4, <1>5, <1>6, <1>7, <1>8 DEF Executes

\* One instruction of any program: it goes on in the program, or ends.
LEMMA ExecutesShape ==
  ASSUME program \in Program, ip \in DOMAIN program, DOMAIN regs = Register, Executes
  PROVE  /\ program' = program /\ ip' \in DOMAIN program /\ DOMAIN regs' = Register
         /\ end = "running" /\ end' \in {"running", "bounds", "forged", "returned"}
<1>1. /\ current_insn \in Instruction /\ current_insn.op \in Opcodes
      /\ Successors(program, ip) \subseteq DOMAIN program
  BY SuccessorsIn DEF current_insn
<1>2. end = "running" /\ program' = program
  BY DEF Executes, Computes, CallsHelper, Jumps, Loads, Stores, Exits, TrapsThrough
<1>3. CASE \/ Computes \/ CallsHelper
           \/ Loads /\ TrapAt(current_insn.src) = "none"
           \/ Stores /\ TrapAt(current_insn.dst) = "none"
  <2>1. /\ ip' = ip + 1 /\ end' = end /\ DOMAIN regs' = Register
        /\ current_insn.op \in
             Moves \cup Sums \cup BitOps \cup LoadOps \cup StoreOps \cup {CALL}
    BY <1>3 DEF Computes, CallsHelper, Loads, Stores, TrapsThrough
  <2>2. QED
    BY <1>1, <1>2, <2>1, NextInsn DEF current_insn
<1>4. CASE \E r : TrapsThrough(r)
  BY <1>2, <1>4 DEF TrapsThrough, TrapAt
<1>5. CASE Jumps
  BY <1>1, <1>2, <1>5 DEF Jumps
<1>6. CASE Exits
  BY <1>2, <1>6 DEF Exits
<1>7. QED
  BY <1>3, <1>4, <1>5, <1>6 DEF Executes, Loads, Stores

-----------------------------------------------------------------------------
(* Main *)

\* Every status the child can leave is a wait status.
LEMMA StatusTypes ==
  /\ Alive \in Status
  /\ \A n \in 0 .. 255 : Exited(n) \in Status
  /\ \A f : Signalled(f) \in Status
BY DEF Status, Alive, Exited, Signalled, SignalOf, Signals

\* Every verdict is a number of failures.
LEMMA VerdictTypes ==
  /\ \A st : Verdict(st) \in {0, 1}
  /\ \A t, st : cheri_blocked(t, st) \in {0, 1}
<1>1. \A t, st : /\ wait_for_child(t, st) \in {0, 1} /\ run_case(t, st) \in {0, 1}
                /\ host_outcome_matches(t, st) \in {0, 1}
                /\ cheri_blocked(t, st) \in {0, 1}
  BY DEF wait_for_child, run_case, host_outcome_matches, cheri_blocked
<1>2. QED
  BY <1>1 DEF Verdict

\* The inductive invariant: the invariant of the module, and no number used as an
\* address, which a verdict on a trap rests on.
Tracked == IInv /\ NoForgedAccess

\* The suites start with the invariant.
LEMMA InitInv == Init => Tracked
<1> SUFFICES ASSUME Init PROVE Tracked
  OBVIOUS
<1>1. suite \in DOMAIN Suites /\ Len(rows) \in Nat
  BY SuitesAssumption DEF Init, rows
<1>2. TypeOK
  BY <1>1, StatusTypes DEF Init, Idle, TypeOK, Running
<1>3. InStep /\ KindsTrue /\ StatusTrue
  BY DEF Init, Idle, InStep, KindsTrue, KindsHold, StatusTrue
<1>4. CountTrue /\ NoForgedAccess
  BY DEF Init, Idle, CountTrue, NoForgedAccess, Running
<1>5. QED
  BY <1>2, <1>3, <1>4 DEF Tracked, IInv

\* A judgement that passes a row on its evidence keeps the books.
LEMMA JudgeKeeps ==
  ASSUME Tracked, pc # "done", current <= Len(rows),
         NEW r \in {0, 1}, NEW what, NEW foreign, Judge(r, what, foreign),
         r = 0 => Evidence(what, foreign)
  PROVE  /\ pc' = "row" /\ suite' = suite /\ rows' = rows /\ harness' = harness
         /\ current' \in 1 .. Len(rows) + 1
         /\ failures' \in 0 .. current' - 1
         /\ exit' = Running /\ missing' \in {0, 1}
         /\ CountTrue'
<1>1. /\ Len(rows) \in Nat /\ current \in 1 .. Len(rows)
      /\ failures \in 0 .. current - 1 /\ missing \in {0, 1}
      /\ exit = Running
  BY RowTypes DEF Tracked, IInv, TypeOK, CountTrue
<1>2. /\ pc' = "row" /\ suite' = suite /\ exit' = exit
      /\ current' = current + 1 /\ failures' = failures + r
      /\ missing' = IF Evidence(what, foreign) THEN missing ELSE 1
  BY DEF Judge
<1>3. /\ current' \in 1 .. Len(rows) + 1
      /\ failures' \in 0 .. current' - 1
  BY <1>1, <1>2
<1>4. rows' = rows /\ harness' = harness
  BY <1>2 DEF rows, harness
<1>5. missing' = 1 => failures' # 0
  <2>1. CASE r = 0
    BY <2>1, <1>1, <1>2 DEF Tracked, IInv, CountTrue
  <2>2. CASE r = 1
    BY <2>2, <1>1, <1>2
  <2>3. QED
    BY <2>1, <2>2
<1>6. CountTrue'
  BY <1>1, <1>2, <1>5 DEF CountTrue, Running
<1>7. QED
  BY <1>1, <1>2, <1>3, <1>4, <1>6

\* The judgement of a row without a child.
LEMMA TranslatesInv == Tracked /\ Translates => Tracked'
<1> SUFFICES ASSUME Tracked, Translates PROVE Tracked'
  OBVIOUS
<1>1. /\ pc = "row" /\ current <= Len(rows) /\ this.call \in {"reject", "accept"}
      /\ child' = child /\ status' = status /\ sent' = sent
      /\ program' = program /\ ip' = ip /\ regs' = regs /\ end' = end
  BY DEF Translates, machineVars
<1>2. PICK result :
        LET foreign == IF result = "failed" THEN 2 ELSE 0 IN
        /\ disturbed' = foreign
        /\ Judge(IF this.call = "reject" THEN expect_compile_reject(result)
                 ELSE expect_translate_ok(result), result, foreign)
  BY DEF Translates
<1> DEFINE foreign == IF result = "failed" THEN 2 ELSE 0
           r == IF this.call = "reject" THEN expect_compile_reject(result)
                ELSE expect_translate_ok(result)
<1>3. r \in {0, 1} /\ Judge(r, result, foreign)
  BY <1>2 DEF expect_compile_reject, expect_translate_ok
<1>4. r = 0 => Evidence(result, foreign)
  BY <1>1 DEF Evidence, expect_compile_reject, expect_translate_ok
<1>5. disturbed' \in {0, 1, 2}
  BY <1>2
<1> HIDE DEF r, foreign
<1>6. /\ pc' = "row" /\ suite' = suite /\ rows' = rows
      /\ current' \in 1 .. Len(rows) + 1
      /\ failures' \in 0 .. current' - 1
      /\ exit' = Running /\ missing' \in {0, 1}
      /\ CountTrue'
  BY <1>1, <1>3, <1>4, JudgeKeeps
<1>7. TypeOK'
  BY <1>1, <1>5, <1>6 DEF Tracked, IInv, TypeOK
<1>8. child = "none" /\ end = "idle"
  BY <1>1 DEF Tracked, IInv, InStep, TypeOK
<1>9. InStep' /\ KindsTrue' /\ StatusTrue' /\ NoForgedAccess'
  BY <1>1, <1>6, <1>8 DEF InStep, KindsTrue, KindsHold, StatusTrue, NoForgedAccess
<1>10. QED
  BY <1>6, <1>7, <1>9 DEF Tracked, IInv

\* A row whose child could not be made fails.
LEMMA ForkFailsInv == Tracked /\ ForkFails => Tracked'
<1> SUFFICES ASSUME Tracked, ForkFails PROVE Tracked'
  OBVIOUS
<1>1. /\ pc = "row" /\ current <= Len(rows) /\ disturbed' = 2
      /\ Judge(1, "idle", 2)
      /\ child' = child /\ status' = status /\ sent' = sent
      /\ program' = program /\ ip' = ip /\ regs' = regs /\ end' = end
  BY DEF ForkFails, machineVars
<1>2. /\ pc' = "row" /\ suite' = suite /\ rows' = rows
      /\ current' \in 1 .. Len(rows) + 1
      /\ failures' \in 0 .. current' - 1
      /\ exit' = Running /\ missing' \in {0, 1}
      /\ CountTrue'
  BY <1>1, JudgeKeeps
<1>3. TypeOK'
  BY <1>1, <1>2 DEF Tracked, IInv, TypeOK
<1>4. child = "none" /\ end = "idle"
  BY <1>1 DEF Tracked, IInv, InStep, TypeOK
<1>5. InStep' /\ KindsTrue' /\ StatusTrue' /\ NoForgedAccess'
  BY <1>1, <1>2, <1>4 DEF InStep, KindsTrue, KindsHold, StatusTrue, NoForgedAccess
<1>6. QED
  BY <1>2, <1>3, <1>5 DEF Tracked, IInv

\* A new child has not called anything yet.
LEMMA ForkInv == Tracked /\ Fork => Tracked'
<1> SUFFICES ASSUME Tracked, Fork PROVE Tracked'
  OBVIOUS
<1>1. /\ pc = "row" /\ current <= Len(rows) /\ this.call \in {"value", "trap"}
      /\ pc' = "wait" /\ child' \in {"start", "compile"}
      /\ status' = Alive /\ sent' = 0 /\ disturbed' = 0
      /\ suite' = suite /\ current' = current /\ failures' = failures
      /\ exit' = exit /\ missing' = missing
      /\ program' = program /\ ip' = ip /\ regs' = regs /\ end' = end
  BY DEF Fork, machineVars
<1>2. rows' = rows /\ this' = this
  BY <1>1 DEF rows, this
<1>3. TypeOK'
  BY <1>1, <1>2, StatusTypes DEF Tracked, IInv, TypeOK
<1>4. end = "idle" /\ exit = Running
  BY <1>1 DEF Tracked, IInv, InStep, TypeOK, CountTrue
<1>5. InStep' /\ KindsTrue' /\ StatusTrue' /\ NoForgedAccess'
  BY <1>1, <1>2, <1>4 DEF InStep, KindsTrue, KindsHold, StatusTrue, NoForgedAccess
<1>6. CountTrue'
  BY <1>1, <1>2, <1>4 DEF Tracked, IInv, CountTrue, Running
<1>7. QED
  BY <1>3, <1>5, <1>6 DEF Tracked, IInv

\* main believes the end of a child that tells the truth.
LEMMA ReapInv == Tracked /\ Reap => Tracked'
<1> SUFFICES ASSUME Tracked, Reap PROVE Tracked'
  OBVIOUS
<1> DEFINE r == Verdict(status)
<1>1. /\ pc = "wait" /\ child = "gone" /\ Judge(r, Outcome, disturbed)
      /\ child' = "none" /\ status' = status /\ sent' = sent /\ disturbed' = disturbed
      /\ end' = "idle" /\ DOMAIN regs' = Register
  BY DEF Reap, Reset
<1>2. current <= Len(rows)
  BY <1>1 DEF Tracked, IInv, InStep
<1>3. r \in {0, 1}
  BY VerdictTypes
<1>4. r = 0 => Evidence(Outcome, disturbed)
  BY <1>1 DEF Tracked, IInv, StatusTrue
<1> HIDE DEF r
<1>5. /\ pc' = "row" /\ suite' = suite /\ rows' = rows
      /\ current' \in 1 .. Len(rows) + 1
      /\ failures' \in 0 .. current' - 1
      /\ exit' = Running /\ missing' \in {0, 1}
      /\ CountTrue'
  BY <1>1, <1>2, <1>3, <1>4, JudgeKeeps
<1>6. TypeOK'
  BY <1>1, <1>5 DEF Tracked, IInv, TypeOK
<1>7. InStep' /\ KindsTrue' /\ StatusTrue' /\ NoForgedAccess'
  BY <1>1, <1>5 DEF InStep, KindsTrue, KindsHold, StatusTrue, NoForgedAccess
<1>8. QED
  BY <1>5, <1>6, <1>7 DEF Tracked, IInv

\* A row whose child was not reaped fails, except in the exploit suite for a row
\* whose safe value has arrived.
LEMMA ReapFailsInv == Tracked /\ ReapFails => Tracked'
<1> SUFFICES ASSUME Tracked, ReapFails PROVE Tracked'
  OBVIOUS
<1> DEFINE r == IF harness = "exploit" THEN cheri_blocked(ExpectsTrap, Exited(0)) ELSE 1
<1>1. /\ pc = "wait" /\ Judge(r, Outcome, 2)
      /\ child' = "none" /\ status' = status /\ sent' = sent /\ disturbed' = 2
      /\ end' = "idle" /\ DOMAIN regs' = Register
  BY DEF ReapFails, Reset
<1>2. current <= Len(rows) /\ this.call \in {"value", "trap"}
  BY <1>1 DEF Tracked, IInv, InStep
<1>3. r \in {0, 1}
  BY VerdictTypes
<1>4. ASSUME r = 0 PROVE Evidence(Outcome, 2)
  <2>1. harness = "exploit" /\ cheri_blocked(ExpectsTrap, Exited(0)) = 0
    BY <1>4
  <2>2. ~WIFSIGNALED(Exited(0)) /\ Exited(0).code = 0
    BY DEF WIFSIGNALED, Exited
  <2>3. ~ExpectsTrap /\ Outcome = "expected"
    BY <2>1, <2>2 DEF cheri_blocked, RESULT_EXPLOIT_BLOCKED
  <2>4. QED
    BY <1>2, <2>3 DEF Evidence, ExpectsTrap
<1> HIDE DEF r
<1>5. /\ pc' = "row" /\ suite' = suite /\ rows' = rows
      /\ current' \in 1 .. Len(rows) + 1
      /\ failures' \in 0 .. current' - 1
      /\ exit' = Running /\ missing' \in {0, 1}
      /\ CountTrue'
  BY <1>1, <1>2, <1>3, <1>4, JudgeKeeps
<1>6. TypeOK'
  BY <1>1, <1>5 DEF Tracked, IInv, TypeOK
<1>7. InStep' /\ KindsTrue' /\ StatusTrue' /\ NoForgedAccess'
  BY <1>1, <1>5 DEF InStep, KindsTrue, KindsHold, StatusTrue, NoForgedAccess
<1>8. QED
  BY <1>5, <1>6, <1>7 DEF Tracked, IInv

\* main returns 0 only without failures.
LEMMA ReturnInv == Tracked /\ Return => Tracked'
<1> SUFFICES ASSUME Tracked, Return PROVE Tracked'
  OBVIOUS
<1>1. /\ pc = "row" /\ current > Len(rows) /\ pc' = "done"
      /\ exit' = IF failures = 0 THEN 0 ELSE 1
      /\ suite' = suite /\ current' = current /\ failures' = failures
      /\ missing' = missing /\ child' = child /\ status' = status
      /\ sent' = sent /\ disturbed' = disturbed
      /\ program' = program /\ ip' = ip /\ regs' = regs /\ end' = end
  BY DEF Return, machineVars, childVars
<1>2. rows' = rows /\ this' = this
  BY <1>1 DEF rows, this
<1>3. TypeOK'
  BY <1>1, <1>2 DEF Tracked, IInv, TypeOK
<1>4. child = "none" /\ end = "idle"
  BY <1>1 DEF Tracked, IInv, InStep, TypeOK
<1>5. InStep' /\ KindsTrue' /\ StatusTrue' /\ NoForgedAccess'
  BY <1>1, <1>2, <1>4 DEF InStep, KindsTrue, KindsHold, StatusTrue, NoForgedAccess
<1>6. current = Len(rows) + 1
  BY <1>1, RowTypes DEF Tracked, IInv, TypeOK
<1>7. CountTrue'
  BY <1>1, <1>2, <1>6 DEF Tracked, IInv, CountTrue, Running
<1>8. QED
  BY <1>3, <1>5, <1>7 DEF Tracked, IInv

-----------------------------------------------------------------------------
(* The child *)

\* While there is a child, main waits for it at a row that runs a program.
LEMMA Busy ==
  ASSUME Tracked, child # "none"
  PROVE  /\ pc = "wait" /\ exit = Running /\ harness \in Harnesses
         /\ current <= Len(rows) /\ this.call \in {"value", "trap"}
         /\ this.program \in Program
         /\ Analysed(this.program, Analyse(this.program))
         /\ end # "idle" /\ harness \in Translating => Sound
<1>1. /\ pc = "wait" /\ exit = Running
      /\ current <= Len(rows) /\ this.call \in {"value", "trap"}
  BY DEF Tracked, IInv, InStep, CountTrue
<1>2. /\ this.program \in Program /\ Analysed(this.program, Analyse(this.program))
      /\ harness \in Harnesses
  BY <1>1, RowTypes DEF Tracked, IInv, TypeOK
<1>3. end # "idle" /\ harness \in Translating => Sound
  BY <1>2 DEF Sound, Tracked, IInv, InStep, TypeOK, Admitted, KindsTrue
<1>4. QED
  BY <1>1, <1>2, <1>3

\* What main and the rows keep while the child is at work.
LEMMA MainKept ==
  ASSUME Tracked, UNCHANGED mainVars
  PROVE  /\ rows' = rows /\ this' = this /\ harness' = harness
         /\ pc' = pc /\ current' = current
         /\ suite' \in DOMAIN Suites
         /\ pc' \in {"row", "wait", "done"}
         /\ current' \in 1 .. Len(rows') + 1
         /\ failures' \in 0 .. current' - 1
         /\ exit' \in {Running, 0, 1} /\ missing' \in {0, 1}
         /\ CountTrue' /\ Admitted' = Admitted
<1>1. /\ suite' = suite /\ pc' = pc /\ current' = current
      /\ failures' = failures /\ exit' = exit /\ missing' = missing
  BY DEF mainVars
<1>2. rows' = rows /\ this' = this /\ harness' = harness
  BY <1>1 DEF rows, this, harness
<1>3. CountTrue' /\ Admitted' = Admitted
  BY <1>1, <1>2 DEF Tracked, IInv, CountTrue, Admitted, Refusals
<1>4. QED
  BY <1>1, <1>2, <1>3 DEF Tracked, IInv, TypeOK

\* A child may leave with a status that does not claim what did not happen.
LEMMA LeaveInv ==
  ASSUME Tracked, child \notin {"none", "gone"},
         UNCHANGED mainVars, UNCHANGED machineVars, sent' = sent,
         NEW st \in Status, Leave(st), disturbed' \in {0, 1, 2},
         Verdict(st) = 0 => Evidence(Outcome, disturbed')
  PROVE  Tracked'
<1>1. child' = "gone" /\ status' = st
  BY DEF Leave
<1>2. program' = program /\ ip' = ip /\ regs' = regs /\ end' = end
  BY DEF machineVars
<1>3. /\ rows' = rows /\ this' = this /\ harness' = harness /\ pc' = pc
      /\ current' = current /\ CountTrue' /\ Admitted' = Admitted
  BY MainKept
<1>4. TypeOK'
  BY <1>1, <1>2, MainKept DEF Tracked, IInv, TypeOK
<1>5. InStep'
  BY <1>1, <1>2, <1>3, Busy DEF Tracked, IInv, InStep
<1>6. KindsTrue' /\ NoForgedAccess'
  BY <1>2, <1>3 DEF Tracked, IInv, KindsTrue, KindsHold, NoForgedAccess
<1>7. Outcome' = Outcome
  BY <1>2, <1>3 DEF Outcome
<1>8. Verdict(status)' = Verdict(st)
  BY <1>1, <1>3, <1>7 DEF Verdict, ExpectsTrap, run_case, host_outcome_matches,
     cheri_blocked, wait_for_child, Returned
<1>9. Evidence(Outcome, disturbed)' = Evidence(Outcome, disturbed')
  BY <1>3, <1>7 DEF Evidence
<1>10. StatusTrue'
  BY <1>8, <1>9 DEF StatusTrue
<1>11. QED
  BY <1>3, <1>4, <1>5, <1>6, <1>10 DEF Tracked, IInv

\* A step of the child that is neither a call nor its end.
LEMMA AdvanceInv ==
  ASSUME Tracked, UNCHANGED mainVars, UNCHANGED machineVars,
         status' = status, disturbed' = disturbed, sent' \in {0, 1},
         \/ child = "start" /\ child' = "compile"
         \/ child = "run" /\ end = "returned" /\ child' = "returned"
         \/ child = "returned" /\ child' = "written"
  PROVE  Tracked'
<1>1. program' = program /\ ip' = ip /\ regs' = regs /\ end' = end
  BY DEF machineVars
<1>2. /\ rows' = rows /\ this' = this /\ harness' = harness /\ pc' = pc
      /\ current' = current /\ CountTrue' /\ Admitted' = Admitted
  BY MainKept
<1>3. TypeOK'
  BY <1>1, MainKept DEF Tracked, IInv, TypeOK
<1>4. InStep'
  BY <1>1, <1>2, Busy DEF Tracked, IInv, InStep
<1>5. KindsTrue' /\ NoForgedAccess' /\ StatusTrue'
  BY <1>1, <1>2 DEF Tracked, IInv, KindsTrue, KindsHold, NoForgedAccess, StatusTrue
<1>6. QED
  BY <1>2, <1>3, <1>4, <1>5 DEF Tracked, IInv

\* What the end of a child is to each harness when it passes the row.
LEMMA PassOf ==
  ASSUME harness \in Harnesses, NEW st, Verdict(st) = 0
  PROVE  /\ ~ExpectsTrap =>
              \/ harness \notin Piped /\ ~WIFSIGNALED(st) /\ st.code = 0
              \/ harness = "host" /\ Outcome = "expected"
              \/ harness = "exploit"
                   /\ (WIFSIGNALED(st) \/ st.code = 1 \/ Outcome = "expected")
         /\ ExpectsTrap =>
              \/ harness \in {"compile", "loader"} /\ (WIFSIGNALED(st) \/ st.code # 20)
              \/ harness \in {"generated", "host"} /\ (WIFSIGNALED(st) \/ st.code = 0)
              \/ harness = "exploit" /\ (WIFSIGNALED(st) \/ st.code = 1)
<1>1. CASE harness \in {"compile", "loader"}
  <2>1. wait_for_child(ExpectsTrap, st) = 0
    BY <1>1 DEF Verdict
  <2>2. QED
    BY <1>1, <2>1 DEF wait_for_child, Piped
<1>2. CASE harness = "generated"
  <2>1. run_case(ExpectsTrap, st) = 0
    BY <1>2 DEF Verdict
  <2>2. QED
    BY <1>2, <2>1 DEF run_case, Piped
<1>3. CASE harness = "host"
  <2>1. host_outcome_matches(ExpectsTrap, st) = 0
    BY <1>3 DEF Verdict
  <2>2. QED
    BY <1>3, <2>1 DEF host_outcome_matches, Returned
<1>4. CASE harness = "exploit"
  <2>1. cheri_blocked(ExpectsTrap, st) = 0
    BY <1>4 DEF Verdict
  <2>2. QED
    BY <1>4, <2>1 DEF cheri_blocked, Returned, RESULT_EXPLOIT_BLOCKED
<1>5. QED
  BY <1>1, <1>2, <1>3, <1>4 DEF Harnesses

\* What is evidence in a row with a child.
LEMMA EvidenceOf ==
  ASSUME this.call \in {"value", "trap"}, NEW what, NEW foreign
  PROVE  /\ ~ExpectsTrap =>
              (Evidence(what, foreign) <=>
                 \/ what = "expected"
                 \/ harness = "exploit" /\ (what # "unexpected" \/ foreign # 0))
         /\ ExpectsTrap =>
              (Evidence(what, foreign) <=>
                 \/ foreign = 1
                 \/ harness = "generated" /\ what \in {"bounds", "forged"}
                 \/ harness = "host" /\ what # "idle"
                 \/ harness \in Lenient
                      /\ (what \notin {"expected", "unexpected"} \/ foreign = 2))
BY DEF Evidence, ExpectsTrap

\* An exit code as a wait status.
LEMMA CodeOf ==
  ASSUME NEW n \in 0 .. 255
  PROVE  Exited(n) \in Status /\ ~WIFSIGNALED(Exited(n)) /\ Exited(n).code = n
<1>1. Exited(n) \in Status
  BY StatusTypes
<1>2. QED
  BY <1>1 DEF WIFSIGNALED, Exited

\* The handler ends a child that expects a value with a failure.
LEMMA HandlerOf ==
  \A f : LET st == trap_handler(f) IN
           /\ st \in Status
           /\ WIFSIGNALED(st) \/ st.code \in {0, 31}
           /\ ~ExpectsTrap => WIFSIGNALED(st) \/ st.code = 31
<1> TAKE f
<1>1. \/ trap_handler(f) = Signalled(f)
      \/ trap_handler(f) = Exited(0) /\ ExpectsTrap
      \/ trap_handler(f) = Exited(31)
  BY DEF trap_handler
<1>2. Signalled(f) \in Status /\ WIFSIGNALED(Signalled(f))
  BY StatusTypes DEF WIFSIGNALED, Signalled
<1>3. 0 \in 0 .. 255 /\ 31 \in 0 .. 255
  OBVIOUS
<1>4. Exited(0) \in Status /\ Exited(0).code = 0
      /\ Exited(31) \in Status /\ Exited(31).code = 31
  BY <1>3, CodeOf
<1>5. QED
  BY <1>1, <1>2, <1>4

\* The access that trapped ends the child, without a value.
LEMMA TrappedInv == Tracked /\ Trapped => Tracked'
<1> SUFFICES ASSUME Tracked, Trapped PROVE Tracked'
  OBVIOUS
<1> DEFINE st == trap_handler(IF harness = "host" THEN "page"
                              ELSE IF end = "bounds" THEN "bounds" ELSE "tag")
<1>1. /\ child = "run" /\ end \in {"bounds", "forged"}
      /\ Leave(st) /\ UNCHANGED mainVars /\ UNCHANGED machineVars
      /\ disturbed' = disturbed /\ sent' = sent
  BY DEF Trapped
<1>2. disturbed' \in {0, 1, 2}
  BY <1>1 DEF Tracked, IInv, TypeOK
<1>3. st \in Status /\ (~ExpectsTrap => WIFSIGNALED(st) \/ st.code = 31)
  BY HandlerOf
<1>4. Outcome = end
  BY <1>1 DEF Outcome
<1> HIDE DEF st
<1>5. ASSUME Verdict(st) = 0 PROVE Evidence(Outcome, disturbed')
  <2>1. harness \in Harnesses /\ this.call \in {"value", "trap"}
    BY <1>1, Busy
  <2>2. CASE ExpectsTrap
    <3>1. harness \in Lenient \/ harness = "generated" \/ harness = "host"
      BY <2>1 DEF Harnesses, Lenient
    <3>2. QED
      BY <1>1, <1>4, <2>1, <2>2, <3>1, EvidenceOf
  <2>3. CASE ~ExpectsTrap
    <3>1. harness = "exploit"
      BY <1>1, <1>3, <1>4, <1>5, <2>1, <2>3, PassOf
    <3>2. QED
      BY <1>1, <1>4, <2>1, <2>3, <3>1, EvidenceOf
  <2>4. QED
    BY <2>2, <2>3
<1>6. QED
  BY <1>1, <1>2, <1>3, <1>5, LeaveInv

\* A program that is refused is not called; one that is translated starts with
\* the kinds of its entry.
LEMMA CompileInv == Tracked /\ load_compile_and_call => Tracked'
<1> SUFFICES ASSUME Tracked, load_compile_and_call PROVE Tracked'
  OBVIOUS
<1>1. /\ child = "compile" /\ UNCHANGED mainVars /\ disturbed' = disturbed
      /\ sent' = sent /\ end = "idle"
  BY DEF load_compile_and_call, Tracked, IInv, InStep, TypeOK
<1>2. CASE ~Admitted
  <2> DEFINE n == IF harness = "compile" THEN 10 ELSE RESULT_EXPLOIT_BLOCKED
  <2>1. Leave(Exited(n)) /\ UNCHANGED machineVars
    BY <1>2 DEF load_compile_and_call
  <2>2. n \in 0 .. 255 /\ n # 0
    BY DEF RESULT_EXPLOIT_BLOCKED
  <2>3. disturbed' \in {0, 1, 2}
    BY <1>1 DEF Tracked, IInv, TypeOK
  <2>4. Outcome = "idle"
    BY <1>1 DEF Outcome
  <2>5. harness \in Translating
    BY <1>2 DEF Admitted
  <2> HIDE DEF n
  <2>6. Exited(n) \in Status /\ ~WIFSIGNALED(Exited(n)) /\ Exited(n).code = n
    BY <2>2, CodeOf
  <2>7. ASSUME Verdict(Exited(n)) = 0 PROVE Evidence(Outcome, disturbed')
    <3>1. harness \in Harnesses /\ this.call \in {"value", "trap"}
      BY <1>1, Busy
    <3>2. harness \in Lenient /\ (~ExpectsTrap => harness = "exploit")
      BY <2>2, <2>4, <2>5, <2>6, <2>7, <3>1, PassOf DEF Translating, Lenient, Piped
    <3>3. QED
      BY <2>4, <3>1, <3>2, EvidenceOf
  <2>8. QED
    BY <1>1, <2>1, <2>3, <2>6, <2>7, LeaveInv
<1>3. CASE Admitted
  <2> DEFINE p == this.program
  <2>1. child' = "run" /\ Call(p, Suites[suite].space) /\ status' = status
    BY <1>3 DEF load_compile_and_call
  <2>2. /\ program' = p /\ ip' = 1 /\ end' = "running"
        /\ DOMAIN regs' = Register
        /\ regs'[1] = Capability("context", 0)
        /\ regs'[10] = Capability("stack", 0)
    BY <2>1 DEF Call, Register, CHERI_BPF_REG_COUNT
  <2>3. /\ rows' = rows /\ this' = this /\ harness' = harness /\ pc' = pc
        /\ current' = current /\ CountTrue' /\ Admitted'
    BY <1>1, <1>3, MainKept
  <2>4. p \in Program /\ Analysed(p, Analyse(p))
        /\ pc = "wait" /\ current <= Len(rows) /\ this.call \in {"value", "trap"}
    BY <1>1, Busy
  <2>5. 1 \in DOMAIN p
    <3>1. p \in Seq(Instruction) /\ p # <<>>
      BY <2>4 DEF Program
    <3>2. QED
      BY <3>1
  <2>6. TypeOK'
    BY <1>1, <2>1, <2>2, MainKept DEF Tracked, IInv, TypeOK
  <2>7. InStep'
    BY <2>1, <2>2, <2>3, <2>4, <2>5 DEF InStep
  <2>8. KindsTrue'
    <3>1. Analyse(p)[1] = EntryKinds
      BY <2>4 DEF Analysed
    <3>2. \A r \in Register :
            EntryKinds[r] = IF r = 1 THEN "context" ELSE IF r = 10 THEN "stack" ELSE "none"
      BY DEF EntryKinds, cheri_bpf_mark_capability, Register, CHERI_BPF_REG_COUNT
    <3>3. regs'[1].source = "context" /\ regs'[10].source = "stack"
      BY <2>2 DEF Capability
    <3>4. QED
      BY <2>2, <3>1, <3>2, <3>3 DEF KindsTrue, KindsHold, cheri_bpf_is_capability
  <2>9. StatusTrue' /\ NoForgedAccess'
    BY <2>1, <2>2 DEF StatusTrue, NoForgedAccess
  <2>10. QED
    BY <2>3, <2>6, <2>7, <2>8, <2>9 DEF Tracked, IInv
<1>4. QED
  BY <1>2, <1>3

\* An instruction of the program.
LEMMA RunsInv == Tracked /\ Runs => Tracked'
<1> SUFFICES ASSUME Tracked, Runs PROVE Tracked'
  OBVIOUS
<1>1. /\ child = "run" /\ Executes /\ UNCHANGED mainVars
      /\ child' = "run" /\ status' = status /\ sent' = sent /\ disturbed' = disturbed
  BY DEF Runs, childVars
<1>2. end # "idle" /\ program = this.program /\ ip \in DOMAIN program
      /\ Admitted /\ DOMAIN regs = Register
  BY <1>1 DEF Tracked, IInv, InStep, TypeOK
<1>3. program \in Program
  BY <1>1, <1>2, Busy
<1>4. /\ program' = program /\ ip' \in DOMAIN program /\ DOMAIN regs' = Register
      /\ end' \in {"running", "bounds", "forged", "returned"}
  BY <1>1, <1>2, <1>3, ExecutesShape
<1>5. /\ rows' = rows /\ this' = this /\ harness' = harness /\ pc' = pc
      /\ current' = current /\ CountTrue' /\ Admitted'
  BY <1>1, <1>2, MainKept
<1>6. harness \in Translating => KindsHold' /\ end' # "forged"
  <2>1. harness \in Translating => Sound
    BY <1>1, <1>2, Busy
  <2>2. QED
    BY <1>1, <2>1, ExecutesSound DEF Sound
<1>7. TypeOK'
  BY <1>1, <1>4, MainKept DEF Tracked, IInv, TypeOK
<1>8. InStep'
  BY <1>1, <1>2, <1>4, <1>5, Busy DEF InStep
<1>9. KindsTrue' /\ StatusTrue' /\ NoForgedAccess'
  BY <1>1, <1>5, <1>6 DEF KindsTrue, StatusTrue, NoForgedAccess
<1>10. QED
  BY <1>5, <1>7, <1>8, <1>9 DEF Tracked, IInv

\* The code of a call that came back.
LEMMA ExitChildInv == Tracked /\ ExitChild => Tracked'
<1> SUFFICES ASSUME Tracked, ExitChild PROVE Tracked'
  OBVIOUS
<1> DEFINE n == IF harness \in Piped THEN 0
                ELSE IF ExpectsTrap THEN 20
                ELSE IF Outcome = "expected" THEN 0 ELSE 21
<1>1. /\ child \in {"returned", "written"} /\ Leave(Exited(n))
      /\ UNCHANGED mainVars /\ UNCHANGED machineVars /\ disturbed' = disturbed
      /\ sent' = sent
  BY DEF ExitChild
<1>2. disturbed' \in {0, 1, 2}
  BY <1>1 DEF Tracked, IInv, TypeOK
<1>3. /\ harness \in Piped => n = 0
      /\ harness \notin Piped /\ ExpectsTrap => n = 20
      /\ harness \notin Piped /\ ~ExpectsTrap /\ Outcome # "expected" => n = 21
      /\ n \in 0 .. 255
  OBVIOUS
<1>4. Outcome \in {"expected", "unexpected"}
  BY <1>1 DEF Outcome, Tracked, IInv, InStep
<1> HIDE DEF n
<1>5. Exited(n) \in Status /\ ~WIFSIGNALED(Exited(n)) /\ Exited(n).code = n
  BY <1>3, CodeOf
<1>6. ASSUME Verdict(Exited(n)) = 0 PROVE Evidence(Outcome, disturbed')
  <2>1. harness \in Harnesses /\ this.call \in {"value", "trap"}
    BY <1>1, Busy
  <2>2. CASE ExpectsTrap
    <3>1. harness = "host"
      BY <1>3, <1>5, <1>6, <2>1, <2>2, PassOf DEF Piped
    <3>2. QED
      BY <1>4, <2>1, <2>2, <3>1, EvidenceOf
  <2>3. CASE ~ExpectsTrap
    <3>1. Outcome = "expected"
      BY <1>3, <1>5, <1>6, <2>1, <2>3, PassOf DEF Piped
    <3>2. QED
      BY <2>1, <2>3, <3>1, EvidenceOf
  <2>4. QED
    BY <2>2, <2>3
<1>7. QED
  BY <1>1, <1>2, <1>5, <1>6, LeaveInv

\* The codes of a child that gives up.
LEMMA GiveUpCodes ==
  ASSUME harness \in Harnesses
  PROVE  /\ \A n \in CompileFailure[harness] : n \in 0 .. 255 /\ n # 0
         /\ harness \in Piped =>
              WriteFailure[harness] \in 0 .. 255 /\ WriteFailure[harness] # 0
<1>1. /\ CompileFailure["compile"] = {10} /\ CompileFailure["loader"] = {10, 11}
      /\ CompileFailure["generated"] = {1, 2} /\ CompileFailure["host"] = {2, 3, 4}
      /\ CompileFailure["exploit"] = {1, 3}
  BY DEF CompileFailure, RESULT_EXPLOIT_BLOCKED
<1>2. WriteFailure["host"] = 5 /\ WriteFailure["exploit"] = 3
  BY DEF WriteFailure
<1>3. QED
  BY <1>1, <1>2 DEF Harnesses, Piped

\* A child that gives up passes a trap case only where its code cannot be told
\* from a trap.
LEMMA GivesUpInv == Tracked /\ GivesUp => Tracked'
<1> SUFFICES ASSUME Tracked, GivesUp PROVE Tracked'
  OBVIOUS
<1>1. /\ disturbed' = 2 /\ sent' = sent /\ UNCHANGED mainVars /\ UNCHANGED machineVars
      /\ child \notin {"none", "gone"}
  BY DEF GivesUp
<1>2. harness \in Harnesses /\ this.call \in {"value", "trap"}
  BY <1>1, Busy
<1>3. PICK n \in 0 .. 255 : n # 0 /\ Leave(Exited(n))
  <2>1. 11 \in 0 .. 255 /\ 11 # 0
    OBVIOUS
  <2>2. QED
    BY <1>2, <2>1, GiveUpCodes DEF GivesUp
<1>4. Exited(n) \in Status /\ ~WIFSIGNALED(Exited(n)) /\ Exited(n).code = n
  BY CodeOf
<1>5. ASSUME Verdict(Exited(n)) = 0 PROVE Evidence(Outcome, disturbed')
  <2>1. CASE ExpectsTrap
    <3>1. harness \in Lenient
      BY <1>2, <1>3, <1>4, <1>5, <2>1, PassOf DEF Lenient
    <3>2. QED
      BY <1>1, <1>2, <2>1, <3>1, EvidenceOf
  <2>2. CASE ~ExpectsTrap
    <3>1. Outcome = "expected" \/ harness = "exploit"
      BY <1>2, <1>3, <1>4, <1>5, <2>2, PassOf
    <3>2. QED
      BY <1>1, <1>2, <2>2, <3>1, EvidenceOf
  <2>3. QED
    BY <2>1, <2>2
<1>6. QED
  BY <1>1, <1>3, <1>4, <1>5, LeaveInv

\* A foreign fault never ends a child as one with its value.
LEMMA ForeignFaultInv == Tracked /\ ForeignFault => Tracked'
<1> SUFFICES ASSUME Tracked, ForeignFault PROVE Tracked'
  OBVIOUS
<1>1. /\ disturbed' = 1 /\ sent' = sent /\ UNCHANGED mainVars /\ UNCHANGED machineVars
      /\ child \notin {"none", "gone"}
  BY DEF ForeignFault
<1>2. PICK f : Leave(trap_handler(f))
  BY DEF ForeignFault
<1>3. /\ trap_handler(f) \in Status
      /\ ~ExpectsTrap => WIFSIGNALED(trap_handler(f)) \/ trap_handler(f).code = 31
  BY HandlerOf
<1>4. ASSUME Verdict(trap_handler(f)) = 0 PROVE Evidence(Outcome, disturbed')
  <2>1. harness \in Harnesses /\ this.call \in {"value", "trap"}
    BY <1>1, Busy
  <2>2. CASE ExpectsTrap
    BY <1>1, <2>1, <2>2, EvidenceOf
  <2>3. CASE ~ExpectsTrap
    <3>1. Outcome = "expected" \/ harness = "exploit"
      BY <1>3, <1>4, <2>1, <2>3, PassOf
    <3>2. QED
      BY <1>1, <2>1, <2>3, <3>1, EvidenceOf
  <2>4. QED
    BY <2>2, <2>3
<1>5. QED
  BY <1>1, <1>2, <1>3, <1>4, LeaveInv

-----------------------------------------------------------------------------
(* The context *)

\* Storing through another root leaves what is reached through the context.
LEMMA StoredElsewhere ==
  ASSUME NEW m, NEW v, v.source # "context", NEW off, NEW width, NEW w
  PROVE  Through("context", Stored(m, v, off, width, w)) = Through("context", m)
<1> DEFINE place(i) == <<v.source, v.at + off + i - 1>>
           written == {place(i) : i \in 1 .. width}
           byte(p) == w[CHOOSE i \in 1 .. width : place(i) = p]
           m2 == [p \in DOMAIN m \cup written |-> IF p \in written THEN byte(p) ELSE m[p]]
<1>1. Stored(m, v, off, width, w) = m2
  BY DEF Stored
<1>2. \A p \in written : p[1] # "context"
  OBVIOUS
<1> HIDE DEF place, written, byte
<1>3. {q \in DOMAIN m2 : q[1] = "context"} = {q \in DOMAIN m : q[1] = "context"}
  BY <1>2
<1>4. \A q \in {x \in DOMAIN m : x[1] = "context"} : m2[q] = m[q]
  BY <1>2
<1> HIDE DEF m2
<1>5. Through("context", m2) = Through("context", m)
  BY <1>3, <1>4 DEF Through
<1>6. QED
  BY <1>1, <1>5

\* One instruction of a translated program.
LEMMA ExecutesReadOnly ==
  ASSUME Sound, Executes
  PROVE  Through("context", memory') = Through("context", memory)
<1>1. CASE memory' = memory
  BY <1>1
<1>2. CASE Stores /\ memory' # memory
  <2> DEFINE d == current_insn.dst
             K == Analyse(program)[ip]
             w == IF current_insn.op \in ImmStores THEN WordOf(current_insn.imm)
                  ELSE regs[current_insn.src].word
  <2>1. /\ end = "running" /\ current_insn.op \in StoreOps
        /\ memory' = Stored(memory, regs[d], current_insn.off, Width(current_insn.op), w)
    BY <1>2 DEF Stores, TrapsThrough
  <2>2. K[d] \in {"stack", "map_value"} /\ cheri_bpf_is_capability(K, d)
    <3>1. Refusal(current_insn, K) = "none"
      BY NotRefused DEF Sound
    <3>2. QED
      BY <2>1, <3>1, RefusalOf
  <2>3. d \in Register /\ regs[d].source = K[d]
    BY <2>1, <2>2, AtInsn
  <2>4. regs[d].source # "context"
    BY <2>2, <2>3
  <2> HIDE DEF d, w
  <2>5. QED
    BY <2>1, <2>4, StoredElsewhere
<1>3. QED
  BY <1>1, <1>2 DEF Executes, Computes, CallsHelper, Jumps, Loads, Exits, TrapsThrough

\* The context is as the suite made it until the machine is gone.
LEMMA ReadOnlyInductive ==
  ASSUME Tracked, ContextReadOnly, [Next]_vars
  PROVE  ContextReadOnly'
<1>1. CASE UNCHANGED <<suite, memory, end>>
  BY <1>1 DEF ContextReadOnly, harness
<1>2. CASE end' = "idle"
  BY <1>2 DEF ContextReadOnly
<1>3. CASE load_compile_and_call /\ memory' = Suites[suite].space.memory /\ UNCHANGED mainVars
  BY <1>3 DEF ContextReadOnly, mainVars
<1>4. CASE Runs
  <2>1. /\ child = "run" /\ Executes /\ UNCHANGED mainVars /\ end # "idle"
    BY <1>4 DEF Runs, Tracked, IInv, InStep
  <2>2. suite' = suite /\ harness' = harness
    BY <2>1 DEF mainVars, harness
  <2>3. ASSUME harness \in Translating
        PROVE  Through("context", memory') = Through("context", Suites[suite].space.memory)
    <3>1. Sound
      BY <2>1, <2>3, Busy
    <3>2. QED
      BY <2>1, <2>3, <3>1, ExecutesReadOnly DEF ContextReadOnly
  <2>4. QED
    BY <2>2, <2>3 DEF ContextReadOnly
<1>5. QED
  BY <1>1, <1>2, <1>3, <1>4
  DEF Next, MainRuns, ChildRuns, Translates, Fork, Reap, Return, ForkFails, ReapFails, Judge, Reset,
      install_trap_handlers, load_compile_and_call, Call, Trapped, CallReturns, write_payload,
      ExitChild, GivesUp, ForeignFault, Finished, vars, mainVars, childVars, machineVars

-----------------------------------------------------------------------------
(* No false alarm *)

\* What passes a row of each harness.
LEMMA PassesWhen ==
  ASSUME harness \in Harnesses, NEW st
  PROVE  /\ harness = "generated" /\ ExpectsTrap /\ ~WIFSIGNALED(st) /\ st.code = 0
              => Verdict(st) = 0
         /\ harness = "host" /\ ExpectsTrap /\ (WIFSIGNALED(st) \/ Returned(st))
              => Verdict(st) = 0
         /\ harness = "exploit" /\ (WIFSIGNALED(st) \/ st.code = 1) => Verdict(st) = 0
         /\ harness \in {"compile", "loader"} /\ ExpectsTrap /\ ~WIFSIGNALED(st) /\ st.code # 20
              => Verdict(st) = 0
         /\ ~ExpectsTrap /\ Outcome = "expected" /\ ~WIFSIGNALED(st) /\ st.code = 0
              /\ (harness \in Piped => sent = 1) => Verdict(st) = 0
<1>1. /\ harness = "generated" => Verdict(st) = run_case(ExpectsTrap, st)
      /\ harness = "host" => Verdict(st) = host_outcome_matches(ExpectsTrap, st)
      /\ harness = "exploit" => Verdict(st) = cheri_blocked(ExpectsTrap, st)
      /\ harness \in {"compile", "loader"} => Verdict(st) = wait_for_child(ExpectsTrap, st)
  BY DEF Verdict
<1>2. CASE harness = "generated"
  BY <1>1, <1>2 DEF run_case
<1>3. CASE harness = "host"
  BY <1>1, <1>3 DEF host_outcome_matches, Returned, Piped
<1>4. CASE harness = "exploit"
  BY <1>1, <1>4 DEF cheri_blocked, Returned, Piped, RESULT_EXPLOIT_BLOCKED
<1>5. CASE harness \in {"compile", "loader"}
  BY <1>1, <1>5 DEF wait_for_child
<1>6. QED
  BY <1>2, <1>3, <1>4, <1>5 DEF Harnesses

\* A child that leaves undisturbed and with the evidence of its row passes it.
LEMMA LeavesFair ==
  ASSUME UNCHANGED mainVars, UNCHANGED machineVars, sent' = sent,
         NEW st, Leave(st),
         disturbed' = 0 /\ Evidence(Outcome, 0) => Verdict(st) = 0
  PROVE  StatusFair'
<1>1. child' = "gone" /\ status' = st
  BY DEF Leave
<1>2. regs' = regs /\ end' = end
  BY DEF machineVars
<1>3. rows' = rows /\ this' = this /\ harness' = harness
  BY DEF mainVars, rows, this, harness
<1>4. Outcome' = Outcome
  BY <1>2, <1>3 DEF Outcome
<1>5. Verdict(status)' = Verdict(st)
  BY <1>1, <1>3, <1>4 DEF Verdict, ExpectsTrap, run_case, host_outcome_matches,
     cheri_blocked, wait_for_child, Returned
<1>6. Evidence(Outcome, 0)' = Evidence(Outcome, 0)
  BY <1>3, <1>4 DEF Evidence
<1>7. QED
  BY <1>1, <1>5, <1>6 DEF StatusFair

\* What the handler of a child makes of a violation of its program.
LEMMA HandlerOfProgram ==
  ASSUME harness \in Harnesses, child = "run", NEW fault \in {"bounds", "tag"}
  PROVE  /\ harness \notin Piped /\ ExpectsTrap => trap_handler(fault) = Exited(0)
         /\ \A f : harness \in Piped => trap_handler(f) = Signalled(f)
<1>1. SignalOf(fault) = SIGPROT
  BY DEF SignalOf, CapabilityFaults
<1>2. /\ harness \in Piped => Caught = {}
      /\ harness \notin Piped => SIGPROT \in Caught
  BY DEF Caught, Piped
<1>3. QED
  BY <1>1, <1>2 DEF trap_handler

LEMMA TrappedFair == Tracked /\ Trapped => StatusFair'
<1> SUFFICES ASSUME Tracked, Trapped PROVE StatusFair'
  OBVIOUS
<1> DEFINE fault == IF end = "bounds" THEN "bounds" ELSE "tag"
           st == trap_handler(IF harness = "host" THEN "page" ELSE fault)
<1>1. /\ child = "run" /\ end \in {"bounds", "forged"}
      /\ Leave(st) /\ UNCHANGED mainVars /\ UNCHANGED machineVars /\ sent' = sent
  BY DEF Trapped
<1>2. harness \in Harnesses /\ this.call \in {"value", "trap"}
  BY <1>1, Busy
<1>3. Outcome = end
  BY <1>1 DEF Outcome
<1>4. fault \in {"bounds", "tag"}
  OBVIOUS
<1> HIDE DEF fault
<1>5. 0 \in 0 .. 255
  OBVIOUS
<1>6. ~WIFSIGNALED(Exited(0)) /\ Exited(0).code = 0
  BY <1>5, CodeOf
<1>7. \A f : WIFSIGNALED(Signalled(f))
  BY DEF WIFSIGNALED, Signalled
<1>8. /\ harness \in Piped => WIFSIGNALED(st)
      /\ harness \notin Piped /\ ExpectsTrap => ~WIFSIGNALED(st) /\ st.code = 0
  BY <1>1, <1>2, <1>4, <1>6, <1>7, HandlerOfProgram DEF Piped
<1> HIDE DEF st
<1>9. ASSUME Evidence(Outcome, 0) PROVE Verdict(st) = 0
  <2>1. ExpectsTrap \/ harness = "exploit"
    BY <1>1, <1>2, <1>3, <1>9, EvidenceOf
  <2>2. CASE harness \in Piped
    BY <1>2, <1>8, <2>1, <2>2, PassesWhen DEF Piped
  <2>3. CASE harness \notin Piped
    <3>1. harness \in {"generated", "compile", "loader"} /\ ExpectsTrap
      BY <1>2, <2>1, <2>3 DEF Harnesses, Piped
    <3>2. QED
      BY <1>2, <1>8, <2>3, <3>1, PassesWhen
  <2>4. QED
    BY <2>2, <2>3
<1>10. QED
  BY <1>1, <1>9, LeavesFair

LEMMA CompileFair == Tracked /\ load_compile_and_call => StatusFair'
<1> SUFFICES ASSUME Tracked, load_compile_and_call PROVE StatusFair'
  OBVIOUS
<1>1. child = "compile" /\ end = "idle" /\ UNCHANGED mainVars /\ sent' = sent
  BY DEF load_compile_and_call, Tracked, IInv, InStep, TypeOK
<1>2. CASE Admitted
  BY <1>2 DEF load_compile_and_call, StatusFair
<1>3. CASE ~Admitted
  <2> DEFINE n == IF harness = "compile" THEN 10 ELSE RESULT_EXPLOIT_BLOCKED
  <2>1. Leave(Exited(n)) /\ UNCHANGED machineVars
    BY <1>3 DEF load_compile_and_call
  <2>2. /\ harness = "compile" => n = 10
        /\ harness # "compile" => n = 1
        /\ n \in 0 .. 255
    BY DEF RESULT_EXPLOIT_BLOCKED
  <2>3. Outcome = "idle"
    BY <1>1 DEF Outcome
  <2>4. harness \in Translating
    BY <1>3 DEF Admitted
  <2>5. harness \in Harnesses /\ this.call \in {"value", "trap"}
    BY <1>1, Busy
  <2> HIDE DEF n
  <2>6. ~WIFSIGNALED(Exited(n)) /\ Exited(n).code = n
    BY <2>2, CodeOf
  <2>7. ASSUME Evidence(Outcome, 0) PROVE Verdict(Exited(n)) = 0
    <3>1. harness = "exploit" \/ (harness = "compile" /\ ExpectsTrap)
      BY <2>3, <2>4, <2>5, <2>7, EvidenceOf DEF Translating, Lenient
    <3>2. QED
      BY <2>2, <2>5, <2>6, <3>1, PassesWhen
  <2>8. QED
    BY <1>1, <2>1, <2>7, LeavesFair
<1>4. QED
  BY <1>2, <1>3

LEMMA ExitChildFair == Tracked /\ StatusFair /\ ExitChild => StatusFair'
<1> SUFFICES ASSUME Tracked, StatusFair, ExitChild PROVE StatusFair'
  OBVIOUS
<1> DEFINE n == IF harness \in Piped THEN 0
                ELSE IF ExpectsTrap THEN 20
                ELSE IF Outcome = "expected" THEN 0 ELSE 21
<1>1. /\ child \in {"returned", "written"} /\ Leave(Exited(n))
      /\ harness \in Piped => child = "written"
      /\ UNCHANGED mainVars /\ UNCHANGED machineVars /\ sent' = sent
  BY DEF ExitChild
<1>2. /\ harness \in Piped => n = 0
      /\ ~ExpectsTrap /\ Outcome = "expected" => n = 0
      /\ n \in 0 .. 255
  OBVIOUS
<1>3. Outcome \in {"expected", "unexpected"}
  BY <1>1 DEF Outcome, Tracked, IInv, InStep
<1>4. harness \in Piped => sent = 1
  BY <1>1 DEF StatusFair
<1>5. harness \in Harnesses /\ this.call \in {"value", "trap"}
  BY <1>1, Busy
<1> HIDE DEF n
<1>6. ~WIFSIGNALED(Exited(n)) /\ Exited(n).code = n
  BY <1>2, CodeOf
<1>7. ASSUME Evidence(Outcome, 0) PROVE Verdict(Exited(n)) = 0
  <2>1. CASE ~ExpectsTrap /\ Outcome = "expected"
    BY <1>2, <1>4, <1>5, <1>6, <2>1, PassesWhen
  <2>2. CASE ~ExpectsTrap /\ Outcome # "expected"
    BY <1>3, <1>5, <1>7, <2>2, EvidenceOf
  <2>3. CASE ExpectsTrap
    <3>1. harness = "host"
      BY <1>3, <1>5, <1>7, <2>3, EvidenceOf
    <3>2. Returned(Exited(n))
      BY <1>2, <1>4, <1>6, <3>1 DEF Returned, Piped
    <3>3. QED
      BY <1>5, <2>3, <3>1, <3>2, PassesWhen
  <2>4. QED
    BY <2>1, <2>2, <2>3
<1>8. QED
  BY <1>1, <1>7, LeavesFair

\* The converse of StatusTrue holds in every step.
LEMMA FairInductive ==
  ASSUME Tracked, StatusFair, [Next]_vars
  PROVE  StatusFair'
<1>1. CASE child' \notin {"gone", "written"}
  BY <1>1 DEF StatusFair
<1>2. CASE write_payload
  BY <1>2 DEF write_payload, StatusFair
<1>3. CASE child' = "gone" /\ disturbed' # 0
  BY <1>3 DEF StatusFair
<1>4. CASE /\ UNCHANGED mainVars /\ child' = child /\ status' = status
           /\ sent' = sent /\ disturbed' = disturbed /\ regs' = regs /\ end' = end
  <2>1. rows' = rows /\ this' = this /\ harness' = harness
    BY <1>4 DEF mainVars, rows, this, harness
  <2>2. Outcome' = Outcome
    BY <1>4, <2>1 DEF Outcome
  <2>3. Verdict(status)' = Verdict(status)
    BY <1>4, <2>1, <2>2 DEF Verdict, ExpectsTrap, run_case, host_outcome_matches,
       cheri_blocked, wait_for_child, Returned
  <2>4. Evidence(Outcome, 0)' = Evidence(Outcome, 0)
    BY <2>1, <2>2 DEF Evidence
  <2>5. QED
    BY <1>4, <2>3, <2>4 DEF StatusFair
<1>5. CASE MainRuns \/ ForkFails \/ ReapFails
  <2>1. child' \notin {"gone", "written"}
    BY <1>5 DEF MainRuns, Translates, Fork, Reap, Return, ForkFails, ReapFails, Tracked, IInv, InStep, TypeOK,
       childVars, Judge
  <2>2. QED
    BY <1>1, <2>1
<1>6. CASE install_trap_handlers \/ Runs \/ CallReturns
  <2>1. child' \notin {"gone", "written"}
    BY <1>6 DEF install_trap_handlers, Runs, CallReturns, childVars
  <2>2. QED
    BY <1>1, <2>1
<1>7. CASE GivesUp \/ ForeignFault
  <2>1. child' = "gone" /\ disturbed' # 0
    BY <1>7 DEF GivesUp, ForeignFault, Leave
  <2>2. QED
    BY <1>3, <2>1
<1>8. CASE Finished \/ UNCHANGED vars
  BY <1>4, <1>8 DEF Finished, vars, childVars, machineVars
<1>9. QED
  BY <1>2, <1>5, <1>6, <1>7, <1>8, TrappedFair, CompileFair, ExitChildFair DEF Next, ChildRuns

\* A row that is judged undisturbed and on its evidence is passed.
LEMMA JudgesFairly ==
  ASSUME Tracked, StatusFair, [Next]_vars,
         current' # current, disturbed' = 0, Evidence(happened', 0)
  PROVE  verdict' = 0
<1>1. CASE Translates
  <2>1. PICK result :
          LET foreign == IF result = "failed" THEN 2 ELSE 0 IN
          /\ disturbed' = foreign
          /\ Judge(IF this.call = "reject" THEN expect_compile_reject(result)
                   ELSE expect_translate_ok(result), result, foreign)
    BY <1>1 DEF Translates
  <2>2. /\ happened' = result
        /\ verdict' = IF this.call = "reject" THEN expect_compile_reject(result)
                      ELSE expect_translate_ok(result)
    BY <2>1 DEF Judge
  <2>3. this.call \in {"reject", "accept"}
    BY <1>1 DEF Translates
  <2>4. QED
    BY <2>2, <2>3 DEF Evidence, expect_compile_reject, expect_translate_ok
<1>2. CASE Reap
  <2>1. child = "gone" /\ verdict' = Verdict(status) /\ happened' = Outcome /\ disturbed = 0
    BY <1>2 DEF Reap, Judge
  <2>2. QED
    BY <2>1 DEF StatusFair
<1>3. ~ForkFails /\ ~ReapFails
  BY DEF ForkFails, ReapFails
<1>4. QED
  BY <1>1, <1>2, <1>3
  DEF Next, MainRuns, ChildRuns, Fork, Return, install_trap_handlers, load_compile_and_call, Runs, Trapped,
      CallReturns, write_payload, ExitChild, GivesUp, ForeignFault, Finished, vars, mainVars

-----------------------------------------------------------------------------
(* Progress *)

\* A verdict takes main to its next row, whatever the verdict is.
LEMMA JudgeAdvances ==
  ASSUME TypeOK, NEW result, NEW what, NEW foreign, Judge(result, what, foreign)
  PROVE  MainPlace' > MainPlace
<1>1. current \in Nat
  BY RowTypes DEF TypeOK
<1>2. pc' = "row" /\ current' = current + 1
  BY DEF Judge
<1>3. QED
  BY <1>1, <1>2 DEF MainPlace

\* Every step of main, the failing ones too.
LEMMA MainAdvances ==
  ASSUME Tracked, MainRuns \/ ForkFails \/ ReapFails
  PROVE  MainPlace' > MainPlace
<1>1. TypeOK /\ current \in Nat
  BY RowTypes DEF Tracked, IInv, TypeOK
<1>2. CASE Translates \/ ForkFails \/ Reap \/ ReapFails
  <2>1. \E result, what, foreign : Judge(result, what, foreign)
    BY <1>2 DEF Translates, ForkFails, Reap, ReapFails
  <2>2. QED
    BY <1>1, <2>1, JudgeAdvances
<1>3. CASE Fork \/ Return
  <2>1. pc = "row" /\ pc' # "row" /\ current' = current
    BY <1>3 DEF Fork, Return
  <2>2. QED
    BY <1>1, <2>1 DEF MainPlace
<1>4. QED
  BY <1>2, <1>3 DEF MainRuns

\* No instruction is executed twice: it leads forward in the program, or ends it.
LEMMA MachineAdvances ==
  ASSUME program \in Program, ip \in DOMAIN program, Executes
  PROVE  MachinePlace' > MachinePlace
<1>1. DOMAIN program = 1 .. Len(program) /\ Len(program) \in Nat
      /\ Successors(program, ip) \subseteq ip + 1 .. Len(program)
  BY SuccessorsIn DEF Program
<1>2. ip \in Nat /\ end = "running"
  BY <1>1 DEF Executes, Computes, CallsHelper, Jumps, Loads, Stores, Exits
<1>3. CASE ip' = ip + 1
  BY <1>2, <1>3 DEF MachinePlace
<1>4. CASE ip' \in Successors(program, ip)
  <2>1. ip' \in Nat /\ ip' > ip
    BY <1>1, <1>2, <1>4
  <2>2. QED
    BY <1>2, <2>1 DEF MachinePlace
<1>5. CASE ip' = ip /\ end' # "running"
  BY <1>2, <1>5 DEF MachinePlace
<1>6. Computes \/ CallsHelper => ip' = ip + 1
  BY DEF Computes, CallsHelper
<1>7. Jumps => ip' \in Successors(program, ip)
  BY DEF Jumps
<1>8. Loads \/ Stores \/ Exits => ip' = ip + 1 \/ (ip' = ip /\ end' # "running")
  <2>1. \A r : TrapAt(r) # "running"
    BY DEF TrapAt
  <2>2. QED
    BY <2>1 DEF Loads, Stores, Exits, TrapsThrough
<1>9. QED
  BY <1>3, <1>4, <1>5, <1>6, <1>7, <1>8 DEF Executes

\* A step of the child where main waits, or of the machine where the child runs.
LEMMA ChildAdvances ==
  ASSUME Tracked, ChildRuns \/ GivesUp \/ ForeignFault
  PROVE  /\ MainPlace' = MainPlace
         /\ \/ ChildPlace' > ChildPlace
            \/ ChildPlace' = ChildPlace /\ MachinePlace' > MachinePlace
<1>1. UNCHANGED mainVars
  BY DEF ChildRuns, install_trap_handlers, load_compile_and_call, Runs, Trapped,
     CallReturns, write_payload, ExitChild, GivesUp, ForeignFault
<1>2. MainPlace' = MainPlace
  BY <1>1 DEF mainVars, MainPlace
<1>3. child \in {"none", "start", "compile", "run", "returned", "written", "gone"}
  BY DEF Tracked, IInv, TypeOK
<1>4. CASE child \notin {"none", "gone"} /\ child' = "gone"
  <2>1. ChildPlace' = 6 /\ ChildPlace \in 0 .. 5
    BY <1>3, <1>4 DEF ChildPlace
  <2>2. QED
    BY <1>2, <2>1
<1>5. CASE install_trap_handlers
  <2>1. ChildPlace = 1 /\ ChildPlace' = 2
    BY <1>5 DEF install_trap_handlers, ChildPlace
  <2>2. QED
    BY <1>2, <2>1
<1>6. CASE load_compile_and_call /\ child' = "run"
  <2>1. ChildPlace = 2 /\ ChildPlace' = 3
    BY <1>6 DEF load_compile_and_call, ChildPlace
  <2>2. QED
    BY <1>2, <2>1
<1>7. CASE Runs
  <2>1. child = "run" /\ child' = child /\ Executes
    BY <1>7 DEF Runs, childVars
  <2>2. end # "idle" /\ program = this.program /\ ip \in DOMAIN program
    BY <2>1 DEF Tracked, IInv, InStep
  <2>3. program \in Program
    BY <2>1, <2>2, Busy
  <2>4. ChildPlace' = ChildPlace
    BY <2>1 DEF ChildPlace
  <2>5. QED
    BY <1>2, <2>1, <2>2, <2>3, <2>4, MachineAdvances
<1>8. CASE CallReturns
  <2>1. ChildPlace = 3 /\ ChildPlace' = 4
    BY <1>8 DEF CallReturns, ChildPlace
  <2>2. QED
    BY <1>2, <2>1
<1>9. CASE write_payload
  <2>1. ChildPlace = 4 /\ ChildPlace' = 5
    BY <1>9 DEF write_payload, ChildPlace
  <2>2. QED
    BY <1>2, <2>1
<1>10. load_compile_and_call =>
         child' = "run" \/ (child \notin {"none", "gone"} /\ child' = "gone")
  BY DEF load_compile_and_call, Leave
<1>11. Trapped \/ ExitChild \/ GivesUp \/ ForeignFault =>
         child \notin {"none", "gone"} /\ child' = "gone"
  BY DEF Trapped, ExitChild, GivesUp, ForeignFault, Leave
<1>12. QED
  BY <1>4, <1>5, <1>6, <1>7, <1>8, <1>9, <1>10, <1>11 DEF ChildRuns

-----------------------------------------------------------------------------
(* The theorems *)

\* Every step of main and of the child keeps the invariant.
LEMMA NextInv == Tracked /\ [Next]_vars => Tracked'
<1> SUFFICES ASSUME Tracked, [Next]_vars PROVE Tracked'
  OBVIOUS
<1>1. sent \in {0, 1}
  BY DEF Tracked, IInv, TypeOK
<1>2. CASE install_trap_handlers
  BY <1>1, <1>2, AdvanceInv DEF install_trap_handlers
<1>3. CASE CallReturns
  BY <1>1, <1>3, AdvanceInv DEF CallReturns
<1>4. CASE write_payload
  BY <1>4, AdvanceInv DEF write_payload
<1>5. CASE UNCHANGED vars
  <2>1. /\ UNCHANGED mainVars /\ child' = child /\ status' = status /\ sent' = sent
        /\ disturbed' = disturbed
        /\ program' = program /\ ip' = ip /\ regs' = regs /\ end' = end
    BY <1>5 DEF vars, childVars, machineVars
  <2>2. /\ rows' = rows /\ this' = this /\ harness' = harness /\ pc' = pc
        /\ current' = current /\ CountTrue' /\ Admitted' = Admitted
    BY <2>1, MainKept
  <2>3. TypeOK'
    BY <2>1, MainKept DEF Tracked, IInv, TypeOK
  <2>4. InStep' /\ KindsTrue' /\ NoForgedAccess'
    BY <2>1, <2>2 DEF Tracked, IInv, InStep, KindsTrue, KindsHold, NoForgedAccess
  <2>5. Outcome' = Outcome
    BY <2>1, <2>2 DEF Outcome
  <2>6. Verdict(status)' = Verdict(status)
    BY <2>1, <2>2, <2>5 DEF Verdict, ExpectsTrap, run_case, host_outcome_matches,
       cheri_blocked, wait_for_child, Returned
  <2>7. Evidence(Outcome, disturbed)' = Evidence(Outcome, disturbed)
    BY <2>1, <2>2, <2>5 DEF Evidence
  <2>8. StatusTrue'
    BY <2>1, <2>6, <2>7 DEF Tracked, IInv, StatusTrue
  <2>9. QED
    BY <2>2, <2>3, <2>4, <2>8 DEF Tracked, IInv
<1>6. CASE Finished
  BY <1>5, <1>6 DEF Finished
<1>7. QED
  BY <1>2, <1>3, <1>4, <1>5, <1>6, TranslatesInv, ForkInv, ForkFailsInv, ReapInv,
     ReapFailsInv, ReturnInv, CompileInv, RunsInv, TrappedInv, ExitChildInv,
     GivesUpInv, ForeignFaultInv
  DEF Next, MainRuns, ChildRuns

LEMMA AlwaysTracked == Spec => []Tracked
BY InitInv, NextInv, PTL DEF Spec

\* The invariant of the module holds in every reachable state, for all suites and
\* every translator that keeps the contract of the register kinds.
THEOREM Invariant == Spec => []IInv
<1>1. Tracked => IInv
  BY DEF Tracked
<1>2. QED
  BY <1>1, AlwaysTracked, PTL

\* A translated program never uses a number as an address: the register kinds
\* of cheri_jit_contract.h are sound on every path of every program.
THEOREM TrackedAccess == Spec => []NoForgedAccess
<1>1. Tracked => NoForgedAccess
  BY DEF Tracked
<1>2. QED
  BY <1>1, AlwaysTracked, PTL

\* Both mains return 0 only when every row was judged on its evidence.
THEOREM SuitesAreSound == Spec => []SuiteSound
<1>1. IInv => SuiteSound
  <2>1. ASSUME IInv, exit = 0 PROVE missing = 0 /\ current = Len(rows) + 1
    <3>1. failures = 0 /\ current = Len(rows) + 1 /\ missing \in {0, 1}
      BY <2>1 DEF IInv, CountTrue, TypeOK, Running
    <3>2. QED
      BY <2>1, <3>1 DEF IInv, CountTrue
  <2>2. QED
    BY <2>1 DEF SuiteSound
<1>2. QED
  BY <1>1, Invariant, PTL

\* A translated program never changes what it reaches through the context, on
\* whichever path and through whichever alias: the stores that translate go
\* elsewhere.
THEOREM ReadsContextOnly == Spec => []ContextReadOnly
<1>1. Init => ContextReadOnly
  BY DEF Init, Idle, ContextReadOnly
<1>2. Tracked /\ ContextReadOnly /\ [Next]_vars => ContextReadOnly'
  BY ReadOnlyInductive
<1>3. QED
  BY <1>1, <1>2, AlwaysTracked, PTL DEF Spec

\* No harness fails a row that nothing foreign disturbed and whose program did what
\* the row asks of it.
THEOREM NothingFailedWrongly == Spec => NoFalseAlarm
<1>1. Init => Tracked /\ StatusFair
  BY InitInv DEF Init, StatusFair
<1>2. Tracked /\ StatusFair /\ [Next]_vars => (Tracked /\ StatusFair)'
  BY NextInv, FairInductive
<1>3. Tracked /\ StatusFair /\ [Next]_vars =>
        [current' # current /\ disturbed' = 0 /\ Evidence(happened', 0) => verdict' = 0]_vars
  BY JudgesFairly
<1>4. QED
  BY <1>1, <1>2, <1>3, PTL DEF Spec, NoFalseAlarm
\* Nothing is done twice: every step takes main, the child or its program further,
\* faults and failing calls included, so no run of a suite goes on forever.
THEOREM NothingIsDoneTwice == Spec => Advances
<1> DEFINE Further == \/ MainPlace' > MainPlace
                      \/ MainPlace' = MainPlace /\ ChildPlace' > ChildPlace
                      \/ /\ MainPlace' = MainPlace /\ ChildPlace' = ChildPlace
                         /\ MachinePlace' > MachinePlace
<1>1. Tracked /\ [Next]_vars => [Further]_vars
  <2>1. ASSUME Tracked, MainRuns \/ ForkFails \/ ReapFails PROVE Further
    BY <2>1, MainAdvances
  <2>2. ASSUME Tracked, ChildRuns \/ GivesUp \/ ForeignFault PROVE Further
    BY <2>2, ChildAdvances
  <2>3. Finished => UNCHANGED vars
    BY DEF Finished
  <2> HIDE DEF Further
  <2>4. QED
    BY <2>1, <2>2, <2>3 DEF Next
<1>2. QED
  BY <1>1, AlwaysTracked, PTL DEF Spec, Advances
-----------------------------------------------------------------------------
(* The emitter *)

\* The machine as a call of p with this memory leaves it, and the capability of R1.
Called(p, space) ==
  /\ program = p /\ ip = 1 /\ end = "running"
  /\ memory = space.memory /\ bounds = space.bounds
  /\ DOMAIN regs = Register /\ regs[1] = Capability("context", 0)

\* The word of the context at an offset, when the context reaches so far.
Reaches(space, off) == InBounds(space.bounds, Capability("context", 0), off, 8)
WordAt(space, off) ==
  Scalar(Bytes(Loaded(space.memory, Capability("context", 0), off, 8), 0))

\* The program ends with that word, or with a bounds violation for want of it.
LoadsWord(space, off) ==
  /\ end \in {"running", "returned", "bounds"}
  /\ end = "returned" => Reaches(space, off) /\ regs[0] = WordAt(space, off)
  /\ end = "bounds" => ~Reaches(space, off)

\* A program of a shape the emitter supports, before each instruction.
OnItsWay(p, space) ==
  LET n == Len(p)
      off == offset_from_supported_program(p)
  IN  /\ program = p /\ memory = space.memory /\ bounds = space.bounds
      /\ DOMAIN regs = Register /\ ip \in 1 .. n
      /\ end \in {"running", "returned", "bounds"}
      /\ ip < n - 1 => end = "running" /\ regs[1] = Capability("context", 0)
      /\ ip = n - 1 => /\ regs[p[n - 1].src] = Capability("context", 0)
                       /\ end = "running" \/ (end = "bounds" /\ ~Reaches(space, off))
      /\ ip = n => end # "bounds" /\ Reaches(space, off) /\ regs[0] = WordAt(space, off)

\* What the shape says of the instructions.
LEMMA ShapeOf ==
  ASSUME NEW p, SupportedProgram(p)
  PROVE  /\ Len(p) = 2 \/ Len(p) = 3
         /\ p[Len(p) - 1].op = \h79 /\ p[Len(p) - 1].dst = 0
         /\ p[Len(p) - 1].src \in Register
         /\ p[Len(p)].op = EXIT
         /\ Len(p) = 2 => p[1].src = 1
         /\ Len(p) = 3 => p[1].op = \hbf /\ p[1].src = 1 /\ p[1].dst = p[2].src
<1>1. exit_insn.op = EXIT
  BY DEF exit_insn, INSN, EXIT
<1>2. CASE Len(p) = 2 /\ LoadFrom(p[1], 1) /\ p[2] = exit_insn
  BY <1>1, <1>2 DEF LoadFrom, Register, CHERI_BPF_REG_COUNT
<1>3. CASE Len(p) = 3 /\ Alias(p[1]) /\ LoadFrom(p[2], p[1].dst) /\ p[3] = exit_insn
  <2>1. p[1].dst \in Register
    BY <1>3 DEF Alias, Register, CHERI_BPF_REG_COUNT
  <2>2. QED
    BY <1>1, <1>3, <2>1 DEF LoadFrom, Alias
<1>4. QED
  BY <1>2, <1>3 DEF SupportedProgram

\* The one instruction that may be before the load makes an alias of R1.
LEMMA AliasStep ==
  ASSUME NEW p, SupportedProgram(p), NEW space, OnItsWay(p, space), ip < Len(p) - 1, Executes
  PROVE  OnItsWay(p, space)'
<1>1. /\ Len(p) = 3 /\ ip = 1 /\ program = p /\ current_insn = p[1]
      /\ p[1].op = \hbf /\ p[1].src = 1 /\ p[1].dst = p[2].src /\ p[2].src \in Register
  BY ShapeOf DEF OnItsWay, current_insn
<1>2. Computes
  BY <1>1 DEF Executes, CallsHelper, Jumps, Loads, Stores, Exits, CALL, JA, JEQ_IMM,
     LoadOps, ZeroExtending, SignExtending, StoreOps, ImmStores, RegStores, EXIT
<1>3. regs' = [regs EXCEPT ![p[2].src] = regs[1]]
  <2> DEFINE d == regs[current_insn.dst]
             s == regs[current_insn.src]
             value == CASE current_insn.op = \hb7 -> Scalar(WordOf(current_insn.imm))
                        [] current_insn.op = \hbf -> s
                        [] current_insn.op = \h07 -> Plus(d, current_insn.imm)
                        [] current_insn.op = \h0f -> Plus(d, IntOf(s.word))
                        [] current_insn.op = \h1f -> Plus(d, -IntOf(s.word))
                        [] OTHER -> Bits(current_insn.op, d, current_insn.imm)
  <2>1. regs' = [regs EXCEPT ![current_insn.dst] = value]
    BY <1>2, Zenon DEF Computes
  <2>2. value = s
    BY <1>1
  <2>3. current_insn.dst = p[2].src /\ s = regs[1]
    BY <1>1
  <2> HIDE DEF value, s
  <2>4. QED
    BY <2>1, <2>2, <2>3
<1>4. regs'[p[2].src] = regs[1] /\ DOMAIN regs' = Register
  BY <1>1, <1>3 DEF OnItsWay
<1>5. ip' = 2 /\ program' = p /\ memory' = memory /\ bounds' = bounds /\ end' = end
  BY <1>1, <1>2 DEF Computes
<1>6. QED
  BY <1>1, <1>4, <1>5 DEF OnItsWay

\* The load through the alias, or through R1 itself.
LEMMA LoadStep ==
  ASSUME NEW p, SupportedProgram(p), NEW space, OnItsWay(p, space), ip = Len(p) - 1, Executes
  PROVE  OnItsWay(p, space)'
<1> DEFINE off == offset_from_supported_program(p)
           r == p[Len(p) - 1].src
           here == Capability("context", 0)
<1>1. /\ program = p /\ current_insn = p[Len(p) - 1] /\ current_insn.op = \h79
      /\ current_insn.dst = 0 /\ current_insn.src = r /\ current_insn.off = off
      /\ Len(p) = 2 \/ Len(p) = 3
      /\ regs[r] = here /\ DOMAIN regs = Register
      /\ memory = space.memory /\ bounds = space.bounds
  BY ShapeOf DEF OnItsWay, current_insn, offset_from_supported_program
<1>2. Loads
  BY <1>1 DEF Executes, CallsHelper, Jumps, Computes, Stores, Exits, CALL, JA, JEQ_IMM,
     Moves, Sums, BitOps, AND_IMM, LSH_IMM, RSH_IMM, StoreOps, ImmStores, RegStores, EXIT
<1>3. Width(\h79) = 8 /\ \h79 \notin SignExtending
  BY DEF Width, SignExtending
<1>4. here.source = "context"
  BY DEF Capability
<1> HIDE DEF here
<1>5. TrapAt(r) = IF Reaches(space, off) THEN "none" ELSE "bounds"
  BY <1>1, <1>3, <1>4 DEF TrapAt, Reaches, here
<1>6. CASE ~Reaches(space, off)
  <2>1. end' = "bounds" /\ UNCHANGED <<program, ip, regs, memory, bounds>>
    BY <1>1, <1>2, <1>5, <1>6 DEF Loads, TrapsThrough
  <2>2. QED
    BY <1>1, <1>6, <2>1 DEF OnItsWay
<1>7. CASE Reaches(space, off)
  <2>1. /\ regs' = [regs EXCEPT ![0] = Scalar(Extended(\h79, Loaded(memory, here, off, 8)))]
        /\ ip' = Len(p) /\ program' = p /\ memory' = memory /\ bounds' = bounds /\ end' = end
        /\ end = "running"
    BY <1>1, <1>2, <1>3, <1>5, <1>7 DEF Loads, TrapsThrough
  <2>2. Extended(\h79, Loaded(memory, here, off, 8)) = Bytes(Loaded(memory, here, off, 8), 0)
    BY <1>3 DEF Extended
  <2>3. 0 \in DOMAIN regs
    BY <1>1 DEF Register, CHERI_BPF_REG_COUNT
  <2>4. regs'[0] = WordAt(space, off) /\ DOMAIN regs' = Register
    BY <1>1, <2>1, <2>2, <2>3 DEF WordAt, here
  <2>5. QED
    BY <1>1, <1>7, <2>1, <2>4 DEF OnItsWay
<1>8. QED
  BY <1>6, <1>7

\* Nothing comes after the load.
LEMMA ExitStep ==
  ASSUME NEW p, SupportedProgram(p), NEW space, OnItsWay(p, space), ip = Len(p), Executes
  PROVE  OnItsWay(p, space)'
<1>1. current_insn.op = EXIT /\ program = p
  BY ShapeOf DEF OnItsWay, current_insn
<1>2. Exits
  BY <1>1 DEF Executes, CallsHelper, Jumps, Computes, Stores, Loads, CALL, JA, JEQ_IMM,
     Moves, Sums, BitOps, AND_IMM, LSH_IMM, RSH_IMM, StoreOps, ImmStores, RegStores, EXIT,
     LoadOps, ZeroExtending, SignExtending
<1>3. end' = "returned" /\ UNCHANGED <<program, ip, regs, memory, bounds>>
  BY <1>2 DEF Exits
<1>4. QED
  BY <1>3 DEF OnItsWay

\* A call sets a program of a supported shape on its way, no step leaves it, and it
\* leads to the word.
LEMMA WayBegins ==
  ASSUME NEW p, SupportedProgram(p), NEW space, Called(p, space)
  PROVE  OnItsWay(p, space)
BY ShapeOf DEF Called, OnItsWay

LEMMA WayGoesOn ==
  ASSUME NEW p, SupportedProgram(p), NEW space, OnItsWay(p, space), [Executes]_machineVars
  PROVE  OnItsWay(p, space)'
<1>1. CASE Executes
  <2>1. ip < Len(p) - 1 \/ ip = Len(p) - 1 \/ ip = Len(p)
    BY ShapeOf DEF OnItsWay
  <2>2. QED
    BY <1>1, <2>1, AliasStep, LoadStep, ExitStep
<1>2. CASE UNCHANGED machineVars
  BY <1>2 DEF OnItsWay, machineVars
<1>3. QED
  BY <1>1, <1>2

LEMMA WayLeads ==
  ASSUME NEW p, SupportedProgram(p), NEW space, OnItsWay(p, space)
  PROVE  LoadsWord(space, offset_from_supported_program(p))
BY ShapeOf DEF OnItsWay, LoadsWord

\* Every program of a supported shape loads the word at its offset and does nothing
\* else: a number in memory never becomes an address, nothing is written.
THEOREM SupportedLoads ==
  ASSUME NEW p, SupportedProgram(p), NEW space
  PROVE  Called(p, space) /\ [][Executes]_machineVars
           => []LoadsWord(space, offset_from_supported_program(p))
<1>1. Called(p, space) => OnItsWay(p, space)
  BY WayBegins
<1>2. OnItsWay(p, space) /\ [Executes]_machineVars => OnItsWay(p, space)'
  BY WayGoesOn
<1>3. OnItsWay(p, space) => LoadsWord(space, offset_from_supported_program(p))
  BY WayLeads
<1>4. QED
  BY <1>1, <1>2, <1>3, PTL

\* The emitter keeps the meaning of what it accepts: called with any memory, the
\* emitted code and its program load the same word, or both find it out of bounds.
THEOREM EmitterKeepsMeaning ==
  ASSUME NEW p, NEW code \in emit_assembly(p), NEW space
  PROVE  LET off == offset_from_supported_program(p) IN
         /\ off \in 0 .. 8 * \hfff
         /\ Called(p, space) /\ [][Executes]_machineVars => []LoadsWord(space, off)
         /\ Called(code, space) /\ [][Executes]_machineVars => []LoadsWord(space, off)
<1> DEFINE off == offset_from_supported_program(p)
<1>1. SupportedProgram(p) /\ validate_offset(off) /\ code = context_load(\h79, off)
  BY DEF emit_assembly, Emits
<1>2. off \in 0 .. 8 * \hfff
  BY <1>1 DEF validate_offset
<1>3. /\ Len(code) = 2 /\ code[1] = ldx(\h79, 1, off) /\ code[2] = exit_insn
  BY <1>1 DEF context_load
<1>4. SupportedProgram(code) /\ offset_from_supported_program(code) = off
  <2>1. LoadFrom(code[1], 1) /\ code[1].off = off
    BY <1>3 DEF LoadFrom, ldx, INSN
  <2>2. QED
    BY <1>3, <2>1 DEF SupportedProgram, offset_from_supported_program
<1>5. Called(p, space) /\ [][Executes]_machineVars => []LoadsWord(space, off)
  BY <1>1, SupportedLoads
<1>6. Called(code, space) /\ [][Executes]_machineVars => []LoadsWord(space, off)
  <2>1. Called(code, space) => OnItsWay(code, space)
    BY <1>4, WayBegins
  <2>2. OnItsWay(code, space) /\ [Executes]_machineVars => OnItsWay(code, space)'
    BY <1>4, WayGoesOn
  <2>3. OnItsWay(code, space) => LoadsWord(space, off)
    BY <1>4, WayLeads
  <2>4. QED
    BY <2>1, <2>2, <2>3, PTL
<1>7. QED
  BY <1>2, <1>5, <1>6
=============================================================================
