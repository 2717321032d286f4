------------------------- MODULE MCTranslatorSuites --------------------------
(* The suites as they are, some with rows that are wrong about their       *)
(* program, and a translator that goes through a program once, from the     *)
(* first instruction to the last.                                           *)
EXTENDS TranslatorSuites, SuitePrograms

Suite(kind, its_rows, space) == [harness |-> kind, rows |-> its_rows, space |-> space]
ctx == Bounded(context, 16)
generated_space == Bounded(prepare_words, 16)
exploit_space == Bounded(mem_buffer, MEM_SIZE)

suites ==
  << Suite("compile", objjit_compile, ctx), Suite("compile", translate_reject, ctx),
     Suite("loader", loader_repro, ctx), Suite("loader", objjit_context, ctx),
     Suite("generated", generated, generated_space), Suite("host", generated_host, host_space),
     Suite("exploit", exploit_test, exploit_space) >>

\* A suite for each row that is wrong: programs that are refused put to a child as
\* traps, accesses in bounds taken for traps, values that are not the right ones,
\* and the opposite of what the translator does.
Each(kind, wrong_rows, space) ==
  [i \in DOMAIN wrong_rows |-> Suite(kind, <<wrong_rows[i]>>, space)]
wrong_suites ==
  Each("compile",
    << Traps(clobbered_r1_load), Traps(branch_join_clobbered_context), Traps(context_store),
       Traps(context_load(\h79, 8)), Returns(pointer_leak, WordOf(0)),
       Rejected(scalar), Translated(context_store) >>, ctx)
  \o Each("loader",
    << Traps(loader_jit_load_u64), Returns(loader_jit_load_u64_oob, WordOf(0)) >>, ctx)
  \o Each("generated",
    << Traps(context_in_bounds), Traps(exploit_pointer_leak),
       Returns(stack_array, WordOf(0)), Returns(context_oob, WordOf(0)) >>, generated_space)
  \o Each("host",
    << Returns(stack_array, WordOf(0)), Traps(stack_load_oob), Traps(clobbered_r1_load) >>,
    host_space)
  \o Each("exploit", <<Traps(scalar), Returns(context_load(\h79, 8), WordOf(0))>>, exploit_space)

MCSuites == suites \o wrong_suites
MCRightSuites == DOMAIN suites

\* The kinds before the first n instructions.
Pass(p) ==
  LET kinds[n \in DOMAIN p] ==
        IF n = 1 THEN <<EntryKinds>>
        ELSE LET before == kinds[n - 1]
             IN  Append(before,
                   Join({Transfer(p[j], before[j]) :
                           j \in {m \in 1 .. n - 1 : n \in Successors(p, m)}}))
  IN  kinds[Len(p)]

Programs ==
  UNION {{MCSuites[s].rows[i].program : i \in DOMAIN MCSuites[s].rows} : s \in DOMAIN MCSuites}
Passes == [p \in Programs |-> Pass(p)]
MCAnalyse(p) == Passes[p]
=============================================================================
