---------------------------- MODULE MCDirectJit -----------------------------
(* The cases main really runs, and cases that go wrong: an access that does *)
(* not trap, a page that cannot be executed or written, an offset that does *)
(* not fit.                                                                 *)
EXTENDS DirectJit

TrapOn(offset, v) == Case("LOAD_C0_OFFSET", offset, MemCap, 0, TRUE, "bounds", v)
OddCases ==
  << TrapOn(8, variants[2]),
     TrapOn(4096, repro_variant({"R", "W"}, {}, FALSE, TRUE)),
     TrapOn(4096, repro_variant({"R"}, RX, FALSE, TRUE)),
     TrapOn(12, variants[1]) >>

MCCases == main_cases \o OddCases

MCTrap == <<run_load_child(variants[2], 4096, TRUE)>>
=============================================================================
