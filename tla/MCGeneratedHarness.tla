------------------------ MODULE MCGeneratedHarness ------------------------
(* Instances of GeneratedHarness for TLC. *)
EXTENDS GeneratedHarness

\* The result of the chosen control and 0, the filler of a trap case.
MCValues == {0, 90}

\* The last positive control and the first out-of-bounds case.
MCTwoCases == SubSeq(generated_bpf_cases, 8, 9)
=============================================================================
