------------------------- MODULE MCHelperMapHarness -------------------------
(* Instances of HelperMapHarness for TLC. *)
EXTENDS HelperMapHarness

\* Both expected values of the source and 0, which is no case's result.
MCValues == {0, 90, 8192}

\* One case that must return and one that must trap.
MCTwoCases == SubSeq(helper_map_cases, 2, 3)
=============================================================================
