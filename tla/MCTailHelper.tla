--------------------------- MODULE MCTailHelper ---------------------------
(* The instance main runs: offset 8 in bounds, offset 4096 out of bounds. *)
EXTENDS TailHelper

MCPrograms == main_programs
=============================================================================
