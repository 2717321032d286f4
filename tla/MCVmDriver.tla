----------------------------- MODULE MCVmDriver -----------------------------
(* Commands that succeed or fail with a code of their own. *)
EXTENDS VmDriver

MCCodes == {0, 1, 10, 100}
=============================================================================
