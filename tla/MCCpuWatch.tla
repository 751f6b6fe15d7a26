----------------------------- MODULE MCCpuWatch -----------------------------
(* CpuWatch on instances for TLC.                                             *)
EXTENDS CpuWatch, TLC

Symmetries == Permutations(Monitors)

=============================================================================
