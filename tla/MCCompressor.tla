---------------------------- MODULE MCCompressor -----------------------------
(* Small instances of Compressor for TLC. *)
EXTENDS Compressor, TLC

UseAndSlotSymmetry == Permutations(Uses) \union Permutations(Slots)
=============================================================================
