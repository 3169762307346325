------------------------- MODULE MCValidationRouter -------------------------
(* Small instances of ValidationRouter for TLC. *)
EXTENDS ValidationRouter, TLC

\* Verifiers differ only in what they do.
MCSymmetry == Permutations(Streams) \cup Permutations(Calls)
=============================================================================
