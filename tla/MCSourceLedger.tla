--------------------------- MODULE MCSourceLedger ---------------------------
(* Model values and symmetry for checking SourceLedger.                     *)
EXTENDS SourceLedger, TLC

Symmetry == Permutations(Runs) \cup Permutations(Executors) \cup Permutations(Workers)

=============================================================================
