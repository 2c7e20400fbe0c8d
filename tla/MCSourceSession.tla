-------------------------- MODULE MCSourceSession --------------------------
\* TLC instance of SourceSession: symmetry for runs that check safety only.
EXTENDS SourceSession, TLC

Symmetry == Permutations(Workers)
=============================================================================
