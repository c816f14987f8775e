--------------------------- MODULE MCHeldPosition ---------------------------
EXTENDS HeldPosition, TLC

CONSTANTS a1, a2

Symmetry == Permutations(Adds)
=============================================================================
