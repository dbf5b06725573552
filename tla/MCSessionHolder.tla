--------------------------- MODULE MCSessionHolder ---------------------------
\* Instances of SessionHolder for TLC.
EXTENDS SessionHolder, TLC

Symmetry == Permutations(Client)
=============================================================================
