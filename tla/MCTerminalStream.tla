-------------------------- MODULE MCTerminalStream --------------------------
EXTENDS TerminalStream, TLC

Symmetry == Permutations(Clients)
=============================================================================
