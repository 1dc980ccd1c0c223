-------------------------- MODULE MCPromptDispatch --------------------------
EXTENDS PromptDispatch, TLC

Symmetry == Permutations(Threads)
=============================================================================
