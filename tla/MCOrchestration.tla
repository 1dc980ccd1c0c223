-------------------------- MODULE MCOrchestration --------------------------
EXTENDS Orchestration, TLC

Symmetry == Permutations(Handlers) \cup Permutations(Sessions) \cup Permutations(Tasks)
=============================================================================
