--------------------------- MODULE MCLanguageServers ---------------------------
\* Lookups of two texts of one file, of a second file of the same server, and of another
\* server.
EXTENDS LanguageServers

CONSTANTS k1, k2, f1, f2, t1, t2

Lookup(k, f, t) == [key |-> k, file |-> f, text |-> t]

AllQueries == {Lookup(k1, f1, t1), Lookup(k1, f1, t2), Lookup(k1, f2, t1), Lookup(k2, f1, t1)}

Symmetry == Permutations(Lookups)
=============================================================================
