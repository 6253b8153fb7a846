------------------------------ MODULE MCLockFile ------------------------------
\* Three processes opening one database, three descriptor slots each:
\* enough for a process to keep its lock descriptor beside leaked ones and
\* for refused opens to fill a table, reaching the EMFILE branch.
EXTENDS LockFile, TLC

CONSTANTS p1, p2, p3

MCProcs == {p1, p2, p3}

\* The processes are interchangeable.
MCSymmetry == Permutations(MCProcs)

=============================================================================
