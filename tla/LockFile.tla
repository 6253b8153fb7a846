------------------------------ MODULE LockFile ------------------------------
(***************************************************************************)
(* The database lock file of the POSIX build (utils.cpp 90-104).  Every   *)
(* process that opens a database calls openLockFile on the same path and  *)
(* keeps the descriptor it returns; unlockFile drops the flock.  The      *)
(* callers are not in this repository: the environment of the module is  *)
(* processes that call openLockFile, unlockFile and close in any order,   *)
(* and that may exit (or crash) at any point, the kernel then closing     *)
(* every descriptor they had open.                                        *)
(*                                                                         *)
(* A descriptor is <<p, n>>: slot n of process p's descriptor table, the  *)
(* lowest free one, as open(2) allocates.  flock(2) locks belong to the   *)
(* open file description, so the lock is held by one descriptor.          *)
(***************************************************************************)
EXTENDS Naturals, FiniteSetsExt

CONSTANTS
    Procs,      \* processes opening the same database
    MaxFds      \* size of a process's descriptor table (open fails with EMFILE)

ASSUME MaxFds \in Nat \ {0}

Descs == Procs \X (1..MaxFds)

\* The -1 of the C API: no descriptor.
NoFd == <<"none", 0>>

VARIABLES
    fds,        \* fds[p]: the descriptors of the lock file p has open
    flockBy,    \* the descriptor holding the exclusive flock, or NoFd
    handle,     \* handle[p]: what p kept from its last openLockFile, or NoFd
    held        \* held[p]: p was told it holds the lock and has not unlocked

vars == <<fds, flockBy, handle, held>>

TypeOK ==
    /\ fds \in [Procs -> SUBSET Descs]
    /\ flockBy \in Descs \cup {NoFd}
    /\ handle \in [Procs -> Descs \cup {NoFd}]
    /\ held \in [Procs -> BOOLEAN]

Init ==
    /\ fds = [p \in Procs |-> {}]
    /\ flockBy = NoFd
    /\ handle = [p \in Procs |-> NoFd]
    /\ held = [p \in Procs |-> FALSE]

\* The slots of p's descriptor table open(2) may still hand out.
FreeSlots(p) == (1..MaxFds) \ {d[2] : d \in fds[p]}

\* flock(fd, LOCK_UN) and the kernel's release on the last close of a
\* description: the lock goes if ds holds it.
ReleasedBy(ds) == IF flockBy \in ds THEN NoFd ELSE flockBy

(***************************************************************************)
(* Mutant of openLockFile: the flock result is ignored and the descriptor *)
(* is returned whether the lock was taken or not.                         *)
(***************************************************************************)
OpenIgnoringFlock(p) ==
    /\ handle[p] = NoFd
    /\ FreeSlots(p) # {}
    /\ LET d == <<p, Min(FreeSlots(p))>> IN
       /\ fds' = [fds EXCEPT ![p] = @ \cup {d}]
       /\ flockBy' = IF flockBy = NoFd THEN d ELSE flockBy
       /\ handle' = [handle EXCEPT ![p] = d]
       /\ held' = [held EXCEPT ![p] = TRUE]

(***************************************************************************)
(* Mutant of openLockFile: the test of flock's result is inverted, so a   *)
(* taken lock is reported as -1 and a refused one returns the descriptor. *)
(***************************************************************************)
OpenInverted(p) ==
    /\ handle[p] = NoFd
    /\ FreeSlots(p) # {}
    /\ LET d == <<p, Min(FreeSlots(p))>>
           ok == flockBy = NoFd IN
       /\ fds' = [fds EXCEPT ![p] = @ \cup {d}]
       /\ flockBy' = IF ok THEN d ELSE flockBy
       /\ handle' = [handle EXCEPT ![p] = IF ok THEN NoFd ELSE d]
       /\ held' = [held EXCEPT ![p] = ~ok]

(***************************************************************************)
(* openLockFile (utils.cpp 93-99).  open(O_CREAT | O_RDONLY) takes the    *)
(* lowest free slot; flock(LOCK_EX | LOCK_NB) succeeds only if no         *)
(* description holds the lock, and on failure the function returns -1    *)
(* WITHOUT closing the descriptor it opened.  With a full table open      *)
(* fails with EMFILE, flock(-1) fails with EBADF, and -1 is returned.     *)
(***************************************************************************)
OpenLockFile(p) ==
    /\ handle[p] = NoFd
    /\ \/ /\ FreeSlots(p) # {}
          /\ LET d == <<p, Min(FreeSlots(p))>> IN
             /\ fds' = [fds EXCEPT ![p] = @ \cup {d}]
             /\ IF flockBy = NoFd
                  THEN /\ flockBy' = d
                       /\ handle' = [handle EXCEPT ![p] = d]
                       /\ held' = [held EXCEPT ![p] = TRUE]
                  ELSE UNCHANGED <<flockBy, handle, held>>
       \/ /\ FreeSlots(p) = {}
          /\ UNCHANGED vars

(***************************************************************************)
(* unlockFile (utils.cpp 101-103): flock(fd, LOCK_UN).  The descriptor    *)
(* stays open; the caller still has to close it.                          *)
(***************************************************************************)
UnlockFile(p) ==
    /\ handle[p] # NoFd
    /\ flockBy' = ReleasedBy({handle[p]})
    /\ held' = [held EXCEPT ![p] = FALSE]
    /\ UNCHANGED <<fds, handle>>

\* The caller closes the descriptor openLockFile gave it (close(2)).
Close(p) ==
    /\ handle[p] # NoFd
    /\ fds' = [fds EXCEPT ![p] = @ \ {handle[p]}]
    /\ flockBy' = ReleasedBy({handle[p]})
    /\ handle' = [handle EXCEPT ![p] = NoFd]
    /\ held' = [held EXCEPT ![p] = FALSE]

\* The process exits or crashes: the kernel closes all its descriptors.
Exit(p) ==
    /\ fds[p] # {}
    /\ fds' = [fds EXCEPT ![p] = {}]
    /\ flockBy' = ReleasedBy(fds[p])
    /\ handle' = [handle EXCEPT ![p] = NoFd]
    /\ held' = [held EXCEPT ![p] = FALSE]

Next ==
    \E p \in Procs :
        \/ OpenLockFile(p)
        \/ UnlockFile(p)
        \/ Close(p)
        \/ Exit(p)

Spec == Init /\ [][Next]_vars

(***************************************************************************)
(* Properties                                                              *)
(***************************************************************************)

\* openLockFile's contract: two processes (or two contexts) are never both
\* told they hold the database lock, whatever order the opens, unlocks,
\* closes and crashes of the others happened in.
MutualExclusion ==
    \A p, q \in Procs : held[p] /\ held[q] => p = q

\* The flock is never held by a descriptor no caller owns: a lock nobody
\* can unlock would refuse every later openLockFile until its process
\* exits.  The code's part is openLockFile's test of flock's result; an
\* exit releases the lock through the kernel, so crashes only vary the
\* states the next open meets.
NoOrphanLock ==
    flockBy # NoFd => \E p \in Procs : held[p] /\ handle[p] = flockBy

=============================================================================
