---------------------------- MODULE ExclusiveLock ----------------------------
(***************************************************************************)
(* What the persist lock `.uni/.lock` promises: the processes that hold it *)
(* are its owner or nobody, only its owner gives it back, and the lock of  *)
(* a process that died is reaped by a later one.  Verify.tla is written    *)
(* over these actions; DirLock.tla is the lock file meant to implement     *)
(* them.                                                                   *)
(***************************************************************************)
CONSTANTS Proc, Free, Orphan

VARIABLES
  owner,     \* a process, Free or Orphan
  holding    \* the processes that believe they hold the lock

Init == owner = Free /\ holding = {}

Acquire(p) == owner = Free /\ owner' = p /\ holding' = holding \cup {p}

Release(p) == owner = p /\ owner' = Free /\ holding' = holding \ {p}

\* The owner dies; its lock outlives it.
Die(p) == owner = p /\ owner' = Orphan /\ holding' = holding \ {p}

Reap == owner = Orphan /\ owner' = Free /\ UNCHANGED holding

Next == Reap \/ \E p \in Proc : Acquire(p) \/ Release(p) \/ Die(p)

Spec == Init /\ [][Next]_<<owner, holding>>
=============================================================================
