------------------------------- MODULE Mutex -------------------------------
(***************************************************************************)
(* What pkg/lockfile promises its callers: an exclusive lock that at most  *)
(* one process holds, that a process gets only when nobody holds it, and   *)
(* that is free again once its holder releases it or dies (the kernel      *)
(* drops a dead process's flock).  Lockfile.tla is shown to implement it;  *)
(* Schedule.tla uses it for schedule.lock and schedule-daemon.lock.        *)
(***************************************************************************)
CONSTANTS Procs, NoProc

VARIABLE holder

Init == holder = NoProc

Acquire(p) == holder = NoProc /\ holder' = p

\* Also the effect of the holder's death.
Release(p) == holder = p /\ holder' = NoProc

Next == \E p \in Procs : Acquire(p) \/ Release(p)

Spec == Init /\ [][Next]_holder
=============================================================================
