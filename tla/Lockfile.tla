------------------------------ MODULE Lockfile ------------------------------
(***************************************************************************)
(* pkg/lockfile: a lock file at a fixed path, locked with flock(2).  The   *)
(* kernel lock belongs to the inode a process has open, not to the path;   *)
(* the record in the file is diagnostic only and is written, best effort,  *)
(* by whoever has just won the lock.  Each process makes one call at a     *)
(* time: Acquire, TryAcquire, AcquireWithin or Owner.                      *)
(***************************************************************************)
EXTENDS Naturals

CONSTANTS
  Procs, NoProc,
  MaxInode,      \* bound on the inodes ever created
  MaxPolls       \* bound on the retries a deadline leaves room for

ASSUME LockfileAssumption ==
  NoProc \notin Procs /\ MaxInode \in Nat \ {0} /\ MaxPolls \in Nat

VARIABLES
  dir,       \* the lock's directory exists
  path,      \* the inode the path names, 0 if none
  made,      \* number of inodes created
  flock,     \* the process whose open file holds the inode's lock
  text,      \* the holder an inode's record names, NoProc if it names none
  pc, call,  \* where each process is, in which call
  fd,        \* the inode it has open, 0 if none
  polls,     \* retries left before the deadline
  recorded   \* the holders that have written their record

vars == <<dir, path, made, flock, text, pc, call, fd, polls, recorded>>

Inodes == 1 .. MaxInode

PcStates == {"idle", "open", "mkdir", "reopen", "lock", "truncate", "write",
             "held", "unprobe", "read"}

Init ==
  /\ dir \in BOOLEAN
  /\ path = 0
  /\ made = 0
  /\ flock = [i \in Inodes |-> NoProc]
  /\ text = [i \in Inodes |-> NoProc]
  /\ pc = [p \in Procs |-> "idle"]
  /\ call = [p \in Procs |-> "none"]
  /\ fd = [p \in Procs |-> 0]
  /\ polls = [p \in Procs |-> 0]
  /\ recorded = {}

Goto(p, l) == pc' = [pc EXCEPT ![p] = l]

\* Close the file, if it is open, and return to the caller.
Return(p) ==
  /\ Goto(p, "idle")
  /\ call' = [call EXCEPT ![p] = "none"]
  /\ fd' = [fd EXCEPT ![p] = 0]
  /\ polls' = [polls EXCEPT ![p] = 0]
  /\ recorded' = recorded \ {p}

----------------------------------------------------------------------------
Call(p, c, n) ==
  /\ pc[p] = "idle"
  /\ call' = [call EXCEPT ![p] = c]
  /\ polls' = [polls EXCEPT ![p] = n]
  /\ Goto(p, "open")
  /\ UNCHANGED <<dir, path, made, flock, text, fd, recorded>>

Acquire(p)       == Call(p, "acquire", 0)
TryAcquire(p)    == Call(p, "within", 0)
AcquireWithin(p) == \E n \in 1 .. MaxPolls : Call(p, "within", n)
Owner(p)         == Call(p, "owner", 0)

\* Mutant: the open also truncates, as O_TRUNC would.
OpenTruncates(p) ==
  /\ pc[p] \in {"open", "reopen"}
  /\ dir
  /\ path # 0 \/ (call[p] # "owner" /\ made < MaxInode)
  /\ path' = IF path = 0 THEN made + 1 ELSE path
  /\ made' = IF path = 0 THEN made + 1 ELSE made
  /\ text' = [text EXCEPT ![path'] = NoProc]
  /\ fd' = [fd EXCEPT ![p] = path']
  /\ Goto(p, "lock")
  /\ UNCHANGED <<dir, flock, call, polls, recorded>>

\* O_CREATE|O_RDWR on an existing directory, on the first or second attempt.
Open(p) ==
  /\ pc[p] \in {"open", "reopen"}
  /\ dir
  /\ path # 0 \/ (call[p] # "owner" /\ made < MaxInode)
  /\ path' = IF path = 0 THEN made + 1 ELSE path
  /\ made' = IF path = 0 THEN made + 1 ELSE made
  /\ fd' = [fd EXCEPT ![p] = path']
  /\ Goto(p, "lock")
  /\ UNCHANGED <<dir, flock, text, call, polls, recorded>>

OpenNoDir(p) ==
  /\ pc[p] = "open"
  /\ ~dir
  /\ call[p] # "owner"
  /\ Goto(p, "mkdir")
  /\ UNCHANGED <<dir, path, made, flock, text, call, fd, polls, recorded>>

MkdirAll(p) ==
  /\ pc[p] = "mkdir"
  /\ dir' = TRUE
  /\ Goto(p, "reopen")
  /\ UNCHANGED <<path, made, flock, text, call, fd, polls, recorded>>

\* Owner does not create the file: no file, no holder.
OwnerNoFile(p) ==
  /\ pc[p] = "open"
  /\ call[p] = "owner"
  /\ ~dir \/ path = 0
  /\ Return(p)
  /\ UNCHANGED <<dir, path, made, flock, text>>

\* open, mkdir or flock reports an error.
Fails(p) ==
  /\ pc[p] \in {"open", "mkdir", "reopen", "lock"}
  /\ Return(p)
  /\ UNCHANGED <<dir, path, made, flock, text>>

----------------------------------------------------------------------------
Free(p) == flock[fd[p]] = NoProc

\* flock(2) grants the lock: to Owner only for the moment of its probe.
Lock(p) ==
  /\ pc[p] = "lock"
  /\ Free(p)
  /\ flock' = [flock EXCEPT ![fd[p]] = p]
  /\ Goto(p, IF call[p] = "owner" THEN "unprobe" ELSE "truncate")
  /\ UNCHANGED <<dir, path, made, text, call, fd, polls, recorded>>

\* Mutant: the deadline is not looked at before sleeping again.
RetryPastDeadline(p) ==
  /\ pc[p] = "lock"
  /\ call[p] = "within"
  /\ ~Free(p)
  /\ polls' = [polls EXCEPT ![p] = @ - 1]
  /\ UNCHANGED <<dir, path, made, flock, text, pc, call, fd, recorded>>

\* Mutant: the deadline is set anew before every sleep.
RetryResetsDeadline(p) ==
  /\ pc[p] = "lock"
  /\ call[p] = "within"
  /\ ~Free(p)
  /\ polls[p] > 0
  /\ UNCHANGED <<dir, path, made, flock, text, pc, call, fd, polls, recorded>>

\* LOCK_NB said no before the deadline: sleep and try again.
Retry(p) ==
  /\ pc[p] = "lock"
  /\ call[p] = "within"
  /\ ~Free(p)
  /\ polls[p] > 0
  /\ polls' = [polls EXCEPT ![p] = @ - 1]
  /\ UNCHANGED <<dir, path, made, flock, text, pc, call, fd, recorded>>

\* LOCK_NB said no to Owner, or at the deadline: go and read the record.
Busy(p) ==
  /\ pc[p] = "lock"
  /\ call[p] # "acquire"
  /\ ~Free(p)
  /\ polls[p] = 0
  /\ Goto(p, "read")
  /\ UNCHANGED <<dir, path, made, flock, text, call, fd, polls, recorded>>

\* readHolder(path), and return ErrHeld or the holder found.
Read(p) ==
  /\ pc[p] = "read"
  /\ Return(p)
  /\ UNCHANGED <<dir, path, made, flock, text>>

\* record: truncate, then write; either may fail and is not retried.
Truncate(p) ==
  /\ pc[p] = "truncate"
  /\ \/ text' = [text EXCEPT ![fd[p]] = NoProc] /\ Goto(p, "write")
     \/ text' = text /\ Goto(p, "held")
  /\ UNCHANGED <<dir, path, made, flock, call, fd, polls, recorded>>

Write(p) ==
  /\ pc[p] = "write"
  /\ \/ text' = [text EXCEPT ![fd[p]] = p] /\ recorded' = recorded \cup {p}
     \/ UNCHANGED <<text, recorded>>
  /\ Goto(p, "held")
  /\ UNCHANGED <<dir, path, made, flock, call, fd, polls>>

\* Mutant: Release tidies up by removing the lock file.
ReleaseUnlinks(p) ==
  /\ pc[p] = "held"
  /\ flock' = [flock EXCEPT ![fd[p]] = NoProc]
  /\ path' = 0
  /\ Return(p)
  /\ UNCHANGED <<dir, made, text>>

\* Unlock and close.
Release(p) ==
  /\ pc[p] = "held"
  /\ flock' = [flock EXCEPT ![fd[p]] = NoProc]
  /\ Return(p)
  /\ UNCHANGED <<dir, path, made, text>>

\* Mutant: Owner returns without unlocking what its probe locked.
EndProbeLocked(p) ==
  /\ pc[p] = "unprobe"
  /\ Return(p)
  /\ UNCHANGED <<dir, path, made, flock, text>>

\* Owner found the lock free: it lets go of it again.
EndProbe(p) ==
  /\ pc[p] = "unprobe"
  /\ flock' = [flock EXCEPT ![fd[p]] = NoProc]
  /\ Return(p)
  /\ UNCHANGED <<dir, path, made, text>>

\* The process dies and the kernel drops its lock; the record stays.
Crash(p) ==
  /\ pc[p] # "idle"
  /\ flock' = [i \in Inodes |-> IF flock[i] = p THEN NoProc ELSE flock[i]]
  /\ Return(p)
  /\ UNCHANGED <<dir, path, made, text>>

Step(p) ==
  \/ Open(p) \/ OpenNoDir(p) \/ OwnerNoFile(p) \/ MkdirAll(p) \/ Lock(p)
  \/ Retry(p) \/ Busy(p) \/ Read(p) \/ Truncate(p) \/ Write(p) \/ EndProbe(p)

Next == \E p \in Procs :
  \/ Acquire(p) \/ TryAcquire(p) \/ AcquireWithin(p) \/ Owner(p)
  \/ Step(p) \/ Fails(p) \/ Release(p) \/ Crash(p)

Spec == Init /\ [][Next]_vars

\* A process inside a call keeps running, and the kernel does not pass over
\* one blocked waiter for ever.  Nothing obliges a holder to release.
FairSpec ==
  /\ Spec
  /\ \A p \in Procs : WF_vars(Step(p)) /\ SF_vars(call[p] = "acquire" /\ Lock(p))

----------------------------------------------------------------------------
(* Properties.                                                             *)

HasLock(p) == pc[p] \in {"truncate", "write", "held", "unprobe"}

(* Every variable has the type its comment gives it.                       *)
TypeOK ==
  /\ dir \in BOOLEAN
  /\ path \in 0 .. MaxInode
  /\ made \in 0 .. MaxInode
  /\ flock \in [Inodes -> Procs \cup {NoProc}]
  /\ text \in [Inodes -> Procs \cup {NoProc}]
  /\ pc \in [Procs -> PcStates]
  /\ call \in [Procs -> {"none", "acquire", "within", "owner"}]
  /\ fd \in [Procs -> 0 .. MaxInode]
  /\ polls \in [Procs -> 0 .. MaxPolls]
  /\ recorded \subseteq Procs

(* At most one call at a time comes back from flock with the lock, however *)
(* many processes create the file, die with it open or probe it.           *)
MutualExclusion == \A p, q \in Procs : HasLock(p) /\ HasLock(q) => p = q

(* "A metadata failure must not create a second winner", and nobody but    *)
(* the winner touches the record: a holder that wrote its record is the    *)
(* one the record at the lock's path names for as long as it holds.        *)
RecordNamesHolder ==
  \A p \in Procs : pc[p] = "held" /\ p \in recorded => text[path] = p

LockHolder ==
  IF \E p \in Procs : HasLock(p) THEN CHOOSE p \in Procs : HasLock(p) ELSE NoProc

Abstract == INSTANCE Mutex WITH holder <- LockHolder

(* The lock file is a mutex: it passes from one holder to the next only    *)
(* through being free.                                                     *)
ImplementsMutex == Abstract!Spec

(* TryAcquire, AcquireWithin and Owner come back whatever the lock's       *)
(* holder does: with the lock, or without it at the deadline.              *)
BoundedCallReturns ==
  \A p \in Procs : call[p] \in {"within", "owner"} ~> pc[p] \in {"held", "idle"}

(* As long as holders keep releasing the lock, a blocked Acquire gets it   *)
(* (or dies, or is told of an error), past any deaths, probes and polls.   *)
BlockedAcquireReturns ==
  []<>(LockHolder = NoProc) =>
    \A p \in Procs : call[p] = "acquire" ~> pc[p] \in {"held", "idle"}
=============================================================================
