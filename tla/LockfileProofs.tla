--------------------------- MODULE LockfileProofs ---------------------------
(***************************************************************************)
(* The lock file is a mutex, for any number of processes.  The argument:   *)
(* nothing ever unlinks the path, so every file a process has open is the  *)
(* inode the path names, and that inode has one kernel lock.               *)
(***************************************************************************)
EXTENDS Lockfile, TLAPS

\* The process has the lock file open.
Opened(p) == pc[p] \in {"lock", "truncate", "write", "held", "unprobe", "read"}

IInv ==
  /\ TypeOK
  /\ path = made
  /\ \A p \in Procs :
       /\ Opened(p) => path # 0 /\ fd[p] = path
       /\ HasLock(p) => flock[path] = p
       /\ p \in recorded => pc[p] = "held" /\ text[path] = p

(* Once the path names a file, that file is one of the inodes.             *)
LEMMA InodeIsPath == path # 0 /\ IInv => path \in Inodes
BY LockfileAssumption DEF IInv, TypeOK, Inodes

(* Before the first call there is no file and nobody holds anything.       *)
LEMMA IInvInit == Init => IInv
BY LockfileAssumption DEF Init, IInv, TypeOK, Opened, HasLock, PcStates, Inodes

(* Steps that change neither the kernel lock nor the record.               *)
LEMMA IInvQuiet ==
  ASSUME IInv, NEW p \in Procs,
         \/ Acquire(p) \/ TryAcquire(p) \/ AcquireWithin(p) \/ Owner(p)
         \/ OpenNoDir(p) \/ OwnerNoFile(p) \/ MkdirAll(p) \/ Fails(p)
         \/ Retry(p) \/ Busy(p) \/ Read(p)
  PROVE  IInv'
<1>1. CASE Acquire(p) \/ TryAcquire(p) \/ AcquireWithin(p) \/ Owner(p)
  <2>1. PICK c \in {"acquire", "within", "owner"}, n \in 0 .. MaxPolls : Call(p, c, n)
    BY <1>1, LockfileAssumption DEF Acquire, TryAcquire, AcquireWithin, Owner
  <2>2. QED
    BY <2>1 DEF IInv, TypeOK, Opened, HasLock, PcStates, Call, Goto
<1>2. CASE OpenNoDir(p) \/ MkdirAll(p)
  BY <1>2 DEF IInv, TypeOK, Opened, HasLock, PcStates, OpenNoDir, MkdirAll, Goto
<1>3. CASE OwnerNoFile(p) \/ Fails(p) \/ Read(p)
  BY <1>3, LockfileAssumption
     DEF IInv, TypeOK, Opened, HasLock, PcStates, OwnerNoFile, Fails, Read, Return, Goto
<1>4. CASE Retry(p)
  BY <1>4, LockfileAssumption DEF IInv, TypeOK, Opened, HasLock, Retry
<1>5. CASE Busy(p)
  BY <1>5 DEF IInv, TypeOK, Opened, HasLock, PcStates, Busy, Goto
<1>6. QED
  BY <1>1, <1>2, <1>3, <1>4, <1>5

(* Every step of every call, and every death, keeps the invariant.         *)
LEMMA IInvStep == IInv /\ [Next]_vars => IInv'
<1> SUFFICES ASSUME IInv, [Next]_vars PROVE IInv'
  OBVIOUS
<1>1. ASSUME NEW p \in Procs, Open(p) PROVE IInv'
  <2>1. path' = made' /\ path' # 0 /\ path' \in 0 .. MaxInode /\ (path # 0 => path' = path)
    BY <1>1, LockfileAssumption DEF IInv, TypeOK, Open
  <2>2. TypeOK'
    BY <1>1, <2>1 DEF IInv, TypeOK, PcStates, Open, Goto
  <2>3. \A q \in Procs : Opened(q)' => path' # 0 /\ fd'[q] = path'
    BY <1>1, <2>1 DEF IInv, TypeOK, Opened, Open, Goto
  <2>4. \A q \in Procs : HasLock(q)' => HasLock(q) /\ path # 0
    BY <1>1 DEF IInv, TypeOK, Opened, HasLock, Open, Goto
  <2>5. \A q \in Procs : q \in recorded' => pc'[q] = "held" /\ path # 0 /\ text[path] = q
    BY <1>1 DEF IInv, TypeOK, Opened, Open, Goto
  <2>6. QED
    BY <1>1, <2>1, <2>2, <2>3, <2>4, <2>5 DEF IInv, Open
<1>2. ASSUME NEW p \in Procs, Lock(p) PROVE IInv'
  <2>1. fd[p] = path /\ path \in Inodes /\ flock[path] = NoProc
    BY <1>2, InodeIsPath DEF IInv, Opened, Lock, Free
  <2>2. QED
    BY <1>2, <2>1, LockfileAssumption
       DEF IInv, TypeOK, Opened, HasLock, PcStates, Lock, Goto
<1>3. ASSUME NEW p \in Procs, Truncate(p) \/ Write(p) PROVE IInv'
  <2>1. /\ fd[p] = path /\ path \in Inodes
        /\ \A q \in Procs : HasLock(q) => q = p
    BY <1>3, InodeIsPath DEF IInv, Opened, HasLock, Truncate, Write
  <2>2. QED
    BY <1>3, <2>1 DEF IInv, TypeOK, Opened, HasLock, PcStates, Truncate, Write, Goto
<1>4. ASSUME NEW p \in Procs, Release(p) \/ EndProbe(p) PROVE IInv'
  <2>1. /\ fd[p] = path /\ path \in Inodes
        /\ \A q \in Procs : HasLock(q) => q = p
    BY <1>4, InodeIsPath DEF IInv, Opened, HasLock, Release, EndProbe
  <2>2. QED
    BY <1>4, <2>1, LockfileAssumption
       DEF IInv, TypeOK, Opened, HasLock, PcStates, Release, EndProbe, Return, Goto
<1>5. ASSUME NEW p \in Procs, Crash(p) PROVE IInv'
  <2>1. \A q \in Procs : HasLock(q) => path \in Inodes
    BY InodeIsPath DEF IInv, Opened, HasLock
  <2>2. QED
    BY <1>5, <2>1, LockfileAssumption
       DEF IInv, TypeOK, Opened, HasLock, PcStates, Crash, Return, Goto
<1>6. CASE UNCHANGED vars
  BY <1>6 DEF IInv, TypeOK, Opened, HasLock, vars
<1>7. QED
  BY <1>1, <1>2, <1>3, <1>4, <1>5, <1>6, IInvQuiet DEF Next, Step

(* The invariant holds in every reachable state.                           *)
LEMMA IInvAlways == Spec => []IInv
BY IInvInit, IInvStep, PTL DEF Spec

(* The variables keep their types: inodes stay within those made, every    *)
(* call is at one of its steps.                                            *)
THEOREM TypeCorrect == Spec => []TypeOK
<1>1. IInv => TypeOK
  BY DEF IInv
<1>2. QED
  BY <1>1, IInvAlways, PTL

(* Two calls never both come back from flock with the lock, whoever else   *)
(* creates, probes, polls or dies.                                         *)
THEOREM LockIsExclusive == Spec => []MutualExclusion
<1>1. IInv => MutualExclusion
  BY DEF IInv, MutualExclusion
<1>2. QED
  BY <1>1, IInvAlways, PTL

(* A holder that wrote its record is the one the record names.             *)
THEOREM RecordIsHolders == Spec => []RecordNamesHolder
<1>1. IInv => RecordNamesHolder
  BY DEF IInv, RecordNamesHolder
<1>2. QED
  BY <1>1, IInvAlways, PTL

----------------------------------------------------------------------------
(* The refinement: who holds the mutex is who has the kernel lock.         *)

(* A process that has the kernel lock is the abstract holder.              *)
LEMMA HolderIs ==
  ASSUME IInv, NEW p \in Procs, HasLock(p)
  PROVE  LockHolder = p
<1>1. \A q \in Procs : HasLock(q) => q = p
  BY DEF IInv
<1>2. QED
  BY <1>1 DEF LockHolder

(* A step takes the mutex, gives it back, or leaves it alone.              *)
LEMMA MutexStep == IInv /\ IInv' /\ [Next]_vars => [Abstract!Next]_LockHolder
<1> SUFFICES ASSUME IInv, IInv', [Next]_vars
             PROVE  Abstract!Next \/ LockHolder' = LockHolder
  OBVIOUS
<1>0. /\ \A p \in Procs : HasLock(p) => LockHolder = p
      /\ \A p \in Procs : HasLock(p)' => LockHolder' = p
      /\ (\A p \in Procs : ~HasLock(p)) => LockHolder = NoProc
      /\ (\A p \in Procs : ~HasLock(p)') => LockHolder' = NoProc
  <2>1. \A p \in Procs : HasLock(p) => LockHolder = p
    BY HolderIs
  <2>2. \A p \in Procs : HasLock(p)' => LockHolder' = p
    <3>1. \A p, q \in Procs : HasLock(p)' /\ HasLock(q)' => p = q
      BY DEF IInv
    <3>2. QED
      BY <3>1 DEF LockHolder
  <2>3. QED
    BY <2>1, <2>2 DEF LockHolder
<1>1. ASSUME \A p \in Procs : HasLock(p)' <=> HasLock(p)
      PROVE  LockHolder' = LockHolder
  BY <1>0, <1>1
<1>2. ASSUME NEW p \in Procs, Lock(p) PROVE Abstract!Next
  <2>1. \A q \in Procs : ~HasLock(q)
    BY <1>2, LockfileAssumption DEF IInv, Opened, HasLock, Lock, Free
  <2>2. HasLock(p)'
    BY <1>2 DEF IInv, TypeOK, HasLock, Lock, Goto
  <2>3. QED
    BY <1>0, <2>1, <2>2 DEF Abstract!Next, Abstract!Acquire
<1>3. ASSUME NEW p \in Procs, Release(p) \/ EndProbe(p) \/ Crash(p)
      PROVE  Abstract!Next \/ LockHolder' = LockHolder
  <2>1. \A q \in Procs : HasLock(q)' <=> HasLock(q) /\ q # p
    BY <1>3 DEF IInv, TypeOK, HasLock, Release, EndProbe, Crash, Return, Goto
  <2>2. CASE HasLock(p)
    <3>1. \A q \in Procs : ~HasLock(q)'
      BY <2>1, <2>2 DEF IInv
    <3>2. QED
      BY <1>0, <2>2, <3>1 DEF Abstract!Next, Abstract!Release
  <2>3. CASE ~HasLock(p)
    BY <1>1, <2>1, <2>3
  <2>4. QED
    BY <2>2, <2>3
<1>4. ASSUME NEW p \in Procs, Truncate(p) \/ Write(p) PROVE LockHolder' = LockHolder
  BY <1>1, <1>4 DEF IInv, TypeOK, HasLock, Truncate, Write, Goto
<1>5. ASSUME NEW p \in Procs, Open(p) \/ OpenNoDir(p) \/ OwnerNoFile(p) \/ MkdirAll(p)
             \/ Fails(p) \/ Retry(p) \/ Busy(p) \/ Read(p)
      PROVE  LockHolder' = LockHolder
  BY <1>1, <1>5 DEF IInv, TypeOK, HasLock, Open, OpenNoDir, OwnerNoFile, MkdirAll,
                    Fails, Retry, Busy, Read, Return, Goto
<1>6. ASSUME NEW p \in Procs, Acquire(p) \/ TryAcquire(p) \/ AcquireWithin(p) \/ Owner(p)
      PROVE  LockHolder' = LockHolder
  BY <1>1, <1>6 DEF IInv, TypeOK, HasLock, Acquire, TryAcquire, AcquireWithin, Owner,
                    Call, Goto
<1>7. CASE UNCHANGED vars
  BY <1>1, <1>7 DEF HasLock, vars
<1>8. QED
  BY <1>2, <1>3, <1>4, <1>5, <1>6, <1>7 DEF Next, Step

(* The lock file implements the mutex its callers rely on.                 *)
THEOREM LockfileIsMutex == Spec => ImplementsMutex
<1>1. Init => Abstract!Init
  BY DEF Init, Abstract!Init, LockHolder, HasLock
<1>2. QED
  BY <1>1, IInvAlways, MutexStep, PTL DEF Spec, ImplementsMutex, Abstract!Spec
=============================================================================
