------------------------------ MODULE Schedule ------------------------------
(***************************************************************************)
(* The processes that share one schedule store through its lock file:      *)
(* at, batch and crontab invocations, "schedule tick" invocations and the  *)
(* "schedule daemon" loop.  Every one of them runs the same transaction    *)
(* (UpdateJobs, Store.update, SubmitJobWithConfirmation): take the lock,   *)
(* load the file, compute, save by an atomic rename, release.  A process   *)
(* may crash between any two steps and any file operation may fail.        *)
(***************************************************************************)
EXTENDS JobStore

CONSTANTS Procs, NoProc

ASSUME ProcAssumption == NoProc \notin Procs

VARIABLES
  now,      \* the clock
  file,     \* content of schedule.json
  lock,     \* holder of schedule.lock
  lease,    \* holder of schedule-daemon.lock
  pc,       \* where each process is
  op,       \* the operation each process is carrying out
  snap,     \* the store in the process's memory, updated, about to be saved
  prior,    \* the store as the process loaded it
  due,      \* the occurrences the process has selected and not yet fired
  used,     \* IDs already handed out
  claimed,  \* occurrences saved as claimed           (history)
  started,  \* occurrences whose command was started  (history)
  outcome   \* what the submitter of a job was told   (history)

vars == <<now, file, lock, lease, pc, op, snap, prior, due,
          used, claimed, started, outcome>>

StoreLock  == INSTANCE Mutex WITH holder <- lock
DaemonLock == INSTANCE Mutex WITH holder <- lease

NoStore == EmptyStore({})

PcStates == {"idle", "acquire", "load", "save", "confirm", "rollback", "unlock",
             "fire", "run"}

Outcomes == {"none", "accepted", "refused", "leaked", "removed"}

Init ==
  /\ now = 1
  /\ \E E \in SUBSET (JobIds \ AtIds) :
       file = EmptyStore(E) /\ used = E
  /\ StoreLock!Init
  /\ DaemonLock!Init
  /\ pc = [p \in Procs |-> "idle"]
  /\ op = [p \in Procs |-> NoOp]
  /\ snap = [p \in Procs |-> NoStore]
  /\ prior = [p \in Procs |-> NoStore]
  /\ due = [p \in Procs |-> {}]
  /\ claimed = {}
  /\ started = {}
  /\ outcome = [j \in JobIds |-> "none"]

----------------------------------------------------------------------------
Goto(p, l) == pc' = [pc EXCEPT ![p] = l]

\* The transaction's function returns: its copies of the store are gone.
Forget(p) ==
  /\ op' = [op EXCEPT ![p] = NoOp]
  /\ snap' = [snap EXCEPT ![p] = NoStore]
  /\ prior' = [prior EXCEPT ![p] = NoStore]

\* Return to the caller: the jobs selected are forgotten as well.
Return(p) ==
  /\ Goto(p, "idle")
  /\ Forget(p)
  /\ due' = [due EXCEPT ![p] = {}]

\* The submitter's exit status, for an operation that submits.
Tell(p, r) ==
  outcome' = IF op[p].type = "submit"
             THEN [outcome EXCEPT ![op[p].job] = r]
             ELSE outcome

----------------------------------------------------------------------------
(* Starting an operation.  IDs are generated and the clock is read before  *)
(* the lock is requested.                                                  *)

Begin(p, o) ==
  /\ pc[p] = "idle"
  /\ op' = [op EXCEPT ![p] = o]
  /\ used' = used \cup NewIds(o)
  /\ Goto(p, "acquire")
  /\ UNCHANGED <<now, file, lock, lease, snap, prior, due, claimed, started, outcome>>

\* at: a time that is not before now.
Submit(p) ==
  /\ lease # p
  /\ \E j \in AtIds \ used, when \in now .. MaxTime :
       Begin(p, [type |-> "submit", job |-> j, when |-> when])

\* batch: now, in the batch queue.
SubmitBatch(p) ==
  /\ lease # p
  /\ \E j \in BatchJobs \ used :
       Begin(p, [type |-> "submit", job |-> j, when |-> now])

\* at -r id ...
RemoveJobs(p) ==
  /\ lease # p
  /\ \E ids \in (SUBSET used) \ {{}}, uid \in Users :
       Begin(p, [type |-> "remove", ids |-> ids, uid |-> uid])

\* crontab [file], crontab -e: a table whose entries become the jobs "ids".
ReplaceCron(p) ==
  /\ lease # p
  /\ \E ids \in SUBSET (CronIds \ used) :
       Begin(p, [type |-> "replace", ids |-> ids, now |-> now])

\* crontab -r
RemoveCron(p) == lease # p /\ Begin(p, [type |-> "uncron"])

\* Mutant: the tick is handed the zero time.
TickZeroTime(p) == Begin(p, [type |-> "tick", now |-> 0, load |-> "unread"])

\* schedule tick, and one turn of the daemon's loop
Tick(p) == Begin(p, [type |-> "tick", now |-> now, load |-> "unread"])

----------------------------------------------------------------------------
(* The daemon: the lease is claimed without waiting and kept for life.     *)

StartDaemon(p) ==
  /\ pc[p] = "idle"
  /\ DaemonLock!Acquire(p)
  /\ UNCHANGED <<now, file, lock, pc, op, snap, prior, due, used, claimed, started, outcome>>

StopDaemon(p) ==
  /\ pc[p] = "idle"
  /\ DaemonLock!Release(p)
  /\ UNCHANGED <<now, file, lock, pc, op, snap, prior, due, used, claimed, started, outcome>>

----------------------------------------------------------------------------
(* The transaction.                                                        *)

\* Mutant: the transaction does not wait for the lock.
AcquireUnlocked(p) ==
  /\ pc[p] = "acquire"
  /\ lock' = p
  /\ Goto(p, "load")
  /\ UNCHANGED <<now, file, lease, op, snap, prior, due, used, claimed, started, outcome>>

Acquire(p) ==
  /\ pc[p] = "acquire"
  /\ StoreLock!Acquire(p)
  /\ Goto(p, "load")
  /\ UNCHANGED <<now, file, lease, op, snap, prior, due, used, claimed, started, outcome>>

AcquireFails(p) ==
  /\ pc[p] = "acquire"
  /\ Tell(p, "refused")
  /\ Return(p)
  /\ UNCHANGED <<now, file, lock, lease, used, claimed, started>>

\* Only the daemon has a load provider; the tick command has none.
LoadReadings(p) ==
  IF op[p].type # "tick" THEN {"unread"}
  ELSE IF lease = p THEN {"low", "high", "error"} ELSE {"error"}

WithLoad(o, l) == IF o.type = "tick" THEN [o EXCEPT !.load = l] ELSE o

\* Load the file and run the update function on what was loaded.
Load(p) ==
  /\ pc[p] = "load"
  /\ \E l \in LoadReadings(p) :
       LET o == WithLoad(op[p], l) IN
       /\ op' = [op EXCEPT ![p] = o]
       /\ snap' = [snap EXCEPT ![p] = Apply(o, file)]
       /\ due' = [due EXCEPT ![p] = Occurrences(o, file)]
  /\ prior' = [prior EXCEPT ![p] = file]
  /\ Goto(p, "save")
  /\ UNCHANGED <<now, file, lock, lease, used, claimed, started, outcome>>

\* Mutant: the tick ignores the transaction's error and fires what it selected.
FailsFires(p) ==
  /\ pc[p] \in {"load", "save"}
  /\ StoreLock!Release(p)
  /\ Tell(p, "refused")
  /\ Goto(p, "fire")
  /\ Forget(p)
  /\ UNCHANGED <<now, file, lease, due, used, claimed, started>>

\* Mutant: the error path returns without releasing the lock.
FailsLocked(p) ==
  /\ pc[p] \in {"load", "save"}
  /\ Tell(p, "refused")
  /\ Return(p)
  /\ UNCHANGED <<now, file, lock, lease, used, claimed, started>>

\* An unreadable file, or a save that fails before its rename: an error, the
\* lock is released, and the jobs selected are not fired.
Fails(p) ==
  /\ pc[p] \in {"load", "save"}
  /\ StoreLock!Release(p)
  /\ Tell(p, "refused")
  /\ Return(p)
  /\ UNCHANGED <<now, file, lease, used, claimed, started>>

\* Every operand of at -r is a job of the user's in the store.
OwnJobs(o, s) ==
  \A j \in o.ids : s.jobs[j].status # "none" /\ j \in AtIds /\ OwnerUID[j] = o.uid

\* savePath's rename.
Save(p) ==
  /\ pc[p] = "save"
  /\ file' = snap[p]
  /\ claimed' = claimed \cup due[p]
  /\ outcome' = IF op[p].type = "remove" /\ OwnJobs(op[p], prior[p])
                THEN [j \in JobIds |-> IF j \in op[p].ids THEN "removed" ELSE outcome[j]]
                ELSE outcome
  /\ Goto(p, IF op[p].type = "submit" THEN "confirm" ELSE "unlock")
  /\ UNCHANGED <<now, lock, lease, op, snap, prior, due, used, started>>

\* The confirmation was written, or could not be.
Confirm(p) ==
  /\ pc[p] = "confirm"
  /\ Tell(p, "accepted")
  /\ Goto(p, "unlock")
  /\ UNCHANGED <<now, file, lock, lease, op, snap, prior, due, used, claimed, started>>

ConfirmFails(p) ==
  /\ pc[p] = "confirm"
  /\ Goto(p, "rollback")
  /\ UNCHANGED <<now, file, lock, lease, op, snap, prior, due, used, claimed, started, outcome>>

\* Mutant: the failed confirmation is reported, the job stays in the store.
RollbackKeepsJob(p) ==
  /\ pc[p] = "rollback"
  /\ file' = file /\ Tell(p, "refused")
  /\ Goto(p, "unlock")
  /\ UNCHANGED <<now, lock, lease, op, snap, prior, due, used, claimed, started>>

\* The prior jobs are saved again; that save may fail as well.
Rollback(p) ==
  /\ pc[p] = "rollback"
  /\ \/ file' = prior[p] /\ Tell(p, "refused")
     \/ file' = file /\ Tell(p, "leaked")
  /\ Goto(p, "unlock")
  /\ UNCHANGED <<now, lock, lease, op, snap, prior, due, used, claimed, started>>

Unlock(p) ==
  /\ pc[p] = "unlock"
  /\ StoreLock!Release(p)
  /\ Goto(p, "fire")
  /\ Forget(p)
  /\ UNCHANGED <<now, file, lease, due, used, claimed, started, outcome>>

----------------------------------------------------------------------------
(* After the lock is released the claimed jobs are run one by one.  The    *)
(* process waits for each command, for as long as that takes; a job that   *)
(* is refused, or fails, does not stop the ones after it.                  *)

\* The job is refused by a check or by admission, or its command is started.
FireJob(p, o) ==
  \/ UNCHANGED <<pc, started>>
  \/ Goto(p, "run") /\ started' = started \cup {o}

Fire(p) ==
  /\ pc[p] = "fire"
  /\ \E o \in due[p] :
       /\ due' = [due EXCEPT ![p] = @ \ {o}]
       /\ FireJob(p, o)
  /\ UNCHANGED <<now, file, lock, lease, op, snap, prior, used, claimed, outcome>>

\* c.Run returns: the command has ended.
Ended(p) ==
  /\ pc[p] = "run"
  /\ Goto(p, "fire")
  /\ UNCHANGED <<now, file, lock, lease, op, snap, prior, due, used, claimed, started, outcome>>

Done(p) ==
  /\ pc[p] = "fire"
  /\ due[p] = {}
  /\ Return(p)
  /\ UNCHANGED <<now, file, lock, lease, used, claimed, started, outcome>>

----------------------------------------------------------------------------
(* The process dies: its memory is gone, the kernel drops its locks.       *)
Crash(p) ==
  /\ pc[p] # "idle" \/ lease = p
  /\ Return(p)
  /\ lock' = IF lock = p THEN NoProc ELSE lock
  /\ lease' = IF lease = p THEN NoProc ELSE lease
  /\ UNCHANGED <<now, file, used, claimed, started, outcome>>

Advance ==
  /\ now < MaxTime
  /\ now' = now + 1
  /\ UNCHANGED <<file, lock, lease, pc, op, snap, prior, due, used, claimed, started, outcome>>

Command(p) ==
  Submit(p) \/ SubmitBatch(p) \/ RemoveJobs(p) \/ ReplaceCron(p) \/ RemoveCron(p)

Transact(p) ==
  \/ Acquire(p) \/ AcquireFails(p) \/ Load(p) \/ Fails(p) \/ Save(p)
  \/ Confirm(p) \/ ConfirmFails(p) \/ Rollback(p) \/ Unlock(p)

Next ==
  \/ Advance
  \/ \E p \in Procs : \/ Command(p) \/ Tick(p)
                      \/ StartDaemon(p) \/ StopDaemon(p)
                      \/ Transact(p) \/ Fire(p) \/ Ended(p) \/ Done(p)
                      \/ Crash(p)

Spec == Init /\ [][Next]_vars

----------------------------------------------------------------------------
(* Properties.                                                             *)

\* The process is inside a transaction, after Acquire and before Release.
InTransaction(p) == pc[p] \in {"load", "save", "confirm", "rollback", "unlock"}

\* The process's tick was saved: what it selected is its to fire.
Claiming(p) == pc[p] \in {"unlock", "fire", "run"}

Occurrence == JobIds \X Nat

(* Every variable has the type its comment gives it.                       *)
TypeOK ==
  /\ now \in Times
  /\ file \in Store
  /\ lock \in Procs \cup {NoProc}
  /\ lease \in Procs \cup {NoProc}
  /\ pc \in [Procs -> PcStates]
  /\ op \in [Procs -> Operation \cup {NoOp}]
  /\ snap \in [Procs -> Store]
  /\ prior \in [Procs -> Store]
  /\ due \in [Procs -> SUBSET Occurrence]
  /\ used \subseteq JobIds
  /\ claimed \subseteq Occurrence
  /\ started \subseteq Occurrence
  /\ outcome \in [JobIds -> Outcomes]

(* UpdateJobs: "a daemon tick cannot overwrite a submission from a stale   *)
(* snapshot".  What a transaction is about to save was computed from the   *)
(* store as it is at that moment, and what a rollback is about to restore  *)
(* differs from the file by the submitted job alone.                       *)
NoStaleSnapshot ==
  \A p \in Procs :
    /\ pc[p] = "save" => prior[p] = file /\ snap[p] = Apply(op[p], file)
    /\ pc[p] \in {"confirm", "rollback"} => file = Apply(op[p], prior[p])

(* The tick claims a job "by disabling/rescheduling it before execution":  *)
(* once an occurrence is claimed the file itself rules out claiming it     *)
(* again, so the claim outlives a crash of the process that made it.       *)
ClaimIsDurable == \A c \in claimed : RuledOut(file, c[1], c[2])

(* However many ticks and daemons run, an occurrence is started at most    *)
(* once: nobody is about to fire one that was started, or that another     *)
(* process is about to fire.                                               *)
StartedAtMostOnce ==
  \A p \in Procs : Claiming(p) =>
    /\ due[p] \subseteq claimed \ started
    /\ \A q \in Procs \ {p} : Claiming(q) => due[p] \cap due[q] = {}

(* SubmitJobWithConfirmation: a job whose submitter was told of success is *)
(* in the store, still armed unless a tick has claimed it, until an at -r  *)
(* of its owner names it among jobs that are all the owner's (removeJobs   *)
(* looks at every operand before it removes any); then it is gone for      *)
(* good.  A job whose submission failed and was rolled back is neither in  *)
(* the store nor ever claimed.                                             *)
SubmissionOutcomeHolds ==
  \A j \in AtIds :
    /\ outcome[j] = "accepted" =>
         \/ file.jobs[j].status = "on"
         \/ file.jobs[j].status = "off" /\ <<j, file.jobs[j].next>> \in claimed
    /\ outcome[j] = "refused" =>
         ~Present(file, j) /\ \A c \in claimed : c[1] # j
    /\ outcome[j] = "removed" => ~Present(file, j)

(* computeNext gives a cron entry without a further instant the zero time, *)
(* which lies before every clock reading.  What a tick claims is a time    *)
(* that has come and, for a crontab entry, one of the entry's own instants *)
(* that follows another instant of the clock.                              *)
ClaimsAreScheduled ==
  \A c \in claimed :
    /\ c[2] \in 1 .. now
    /\ Kind[c[1]] = "cron" => \E t \in Times : t < c[2] /\ CronNext[c[1]][t] = c[2]

(* ReplaceCron and RemoveCron change the table's source and its jobs       *)
(* together: as long as only the commands that take the lock write the     *)
(* store, what crontab -l would print is what the daemon would run.  (The  *)
(* unlocked schedule add --cron, rm and disable are in ScheduleCLI.)       *)
CronJobsMatchTable ==
  CronTable(file) = {j \in CronIds : Present(file, j)}

(* The tick's clock reading is taken before it waits for the lock and may  *)
(* be older than the last tick's; a job's LastRun goes forward all the     *)
(* same, for as long as the job stays in the store.                        *)
LastRunNeverGoesBack ==
  [][\A j \in JobIds :
       Present(file, j) /\ Present(file', j) =>
         file'.jobs[j].last >= file.jobs[j].last]_vars

(* The store as its readers may rely on it: a submission counts from its   *)
(* confirmation on (or from the crash or failed rollback that leaves it).  *)
AbstractStore ==
  IF \E p \in Procs : pc[p] \in {"confirm", "rollback"}
  THEN prior[CHOOSE p \in Procs : pc[p] \in {"confirm", "rollback"}]
  ELSE file

Atomic == INSTANCE AtomicSchedule WITH store <- AbstractStore

(* Every command and tick, whatever the interleaving, failures and         *)
(* crashes, takes effect at one instant or not at all.                     *)
ImplementsAtomicSchedule == Atomic!Spec

----------------------------------------------------------------------------
(* Fairness.  A process inside a transaction, or between two jobs it       *)
(* fires, keeps running, and one that waits for the lock gets it if it     *)
(* stays free (Acquire blocks in flock).  Nothing makes a command it runs  *)
(* end.  The rest is assumed of the host: the daemon is restarted, its     *)
(* ticker fires, and of its ticks' attempts at each stage not all fail.    *)
(* For the lock an attempt is the whole wait: SF of Acquire would allow    *)
(* every tick to give up while another process has the lock.               *)

TickStage(A(_)) == \E p \in Procs : op[p].type = "tick" /\ A(p)

TickWaits == \E p \in Procs : op[p].type = "tick" /\ pc[p] = "acquire"

Fairness ==
  /\ WF_vars(Advance)
  /\ \A p \in Procs :
       WF_vars(\/ Acquire(p) \/ Load(p) \/ Save(p) \/ Confirm(p) \/ Rollback(p)
               \/ Unlock(p) \/ Fire(p) \/ Done(p))
  /\ SF_vars(\E p \in Procs : StartDaemon(p))
  /\ SF_vars(\E p \in Procs : lease = p /\ Tick(p))
  /\ []<>TickWaits => []<><<TickStage(Acquire)>>_vars
  /\ SF_vars(TickStage(Load))
  /\ SF_vars(TickStage(Save))

FairSpec == Spec /\ Fairness

\* Every command a tick or the daemon runs ends, or its process dies.
CommandsEnd == \A p \in Procs : []<>(pc[p] # "run")

(* An accepted at job is eventually claimed, or removed, past any failures *)
(* and deaths of the ticks and of other commands, provided that the        *)
(* commands of the jobs end: c.Run has no time limit and the daemon makes  *)
(* no further tick until it returns, so one job that hangs holds back all  *)
(* the others.  (A batch job is not promised this: the host's load may     *)
(* hold it back for ever.)                                                 *)
AcceptedJobIsClaimed ==
  CommandsEnd =>
    \A j \in AtIds \ BatchJobs :
      outcome[j] = "accepted" ~>
        (outcome[j] = "removed" \/ \E c \in claimed : c[1] = j)

(* No early return, failure or crash leaves the store locked, and neither  *)
(* does a command that never ends: the lock is released before it runs.    *)
StoreLockIsReleased == \A p \in Procs : lock = p ~> lock # p
=============================================================================
