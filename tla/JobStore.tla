------------------------------ MODULE JobStore ------------------------------
(***************************************************************************)
(* The content of the schedule store (schedule.json) and the pure part of  *)
(* every transaction on it: what the update function of at, batch, crontab *)
(* and of a scheduler tick makes of the store it was given.                *)
(*                                                                         *)
(* A job is named by its ID.  IDs come from the clock (UnixNano in base    *)
(* 36) and are taken to be unique.  What never changes after submission    *)
(* (Kind, BatchLoad, OwnerUID, the interval or the cron expression) is a   *)
(* constant of the ID; the rest is the job's state in the store.  Times    *)
(* are numbers; 0 is Go's zero time.                                       *)
(***************************************************************************)
EXTENDS Naturals

CONSTANTS
  JobIds,     \* the job IDs
  Kind,       \* Job.Kind: "at", "every" or "cron"
  BatchJobs,  \* IDs with Job.BatchLoad (batch(1), at -q b)
  OwnerUID,   \* Job.OwnerUID
  Interval,   \* the parsed Spec of an "every" job
  CronNext,   \* the cron library's Schedule.Next: a later time, or zero
  Users,
  MaxTime     \* bound on the clock

Times == 1 .. MaxTime

ASSUME StoreAssumption ==
  /\ MaxTime \in Nat \ {0}
  /\ Kind \in [JobIds -> {"at", "every", "cron"}]
  /\ BatchJobs \subseteq {j \in JobIds : Kind[j] = "at"}
  /\ OwnerUID \in [JobIds -> Users]
  /\ Interval \in [JobIds -> Nat \ {0}]
  /\ CronNext \in [JobIds -> [Times -> Nat]]
  /\ \A j \in JobIds, t \in Times : CronNext[j][t] = 0 \/ CronNext[j][t] > t

AtIds   == {j \in JobIds : Kind[j] = "at"}
CronIds == {j \in JobIds : Kind[j] = "cron"}

\* status is "none" for an ID the store does not hold, else Job.Enabled.
Job   == [status : {"none", "on", "off"}, last : Nat, next : Nat]
NoJob == [status |-> "none", last |-> 0, next |-> 0]

\* source stands for CronSource by the jobs the table was parsed into;
\* sourceSet is CronSourceSet.
Store == [jobs : [JobIds -> Job], source : SUBSET JobIds, sourceSet : BOOLEAN]

Present(s, j) == s.jobs[j].status # "none"

----------------------------------------------------------------------------
(* computeNext.  "base" is LastRun, or CreatedAt for a job that never ran. *)
EveryNext(base, d, now) ==
  base + d * (1 + (IF base > now THEN 0 ELSE (now - base) \div d))

computeNext(j, base, now) ==
  IF Kind[j] = "cron" THEN CronNext[j][now] ELSE EveryNext(base, Interval[j], now)

\* The store before any at, batch or crontab command: what "schedule add
\* --every" and "--cron" put there, and no table.  The clock starts at 1.
EmptyStore(E) ==
  [jobs |-> [j \in JobIds |->
               IF j \in E THEN [status |-> "on", last |-> 0, next |-> computeNext(j, 1, 1)]
                          ELSE NoJob],
   source |-> {}, sourceSet |-> FALSE]

\* What crontab -l prints: the submitted table, or one made up from the jobs.
CronTable(s) ==
  IF s.sourceSet THEN s.source ELSE {j \in CronIds : Present(s, j)}

----------------------------------------------------------------------------
(* The transactions.  An operation o carries the arguments its process     *)
(* fixed before it took the lock, among them the tick's and the table's    *)
(* clock reading o.now; only a tick's load reading is taken under the      *)
(* lock.                                                                   *)

\* What the load provider said: at most BatchLoadLimit, above it, an error.
Loads == {"unread", "low", "high", "error"}

Operation ==
       [type : {"submit"}, job : AtIds, when : Times]
  \cup [type : {"remove"}, ids : SUBSET JobIds, uid : Users]
  \cup [type : {"replace"}, ids : SUBSET CronIds, now : Times]
  \cup [type : {"uncron"}]
  \cup [type : {"tick"}, now : Times, load : Loads]

NoOp == [type |-> "none"]

\* Mutant: the job literal forgets Enabled.
SubmittedDisabled(s, j, when) ==
  [s EXCEPT !.jobs[j] = [status |-> "off", last |-> 0, next |-> when]]

Submitted(s, j, when) ==
  [s EXCEPT !.jobs[j] = [status |-> "on", last |-> 0, next |-> when]]

\* removeJobs validates every operand before it removes any.
Removable(s, ids, uid) ==
  \A j \in ids : Present(s, j) /\ Kind[j] = "at" /\ OwnerUID[j] = uid

\* Mutant: the operands that pass are removed, whatever the others are.
RemovedPartly(s, ids, uid) ==
  [s EXCEPT !.jobs = [j \in JobIds |->
     IF j \in ids /\ Removable(s, {j}, uid) THEN NoJob ELSE s.jobs[j]]]

Removed(s, ids, uid) ==
  IF Removable(s, ids, uid)
  THEN [s EXCEPT !.jobs = [j \in JobIds |-> IF j \in ids THEN NoJob ELSE s.jobs[j]]]
  ELSE s

CronReplaced(s, ids, now) ==
  [jobs |-> [j \in JobIds |->
               CASE j \in ids -> [status |-> "on", last |-> 0,
                                  next |-> computeNext(j, now, now)]
                 [] j \in CronIds \ ids -> NoJob
                 [] OTHER -> s.jobs[j]],
   source |-> ids, sourceSet |-> TRUE]

\* Mutant: RemoveCron leaves CronSource in place.
CronRemovedKeepsSource(s) ==
  [s EXCEPT !.jobs = [j \in JobIds |-> IF j \in CronIds THEN NoJob ELSE s.jobs[j]]]

CronRemoved(s) ==
  [jobs |-> [j \in JobIds |-> IF j \in CronIds THEN NoJob ELSE s.jobs[j]],
   source |-> {}, sourceSet |-> FALSE]

\* Mutant: the zero time is taken for a time that has passed.
DueZeroTime(s, now, load) ==
  {j \in JobIds : /\ s.jobs[j].status = "on"
                  /\ s.jobs[j].next <= now
                  /\ j \in BatchJobs => load = "low"}

\* The jobs a tick claims: enabled, due, and under the load limit if batch.
Due(s, now, load) ==
  {j \in JobIds : /\ s.jobs[j].status = "on"
                  /\ s.jobs[j].next # 0
                  /\ s.jobs[j].next <= now
                  /\ j \in BatchJobs => load = "low"}

\* Mutant: a one-shot job is not disabled when it is claimed.
ClaimedStaysEnabled(j, job, now) ==
  IF Kind[j] = "at"
  THEN [job EXCEPT !.last = now]
  ELSE [job EXCEPT !.last = now, !.next = computeNext(j, now, now)]

\* Mutant: a job that repeats is claimed and not rescheduled.
ClaimedNotRescheduled(j, job, now) ==
  IF Kind[j] = "at"
  THEN [job EXCEPT !.last = now, !.status = "off"]
  ELSE [job EXCEPT !.last = now]

ClaimedJob(j, job, now) ==
  IF Kind[j] = "at"
  THEN [job EXCEPT !.last = now, !.status = "off"]
  ELSE [job EXCEPT !.last = now, !.next = computeNext(j, now, now)]

Claimed(s, now, load) ==
  [s EXCEPT !.jobs = [j \in JobIds |->
     IF j \in Due(s, now, load) THEN ClaimedJob(j, s.jobs[j], now) ELSE s.jobs[j]]]

Apply(o, s) ==
  CASE o.type = "submit"  -> Submitted(s, o.job, o.when)
    [] o.type = "remove"  -> Removed(s, o.ids, o.uid)
    [] o.type = "replace" -> CronReplaced(s, o.ids, o.now)
    [] o.type = "uncron"  -> CronRemoved(s)
    [] o.type = "tick"    -> Claimed(s, o.now, o.load)

\* What a tick takes away to fire: a job and the scheduled time it was due for.
Occurrences(o, s) ==
  IF o.type = "tick"
  THEN {<<j, s.jobs[j].next>> : j \in Due(s, o.now, o.load)}
  ELSE {}

\* The store itself rules out that a tick selects the occurrence <<j, t>>.
RuledOut(s, j, t) ==
  \/ s.jobs[j].status # "on"
  \/ s.jobs[j].next = 0
  \/ s.jobs[j].next > t

\* The IDs an operation brings into the store.
NewIds(o) ==
  CASE o.type = "submit"  -> {o.job}
    [] o.type = "replace" -> o.ids
    [] OTHER -> {}
=============================================================================
