--------------------------- MODULE ScheduleProofs ---------------------------
(***************************************************************************)
(* Safety of Schedule for any processes, jobs, owners, cron entries and    *)
(* clock bound: the pure transactions, the lock and the file, then that    *)
(* Schedule implements AtomicSchedule, then what the users of the store    *)
(* are told.                                                               *)
(***************************************************************************)
EXTENDS Schedule, TLAPS

----------------------------------------------------------------------------
(* The pure transactions of JobStore: what they return and what they leave *)
(* alone.                                                                  *)

(* An interval added to its own base lands after it: the case the callers  *)
(* of computeNext are in, LastRun or CreatedAt having just been set.       *)
LEMMA EveryNextLater ==
  ASSUME NEW t \in Nat, NEW d \in Nat \ {0}
  PROVE  EveryNext(t, d, t) \in Nat /\ EveryNext(t, d, t) > t
<1>1. 0 \div d = 0
  OBVIOUS
<1>2. EveryNext(t, d, t) = t + d * (1 + 0)
  BY <1>1 DEF EveryNext
<1>3. QED
  BY <1>2

(* computeNext returns a time after the one it is given, or zero for a     *)
(* cron entry that never comes round again.                                *)
LEMMA ComputeNextLater ==
  ASSUME NEW j \in JobIds, NEW t \in Times
  PROVE  /\ computeNext(j, t, t) \in Nat
         /\ computeNext(j, t, t) = 0 \/ computeNext(j, t, t) > t
<1>1. t \in Nat
  BY StoreAssumption DEF Times
<1>2. CASE Kind[j] = "cron"
  BY <1>2, StoreAssumption, Zenon DEF computeNext
<1>3. CASE Kind[j] # "cron"
  BY <1>1, <1>3, EveryNextLater, StoreAssumption, Zenon DEF computeNext
<1>4. QED
  BY <1>2, <1>3

(* The store the scheduler starts from is well typed.                      *)
LEMMA EmptyStoreType ==
  ASSUME NEW E \in SUBSET JobIds
  PROVE  EmptyStore(E) \in Store
<1>0. 1 \in Times
  BY StoreAssumption DEF Times
<1>1. \A j \in JobIds : computeNext(j, 1, 1) \in Nat
  BY <1>0, ComputeNextLater, Zenon
<1>2. \A j \in JobIds : EmptyStore(E).jobs[j] \in Job
  BY <1>1, Zenon DEF EmptyStore, Job, NoJob
<1>3. QED
  BY <1>2 DEF EmptyStore, Store

(* Claiming a job keeps its type.                                          *)
LEMMA ClaimedJobType ==
  ASSUME NEW j \in JobIds, NEW job \in Job, NEW t \in Times
  PROVE  ClaimedJob(j, job, t) \in Job
<1>1. t \in Nat /\ computeNext(j, t, t) \in Nat
  BY ComputeNextLater, StoreAssumption DEF Times
<1>2. QED
  BY <1>1, Zenon DEF ClaimedJob, Job

(* Every transaction maps a store to a store.                              *)
LEMMA ApplyType ==
  ASSUME NEW o \in Operation, NEW s \in Store
  PROVE  Apply(o, s) \in Store
<1>0. s.jobs \in [JobIds -> Job] /\ NoJob \in Job
  BY DEF Store, Job, NoJob
<1>1. CASE o.type = "submit"
  <2>1. o.job \in JobIds /\ o.when \in Nat
    BY <1>1, StoreAssumption DEF Operation, AtIds, Times
  <2>2. [status |-> "on", last |-> 0, next |-> o.when] \in Job
    BY <2>1 DEF Job
  <2>3. QED
    BY <1>1, <2>1, <2>2 DEF Apply, Submitted, Store
<1>2. CASE o.type = "remove"
  BY <1>0, <1>2, Zenon DEF Apply, Removed, Store
<1>3. CASE o.type = "replace"
  <2>1. o.ids \in SUBSET CronIds /\ o.now \in Times
    BY <1>3 DEF Operation
  <2>2. \A j \in JobIds : [status |-> "on", last |-> 0,
                           next |-> computeNext(j, o.now, o.now)] \in Job
    BY <2>1, ComputeNextLater, Zenon DEF Job
  <2>3. QED
    BY <1>0, <1>3, <2>1, <2>2 DEF Apply, CronReplaced, Store, CronIds
<1>4. CASE o.type = "uncron"
  BY <1>0, <1>4 DEF Apply, CronRemoved, Store
<1>5. CASE o.type = "tick"
  <2>1. o.now \in Times
    BY <1>5 DEF Operation
  <2>2. \A j \in JobIds : ClaimedJob(j, s.jobs[j], o.now) \in Job
    BY <1>0, <2>1, ClaimedJobType, Zenon
  <2>3. QED
    BY <1>0, <1>5, <2>2, Zenon DEF Apply, Claimed, Store
<1>6. QED
  BY <1>1, <1>2, <1>3, <1>4, <1>5 DEF Operation

(* What a transaction selects to fire are occurrences of jobs.             *)
LEMMA OccurrencesType ==
  ASSUME NEW o, NEW s \in Store
  PROVE  Occurrences(o, s) \subseteq JobIds \X Nat
BY DEF Occurrences, Due, Store, Job

(* A tick only claims occurrences of jobs that are in the store.           *)
LEMMA OccurrencesPresent ==
  ASSUME NEW o, NEW s, NEW c \in Occurrences(o, s)
  PROVE  Present(s, c[1])
BY DEF Occurrences, Due, Present

(* The jobs an operation names as new are jobs.                            *)
LEMMA NewIdsType ==
  ASSUME NEW o \in Operation
  PROVE  NewIds(o) \subseteq JobIds
<1>1. CASE o.type = "submit"
  BY <1>1 DEF NewIds, Operation, AtIds
<1>2. CASE o.type = "replace"
  BY <1>2 DEF NewIds, Operation, CronIds
<1>3. CASE o.type \notin {"submit", "replace"}
  BY <1>3, Zenon DEF NewIds
<1>4. QED
  BY <1>1, <1>2, <1>3

(* Only the IDs an operation names as new can enter the store.             *)
LEMMA ApplyPresent ==
  ASSUME NEW o \in Operation, NEW s \in Store, NEW j \in JobIds,
         Present(Apply(o, s), j)
  PROVE  Present(s, j) \/ j \in NewIds(o)
<1>0. s.jobs \in [JobIds -> Job]
  BY DEF Store
<1>1. CASE o.type = "submit"
  BY <1>0, <1>1, Zenon DEF Apply, Submitted, Present, NewIds, Store
<1>2. CASE o.type = "remove"
  BY <1>0, <1>2, Zenon DEF Apply, Removed, Present, NoJob, Store
<1>3. CASE o.type = "replace"
  BY <1>0, <1>3, Zenon DEF Apply, CronReplaced, Present, NoJob, NewIds
<1>4. CASE o.type = "uncron"
  BY <1>0, <1>4 DEF Apply, CronRemoved, Present, NoJob
<1>5. CASE o.type = "tick"
  <2>1. CASE j \in Due(s, o.now, o.load)
    BY <2>1, Zenon DEF Due, Present
  <2>2. CASE j \notin Due(s, o.now, o.load)
    BY <1>0, <1>5, <2>2, Zenon DEF Apply, Claimed, Present, Store
  <2>3. QED
    BY <2>1, <2>2, Zenon
<1>6. QED
  BY <1>1, <1>2, <1>3, <1>4, <1>5, Zenon DEF Operation

(* A tick selects nothing that is ruled out.                               *)
LEMMA RuledOutNotSelected ==
  ASSUME NEW o, NEW s \in Store, NEW j \in JobIds, NEW t \in Nat,
         RuledOut(s, j, t)
  PROVE  <<j, t>> \notin Occurrences(o, s)
BY DEF Occurrences, Due, RuledOut, Store, Job

(* What a tick selects is ruled out in the store it leaves: disabled if    *)
(* one-shot, else moved past the tick's own time.                          *)
LEMMA SelectedIsRuledOut ==
  ASSUME NEW o \in Operation, NEW s \in Store, NEW j \in JobIds, NEW t \in Nat,
         <<j, t>> \in Occurrences(o, s)
  PROVE  RuledOut(Apply(o, s), j, t)
<1>0. s.jobs[j] \in Job
  BY Zenon DEF Store
<1>1. o.type = "tick" /\ o.now \in Times /\ o.now \in Nat
  BY StoreAssumption DEF Occurrences, Operation, Times
<1>2. j \in Due(s, o.now, o.load) /\ t = s.jobs[j].next
  BY <1>1, Zenon DEF Occurrences
<1>3. t <= o.now
  BY <1>2, Zenon DEF Due
<1>4. Apply(o, s).jobs[j] = ClaimedJob(j, s.jobs[j], o.now)
  BY <1>1, <1>2, Zenon DEF Apply, Claimed, Store
<1>5. CASE Kind[j] = "at"
  BY <1>0, <1>4, <1>5, Zenon DEF ClaimedJob, RuledOut, Job
<1>6. CASE Kind[j] # "at"
  <2>1. Apply(o, s).jobs[j].next = computeNext(j, o.now, o.now)
    BY <1>0, <1>4, <1>6, Zenon DEF ClaimedJob, Job
  <2>2. QED
    BY <1>1, <1>3, <2>1, ComputeNextLater DEF RuledOut
<1>7. QED
  BY <1>5, <1>6

(* No transaction takes a claim back, unless it brings in a new job under  *)
(* the claim's ID.                                                         *)
LEMMA RuledOutStays ==
  ASSUME NEW o \in Operation, NEW s \in Store, NEW j \in JobIds, NEW t \in Nat,
         RuledOut(s, j, t), j \notin NewIds(o)
  PROVE  RuledOut(Apply(o, s), j, t)
<1>0. s.jobs \in [JobIds -> Job] /\ s.jobs[j] \in Job
  BY Zenon DEF Store
<1>1. CASE o.type = "submit"
  BY <1>0, <1>1, Zenon DEF Apply, Submitted, RuledOut, NewIds, Store
<1>2. CASE o.type = "remove"
  BY <1>0, <1>2, Zenon DEF Apply, Removed, RuledOut, NoJob, Store
<1>3. CASE o.type = "replace"
  BY <1>0, <1>3, Zenon DEF Apply, CronReplaced, RuledOut, NoJob, NewIds
<1>4. CASE o.type = "uncron"
  BY <1>0, <1>4, Zenon DEF Apply, CronRemoved, RuledOut, NoJob
<1>5. CASE o.type = "tick"
  <2>1. CASE j \in Due(s, o.now, o.load)
    <3>1. <<j, s.jobs[j].next>> \in Occurrences(o, s) /\ s.jobs[j].next \in Nat
      BY <1>0, <1>5, <2>1, Zenon DEF Occurrences, Job
    <3>2. RuledOut(Apply(o, s), j, s.jobs[j].next)
      BY <3>1, SelectedIsRuledOut, Zenon
    <3>3. s.jobs[j].next > t
      BY <2>1, Zenon DEF Due, RuledOut
    <3>4. Apply(o, s).jobs[j].next \in Nat
      BY ApplyType DEF Store, Job
    <3>5. QED
      BY <3>1, <3>2, <3>3, <3>4 DEF RuledOut
  <2>2. CASE j \notin Due(s, o.now, o.load)
    BY <1>0, <1>5, <2>2, Zenon DEF Apply, Claimed, RuledOut, Store
  <2>3. QED
    BY <2>1, <2>2, Zenon
<1>6. QED
  BY <1>1, <1>2, <1>3, <1>4, <1>5, Zenon DEF Operation

----------------------------------------------------------------------------

\* A process between reading its arguments and the end of its transaction.
Pending(p) == pc[p] \in {"acquire", "load", "save", "confirm", "rollback"}

OpInv == \A p \in Procs :
  /\ Pending(p) => op[p] \in Operation
  /\ pc[p] \in {"confirm", "rollback"} => op[p].type = "submit"
  /\ Pending(p) /\ op[p].type = "tick" => op[p].now <= now

TypeInv == TypeOK /\ OpInv

----------------------------------------------------------------------------
(* A new operation is well formed, brings in only IDs never handed out and *)
(* carries no clock reading from the future.                               *)
LEMMA BeginCases ==
  ASSUME TypeOK, NEW p \in Procs, Command(p) \/ Tick(p)
  PROVE  \E o \in Operation : /\ Begin(p, o)
                              /\ NewIds(o) \cap used = {}
                              /\ o.type = "tick" => o.now <= now
<1>0. now \in Times /\ now \in Nat /\ used \subseteq JobIds /\ MaxTime \in Nat
  BY StoreAssumption DEF TypeOK, Times
<1>1. CASE Submit(p)
  <2>1. PICK j \in AtIds \ used, when \in now .. MaxTime :
          Begin(p, [type |-> "submit", job |-> j, when |-> when])
    BY <1>1, Zenon DEF Submit
  <2>2. [type |-> "submit", job |-> j, when |-> when] \in Operation
    BY <1>0, <2>1 DEF Operation, Times
  <2>3. QED
    BY <2>1, <2>2, Zenon DEF NewIds
<1>1b. CASE SubmitBatch(p)
  <2>1. PICK j \in BatchJobs \ used : Begin(p, [type |-> "submit", job |-> j, when |-> now])
    BY <1>1b, Zenon DEF SubmitBatch
  <2>2. [type |-> "submit", job |-> j, when |-> now] \in Operation
    BY <1>0, <2>1, StoreAssumption, Zenon DEF Operation, AtIds
  <2>3. QED
    BY <2>1, <2>2, Zenon DEF NewIds
<1>2. CASE RemoveJobs(p)
  <2>1. PICK ids \in (SUBSET used) \ {{}}, uid \in Users :
          Begin(p, [type |-> "remove", ids |-> ids, uid |-> uid])
    BY <1>2, Zenon DEF RemoveJobs
  <2>2. [type |-> "remove", ids |-> ids, uid |-> uid] \in Operation
    BY <1>0, <2>1, Zenon DEF Operation
  <2>3. QED
    BY <2>1, <2>2, Zenon DEF NewIds
<1>3. CASE ReplaceCron(p)
  <2>1. PICK ids \in SUBSET (CronIds \ used) :
          Begin(p, [type |-> "replace", ids |-> ids, now |-> now])
    BY <1>3, Zenon DEF ReplaceCron
  <2>2. [type |-> "replace", ids |-> ids, now |-> now] \in Operation
    BY <1>0, <2>1, Zenon DEF Operation
  <2>3. QED
    BY <2>1, <2>2, Zenon DEF NewIds
<1>4. CASE RemoveCron(p)
  <2>1. [type |-> "uncron"] \in Operation
    BY Zenon DEF Operation
  <2>2. QED
    BY <1>4, <2>1, Zenon DEF RemoveCron, NewIds
<1>5. CASE Tick(p)
  <2>1. [type |-> "tick", now |-> now, load |-> "unread"] \in Operation
    BY <1>0, Zenon DEF Operation, Loads
  <2>2. QED
    BY <1>0, <1>5, <2>1 DEF Tick, NewIds
<1>6. QED
  BY <1>1, <1>1b, <1>2, <1>3, <1>4, <1>5, Zenon DEF Command

(* Filling in the load reading changes nothing else of an operation.       *)
LEMMA WithLoadFacts ==
  ASSUME NEW o \in Operation, NEW l \in Loads
  PROVE  /\ WithLoad(o, l) \in Operation
         /\ WithLoad(o, l).type = o.type
         /\ o.type = "tick" => WithLoad(o, l).now = o.now
         /\ NewIds(WithLoad(o, l)) = NewIds(o)
<1>1. CASE o.type = "tick"
  BY <1>1 DEF WithLoad, Operation, NewIds
<1>2. CASE o.type # "tick"
  BY <1>2 DEF WithLoad
<1>3. QED
  BY <1>1, <1>2, Zenon

(* The load a transaction reads is one of the provider's answers.          *)
LEMMA LoadReadingsType ==
  ASSUME NEW p
  PROVE  LoadReadings(p) \subseteq Loads
BY DEF LoadReadings, Loads

(* The initial store and processes are well typed.                         *)
LEMMA TypeInit == Init => TypeInv
<1> SUFFICES ASSUME Init PROVE TypeInv
  OBVIOUS
<1>1. NoStore \in Store
  BY EmptyStoreType, Zenon DEF NoStore
<1>2. file \in Store /\ used \subseteq JobIds
  BY EmptyStoreType, Zenon DEF Init
<1>3. TypeOK
  BY <1>1, <1>2, StoreAssumption
     DEF Init, TypeOK, Times, PcStates, Outcomes, StoreLock!Init, DaemonLock!Init
<1>4. OpInv
  BY Zenon DEF Init, OpInv, Pending
<1>5. QED
  BY <1>3, <1>4 DEF TypeInv

(* Every step leaves every variable well typed.                            *)
LEMMA TypeStep == TypeInv /\ [Next]_vars => TypeInv'
<1> SUFFICES ASSUME TypeInv, [Next]_vars PROVE TypeInv'
  BY Zenon
<1>0. /\ TypeOK /\ OpInv
      /\ NoStore \in Store
      /\ Times \subseteq Nat
  BY EmptyStoreType, StoreAssumption DEF TypeInv, NoStore, Times
<1>1. CASE Advance
  <2>1. \A o \in Operation : o.type = "tick" => o.now \in Nat
    BY <1>0, Zenon DEF Operation
  <2>2. now \in Nat /\ now' = now + 1 /\ now' \in Times
    BY <1>0, <1>1, StoreAssumption DEF TypeOK, Advance, Times
  <2>3. QED
    BY <1>0, <1>1, <2>1, <2>2 DEF TypeInv, TypeOK, OpInv, Pending, Advance
<1>2. ASSUME NEW p \in Procs, Command(p) \/ Tick(p) PROVE TypeInv'
  <2>1. PICK o \in Operation : Begin(p, o) /\ (o.type = "tick" => o.now <= now)
    BY <1>0, <1>2, BeginCases, Zenon
  <2>2. NewIds(o) \subseteq JobIds
    BY NewIdsType, Zenon
  <2>3. QED
    BY <1>0, <2>1, <2>2, Zenon DEF TypeInv, TypeOK, OpInv, Pending, PcStates, Begin, Goto
<1>3. ASSUME NEW p \in Procs, StartDaemon(p) \/ StopDaemon(p) PROVE TypeInv'
  BY <1>0, <1>3, Zenon DEF TypeInv, TypeOK, OpInv, Pending, StartDaemon, StopDaemon,
                    DaemonLock!Acquire, DaemonLock!Release
<1>4. ASSUME NEW p \in Procs, Acquire(p) PROVE TypeInv'
  BY <1>4, <1>0, Zenon
     DEF TypeInv, PcStates, TypeOK, OpInv, Pending, Acquire, Goto, StoreLock!Acquire
<1>5. ASSUME NEW p \in Procs, AcquireFails(p) PROVE TypeInv'
  BY <1>5, <1>0, Zenon
     DEF TypeInv, PcStates, TypeOK, OpInv, Pending, AcquireFails, Goto, Return, Forget, Tell,
         Outcomes
<1>6. ASSUME NEW p \in Procs, Load(p) PROVE TypeInv'
  <2>1. PICK l \in LoadReadings(p) :
          LET o == WithLoad(op[p], l) IN
          /\ op' = [op EXCEPT ![p] = o]
          /\ snap' = [snap EXCEPT ![p] = Apply(o, file)]
          /\ due' = [due EXCEPT ![p] = Occurrences(o, file)]
    BY <1>6, Zenon DEF Load
  <2> DEFINE o == WithLoad(op[p], l)
  <2>2. op[p] \in Operation /\ file \in Store /\ l \in Loads
    BY <1>0, <1>6, LoadReadingsType, Zenon DEF Load, TypeOK, OpInv, Pending
  <2>3. /\ o \in Operation /\ o.type = op[p].type
        /\ op[p].type = "tick" => o.now = op[p].now
    BY <2>2, WithLoadFacts, Zenon
  <2>4. Apply(o, file) \in Store /\ Occurrences(o, file) \subseteq JobIds \X Nat
    BY <2>2, <2>3, ApplyType, OccurrencesType, Zenon
  <2> HIDE DEF o
  <2>5. TypeOK'
    BY <1>0, <1>6, <2>1, <2>3, <2>4, Zenon DEF TypeOK, Load, Goto, PcStates, Occurrence, o
  <2>6. OpInv'
    BY <1>0, <1>6, <2>1, <2>3 DEF TypeOK, OpInv, Pending, Load, Goto, o
  <2>7. QED
    BY <2>5, <2>6 DEF TypeInv
<1>7. ASSUME NEW p \in Procs, Fails(p) PROVE TypeInv'
  BY <1>7, <1>0, Zenon
     DEF TypeInv, PcStates, TypeOK, OpInv, Pending, Fails, Goto, Return, Forget, Tell, Outcomes,
         StoreLock!Release
<1>8. ASSUME NEW p \in Procs, Save(p) PROVE TypeInv'
  BY <1>8, <1>0, Zenon DEF TypeInv, PcStates, TypeOK, OpInv, Pending, Save, Goto, Outcomes
<1>9. ASSUME NEW p \in Procs, Confirm(p) PROVE TypeInv'
  BY <1>9, <1>0, Zenon
     DEF TypeInv, PcStates, TypeOK, OpInv, Pending, Confirm, Goto, Tell, Outcomes
<1>10. ASSUME NEW p \in Procs, ConfirmFails(p) PROVE TypeInv'
  BY <1>10, <1>0, Zenon DEF TypeInv, PcStates, TypeOK, OpInv, Pending, ConfirmFails, Goto
<1>11. ASSUME NEW p \in Procs, Rollback(p) PROVE TypeInv'
  BY <1>11, <1>0 DEF TypeInv, PcStates, TypeOK, OpInv, Pending, Rollback, Goto, Tell, Outcomes
<1>12. ASSUME NEW p \in Procs, Unlock(p) PROVE TypeInv'
  BY <1>12, <1>0, Zenon
     DEF TypeInv, PcStates, TypeOK, OpInv, Pending, Unlock, Goto, Forget, StoreLock!Release
<1>13. ASSUME NEW p \in Procs, Fire(p) PROVE TypeInv'
  <2>1. /\ due' \in [Procs -> SUBSET Occurrence] /\ started' \subseteq Occurrence
        /\ pc' \in [Procs -> PcStates]
    BY <1>13, <1>0, ZenonT(30) DEF TypeInv, TypeOK, PcStates, Fire, FireJob, Goto
  <2>2. \A q \in Procs : Pending(q)' => Pending(q)
    BY <1>13, <1>0, Zenon DEF TypeInv, TypeOK, Pending, Fire, FireJob, Goto
  <2>3. \A q \in Procs : pc'[q] \in {"confirm", "rollback"} => pc[q] \in {"confirm", "rollback"}
    BY <1>13, <1>0, Zenon DEF TypeInv, TypeOK, Fire, FireJob, Goto
  <2>4. QED
    BY <1>13, <1>0, <2>1, <2>2, <2>3, Zenon DEF TypeInv, TypeOK, OpInv, Fire
<1>17. ASSUME NEW p \in Procs, Ended(p) PROVE TypeInv'
  BY <1>17, <1>0, Zenon DEF TypeInv, PcStates, TypeOK, OpInv, Pending, Ended, Goto
<1>14. ASSUME NEW p \in Procs, Done(p) PROVE TypeInv'
  BY <1>14, <1>0, Zenon
     DEF TypeInv, PcStates, TypeOK, OpInv, Pending, Done, Goto, Return, Forget
<1>15. ASSUME NEW p \in Procs, Crash(p) PROVE TypeInv'
  BY <1>15, <1>0, Zenon
     DEF TypeInv, PcStates, TypeOK, OpInv, Pending, Crash, Goto, Return, Forget
<1>16. CASE UNCHANGED vars
  BY <1>0, <1>16 DEF TypeInv, TypeOK, OpInv, Pending, vars
<1>18. QED
  BY <1>1, <1>2, <1>3, <1>4, <1>5, <1>6, <1>7, <1>8, <1>9, <1>10, <1>11,
     <1>12, <1>13, <1>14, <1>15, <1>16, <1>17, Zenon DEF Next, Transact

(* Type correctness of the shared file, the locks and every process's      *)
(* copies of the store, for every instance.                                *)
THEOREM TypeCorrect == Spec => []TypeOK
<1>1. TypeInv => TypeOK
  BY DEF TypeInv
<1>2. QED
  BY <1>1, TypeInit, TypeStep, PTL DEF Spec

----------------------------------------------------------------------------
(* The inductive invariant.                                                *)

LockInv == \A p \in Procs : InTransaction(p) => lock = p

DueInv == \A p \in Procs :
  /\ pc[p] = "save" => due[p] = Occurrences(op[p], file)
  /\ pc[p] \in {"idle", "acquire", "load", "confirm", "rollback"} => due[p] = {}

NeverClaimed(j) == \A c \in claimed : c[1] # j

\* The IDs of an operation under way belong to it alone and are new.
FreshInv ==
  /\ \A j \in JobIds : Present(file, j) => j \in used
  /\ \A c \in claimed : c[1] \in used
  /\ \A p \in Procs : Pending(p) => \A j \in NewIds(op[p]) :
       /\ j \in used
       /\ NeverClaimed(j)
       /\ ~Present(IF pc[p] \in {"confirm", "rollback"} THEN prior[p] ELSE file, j)
  /\ \A p, q \in Procs :
       p # q /\ Pending(p) /\ Pending(q) => NewIds(op[p]) \cap NewIds(op[q]) = {}

StartInv == started \subseteq claimed /\ StartedAtMostOnce

Inv == /\ TypeInv /\ LockInv /\ NoStaleSnapshot /\ DueInv
       /\ FreshInv /\ ClaimIsDurable /\ StartInv

(* With nobody in a transaction there is nothing to violate.               *)
LEMMA InvInit == Init => Inv
<1> SUFFICES ASSUME Init PROVE Inv
  OBVIOUS
<1>1. TypeInv
  BY TypeInit, Zenon
<1>2. LockInv /\ NoStaleSnapshot /\ DueInv /\ ClaimIsDurable /\ StartInv
  BY Zenon DEF Init, LockInv, NoStaleSnapshot, DueInv, ClaimIsDurable, StartInv,
         StartedAtMostOnce, InTransaction, Claiming
<1>3. \A j \in JobIds : Present(file, j) => j \in used
  BY DEF Init, EmptyStore, Present, NoJob
<1>4. FreshInv
  BY <1>3, Zenon DEF Init, FreshInv, Pending
<1>5. QED
  BY <1>1, <1>2, <1>4, Zenon DEF Inv

(* The steps that leave the file and the claims alone and give no process  *)
(* a new operation or a new copy of the store.                             *)
LEMMA InvQuiet ==
  ASSUME Inv, NEW p \in Procs,
         \/ Acquire(p) \/ AcquireFails(p) \/ Fails(p) \/ Confirm(p)
         \/ ConfirmFails(p) \/ Unlock(p) \/ Fire(p) \/ Ended(p) \/ Done(p) \/ Crash(p)
  PROVE  LockInv' /\ NoStaleSnapshot' /\ DueInv' /\ FreshInv'
         /\ ClaimIsDurable' /\ StartInv'
<1>0. TypeOK /\ OpInv /\ LockInv /\ NoStaleSnapshot /\ DueInv /\ FreshInv /\ ClaimIsDurable /\ StartInv
  BY Zenon DEF Inv, TypeInv
<1>1. CASE AcquireFails(p)
  <2>1. LockInv'
    BY <1>0, <1>1, ProcAssumption, Zenon
       DEF TypeOK, LockInv, InTransaction, AcquireFails, Goto, Return, Forget
  <2>2. NoStaleSnapshot'
    BY <1>0, <1>1, Zenon DEF TypeOK, NoStaleSnapshot, AcquireFails, Goto, Return, Forget
  <2>3. DueInv'
    BY <1>0, <1>1, Zenon DEF TypeOK, DueInv, AcquireFails, Goto, Return, Forget
  <2>4. FreshInv'
    BY <1>0, <1>1, Zenon
       DEF TypeOK, FreshInv, NeverClaimed, Pending, AcquireFails, Goto, Return, Forget
  <2>5. ClaimIsDurable'
    BY <1>0, <1>1, Zenon DEF ClaimIsDurable, AcquireFails
  <2>6. StartInv'
    BY <1>0, <1>1, Zenon
       DEF TypeOK, StartInv, StartedAtMostOnce, Claiming, DueInv, AcquireFails, Goto,
       Return,
           Forget
  <2>7. QED
    BY <2>1, <2>2, <2>3, <2>4, <2>5, <2>6, Zenon
<1>2. CASE Fails(p)
  <2>1. LockInv'
    BY <1>0, <1>2, ProcAssumption, Zenon
       DEF TypeOK, LockInv, InTransaction, Fails, Goto, Return, Forget, StoreLock!Release
  <2>2. NoStaleSnapshot'
    BY <1>0, <1>2, Zenon
       DEF TypeOK, NoStaleSnapshot, Fails, Goto, Return, Forget, StoreLock!Release
  <2>3. DueInv'
    BY <1>0, <1>2, Zenon DEF TypeOK, DueInv, Fails, Goto, Return, Forget, StoreLock!Release
  <2>4. FreshInv'
    BY <1>0, <1>2, Zenon
       DEF TypeOK, FreshInv, NeverClaimed, Pending, Fails, Goto, Return, Forget,
           StoreLock!Release
  <2>5. ClaimIsDurable'
    BY <1>0, <1>2, Zenon DEF ClaimIsDurable, Fails
  <2>6. StartInv'
    BY <1>0, <1>2, Zenon
       DEF TypeOK, StartInv, StartedAtMostOnce, Claiming, DueInv, Fails, Goto, Return,
       Forget,
           StoreLock!Release
  <2>7. QED
    BY <2>1, <2>2, <2>3, <2>4, <2>5, <2>6
<1>3. CASE Confirm(p)
  <2>1. LockInv'
    BY <1>0, <1>3, ProcAssumption, Zenon DEF TypeOK, LockInv, InTransaction, Confirm, Goto
  <2>2. NoStaleSnapshot'
    BY <1>0, <1>3, Zenon DEF TypeOK, NoStaleSnapshot, Confirm, Goto
  <2>3. DueInv'
    BY <1>0, <1>3, Zenon DEF TypeOK, DueInv, Confirm, Goto
  <2>4. FreshInv'
    BY <1>0, <1>3, Zenon DEF TypeOK, FreshInv, NeverClaimed, Pending, Confirm, Goto
  <2>5. ClaimIsDurable'
    BY <1>0, <1>3, Zenon DEF ClaimIsDurable, Confirm
  <2>6. StartInv'
    BY <1>0, <1>3, Zenon
       DEF TypeOK, StartInv, StartedAtMostOnce, Claiming, DueInv, Confirm, Goto
  <2>7. QED
    BY <2>1, <2>2, <2>3, <2>4, <2>5, <2>6
<1>4. CASE ConfirmFails(p)
  <2>1. LockInv'
    BY <1>0, <1>4, ProcAssumption, Zenon DEF TypeOK, LockInv, InTransaction, ConfirmFails, Goto
  <2>2. NoStaleSnapshot'
    BY <1>0, <1>4, Zenon DEF TypeOK, NoStaleSnapshot, ConfirmFails, Goto
  <2>3. DueInv'
    BY <1>0, <1>4, Zenon DEF TypeOK, DueInv, ConfirmFails, Goto
  <2>4. FreshInv'
    BY <1>0, <1>4, Zenon DEF TypeOK, FreshInv, NeverClaimed, Pending, ConfirmFails, Goto
  <2>5. ClaimIsDurable'
    BY <1>0, <1>4, Zenon DEF ClaimIsDurable, ConfirmFails
  <2>6. StartInv'
    BY <1>0, <1>4, Zenon
       DEF TypeOK, StartInv, StartedAtMostOnce, Claiming, DueInv, ConfirmFails, Goto
  <2>7. QED
    BY <2>1, <2>2, <2>3, <2>4, <2>5, <2>6
<1>5. CASE Unlock(p)
  <2>1. LockInv'
    BY <1>0, <1>5, ProcAssumption, Zenon
       DEF TypeOK, LockInv, InTransaction, Unlock, Goto, Forget, StoreLock!Release
  <2>2. NoStaleSnapshot'
    BY <1>0, <1>5, Zenon DEF TypeOK, NoStaleSnapshot, Unlock, Goto, Forget, StoreLock!Release
  <2>3. DueInv'
    BY <1>0, <1>5, Zenon DEF TypeOK, DueInv, Unlock, Goto, Forget, StoreLock!Release
  <2>4. FreshInv'
    BY <1>0, <1>5
       DEF TypeOK, FreshInv, NeverClaimed, Pending, Unlock, Goto, Forget, StoreLock!Release
  <2>5. ClaimIsDurable'
    BY <1>0, <1>5, Zenon DEF ClaimIsDurable, Unlock
  <2>6. StartInv'
    BY <1>0, <1>5, Zenon
       DEF TypeOK, StartInv, StartedAtMostOnce, Claiming, DueInv, Unlock, Goto, Forget,
           StoreLock!Release
  <2>7. QED
    BY <2>1, <2>2, <2>3, <2>4, <2>5, <2>6
<1>6. CASE Fire(p)
  <2>0. /\ \A q \in Procs \ {p} : pc'[q] = pc[q] /\ due'[q] = due[q]
        /\ pc[p] = "fire" /\ pc'[p] \in {"fire", "run"}
        /\ UNCHANGED <<file, lock, op, snap, prior, used, claimed>>
    BY <1>0, <1>6, Zenon DEF TypeOK, Fire, FireJob, Goto
  <2>1. LockInv'
    BY <1>0, <2>0, Zenon DEF LockInv, InTransaction
  <2>2. NoStaleSnapshot'
    BY <1>0, <2>0, Zenon DEF NoStaleSnapshot
  <2>3. DueInv'
    BY <1>0, <2>0, Zenon DEF DueInv
  <2>4. FreshInv'
    BY <1>0, <2>0, Zenon DEF FreshInv, NeverClaimed, Pending
  <2>5. ClaimIsDurable'
    BY <1>0, <2>0, Zenon DEF ClaimIsDurable
  <2>6. StartInv'
    <3>1. PICK x \in due[p] : /\ due'[p] = due[p] \ {x}
                             /\ started' \in {started, started \cup {x}}
      BY <1>0, <1>6, Zenon DEF TypeOK, Fire, FireJob
    <3>2. Claiming(p) /\ \A q \in Procs : Claiming(q)' <=> Claiming(q)
      BY <2>0, Zenon DEF Claiming
    <3>3. started' \subseteq claimed'
      BY <1>0, <2>0, <3>1, <3>2, Zenon DEF StartInv, StartedAtMostOnce
    <3>4. ASSUME NEW q \in Procs, Claiming(q)
          PROVE  due'[q] \subseteq due[q] /\ x \notin due'[q]
      BY <1>0, <2>0, <3>1, <3>2, <3>4, Zenon DEF StartInv, StartedAtMostOnce
    <3>5. ASSUME NEW q \in Procs, Claiming(q)
          PROVE  due'[q] \subseteq claimed' \ started'
      <4>1. due[q] \subseteq claimed \ started
        BY <1>0, <3>5, Zenon DEF StartInv, StartedAtMostOnce
      <4>2. QED
        BY <2>0, <3>1, <3>4, <3>5, <4>1, Zenon
    <3>6. ASSUME NEW q \in Procs, NEW r \in Procs \ {q}, Claiming(q), Claiming(r)
          PROVE  due'[q] \cap due'[r] = {}
      <4>1. due[q] \cap due[r] = {}
        BY <1>0, <3>6, Zenon DEF StartInv, StartedAtMostOnce
      <4>2. QED
        BY <3>4, <3>6, <4>1, Zenon
    <3>7. StartedAtMostOnce'
      BY <3>2, <3>5, <3>6, Zenon DEF StartedAtMostOnce
    <3>8. QED
      BY <3>3, <3>7, Zenon DEF StartInv
  <2>7. QED
    BY <2>1, <2>2, <2>3, <2>4, <2>5, <2>6, Zenon
<1>11. CASE Ended(p)
  <2>0. /\ \A q \in Procs \ {p} : pc'[q] = pc[q]
        /\ pc[p] = "run" /\ pc'[p] = "fire"
        /\ UNCHANGED <<file, lock, op, snap, prior, due, used, claimed, started>>
    BY <1>0, <1>11, Zenon DEF TypeOK, Ended, Goto
  <2>1. LockInv'
    BY <1>0, <2>0, Zenon DEF LockInv, InTransaction
  <2>2. NoStaleSnapshot'
    BY <1>0, <2>0, Zenon DEF NoStaleSnapshot
  <2>3. DueInv'
    BY <1>0, <2>0, Zenon DEF DueInv
  <2>4. FreshInv'
    BY <1>0, <2>0, Zenon DEF FreshInv, NeverClaimed, Pending
  <2>5. ClaimIsDurable'
    BY <1>0, <2>0, Zenon DEF ClaimIsDurable
  <2>6. StartInv'
    BY <1>0, <2>0, Zenon DEF StartInv, StartedAtMostOnce, Claiming
  <2>7. QED
    BY <2>1, <2>2, <2>3, <2>4, <2>5, <2>6, Zenon
<1>7. CASE Done(p)
  <2>1. LockInv'
    BY <1>0, <1>7, ProcAssumption, Zenon
       DEF TypeOK, LockInv, InTransaction, Done, Goto, Return, Forget
  <2>2. NoStaleSnapshot'
    BY <1>0, <1>7, Zenon DEF TypeOK, NoStaleSnapshot, Done, Goto, Return, Forget
  <2>3. DueInv'
    BY <1>0, <1>7, Zenon DEF TypeOK, DueInv, Done, Goto, Return, Forget
  <2>4. FreshInv'
    BY <1>0, <1>7, Zenon DEF TypeOK, FreshInv, NeverClaimed, Pending, Done, Goto, Return, Forget
  <2>5. ClaimIsDurable'
    BY <1>0, <1>7, Zenon DEF ClaimIsDurable, Done
  <2>6. StartInv'
    BY <1>0, <1>7, Zenon
       DEF TypeOK, StartInv, StartedAtMostOnce, Claiming, DueInv, Done, Goto, Return, Forget
  <2>7. QED
    BY <2>1, <2>2, <2>3, <2>4, <2>5, <2>6
<1>8. CASE Crash(p)
  <2>1. LockInv'
    BY <1>0, <1>8, ProcAssumption, Zenon
       DEF TypeOK, LockInv, InTransaction, Crash, Goto, Return, Forget
  <2>2. NoStaleSnapshot'
    BY <1>0, <1>8, Zenon DEF TypeOK, NoStaleSnapshot, Crash, Goto, Return, Forget
  <2>3. DueInv'
    BY <1>0, <1>8, Zenon DEF TypeOK, DueInv, Crash, Goto, Return, Forget
  <2>4. FreshInv'
    BY <1>0, <1>8 DEF TypeOK, FreshInv, NeverClaimed, Pending, Crash, Goto, Return, Forget
  <2>5. ClaimIsDurable'
    BY <1>0, <1>8, Zenon DEF ClaimIsDurable, Crash
  <2>6. StartInv'
    BY <1>0, <1>8
       DEF TypeOK, StartInv, StartedAtMostOnce, Claiming, DueInv, Crash, Goto, Return, Forget
  <2>7. QED
    BY <2>1, <2>2, <2>3, <2>4, <2>5, <2>6
<1>9. CASE Acquire(p)
  <2>1. LockInv'
    BY <1>0, <1>9, ProcAssumption, Zenon
       DEF TypeOK, LockInv, InTransaction, Acquire, Goto, StoreLock!Acquire
  <2>2. NoStaleSnapshot'
    BY <1>0, <1>9, Zenon DEF TypeOK, NoStaleSnapshot, Acquire, Goto, StoreLock!Acquire
  <2>3. DueInv'
    BY <1>0, <1>9, Zenon DEF TypeOK, DueInv, Acquire, Goto, StoreLock!Acquire
  <2>4. FreshInv'
    BY <1>0, <1>9, Zenon
       DEF TypeOK, FreshInv, NeverClaimed, Pending, Acquire, Goto, StoreLock!Acquire
  <2>5. ClaimIsDurable'
    BY <1>0, <1>9, Zenon DEF ClaimIsDurable, Acquire
  <2>6. StartInv'
    BY <1>0, <1>9, Zenon
       DEF TypeOK, StartInv, StartedAtMostOnce, Claiming, DueInv, Acquire, Goto,
           StoreLock!Acquire
  <2>7. QED
    BY <2>1, <2>2, <2>3, <2>4, <2>5, <2>6
<1>10. QED
  BY <1>1, <1>2, <1>3, <1>4, <1>5, <1>6, <1>7, <1>8, <1>9, <1>11, Zenon

(* A new operation: its IDs are new to the store, to every claim and to    *)
(* every other operation under way.                                        *)
LEMMA InvBegin ==
  ASSUME Inv, NEW p \in Procs, Command(p) \/ Tick(p)
  PROVE  LockInv' /\ NoStaleSnapshot' /\ DueInv' /\ FreshInv'
         /\ ClaimIsDurable' /\ StartInv'
<1>0. TypeOK /\ OpInv /\ LockInv /\ NoStaleSnapshot /\ DueInv /\ FreshInv /\ ClaimIsDurable /\ StartInv
  BY Zenon DEF Inv, TypeInv
<1>1. PICK o \in Operation : Begin(p, o) /\ NewIds(o) \cap used = {}
  BY <1>0, BeginCases, Zenon
<1>2. NewIds(o) \subseteq JobIds
  BY NewIdsType, Zenon
<1>3. LockInv' /\ NoStaleSnapshot' /\ DueInv' /\ ClaimIsDurable'
  BY <1>0, <1>1, Zenon DEF TypeOK, LockInv, InTransaction, NoStaleSnapshot, DueInv,
                    ClaimIsDurable, Begin, Goto
<1>4. FreshInv'
  BY <1>0, <1>1, <1>2 DEF TypeOK, FreshInv, NeverClaimed, Pending, Begin, Goto
<1>5. StartInv'
  BY <1>0, <1>1, Zenon DEF TypeOK, StartInv, StartedAtMostOnce, Claiming, Begin, Goto
<1>6. QED
  BY <1>3, <1>4, <1>5, Zenon

(* Load: the copy is fresh because the lock keeps every other writer out.  *)
LEMMA InvLoad ==
  ASSUME Inv, NEW p \in Procs, Load(p)
  PROVE  LockInv' /\ NoStaleSnapshot' /\ DueInv' /\ FreshInv'
         /\ ClaimIsDurable' /\ StartInv'
<1>0. TypeOK /\ OpInv /\ LockInv /\ NoStaleSnapshot /\ DueInv /\ FreshInv /\ ClaimIsDurable /\ StartInv
  BY DEF Inv, TypeInv
<1>1. PICK l \in LoadReadings(p) :
        LET o == WithLoad(op[p], l) IN
        /\ op' = [op EXCEPT ![p] = o]
        /\ snap' = [snap EXCEPT ![p] = Apply(o, file)]
        /\ due' = [due EXCEPT ![p] = Occurrences(o, file)]
  BY Zenon DEF Load
<1>2. NewIds(WithLoad(op[p], l)) = NewIds(op[p])
  BY <1>0, LoadReadingsType, WithLoadFacts, Zenon DEF Load, OpInv, Pending
<1>3. LockInv' /\ ClaimIsDurable'
  BY <1>0, Zenon DEF TypeOK, LockInv, InTransaction, ClaimIsDurable, Load, Goto
<1>4. NoStaleSnapshot' /\ DueInv'
  BY <1>0, <1>1, Zenon DEF TypeOK, NoStaleSnapshot, DueInv, Load, Goto
<1>5. FreshInv'
  BY <1>0, <1>1, <1>2, SMTT(30) DEF TypeOK, FreshInv, NeverClaimed, Pending, Load, Goto
<1>6. StartInv'
  BY <1>0, <1>1 DEF TypeOK, StartInv, StartedAtMostOnce, Claiming, Load, Goto
<1>7. QED
  BY <1>3, <1>4, <1>5, <1>6, Zenon

(* Save: the only writer is the lock's holder, so no other copy goes stale; *)
(* what it claims was not claimed before and is ruled out from now on.     *)
LEMMA InvSave ==
  ASSUME Inv, NEW p \in Procs, Save(p)
  PROVE  LockInv' /\ NoStaleSnapshot' /\ DueInv' /\ FreshInv'
         /\ ClaimIsDurable' /\ StartInv'
<1>0. TypeOK /\ OpInv /\ LockInv /\ NoStaleSnapshot /\ DueInv /\ FreshInv /\ ClaimIsDurable /\ StartInv
  BY DEF Inv, TypeInv
<1>1. /\ pc[p] = "save" /\ op[p] \in Operation /\ file \in Store
      /\ file' = Apply(op[p], file) /\ prior[p] = file
      /\ due[p] = Occurrences(op[p], file)
      /\ claimed' = claimed \cup Occurrences(op[p], file)
  BY <1>0, ZenonT(30) DEF Save, TypeOK, OpInv, Pending, NoStaleSnapshot, DueInv
<1>2. \A q \in Procs : q # p => ~InTransaction(q)
  BY <1>0, <1>1, Zenon DEF LockInv, InTransaction
<1>3. \A c \in claimed : c = <<c[1], c[2]>> /\ c[1] \in JobIds /\ c[2] \in Nat
  BY <1>0 DEF TypeOK, Occurrence
<1>4. \A c \in Occurrences(op[p], file) :
        c = <<c[1], c[2]>> /\ c[1] \in JobIds /\ c[2] \in Nat
  BY <1>1, OccurrencesType
<1>5. Occurrences(op[p], file) \cap claimed = {}
  BY <1>0, <1>1, <1>3, RuledOutNotSelected DEF ClaimIsDurable
<1>6. \A c \in Occurrences(op[p], file) : Present(file, c[1])
  BY OccurrencesPresent, Zenon
<1>7. op[p].type = "submit" => Occurrences(op[p], file) = {}
  BY Zenon DEF Occurrences
<1>8. LockInv'
  BY <1>0, <1>1, Zenon DEF TypeOK, LockInv, InTransaction, Save, Goto
<1>9. NoStaleSnapshot'
  BY <1>0, <1>1, <1>2, Zenon DEF TypeOK, NoStaleSnapshot, InTransaction, Save, Goto
<1>10. DueInv'
  BY <1>0, <1>1, <1>2, <1>7, Zenon DEF TypeOK, DueInv, InTransaction, Save, Goto
<1>11. ClaimIsDurable'
  <2>1. \A c \in claimed : c[1] \notin NewIds(op[p])
    BY <1>0, <1>1, Zenon DEF FreshInv, NeverClaimed, Pending
  <2>2. \A c \in claimed : RuledOut(file', c[1], c[2])
    BY <1>0, <1>1, <1>3, <2>1, RuledOutStays, Zenon DEF ClaimIsDurable
  <2>3. \A c \in Occurrences(op[p], file) : RuledOut(file', c[1], c[2])
    BY <1>1, <1>4, SelectedIsRuledOut, ZenonT(30)
  <2>4. QED
    BY <1>1, <2>2, <2>3, Zenon DEF ClaimIsDurable
<1>12. FreshInv'
  <2>1. \A j \in JobIds : Present(file', j) => Present(file, j) \/ j \in NewIds(op[p])
    BY <1>1, ApplyPresent, Zenon
  <2>2. NewIds(op[p]) \subseteq used /\ NewIds(op[p]) \subseteq JobIds
    BY <1>0, <1>1, NewIdsType, Zenon DEF FreshInv, Pending
  <2>3. \A j \in JobIds : Present(file', j) => j \in used'
    BY <1>0, <2>1, <2>2, Zenon DEF FreshInv, Save
  <2>4. \A c \in claimed' : c[1] \in used'
    BY <1>0, <1>1, <1>4, <1>6, Zenon DEF FreshInv, Save
  <2>5. ASSUME NEW q \in Procs, Pending(q)', NEW j \in NewIds(op[q])'
        PROVE  /\ j \in used'
               /\ NeverClaimed(j)'
               /\ ~Present(IF pc[q] \in {"confirm", "rollback"} THEN prior[q] ELSE file, j)'
    <3>1. Pending(q) /\ op'[q] = op[q] /\ prior'[q] = prior[q] /\ used' = used
      BY <1>0, <1>1, <2>5, Zenon DEF TypeOK, Pending, Save, Goto
    <3>2. j \in used /\ NeverClaimed(j) /\ j \in JobIds
      BY <1>0, <2>5, <3>1, NewIdsType, ZenonT(30) DEF FreshInv, OpInv
    <3>3. CASE q = p
      <4>1. pc'[q] = "confirm" /\ op[p].type = "submit"
        BY <1>0, <2>5, <3>3, Zenon DEF TypeOK, Pending, Save, Goto
      <4>2. ~Present(file, j)
        BY <1>0, <1>1, <2>5, <3>1, <3>3, Zenon DEF FreshInv
      <4>3. NeverClaimed(j)'
        BY <1>1, <1>7, <3>2, <4>1, Zenon DEF NeverClaimed
      <4>4. QED
        BY <1>1, <3>1, <3>2, <3>3, <4>1, <4>2, <4>3, Zenon
    <3>4. CASE q # p
      <4>1. pc[q] = "acquire" /\ pc'[q] = "acquire"
        BY <1>0, <1>2, <3>1, <3>4, Zenon DEF TypeOK, Pending, InTransaction, Save, Goto
      <4>2. ~Present(file, j) /\ j \notin NewIds(op[p])
        BY <1>0, <1>1, <2>5, <3>1, <3>4, <4>1, Zenon DEF FreshInv, Pending
      <4>3. NeverClaimed(j)'
        BY <1>1, <1>6, <3>2, <4>2, ZenonT(30) DEF NeverClaimed
      <4>4. ~Present(file', j)
        BY <2>1, <3>2, <4>2, Zenon
      <4>5. QED
        BY <3>1, <3>2, <4>1, <4>3, <4>4, Zenon
    <3>5. QED
      BY <3>3, <3>4, Zenon
  <2>6. ASSUME NEW q \in Procs, NEW r \in Procs, q # r, Pending(q)', Pending(r)'
        PROVE  (NewIds(op[q]) \cap NewIds(op[r]) = {})'
    BY <1>0, <1>1, <2>6, Zenon DEF TypeOK, FreshInv, Pending, Save, Goto
  <2>7. QED
    BY <2>3, <2>4, <2>5, <2>6, Zenon DEF FreshInv
<1>13. StartInv'
  <2>1. started' = started /\ due' = due /\ started' \subseteq claimed'
    BY <1>0, <1>1, Zenon DEF Save, StartInv
  <2>2. \A q \in Procs : q # p => pc'[q] = pc[q]
    BY <1>0, Zenon DEF TypeOK, Save, Goto
  <2>3. ASSUME NEW q \in Procs, q # p, Claiming(q)'
        PROVE  /\ Claiming(q) /\ due[q] \subseteq claimed \ started
               /\ due'[q] = due[q] /\ due[p] \cap due[q] = {}
    BY <1>0, <1>1, <1>5, <2>1, <2>2, <2>3, Zenon DEF StartInv, StartedAtMostOnce, Claiming
  <2>4. due[p] \subseteq claimed' \ started' /\ claimed \subseteq claimed'
    BY <1>0, <1>1, <1>5, <2>1, Zenon DEF StartInv
  <2>5. ASSUME NEW q \in Procs, Claiming(q)'
        PROVE  (due[q] \subseteq claimed \ started)'
    BY <2>1, <2>3, <2>4, <2>5, Zenon
  <2>6. ASSUME NEW q \in Procs, NEW r \in Procs, q # r, Claiming(q)', Claiming(r)'
        PROVE  (due[q] \cap due[r] = {})'
    <3>1. CASE q = p
      BY <2>1, <2>3, <2>6, <3>1, Zenon
    <3>2. CASE r = p
      BY <2>1, <2>3, <2>6, <3>2, Zenon
    <3>3. CASE q # p /\ r # p
      BY <1>0, <2>1, <2>3, <2>6, <3>3, Zenon DEF StartInv, StartedAtMostOnce
    <3>4. QED
      BY <3>1, <3>2, <3>3, Zenon
  <2>7. StartedAtMostOnce'
    BY <2>5, <2>6, Zenon DEF StartedAtMostOnce
  <2>8. QED
    BY <2>1, <2>7 DEF StartInv
<1>14. QED
  BY <1>8, <1>9, <1>10, <1>11, <1>12, <1>13, Zenon

(* Rollback: the file goes back to what differs from it only by a job that *)
(* no tick can have claimed.                                               *)
LEMMA InvRollback ==
  ASSUME Inv, NEW p \in Procs, Rollback(p)
  PROVE  LockInv' /\ NoStaleSnapshot' /\ DueInv' /\ FreshInv'
         /\ ClaimIsDurable' /\ StartInv'
<1>0. TypeOK /\ OpInv /\ LockInv /\ NoStaleSnapshot /\ DueInv /\ FreshInv /\ ClaimIsDurable /\ StartInv
  BY DEF Inv, TypeInv
<1>1. /\ pc[p] = "rollback" /\ op[p] \in Operation /\ op[p].type = "submit"
      /\ prior[p] \in Store /\ file = Submitted(prior[p], op[p].job, op[p].when)
      /\ NewIds(op[p]) = {op[p].job}
      /\ file' \in {file, prior[p]}
  BY <1>0, Zenon DEF Rollback, TypeOK, OpInv, Pending, NoStaleSnapshot, Apply, NewIds
<1>2. \A q \in Procs : q # p => ~InTransaction(q)
  BY <1>0, <1>1, Zenon DEF LockInv, InTransaction
<1>3. /\ ~Present(prior[p], op[p].job)
      /\ \A j \in JobIds : j # op[p].job => prior[p].jobs[j] = file.jobs[j]
  <2>1. ~Present(prior[p], op[p].job)
    BY <1>0, <1>1, Zenon DEF FreshInv, Pending
  <2>2. \A j \in JobIds : j # op[p].job => prior[p].jobs[j] = file.jobs[j]
    BY <1>1, Zenon DEF Submitted, Store
  <2>3. QED
    BY <2>1, <2>2, Zenon
<1>4. LockInv' /\ DueInv'
  BY <1>0, <1>1, <1>2, Zenon DEF TypeOK, LockInv, DueInv, InTransaction, Rollback, Goto
<1>5. NoStaleSnapshot'
  BY <1>0, <1>1, <1>2, Zenon DEF TypeOK, NoStaleSnapshot, InTransaction, Rollback, Goto
<1>6. \A j \in JobIds : Present(file', j) => Present(file, j)
  BY <1>1, <1>3, Zenon DEF Present
<1>7. ClaimIsDurable'
  <2>1. \A c \in claimed : c[1] \in JobIds /\ c[1] # op[p].job
    BY <1>0, <1>1 DEF TypeOK, Occurrence, FreshInv, NeverClaimed, Pending
  <2>2. \A c \in claimed : file'.jobs[c[1]] = file.jobs[c[1]]
    BY <1>1, <1>3, <2>1, Zenon
  <2>3. QED
    BY <1>0, <2>2, Zenon DEF ClaimIsDurable, RuledOut, Rollback
<1>8. FreshInv'
  <2>1. \A q \in Procs : Pending(q)' => q # p /\ pc[q] = "acquire" /\ pc'[q] = "acquire"
    BY <1>0, <1>2, Zenon DEF TypeOK, Pending, InTransaction, Rollback, Goto
  <2>2. \A q \in Procs : Pending(q)' => NewIds(op[q]) \subseteq JobIds
    BY <1>0, <2>1, NewIdsType, Zenon DEF OpInv, Pending
  <2>3. QED
    BY <1>0, <1>6, <2>1, <2>2, Zenon DEF FreshInv, NeverClaimed, Pending, Rollback
<1>9. StartInv'
  BY <1>0, <1>1, Zenon
     DEF TypeOK, StartInv, StartedAtMostOnce, Claiming, DueInv, Rollback, Goto
<1>10. QED
  BY <1>4, <1>5, <1>7, <1>8, <1>9, Zenon

(* Every step of every process keeps the invariant.                        *)
LEMMA InvStep == Inv /\ [Next]_vars => Inv'
<1> SUFFICES ASSUME Inv, [Next]_vars PROVE Inv'
  OBVIOUS
<1>0. TypeInv /\ TypeInv'
  BY TypeStep, Zenon DEF Inv
<1>1. CASE Advance \/ (\E p \in Procs : StartDaemon(p) \/ StopDaemon(p)) \/ UNCHANGED vars
  <2>1. UNCHANGED <<file, lock, pc, op, snap, prior, due, used, claimed, started>>
    BY <1>1, Zenon DEF Advance, StartDaemon, StopDaemon, vars
  <2>2. LockInv'
    BY <2>1 DEF Inv, LockInv, InTransaction
  <2>3. NoStaleSnapshot'
    BY <2>1, Zenon DEF Inv, NoStaleSnapshot
  <2>4. DueInv'
    BY <2>1, Zenon DEF Inv, DueInv
  <2>5. FreshInv'
    BY <2>1, Zenon DEF Inv, FreshInv, NeverClaimed, Pending
  <2>6. ClaimIsDurable' /\ StartInv'
    BY <2>1, Zenon DEF Inv, ClaimIsDurable, StartInv, StartedAtMostOnce, Claiming
  <2>7. QED
    BY <1>0, <2>2, <2>3, <2>4, <2>5, <2>6, Zenon DEF Inv
<1>2. ASSUME NEW p \in Procs, Command(p) \/ Tick(p) PROVE Inv'
  BY <1>0, <1>2, InvBegin, Zenon DEF Inv
<1>3. ASSUME NEW p \in Procs, Transact(p) \/ Fire(p) \/ Ended(p) \/ Done(p) \/ Crash(p) PROVE Inv'
  BY <1>0, <1>3, InvQuiet, InvLoad, InvSave, InvRollback, Zenon DEF Inv, Transact
<1>4. QED
  BY <1>1, <1>2, <1>3, Zenon DEF Next

(* The inductive invariant holds in every reachable state.                 *)
LEMMA Invariance == Spec => []Inv
BY InvInit, InvStep, PTL DEF Spec

(* No transaction saves, and no rollback restores, what it computed from   *)
(* a store that has changed since.                                         *)
THEOREM FreshSnapshots == Spec => []NoStaleSnapshot
<1>1. Inv => NoStaleSnapshot
  BY Zenon DEF Inv
<1>2. QED
  BY <1>1, Invariance, PTL

(* A claim, once saved, is never undone by any later command, tick,        *)
(* rollback or crash.                                                      *)
THEOREM DurableClaims == Spec => []ClaimIsDurable
<1>1. Inv => ClaimIsDurable
  BY Zenon DEF Inv
<1>2. QED
  BY <1>1, Invariance, PTL

(* Any number of ticks and daemons start an occurrence at most once.       *)
THEOREM AtMostOneStart == Spec => []StartedAtMostOnce
<1>1. Inv => StartedAtMostOnce
  BY Zenon DEF Inv, StartInv
<1>2. QED
  BY <1>1, Invariance, PTL

----------------------------------------------------------------------------
\* Schedule implements AtomicSchedule: every step of the locked, crashing
\* processes is one transaction on the store its readers may rely on, or
\* changes nothing of it.

\* A submission saved and not yet confirmed: its readers see the prior store.
Unconfirmed(p) == pc[p] \in {"confirm", "rollback"}

(* At most one submission is unconfirmed, so the mapping is well defined.  *)
LEMMA UnconfirmedStore ==
  ASSUME LockInv, NEW p \in Procs, Unconfirmed(p)
  PROVE  AbstractStore = prior[p]
<1>1. \A q \in Procs : Unconfirmed(q) => q = p
  BY Zenon DEF LockInv, InTransaction, Unconfirmed
<1>2. QED
  BY <1>1, Zenon DEF AbstractStore, Unconfirmed

(* With no submission awaiting confirmation readers see the file.          *)
LEMMA SettledStore ==
  ASSUME \A p \in Procs : ~Unconfirmed(p)
  PROVE  AbstractStore = file
BY Zenon DEF AbstractStore, Unconfirmed

(* A step by p that leaves alone the file, the claims and what is          *)
(* unconfirmed leaves the abstract store alone.                            *)
LEMMA SameStore ==
  ASSUME LockInv, LockInv', file' = file,
         \A q \in Procs : Unconfirmed(q)' <=> Unconfirmed(q),
         \A q \in Procs : Unconfirmed(q) => prior'[q] = prior[q]
  PROVE  AbstractStore' = AbstractStore
<1>1. CASE \E q \in Procs : Unconfirmed(q)
  <2>1. PICK q \in Procs : Unconfirmed(q)
    BY <1>1, Zenon
  <2>2. AbstractStore = prior[q]
    BY <2>1, UnconfirmedStore, Zenon
  <2>3. \A r \in Procs : Unconfirmed(r)' => r = q
    BY <2>1, Zenon DEF LockInv, InTransaction, Unconfirmed
  <2>4. AbstractStore' = prior'[q]
    BY <2>1, <2>3, Zenon DEF AbstractStore, Unconfirmed
  <2>5. QED
    BY <2>1, <2>2, <2>4, Zenon
<1>2. CASE \A q \in Procs : ~Unconfirmed(q)
  <2>1. AbstractStore = file
    BY <1>2, SettledStore, Zenon
  <2>2. AbstractStore' = file'
    BY <1>2, Zenon DEF AbstractStore, Unconfirmed
  <2>3. QED
    BY <2>1, <2>2, Zenon
<1>3. QED
  BY <1>1, <1>2, Zenon

(* The abstract specification speaks of the same stores and operations.    *)
LEMMA SameOperators ==
  /\ \A o, s : Atomic!Apply(o, s) = Apply(o, s)
  /\ \A o, s : Atomic!Occurrences(o, s) = Occurrences(o, s)
  /\ \A o : Atomic!NewIds(o) = NewIds(o)
  /\ \A s, j : Atomic!Present(s, j) = Present(s, j)
  /\ Atomic!Operation = Operation
  /\ \A E : Atomic!EmptyStore(E) = EmptyStore(E)
<1>1. \A o, s : Atomic!Apply(o, s) = Apply(o, s)
  BY DEF Apply, Submitted, Removed, Removable, CronReplaced, CronRemoved,
         Claimed, ClaimedJob, Due, computeNext, EveryNext, NoJob, Present,
         CronIds, Atomic!Apply, Atomic!Submitted, Atomic!Removed,
         Atomic!Removable, Atomic!CronReplaced, Atomic!CronRemoved,
         Atomic!Claimed, Atomic!ClaimedJob, Atomic!Due, Atomic!computeNext,
         Atomic!EveryNext, Atomic!NoJob, Atomic!Present, Atomic!CronIds
<1>2. \A o, s : Atomic!Occurrences(o, s) = Occurrences(o, s)
  BY DEF Occurrences, Due, Atomic!Occurrences, Atomic!Due
<1>3. QED
  BY <1>1, <1>2, Zenon DEF NewIds, Present, Operation, AtIds, CronIds, Times, Loads,
                    EmptyStore, NoJob, Atomic!NewIds, Atomic!Present,
                    Atomic!Operation, Atomic!AtIds, Atomic!CronIds,
                    Atomic!Times, Atomic!Loads, Atomic!EmptyStore,
                    Atomic!NoJob, computeNext, EveryNext, Atomic!computeNext,
                    Atomic!EveryNext

(* A submission that leaves its window with its job in the file is one     *)
(* transaction: at its confirmation, its failed rollback or its crash.     *)
LEMMA SubmissionCounts ==
  ASSUME Inv, NEW p \in Procs, Unconfirmed(p),
         file' = file, claimed' = claimed, now' = now,
         \A q \in Procs : ~Unconfirmed(q)'
  PROVE  Atomic!Transaction(op[p])
<1>1. /\ LockInv /\ op[p] \in Operation /\ op[p].type = "submit"
      /\ file = Apply(op[p], prior[p])
  BY Zenon DEF Inv, TypeInv, OpInv, Pending, NoStaleSnapshot, Unconfirmed
<1>2. AbstractStore = prior[p]
  BY <1>1, UnconfirmedStore, Zenon
<1>3. AbstractStore' = file'
  BY Zenon DEF AbstractStore, Unconfirmed
<1>4. \A j \in NewIds(op[p]) : Atomic!New(j)
  BY <1>2, SameOperators, Zenon
     DEF Inv, FreshInv, NeverClaimed, Pending, Unconfirmed, Atomic!New
<1>5. Occurrences(op[p], prior[p]) = {}
  BY <1>1, Zenon DEF Occurrences
<1>6. QED
  BY <1>1, <1>2, <1>3, <1>4, <1>5, SameOperators, Zenon DEF Atomic!Transaction

(* The initial states are those of the atomic store.                       *)
LEMMA RefineInit == Init => Atomic!Init
<1> SUFFICES ASSUME Init PROVE Atomic!Init
  OBVIOUS
<1>1. AbstractStore = file
  BY SettledStore, Zenon DEF Init, Unconfirmed
<1>2. Atomic!AtIds = AtIds
  BY Zenon DEF AtIds, Atomic!AtIds
<1>3. QED
  BY <1>1, <1>2, SameOperators, Zenon DEF Init, Atomic!Init

(* Steps of a process outside the two moments at which a transaction takes *)
(* effect.                                                                 *)
LEMMA RefineStutter ==
  ASSUME Inv, Inv', NEW p \in Procs,
         \/ Command(p) \/ Tick(p) \/ StartDaemon(p) \/ StopDaemon(p)
         \/ Acquire(p) \/ AcquireFails(p) \/ Load(p) \/ Fails(p)
         \/ ConfirmFails(p) \/ Unlock(p) \/ Fire(p) \/ Ended(p) \/ Done(p)
  PROVE  UNCHANGED Atomic!avars
<1>0. TypeOK /\ LockInv /\ LockInv'
  BY DEF Inv, TypeInv
<1>1. /\ file' = file /\ claimed' = claimed /\ now' = now
      /\ \A q \in Procs : Unconfirmed(q)' <=> Unconfirmed(q)
      /\ \A q \in Procs : Unconfirmed(q) => prior'[q] = prior[q]
  <2>1. CASE Command(p) \/ Tick(p)
    <3>1. \E o \in Operation : Begin(p, o)
      BY <1>0, <2>1, BeginCases, Zenon
    <3>2. QED
      BY <1>0, <3>1, Zenon DEF TypeOK, Unconfirmed, Begin, Goto
  <2>2. CASE StartDaemon(p) \/ StopDaemon(p)
    BY <2>2, Zenon DEF Unconfirmed, StartDaemon, StopDaemon
  <2>3. CASE Acquire(p) \/ AcquireFails(p)
    BY <1>0, <2>3, Zenon DEF TypeOK, Unconfirmed, Acquire, AcquireFails, Goto, Return, Forget
  <2>4. CASE Load(p) \/ Fails(p)
    BY <1>0, <2>4, Zenon DEF TypeOK, Unconfirmed, Load, Fails, Goto, Return, Forget
  <2>5. CASE ConfirmFails(p) \/ Unlock(p)
    BY <1>0, <2>5, Zenon DEF TypeOK, Unconfirmed, ConfirmFails, Unlock, Goto, Forget
  <2>6. CASE Fire(p) \/ Ended(p)
    BY <1>0, <2>6, ZenonT(30) DEF TypeOK, Unconfirmed, Fire, FireJob, Ended, Goto
  <2>7. CASE Done(p)
    BY <1>0, <2>7, ZenonT(30) DEF TypeOK, Unconfirmed, Done, Goto, Return, Forget
  <2>8. QED
    BY <2>1, <2>2, <2>3, <2>4, <2>5, <2>6, <2>7, Zenon
<1>2. AbstractStore' = AbstractStore
  BY <1>0, <1>1, SameStore, Zenon
<1>3. QED
  BY <1>1, <1>2, Zenon DEF Atomic!avars

(* The rename in save is the instant of every transaction but a            *)
(* submission, which only enters its window there.                         *)
LEMMA RefineSave ==
  ASSUME Inv, NEW p \in Procs, Save(p)
  PROVE  Atomic!Transaction(op[p]) \/ UNCHANGED Atomic!avars
<1>1. /\ TypeOK /\ LockInv /\ op[p] \in Operation
      /\ pc[p] = "save" /\ file' = Apply(op[p], file) /\ prior[p] = file
      /\ claimed' = claimed \cup Occurrences(op[p], file) /\ now' = now
      /\ op[p].type = "tick" => op[p].now <= now
  BY Zenon DEF Inv, TypeInv, OpInv, Pending, NoStaleSnapshot, DueInv, Save
<1>2. \A q \in Procs : ~Unconfirmed(q)
  BY <1>1, Zenon DEF LockInv, InTransaction, Unconfirmed
<1>3. AbstractStore = file
  BY <1>2, SettledStore, Zenon
<1>4. CASE op[p].type = "submit"
  <2>1. /\ \A q \in Procs : Unconfirmed(q)' <=> q = p
        /\ prior' = prior
    BY <1>1, <1>2, <1>4, Zenon DEF TypeOK, Unconfirmed, Save, Goto
  <2>2. AbstractStore' = prior[p]
    BY <2>1, Zenon DEF AbstractStore, Unconfirmed
  <2>3. claimed' = claimed
    BY <1>1, <1>4, Zenon DEF Occurrences
  <2>4. QED
    BY <1>1, <1>3, <2>2, <2>3, Zenon DEF Atomic!avars
<1>5. CASE op[p].type # "submit"
  <2>1. \A q \in Procs : ~Unconfirmed(q)'
    BY <1>1, <1>2, <1>5, Zenon DEF TypeOK, Unconfirmed, Save, Goto
  <2>2. AbstractStore' = file'
    BY <2>1, Zenon DEF AbstractStore, Unconfirmed
  <2>3. \A j \in NewIds(op[p]) : Atomic!New(j)
    BY <1>1, <1>3, SameOperators, Zenon DEF Inv, FreshInv, NeverClaimed, Pending, Atomic!New
  <2>4. QED
    BY <1>1, <1>3, <2>2, <2>3, SameOperators, Zenon DEF Atomic!Transaction
<1>6. QED
  BY <1>4, <1>5, Zenon

(* Leaving a submission's window: by confirmation, by rollback, or by a    *)
(* crash.  A crash anywhere else changes nothing that readers rely on.     *)
LEMMA RefineSettle ==
  ASSUME Inv, Inv', NEW p \in Procs, Confirm(p) \/ Rollback(p) \/ Crash(p)
  PROVE  (Atomic!Transaction(op[p]) /\ Unconfirmed(p)) \/ UNCHANGED Atomic!avars
<1>1. TypeOK /\ LockInv /\ LockInv' /\ claimed' = claimed /\ now' = now
  BY Zenon DEF Inv, TypeInv, Confirm, Rollback, Crash
<1>2. CASE Unconfirmed(p)
  <2>1. \A q \in Procs : ~Unconfirmed(q)'
    <3>1. \A q \in Procs : q # p => ~Unconfirmed(q)
      BY <1>1, <1>2, Zenon DEF LockInv, InTransaction, Unconfirmed
    <3>2. QED
      BY <1>1, <3>1, Zenon DEF TypeOK, Unconfirmed, Confirm, Rollback, Crash, Return, Forget, Goto
  <2>2. CASE file' = file
    BY <1>1, <1>2, <2>1, <2>2, SubmissionCounts, Zenon
  <2>3. CASE file' = prior[p]
    <3>1. AbstractStore = prior[p]
      BY <1>1, <1>2, UnconfirmedStore, Zenon
    <3>2. AbstractStore' = file'
      BY <2>1, Zenon DEF AbstractStore, Unconfirmed
    <3>3. QED
      BY <1>1, <2>3, <3>1, <3>2, Zenon DEF Atomic!avars
  <2>4. QED
    BY <2>2, <2>3, Zenon DEF Confirm, Rollback, Crash
<1>3. CASE ~Unconfirmed(p)
  <2>1. /\ file' = file
        /\ \A q \in Procs : Unconfirmed(q)' <=> Unconfirmed(q)
        /\ \A q \in Procs : Unconfirmed(q) => prior'[q] = prior[q]
    BY <1>1, <1>3, Zenon DEF TypeOK, Unconfirmed, Confirm, Rollback, Crash, Return, Forget, Goto
  <2>2. AbstractStore' = AbstractStore
    BY <1>1, <2>1, SameStore, Zenon
  <2>3. QED
    BY <1>1, <2>2, Zenon DEF Atomic!avars
<1>4. QED
  BY <1>2, <1>3, Zenon

(* Every step is one atomic transaction, a clock step or a stutter.        *)
LEMMA RefineStep == Inv /\ Inv' /\ [Next]_vars => [Atomic!Next]_(Atomic!avars)
<1> SUFFICES ASSUME Inv, Inv', [Next]_vars
             PROVE  Atomic!Next \/ UNCHANGED Atomic!avars
  OBVIOUS
<1>0. \A p \in Procs : pc[p] = "save" \/ Unconfirmed(p) => op[p] \in Atomic!Operation
  BY SameOperators, Zenon DEF Inv, TypeInv, OpInv, Pending, Unconfirmed
<1>1. CASE Advance \/ UNCHANGED vars
  <2>1. AbstractStore' = AbstractStore
    BY <1>1, Zenon DEF AbstractStore, Advance, vars
  <2>2. QED
    BY <1>1, <2>1, Zenon DEF Advance, vars, Atomic!Next, Atomic!Advance, Atomic!avars
<1>2. ASSUME NEW p \in Procs, Save(p) PROVE Atomic!Next \/ UNCHANGED Atomic!avars
  BY <1>0, <1>2, RefineSave, Zenon DEF Save, Atomic!Next
<1>3. ASSUME NEW p \in Procs, Confirm(p) \/ Rollback(p) \/ Crash(p)
      PROVE  Atomic!Next \/ UNCHANGED Atomic!avars
  BY <1>0, <1>3, RefineSettle, Zenon DEF Atomic!Next
<1>4. QED
  BY <1>1, <1>2, <1>3, RefineStutter, Zenon DEF Next, Transact

(* Every command and tick takes effect at one instant or not at all, for   *)
(* any number of processes, jobs, failures and crashes.                    *)
THEOREM Refinement == Spec => ImplementsAtomicSchedule
BY Invariance, RefineInit, RefineStep, PTL DEF Spec, ImplementsAtomicSchedule, Atomic!Spec

\* ClaimAtMostOnce is not inductive: the store must remember every claim.
ClaimInv ==
  /\ AbstractStore \in Store
  /\ claimed \subseteq JobIds \X Nat
  /\ \A c \in claimed : RuledOut(AbstractStore, c[1], c[2])

(* The atomic store starts out having claimed nothing.                     *)
LEMMA ClaimInit == Atomic!Init => ClaimInv
<1> SUFFICES ASSUME Atomic!Init PROVE ClaimInv
  OBVIOUS
<1>1. PICK E \in SUBSET JobIds : AbstractStore = EmptyStore(E)
  BY SameOperators, Zenon DEF Atomic!Init
<1>2. claimed = {}
  BY DEF Atomic!Init
<1>3. QED
  BY <1>1, <1>2, EmptyStoreType, Zenon DEF ClaimInv

(* An atomic transaction rules out what it claims, and takes no claim      *)
(* back.                                                                   *)
LEMMA ClaimStep == ClaimInv /\ [Atomic!Next]_(Atomic!avars) => ClaimInv'
<1> SUFFICES ASSUME ClaimInv, [Atomic!Next]_(Atomic!avars) PROVE ClaimInv'
  OBVIOUS
<1>1. ASSUME NEW o \in Operation, Atomic!Transaction(o) PROVE ClaimInv'
  <2>0. PICK old, new : /\ old = AbstractStore /\ new = AbstractStore' /\ new = Apply(o, old)
                        /\ claimed' = claimed \cup Occurrences(o, old)
    BY <1>1, SameOperators, Zenon DEF Atomic!Transaction
  <2>1. old \in Store /\ new \in Store /\ claimed' \subseteq JobIds \X Nat
    BY <2>0, ApplyType, OccurrencesType, Zenon DEF ClaimInv
  <2>2. ASSUME NEW c \in claimed' PROVE RuledOut(new, c[1], c[2])
    <3>1. PICK j \in JobIds, t \in Nat : c = <<j, t>>
      BY <2>1, <2>2
    <3>2. CASE c \in Occurrences(o, old)
      BY <2>0, <2>1, <3>1, <3>2, SelectedIsRuledOut, Zenon
    <3>3. CASE c \in claimed
      <4>1. j \notin NewIds(o)
        BY <1>1, <3>1, <3>3, SameOperators, Zenon DEF Atomic!Transaction, Atomic!New
      <4>2. RuledOut(old, j, t)
        BY <2>0, <3>1, <3>3, Zenon DEF ClaimInv
      <4>3. QED
        BY <2>0, <2>1, <3>1, <4>1, <4>2, RuledOutStays, Zenon
    <3>4. QED
      BY <2>0, <2>2, <3>2, <3>3, Zenon
  <2>3. QED
    BY <2>0, <2>1, <2>2, Zenon DEF ClaimInv
<1>2. CASE Atomic!Advance \/ UNCHANGED Atomic!avars
  <2>1. AbstractStore' = AbstractStore /\ claimed' = claimed
    BY <1>2 DEF Atomic!Advance, Atomic!avars
  <2>2. QED
    BY <2>1, Zenon DEF ClaimInv
<1>3. QED
  BY <1>1, <1>2, SameOperators, Zenon DEF Atomic!Next

(* Ticks, however late their clock reading, never claim the same           *)
(* occurrence twice: the atomic store does not, so Schedule does not.      *)
THEOREM ClaimsAreUnique == Spec => Atomic!ClaimAtMostOnce
<1>1. ClaimInv => \A o \in Operation : Occurrences(o, AbstractStore) \cap claimed = {}
  <2> SUFFICES ASSUME ClaimInv, NEW o \in Operation, NEW c \in claimed
               PROVE  c \notin Occurrences(o, AbstractStore)
    BY Zenon
  <2>1. PICK j \in JobIds, t \in Nat : c = <<j, t>>
    BY DEF ClaimInv
  <2>2. QED
    BY <2>1, RuledOutNotSelected, Zenon DEF ClaimInv
<1>2. ClaimInv => [\A o \in Atomic!Operation : Atomic!Transaction(o) =>
                     Atomic!Occurrences(o, AbstractStore) \cap claimed = {}]_(Atomic!avars)
  BY <1>1, SameOperators, Zenon
<1>3. Atomic!Spec => Atomic!ClaimAtMostOnce
  BY <1>2, ClaimInit, ClaimStep, PTL DEF Atomic!Spec, Atomic!ClaimAtMostOnce
<1>4. QED
  BY <1>3, Refinement, PTL DEF ImplementsAtomicSchedule

----------------------------------------------------------------------------
\* What the users of the schedule store are told holds: submissions, the
\* crontab and LastRun.  Each follows from Inv and from one fact about the
\* file that every transaction preserves.

(* How the file can change: by one transaction on the present file, or     *)
(* back to the file before a submission that no reader has seen.           *)
LEMMA FileSteps ==
  ASSUME Inv, [Next]_vars, file' # file
  PROVE  \E p \in Procs :
           \/ Save(p) /\ pc[p] = "save" /\ op[p] \in Operation /\ file' = Apply(op[p], file)
           \/ Rollback(p) /\ pc[p] = "rollback" /\ op[p] \in Operation
              /\ op[p].type = "submit" /\ file' = prior[p]
              /\ file = Submitted(prior[p], op[p].job, op[p].when)
              /\ op[p].job \in AtIds /\ ~Present(prior[p], op[p].job)
<1>1. PICK p \in Procs : Save(p) \/ Rollback(p)
  <2>1. \A p \in Procs : Command(p) \/ Tick(p) => \E o \in Operation : Begin(p, o)
    BY BeginCases DEF Inv, TypeInv
  <2>2. QED
    BY <2>1, Zenon DEF Next, Transact, Advance, Begin, StartDaemon, StopDaemon, Acquire,
                AcquireFails, Load, Fails, Confirm, ConfirmFails, Unlock, Fire, Ended, Done,
                Crash, vars
<1>2. CASE Save(p)
  BY <1>2, Zenon DEF Inv, TypeInv, OpInv, Pending, NoStaleSnapshot, Save
<1>3. CASE Rollback(p)
  <2>1. /\ pc[p] = "rollback" /\ op[p] \in Operation /\ op[p].type = "submit"
        /\ file' = prior[p] /\ file = Submitted(prior[p], op[p].job, op[p].when)
    BY <1>3, Zenon DEF Inv, TypeInv, OpInv, Pending, NoStaleSnapshot, Rollback, Apply
  <2>2. op[p].job \in AtIds
    BY <2>1, Zenon DEF Operation
  <2>3. ~Present(prior[p], op[p].job)
    BY <2>1, Zenon DEF Inv, FreshInv, Pending, NewIds
  <2>4. QED
    BY <1>3, <2>1, <2>2, <2>3, Zenon
<1>4. QED
  BY <1>1, <1>2, <1>3, Zenon

----------------------------------------------------------------------------
(* The crontab.                                                            *)

CronMatches(s) == s.sourceSet => {j \in CronIds : Present(s, j)} = s.source

(* Every transaction keeps the cron jobs and the table in agreement.       *)
LEMMA ApplyCron ==
  ASSUME NEW o \in Operation, NEW s \in Store, CronMatches(s)
  PROVE  CronMatches(Apply(o, s))
<1>0. s.jobs \in [JobIds -> Job] /\ CronIds \subseteq JobIds
  BY Zenon DEF Store, CronIds
<1>1. CASE o.type = "submit"
  <2>1. o.job \notin CronIds
    BY <1>1, Zenon DEF Operation, AtIds, CronIds
  <2>2. QED
    BY <1>0, <1>1, <2>1 DEF CronMatches, Apply, Submitted, Present, Store
<1>2. CASE o.type = "remove"
  <2>1. CASE Removable(s, o.ids, o.uid)
    <3>1. o.ids \cap CronIds = {}
      BY <2>1, Zenon DEF Removable, CronIds
    <3>2. QED
      BY <1>0, <1>2, <2>1, <3>1, Zenon DEF CronMatches, Apply, Removed, Present, Store
  <2>2. CASE ~Removable(s, o.ids, o.uid)
    BY <1>2, <2>2, Zenon DEF Apply, Removed
  <2>3. QED
    BY <2>1, <2>2, Zenon
<1>3. CASE o.type = "replace"
  <2>1. o.ids \subseteq CronIds
    BY <1>3, Zenon DEF Operation
  <2>2. QED
    BY <1>0, <1>3, <2>1, Zenon DEF CronMatches, Apply, CronReplaced, Present, NoJob
<1>4. CASE o.type = "uncron"
  BY <1>0, <1>4, Zenon DEF CronMatches, Apply, CronRemoved, Present, NoJob
<1>5. CASE o.type = "tick"
  <2>1. \A j \in JobIds : Present(Apply(o, s), j) <=> Present(s, j)
    <3> SUFFICES ASSUME NEW j \in JobIds PROVE Present(Apply(o, s), j) <=> Present(s, j)
      BY Zenon
    <3>1. CASE j \in Due(s, o.now, o.load)
      <4>1. Apply(o, s).jobs[j] = ClaimedJob(j, s.jobs[j], o.now) /\ s.jobs[j] \in Job
        BY <1>0, <1>5, <3>1, Zenon DEF Apply, Claimed, Store
      <4>2. ClaimedJob(j, s.jobs[j], o.now).status # "none"
        BY <3>1, <4>1, Zenon DEF ClaimedJob, Due, Job
      <4>3. QED
        BY <3>1, <4>1, <4>2, Zenon DEF Present, Due
    <3>2. CASE j \notin Due(s, o.now, o.load)
      BY <1>0, <1>5, <3>2, Zenon DEF Apply, Claimed, Present, Store
    <3>3. QED
      BY <3>1, <3>2, Zenon
  <2>2. Apply(o, s).source = s.source /\ Apply(o, s).sourceSet = s.sourceSet
    BY <1>5, Zenon DEF Apply, Claimed, Store
  <2>3. QED
    BY <1>0, <2>1, <2>2, Zenon DEF CronMatches
<1>6. QED
  BY <1>1, <1>2, <1>3, <1>4, <1>5, Zenon DEF Operation

(* No step of any process parts the cron jobs from their table.            *)
LEMMA CronStep == Inv /\ CronMatches(file) /\ [Next]_vars => CronMatches(file)'
<1> SUFFICES ASSUME Inv, CronMatches(file), [Next]_vars PROVE CronMatches(file')
  BY Zenon DEF CronMatches, Present
<1>1. CASE file' = file
  BY <1>1, Zenon
<1>2. CASE file' # file
  <2>1. PICK p \in Procs :
           \/ op[p] \in Operation /\ file' = Apply(op[p], file)
           \/ /\ file' = prior[p] /\ file = Submitted(prior[p], op[p].job, op[p].when)
              /\ op[p].job \in AtIds /\ ~Present(prior[p], op[p].job)
    BY <1>2, FileSteps, Zenon
  <2>2. file \in Store /\ prior[p] \in Store
    BY Zenon DEF Inv, TypeInv, TypeOK
  <2>3. CASE op[p] \in Operation /\ file' = Apply(op[p], file)
    BY <2>2, <2>3, ApplyCron, Zenon
  <2>4. CASE /\ file' = prior[p] /\ file = Submitted(prior[p], op[p].job, op[p].when)
             /\ op[p].job \in AtIds
    <3>1. op[p].job \notin CronIds /\ CronIds \subseteq JobIds
      BY <2>4, Zenon DEF AtIds, CronIds
    <3>2. \A j \in CronIds : file.jobs[j] = prior[p].jobs[j]
      BY <2>2, <2>4, <3>1 DEF Submitted, Store
    <3>3. file.source = prior[p].source /\ file.sourceSet = prior[p].sourceSet
      BY <2>2, <2>4 DEF Submitted, Store
    <3>4. QED
      BY <2>4, <3>2, <3>3, ZenonT(30) DEF CronMatches, Present
  <2>5. QED
    BY <2>1, <2>3, <2>4, Zenon
<1>3. QED
  BY <1>1, <1>2, Zenon

(* As long as only the commands that take the lock write the store, what   *)
(* crontab -l prints is at every instant what the daemon would run.        *)
THEOREM CrontabConsistent == Spec => []CronJobsMatchTable
<1>1. Init => CronMatches(file)
  <2>1. Init => ~file.sourceSet
    BY SMTT(30) DEF Init, EmptyStore
  <2>2. QED
    BY <2>1, Zenon DEF CronMatches
<1>2. CronMatches(file) => CronJobsMatchTable
  BY Zenon DEF CronMatches, CronTable, CronJobsMatchTable
<1>3. QED
  BY <1>1, <1>2, Invariance, CronStep, PTL DEF Spec

----------------------------------------------------------------------------
(* LastRun.                                                                *)

LastBeforeNext(s) == \A j \in JobIds :
  s.jobs[j].status = "on" /\ s.jobs[j].next # 0 => s.jobs[j].last < s.jobs[j].next

(* Every transaction leaves armed jobs due after their last run.           *)
LEMMA ApplyLastBeforeNext ==
  ASSUME NEW o \in Operation, NEW s \in Store, LastBeforeNext(s)
  PROVE  LastBeforeNext(Apply(o, s))
<1>0. s.jobs \in [JobIds -> Job] /\ Times \subseteq Nat \ {0}
  BY StoreAssumption, SMTT(30) DEF Store, Times
<1> SUFFICES ASSUME NEW j \in JobIds,
                    Apply(o, s).jobs[j].status = "on", Apply(o, s).jobs[j].next # 0
             PROVE  Apply(o, s).jobs[j].last < Apply(o, s).jobs[j].next
  BY Zenon DEF LastBeforeNext
<1>1. CASE o.type = "submit"
  <2>1. o.when \in Nat \ {0}
    BY <1>0, <1>1, Zenon DEF Operation
  <2>2. QED
    BY <1>0, <1>1, <2>1 DEF LastBeforeNext, Apply, Submitted, Store
<1>2. CASE o.type = "remove"
  BY <1>0, <1>2, Zenon DEF LastBeforeNext, Apply, Removed, NoJob, Store
<1>3. CASE o.type = "replace"
  <2>1. computeNext(j, o.now, o.now) \in Nat
    BY <1>3, ComputeNextLater, Zenon DEF Operation
  <2>2. QED
    BY <1>0, <1>3, <2>1 DEF LastBeforeNext, Apply, CronReplaced, NoJob
<1>4. CASE o.type = "uncron"
  BY <1>0, <1>4, Zenon DEF LastBeforeNext, Apply, CronRemoved, NoJob
<1>5. CASE o.type = "tick"
  <2>1. CASE j \in Due(s, o.now, o.load)
    <3>1. Apply(o, s).jobs[j] = ClaimedJob(j, s.jobs[j], o.now) /\ s.jobs[j] \in Job
      BY <1>0, <1>5, <2>1, Zenon DEF Apply, Claimed, Store
    <3>2. Kind[j] # "at"
      BY <3>1, Zenon DEF ClaimedJob, Job
    <3>3. /\ Apply(o, s).jobs[j].last = o.now
          /\ Apply(o, s).jobs[j].next = computeNext(j, o.now, o.now)
      BY <3>1, <3>2, Zenon DEF ClaimedJob, Job
    <3>4. QED
      BY <1>5, <3>3, ComputeNextLater, Zenon DEF Operation
  <2>2. CASE j \notin Due(s, o.now, o.load)
    BY <1>0, <1>5, <2>2, Zenon DEF LastBeforeNext, Apply, Claimed, Store
  <2>3. QED
    BY <2>1, <2>2, Zenon
<1>6. QED
  BY <1>1, <1>2, <1>3, <1>4, <1>5, Zenon DEF Operation

(* No step of any process arms a job for a time it has already run.        *)
LEMMA LastStep == Inv /\ LastBeforeNext(file) /\ [Next]_vars => LastBeforeNext(file)'
<1> SUFFICES ASSUME Inv, LastBeforeNext(file), [Next]_vars PROVE LastBeforeNext(file')
  BY Zenon DEF LastBeforeNext
<1>1. CASE file' = file
  BY <1>1
<1>2. CASE file' # file
  <2>1. PICK p \in Procs :
           \/ op[p] \in Operation /\ file' = Apply(op[p], file)
           \/ /\ file' = prior[p] /\ file = Submitted(prior[p], op[p].job, op[p].when)
              /\ op[p].job \in AtIds /\ ~Present(prior[p], op[p].job)
    BY <1>2, FileSteps, Zenon
  <2>2. file \in Store /\ prior[p] \in Store
    BY DEF Inv, TypeInv, TypeOK
  <2>3. CASE op[p] \in Operation /\ file' = Apply(op[p], file)
    BY <2>2, <2>3, ApplyLastBeforeNext, Zenon
  <2>4. CASE /\ file' = prior[p] /\ file = Submitted(prior[p], op[p].job, op[p].when)
             /\ ~Present(prior[p], op[p].job)
    <3>1. \A j \in JobIds : j # op[p].job => file.jobs[j] = prior[p].jobs[j]
      BY <2>2, <2>4, Zenon DEF Submitted, Store
    <3>2. QED
      BY <2>4, <3>1, Zenon DEF LastBeforeNext, Present
  <2>5. QED
    BY <2>1, <2>3, <2>4, Zenon
<1>3. QED
  BY <1>1, <1>2

(* A transaction moves the LastRun of a job it keeps forward or not at     *)
(* all: a tick, however old its clock reading, claims only what is due by  *)
(* that reading, and what is due last ran before.                          *)
LEMMA ApplyLastForward ==
  ASSUME NEW o \in Operation, NEW s \in Store, LastBeforeNext(s), NEW j \in JobIds,
         Present(s, j), Present(Apply(o, s), j), j \notin NewIds(o)
  PROVE  Apply(o, s).jobs[j].last >= s.jobs[j].last
<1>0. s.jobs \in [JobIds -> Job] /\ s.jobs[j] \in Job /\ s.jobs[j].last \in Nat
  BY Zenon DEF Store, Job
<1>1. CASE o.type = "submit"
  BY <1>0, <1>1 DEF Apply, Submitted, NewIds, Store
<1>2. CASE o.type = "remove"
  BY <1>0, <1>2, SMTT(30) DEF Apply, Removed, NoJob, Present, Store
<1>3. CASE o.type = "replace"
  BY <1>0, <1>3 DEF Apply, CronReplaced, NoJob, Present, NewIds
<1>4. CASE o.type = "uncron"
  BY <1>0, <1>4 DEF Apply, CronRemoved, NoJob, Present
<1>5. CASE o.type = "tick"
  <2>1. CASE j \in Due(s, o.now, o.load)
    <3>1. Apply(o, s).jobs[j] = ClaimedJob(j, s.jobs[j], o.now)
      BY <1>0, <1>5, <2>1, Zenon DEF Apply, Claimed, Store
    <3>2. Apply(o, s).jobs[j].last = o.now
      BY <1>0, <3>1, Zenon DEF ClaimedJob, Job
    <3>3. s.jobs[j].last < s.jobs[j].next /\ s.jobs[j].next <= o.now
      BY <2>1, Zenon DEF LastBeforeNext, Due
    <3>4. s.jobs[j].next \in Nat /\ o.now \in Nat
      <4>1. o.now \in Times
        BY <1>5, Zenon DEF Operation
      <4>2. o.now \in Nat
        BY <4>1, StoreAssumption DEF Times
      <4>3. QED
        BY <1>0, <4>2, Zenon DEF Job
    <3>5. QED
      <4>1. \A x, y, z \in Nat : x < y /\ y <= z => z >= x
        OBVIOUS
      <4>2. o.now >= s.jobs[j].last
        BY <1>0, <3>3, <3>4, <4>1, Zenon
      <4>3. QED
        BY <3>2, <4>2, Zenon
  <2>2. CASE j \notin Due(s, o.now, o.load)
    BY <1>0, <1>5, <2>2, SMTT(30) DEF Apply, Claimed, Store
  <2>3. QED
    BY <2>1, <2>2, Zenon
<1>6. QED
  BY <1>1, <1>2, <1>3, <1>4, <1>5, Zenon DEF Operation

(* No step moves the last run of a job that stays backwards.               *)
LEMMA LastForwardStep ==
  ASSUME Inv, LastBeforeNext(file), [Next]_vars, NEW j \in JobIds,
         Present(file, j), Present(file', j)
  PROVE  file'.jobs[j].last >= file.jobs[j].last
<1>0. file \in Store /\ file.jobs[j].last \in Nat
  BY Zenon DEF Inv, TypeInv, TypeOK, Store, Job
<1>1. CASE file' = file
  <2>1. \A n \in Nat : n >= n
    OBVIOUS
  <2>2. QED
    BY <1>0, <1>1, <2>1, Zenon
<1>2. CASE file' # file
  <2>1. PICK p \in Procs :
           \/ pc[p] = "save" /\ op[p] \in Operation /\ file' = Apply(op[p], file)
           \/ /\ file' = prior[p] /\ file = Submitted(prior[p], op[p].job, op[p].when)
              /\ ~Present(prior[p], op[p].job)
    BY <1>2, FileSteps, Zenon
  <2>2. CASE pc[p] = "save" /\ op[p] \in Operation /\ file' = Apply(op[p], file)
    <3>1. j \notin NewIds(op[p])
      BY <2>2, ZenonT(30) DEF Inv, FreshInv, Pending
    <3>2. QED
      BY <1>0, <2>2, <3>1, ApplyLastForward, Zenon
  <2>3. CASE /\ file' = prior[p] /\ file = Submitted(prior[p], op[p].job, op[p].when)
             /\ ~Present(prior[p], op[p].job)
    <3>1. prior[p] \in Store /\ j # op[p].job
      BY <2>3, Zenon DEF Inv, TypeInv, TypeOK
    <3>2. file.jobs[j] = prior[p].jobs[j]
      BY <2>3, <3>1, Zenon DEF Submitted, Store
    <3>3. QED
      BY <1>0, <2>3, <3>2, SMTT(30)
  <2>4. QED
    BY <2>1, <2>2, <2>3, Zenon
<1>3. QED
  BY <1>1, <1>2, Zenon

(* However stale the clock reading of a tick that waited for the lock, no  *)
(* job's LastRun ever goes back.                                           *)
THEOREM LastRunMonotonic == Spec => LastRunNeverGoesBack
<1>1. Init => LastBeforeNext(file)
  BY ComputeNextLater, StoreAssumption, SMTT(30)
     DEF Init, LastBeforeNext, EmptyStore, NoJob, Times
<1>2. Inv /\ LastBeforeNext(file) /\ [Next]_vars =>
        [\A j \in JobIds : Present(file, j) /\ Present(file', j) =>
            file'.jobs[j].last >= file.jobs[j].last]_vars
  BY LastForwardStep, Zenon
<1>3. QED
  BY <1>1, <1>2, Invariance, LastStep, PTL DEF Spec, LastRunNeverGoesBack

----------------------------------------------------------------------------
(* Submissions.                                                            *)

\* In the store, and enabled unless its one occurrence was claimed.
Armed(s, claims, j) ==
  \/ s.jobs[j].status = "on"
  \/ s.jobs[j].status = "off" /\ <<j, s.jobs[j].next>> \in claims

OutcomeInv ==
  /\ \A j \in JobIds : outcome[j] # "none" => j \in used
  /\ \A p \in Procs : Pending(p) => \A j \in NewIds(op[p]) : outcome[j] = "none"
  /\ \A j \in JobIds : outcome[j] = "refused" => ~Present(file, j) /\ NeverClaimed(j)
  /\ \A j \in JobIds : outcome[j] = "removed" => ~Present(file, j)
  /\ \A j \in AtIds : outcome[j] = "accepted" => Armed(file, claimed, j)

(* Only at -r of its ID takes an at job out of the store; only a claim     *)
(* disables it.                                                            *)
LEMMA ApplyArmed ==
  ASSUME NEW o \in Operation, NEW s \in Store, NEW claims, NEW j \in AtIds,
         Armed(s, claims, j), j \notin NewIds(o),
         ~(o.type = "remove" /\ Removable(s, o.ids, o.uid) /\ j \in o.ids)
  PROVE  Armed(Apply(o, s), claims \cup Occurrences(o, s), j)
<1>0. s.jobs \in [JobIds -> Job] /\ j \in JobIds /\ s.jobs[j] \in Job /\ j \notin CronIds
  BY Zenon DEF Store, AtIds, CronIds
<1>1. CASE o.type = "submit"
  BY <1>0, <1>1, Zenon DEF Armed, Apply, Submitted, NewIds, Store
<1>2. CASE o.type = "remove"
  BY <1>0, <1>2, Zenon DEF Armed, Apply, Removed, Store
<1>3. CASE o.type = "replace"
  <2>1. Apply(o, s).jobs[j] = s.jobs[j]
    BY <1>0, <1>3, Zenon DEF Apply, CronReplaced, NewIds
  <2>2. QED
    BY <2>1, Zenon DEF Armed
<1>4. CASE o.type = "uncron"
  BY <1>0, <1>4, Zenon DEF Armed, Apply, CronRemoved
<1>5. CASE o.type = "tick"
  <2>1. CASE j \in Due(s, o.now, o.load)
    <3>1. Apply(o, s).jobs[j] = ClaimedJob(j, s.jobs[j], o.now)
      BY <1>0, <1>5, <2>1, Zenon DEF Apply, Claimed, Store
    <3>2. Apply(o, s).jobs[j].status = "off" /\ Apply(o, s).jobs[j].next = s.jobs[j].next
      BY <1>0, <3>1, Zenon DEF ClaimedJob, Job, AtIds
    <3>3. <<j, s.jobs[j].next>> \in Occurrences(o, s)
      BY <1>5, <2>1, Zenon DEF Occurrences
    <3>4. QED
      BY <3>2, <3>3, Zenon DEF Armed
  <2>2. CASE j \notin Due(s, o.now, o.load)
    <3>1. Apply(o, s).jobs[j] = s.jobs[j]
      BY <1>0, <1>5, <2>2, Zenon DEF Apply, Claimed, Store
    <3>2. QED
      BY <3>1, Zenon DEF Armed
  <2>3. QED
    BY <2>1, <2>2, Zenon
<1>6. QED
  BY <1>1, <1>2, <1>3, <1>4, <1>5, Zenon DEF Operation

(* Steps that leave the file, the claims and every outcome alone.          *)
LEMMA OutcomeQuiet ==
  ASSUME Inv, OutcomeInv, NEW p \in Procs,
         \/ Command(p) \/ Tick(p) \/ StartDaemon(p) \/ StopDaemon(p) \/ Acquire(p)
         \/ Load(p) \/ ConfirmFails(p) \/ Unlock(p) \/ Fire(p) \/ Ended(p) \/ Done(p)
         \/ Crash(p)
  PROVE  OutcomeInv'
<1>0. TypeOK /\ OpInv
  BY DEF Inv, TypeInv
<1>1. CASE Command(p) \/ Tick(p)
  <2>1. PICK o \in Operation : Begin(p, o) /\ NewIds(o) \cap used = {}
    BY <1>0, <1>1, BeginCases, Zenon
  <2>2. NewIds(o) \subseteq JobIds
    BY NewIdsType, Zenon
  <2>3. QED
    BY <1>0, <2>1, <2>2, Zenon DEF TypeOK, OutcomeInv, NeverClaimed, Pending, Begin, Goto
<1>2. CASE StartDaemon(p) \/ StopDaemon(p)
  BY <1>2, Zenon DEF OutcomeInv, NeverClaimed, Pending, StartDaemon, StopDaemon
<1>3. CASE Load(p)
  <2>1. PICK l \in LoadReadings(p) : op' = [op EXCEPT ![p] = WithLoad(op[p], l)]
    BY <1>3, Zenon DEF Load
  <2>2. NewIds(WithLoad(op[p], l)) = NewIds(op[p])
    BY <1>0, <1>3, LoadReadingsType, WithLoadFacts, Zenon DEF Load, OpInv, Pending
  <2>3. QED
    BY <1>0, <1>3, <2>1, <2>2, Zenon DEF TypeOK, OutcomeInv, NeverClaimed, Pending, Load, Goto
<1>4. CASE Acquire(p) \/ ConfirmFails(p)
  BY <1>0, <1>4, ZenonT(30)
     DEF TypeOK, OutcomeInv, NeverClaimed, Pending, Acquire, ConfirmFails, Goto
<1>5. CASE Unlock(p) \/ Fire(p) \/ Ended(p)
  <2>1. /\ UNCHANGED <<file, used, claimed, outcome>>
        /\ \A q \in Procs : Pending(q)' => Pending(q) /\ op'[q] = op[q]
    <3>1. CASE Unlock(p)
      BY <1>0, <3>1, Zenon DEF TypeOK, Pending, Unlock, Forget, Goto
    <3>2. CASE Fire(p)
      BY <1>0, <3>2, Zenon DEF TypeOK, Pending, Fire, FireJob, Goto
    <3>3. CASE Ended(p)
      BY <1>0, <3>3, Zenon DEF TypeOK, Pending, Ended, Goto
    <3>4. QED
      BY <1>5, <3>1, <3>2, <3>3, Zenon
  <2>2. QED
    BY <2>1, Zenon DEF OutcomeInv, NeverClaimed
<1>6. CASE Done(p) \/ Crash(p)
  <2>1. UNCHANGED <<file, used, claimed, outcome>> /\ Return(p)
    BY <1>6, Zenon DEF Done, Crash
  <2>2. ASSUME NEW q \in Procs, Pending(q)' PROVE Pending(q) /\ op'[q] = op[q]
    BY <1>0, <2>1, <2>2, Zenon DEF TypeOK, Pending, Return, Forget, Goto
  <2>3. QED
    BY <2>1, <2>2, Zenon DEF OutcomeInv, NeverClaimed
<1>7. QED
  BY <1>1, <1>2, <1>3, <1>4, <1>5, <1>6, Zenon

(* Errors before the save: the job never was in the store.                 *)
LEMMA OutcomeFails ==
  ASSUME Inv, OutcomeInv, NEW p \in Procs, AcquireFails(p) \/ Fails(p)
  PROVE  OutcomeInv'
<1>1. /\ TypeOK /\ op[p] \in Operation /\ pc[p] \in {"acquire", "load", "save"}
      /\ file' = file /\ claimed' = claimed /\ used' = used
      /\ Tell(p, "refused") /\ Return(p)
  BY Zenon DEF Inv, TypeInv, OpInv, Pending, AcquireFails, Fails
<1>2. \A j \in NewIds(op[p]) : j \in used /\ NeverClaimed(j) /\ ~Present(file, j)
  BY <1>1, Zenon DEF Inv, FreshInv, Pending
<1>3. \A q \in Procs : Pending(q)' =>
        q # p /\ Pending(q) /\ op'[q] = op[q] /\ NewIds(op[q]) \cap NewIds(op[p]) = {}
  BY <1>1, Zenon DEF TypeOK, Inv, FreshInv, Pending, Return, Forget, Goto
<1>4. \A j \in JobIds : outcome'[j] = outcome[j] \/ (j \in NewIds(op[p]) /\ outcome'[j] = "refused")
  <2>1. CASE op[p].type = "submit"
    <3>1. NewIds(op[p]) = {op[p].job}
      BY <2>1, Zenon DEF NewIds
    <3>2. outcome' = [outcome EXCEPT ![op[p].job] = "refused"]
      BY <1>1, <2>1, Zenon DEF Tell
    <3>3. QED
      BY <1>1, <3>1, <3>2, Zenon DEF TypeOK
  <2>2. CASE op[p].type # "submit"
    BY <1>1, <2>2, Zenon DEF Tell
  <2>3. QED
    BY <2>1, <2>2, Zenon
<1>5. \A q \in Procs : Pending(q)' => \A j \in NewIds(op'[q]) : j \in JobIds
  BY <1>3, NewIdsType, Zenon DEF Inv, TypeInv, OpInv
<1>6. AtIds \subseteq JobIds
  BY DEF AtIds
<1>7. \A j \in JobIds : outcome'[j] # "none" => j \in used'
  BY <1>1, <1>2, <1>4, Zenon DEF OutcomeInv
<1>8. \A q \in Procs : Pending(q)' => \A j \in NewIds(op'[q]) : outcome'[j] = "none"
  BY <1>3, <1>4, <1>5, Zenon DEF OutcomeInv
<1>9. \A j \in JobIds : NeverClaimed(j)' <=> NeverClaimed(j)
  BY <1>1, Zenon DEF NeverClaimed
<1>10. \A j \in JobIds : outcome'[j] = "refused" => ~Present(file', j) /\ NeverClaimed(j)'
  BY <1>1, <1>2, <1>4, <1>9, Zenon DEF OutcomeInv
<1>11. \A j \in AtIds : outcome'[j] = "accepted" => Armed(file', claimed', j)
  BY <1>1, <1>4, <1>6, Zenon DEF OutcomeInv
<1>12. \A j \in JobIds : outcome'[j] = "removed" => ~Present(file', j)
  BY <1>1, <1>4, Zenon DEF OutcomeInv
<1>13. QED
  BY <1>7, <1>8, <1>10, <1>11, <1>12, Zenon DEF OutcomeInv

(* The end of a submission's window: confirmed, rolled back, or leaked by  *)
(* a rollback that failed.                                                 *)
LEMMA OutcomeSettle ==
  ASSUME Inv, OutcomeInv, NEW p \in Procs, Confirm(p) \/ Rollback(p)
  PROVE  OutcomeInv'
<1>1. /\ TypeOK /\ op[p] \in Operation /\ op[p].type = "submit"
      /\ pc[p] \in {"confirm", "rollback"} /\ prior[p] \in Store
      /\ file = Submitted(prior[p], op[p].job, op[p].when)
      /\ NewIds(op[p]) = {op[p].job} /\ op[p].job \in AtIds /\ op[p].job \in JobIds
  <2>1. /\ TypeOK /\ op[p] \in Operation /\ op[p].type = "submit"
        /\ pc[p] \in {"confirm", "rollback"} /\ prior[p] \in Store
        /\ file = Apply(op[p], prior[p])
    BY Zenon DEF Inv, TypeInv, TypeOK, OpInv, Pending, NoStaleSnapshot, Confirm, Rollback
  <2>2. op[p].job \in AtIds /\ op[p].job \in JobIds
    BY <2>1, Zenon DEF Operation, AtIds
  <2>3. QED
    BY <2>1, <2>2, Zenon DEF Apply, NewIds
<1>2. op[p].job \in used /\ NeverClaimed(op[p].job) /\ ~Present(prior[p], op[p].job)
  BY <1>1, Zenon DEF Inv, FreshInv, Pending
<1>3. /\ file.jobs[op[p].job].status = "on"
      /\ \A j \in JobIds : j # op[p].job => prior[p].jobs[j] = file.jobs[j]
  BY <1>1, Zenon DEF Submitted, Store
<1>4. /\ claimed' = claimed /\ used' = used
      /\ \A j \in JobIds : j # op[p].job =>
           outcome'[j] = outcome[j] /\ file'.jobs[j] = file.jobs[j]
  BY <1>1, <1>3, Zenon DEF TypeOK, Confirm, Rollback, Tell
<1>5. \/ outcome'[op[p].job] = "accepted" /\ file' = file
      \/ outcome'[op[p].job] = "refused" /\ file' = prior[p]
      \/ outcome'[op[p].job] = "leaked"
  BY <1>1, Zenon DEF TypeOK, Confirm, Rollback, Tell
<1>6. \A q \in Procs : Pending(q)' =>
        q # p /\ Pending(q) /\ op'[q] = op[q] /\ NewIds(op[q]) \cap NewIds(op[p]) = {}
  BY <1>1, Zenon DEF TypeOK, Inv, FreshInv, Pending, Confirm, Rollback, Goto
<1>7. \A q \in Procs : Pending(q)' => NewIds(op[q]) \subseteq JobIds
  BY <1>6, NewIdsType, Zenon DEF Inv, TypeInv, OpInv
<1>8. \A j \in JobIds : outcome'[j] # "none" => j \in used'
  BY <1>2, <1>4, Zenon DEF OutcomeInv
<1>9. \A q \in Procs : Pending(q)' => \A j \in NewIds(op'[q]) : outcome'[j] = "none"
  BY <1>1, <1>4, <1>6, <1>7, Zenon DEF OutcomeInv
<1>10. \A j \in JobIds : outcome'[j] = "refused" => ~Present(file', j) /\ NeverClaimed(j)
  BY <1>2, <1>4, <1>5, Zenon DEF OutcomeInv, Present
<1>11. \A j \in AtIds : outcome'[j] = "accepted" => Armed(file', claimed', j)
  <2>1. AtIds \subseteq JobIds
    BY DEF AtIds
  <2>2. ASSUME NEW j \in AtIds, j # op[p].job, outcome'[j] = "accepted"
        PROVE  Armed(file', claimed', j)
    BY <1>4, <2>1, <2>2, Zenon DEF OutcomeInv, Armed
  <2>3. ASSUME outcome'[op[p].job] = "accepted"
        PROVE  Armed(file', claimed', op[p].job)
    BY <1>3, <1>5, <2>3, Zenon DEF Armed
  <2>4. QED
    BY <2>2, <2>3, Zenon
<1>12. \A j \in JobIds : outcome'[j] = "removed" => ~Present(file', j)
  BY <1>4, <1>5, Zenon DEF OutcomeInv, Present
<1>13. QED
  BY <1>4, <1>8, <1>9, <1>10, <1>11, <1>12, Zenon DEF OutcomeInv, NeverClaimed

(* The save of any transaction.                                            *)
LEMMA OutcomeSave ==
  ASSUME Inv, OutcomeInv, NEW p \in Procs, Save(p)
  PROVE  OutcomeInv'
<1>1. /\ TypeOK /\ op[p] \in Operation /\ file \in Store /\ pc[p] = "save"
      /\ file' = Apply(op[p], file) /\ prior[p] = file /\ used' = used /\ op' = op
      /\ claimed' = claimed \cup Occurrences(op[p], file)
  BY Zenon DEF Inv, TypeInv, TypeOK, OpInv, Pending, NoStaleSnapshot, DueInv, Save
<1>2. \A c \in Occurrences(op[p], file) : Present(file, c[1])
  <2>1. ASSUME NEW c \in Occurrences(op[p], file) PROVE Present(file, c[1])
    <3>1. PICK j \in Due(file, op[p].now, op[p].load) : c = <<j, file.jobs[j].next>>
      BY <2>1, Zenon DEF Occurrences
    <3>2. c[1] = j /\ file.jobs[j].status = "on"
      BY <3>1, Zenon DEF Due
    <3>3. QED
      BY <3>2, Zenon DEF Present
  <2>2. QED
    BY <2>1, Zenon
<1>3. \A j \in JobIds :
        \/ outcome'[j] = outcome[j]
           /\ ~(op[p].type = "remove" /\ Removable(file, op[p].ids, op[p].uid) /\ j \in op[p].ids)
        \/ outcome'[j] = "removed" /\ Present(file, j) /\ ~Present(file', j)
  <2>1. op[p].type = "remove" =>
          op[p].ids \subseteq JobIds
          /\ (OwnJobs(op[p], file) <=> Removable(file, op[p].ids, op[p].uid))
    BY <1>1, Zenon DEF Operation, OwnJobs, Removable, Present, AtIds
  <2>2. CASE op[p].type = "remove" /\ Removable(file, op[p].ids, op[p].uid)
    <3>1. \A j \in op[p].ids : Present(file, j) /\ ~Present(file', j)
      BY <1>1, <2>1, <2>2, Zenon DEF Apply, Removed, Removable, Present, NoJob, Store
    <3>2. \A j \in JobIds : outcome'[j] = IF j \in op[p].ids THEN "removed" ELSE outcome[j]
      BY <1>1, <2>1, <2>2, Zenon DEF Save
    <3>3. QED
      BY <3>1, <3>2, Zenon
  <2>3. CASE ~(op[p].type = "remove" /\ Removable(file, op[p].ids, op[p].uid))
    BY <1>1, <2>1, <2>3, Zenon DEF Save
  <2>4. QED
    BY <2>2, <2>3, Zenon
<1>4. \A j \in NewIds(op[p]) : j \in used /\ outcome[j] = "none"
  BY <1>1, Zenon DEF Inv, FreshInv, OutcomeInv, Pending
<1>5. \A j \in JobIds : Present(file', j) => Present(file, j) \/ j \in NewIds(op[p])
  BY <1>1, ApplyPresent, Zenon
<1>6. \A j \in JobIds : outcome'[j] # "none" => j \in used'
  BY <1>1, <1>3, Zenon DEF Inv, FreshInv, OutcomeInv
<1>7. \A q \in Procs : Pending(q)' => \A j \in NewIds(op'[q]) : outcome'[j] = "none"
  <2> SUFFICES ASSUME NEW q \in Procs, Pending(q)', NEW j \in NewIds(op[q])
               PROVE  outcome'[j] = "none"
    BY <1>1, Zenon
  <2>1. Pending(q) /\ op[q] \in Operation
    BY <1>1, Zenon DEF TypeOK, Inv, TypeInv, OpInv, Pending, Save, Goto
  <2>2. j \in JobIds /\ outcome[j] = "none"
    BY <2>1, NewIdsType, Zenon DEF OutcomeInv
  <2>3. ~Present(file, j)
    <3>1. pc[q] \notin {"confirm", "rollback"}
      BY <1>1, Zenon DEF Inv, LockInv, InTransaction
    <3>2. QED
      BY <2>1, <3>1, Zenon DEF Inv, FreshInv
  <2>4. QED
    BY <1>3, <2>2, <2>3, Zenon
<1>8. \A j \in JobIds : outcome'[j] = "refused" => ~Present(file', j) /\ NeverClaimed(j)'
  <2> SUFFICES ASSUME NEW j \in JobIds, outcome'[j] = "refused"
               PROVE  ~Present(file', j) /\ NeverClaimed(j)'
    BY Zenon
  <2>1. outcome[j] = "refused" /\ ~Present(file, j) /\ NeverClaimed(j)
    BY <1>3, Zenon DEF OutcomeInv
  <2>2. QED
    BY <1>1, <1>2, <1>4, <1>5, <2>1, Zenon DEF NeverClaimed
<1>9. \A j \in AtIds : outcome'[j] = "accepted" => Armed(file', claimed', j)
  <2> SUFFICES ASSUME NEW j \in AtIds, outcome'[j] = "accepted"
               PROVE  Armed(file', claimed', j)
    OBVIOUS
  <2>1. /\ j \in JobIds /\ outcome[j] = "accepted"
        /\ ~(op[p].type = "remove" /\ Removable(file, op[p].ids, op[p].uid) /\ j \in op[p].ids)
    BY <1>3, Zenon DEF AtIds
  <2>2. Armed(file, claimed, j) /\ j \notin NewIds(op[p])
    BY <1>4, <2>1, Zenon DEF OutcomeInv
  <2>3. QED
    BY <1>1, <2>1, <2>2, ApplyArmed, Zenon
<1>10. \A j \in JobIds : outcome'[j] = "removed" => ~Present(file', j)
  <2> SUFFICES ASSUME NEW j \in JobIds, outcome'[j] = "removed", outcome[j] = "removed"
               PROVE  ~Present(file', j)
    BY <1>3, Zenon
  <2>1. ~Present(file, j) /\ j \notin NewIds(op[p])
    BY <1>4, Zenon DEF OutcomeInv
  <2>2. QED
    BY <1>5, <2>1, Zenon
<1>11. QED
  BY <1>6, <1>7, <1>8, <1>9, <1>10, Zenon DEF OutcomeInv

(* What a submitter was told stays true: an accepted job is in the store   *)
(* and armed until it is claimed or an at -r of its owner succeeds, after  *)
(* which it never returns; a refused one is not and never was claimed.     *)
THEOREM SubmissionsKept == Spec => []SubmissionOutcomeHolds
<1>1. Init => OutcomeInv
  BY Zenon DEF Init, OutcomeInv, Pending, AtIds
<1>2. Inv /\ OutcomeInv /\ [Next]_vars => OutcomeInv'
  <2> SUFFICES ASSUME Inv, OutcomeInv, [Next]_vars PROVE OutcomeInv'
    OBVIOUS
  <2>1. CASE Advance \/ UNCHANGED vars
    BY <2>1, Zenon DEF OutcomeInv, NeverClaimed, Pending, Advance, vars
  <2>2. QED
    BY <2>1, OutcomeQuiet, OutcomeFails, OutcomeSettle, OutcomeSave, Zenon DEF Next, Transact
<1>3. OutcomeInv => SubmissionOutcomeHolds
  BY Zenon DEF OutcomeInv, SubmissionOutcomeHolds, Armed, NeverClaimed, AtIds
<1>4. QED
  BY <1>1, <1>2, <1>3, Invariance, PTL DEF Spec

----------------------------------------------------------------------------
(* What a tick claims is a time that has come.                             *)

\* NextRun of a crontab entry is the zero time or an instant of the entry.
NextIsInstant(s) == \A j \in CronIds :
  \/ s.jobs[j].next = 0
  \/ \E t \in Times : t < s.jobs[j].next /\ CronNext[j][t] = s.jobs[j].next

(* computeNext gives an entry an instant of its own, or the zero time.     *)
LEMMA ComputeNextInstant ==
  ASSUME NEW j \in CronIds, NEW t \in Times
  PROVE  \/ computeNext(j, t, t) = 0
         \/ \E u \in Times : u < computeNext(j, t, t) /\ CronNext[j][u] = computeNext(j, t, t)
<1>1. j \in JobIds /\ computeNext(j, t, t) = CronNext[j][t]
  BY Zenon DEF CronIds, computeNext
<1>2. t \in Nat /\ CronNext[j][t] \in Nat /\ (CronNext[j][t] = 0 \/ CronNext[j][t] > t)
  BY <1>1, StoreAssumption DEF Times
<1>3. \A m, n \in Nat : m > n => n < m
  OBVIOUS
<1>4. QED
  BY <1>1, <1>2, <1>3, Zenon

(* Every transaction leaves the entries due at instants of theirs.         *)
LEMMA ApplyNextInstant ==
  ASSUME NEW o \in Operation, NEW s \in Store, NextIsInstant(s)
  PROVE  NextIsInstant(Apply(o, s))
<1>0. s.jobs \in [JobIds -> Job]
  BY Zenon DEF Store
<1> SUFFICES ASSUME NEW j \in CronIds, Apply(o, s).jobs[j].next # s.jobs[j].next
             PROVE  \/ Apply(o, s).jobs[j].next = 0
                    \/ \E t \in Times : /\ t < Apply(o, s).jobs[j].next
                                        /\ CronNext[j][t] = Apply(o, s).jobs[j].next
  BY Zenon DEF NextIsInstant
<1>1. j \in JobIds /\ j \notin AtIds
  BY Zenon DEF CronIds, AtIds
<1>2. CASE o.type = "submit"
  <2>1. o.job # j
    BY <1>1, <1>2, Zenon DEF Operation
  <2>2. QED
    BY <1>0, <1>1, <1>2, <2>1, Zenon DEF Apply, Submitted, Store
<1>3. CASE o.type = "remove"
  BY <1>0, <1>1, <1>3, Zenon DEF Apply, Removed, NoJob, Store
<1>4. CASE o.type = "replace"
  <2>1. o.now \in Times
    BY <1>4, Zenon DEF Operation
  <2>2. CASE j \in o.ids
    <3>1. Apply(o, s).jobs[j].next = computeNext(j, o.now, o.now)
      BY <1>1, <1>4, <2>2, Zenon DEF Apply, CronReplaced
    <3>2. QED
      BY <2>1, <3>1, ComputeNextInstant, Zenon
  <2>3. CASE j \notin o.ids
    BY <1>1, <1>4, <2>3, Zenon DEF Apply, CronReplaced, NoJob
  <2>4. QED
    BY <2>2, <2>3, Zenon
<1>5. CASE o.type = "uncron"
  BY <1>1, <1>5, Zenon DEF Apply, CronRemoved, NoJob
<1>6. CASE o.type = "tick"
  <2>1. o.now \in Times /\ s.jobs[j] \in Job /\ Kind[j] # "at"
    BY <1>0, <1>1, <1>6, Zenon DEF Operation, AtIds
  <2>2. Apply(o, s).jobs[j] = ClaimedJob(j, s.jobs[j], o.now)
    BY <1>0, <1>1, <1>6, Zenon DEF Apply, Claimed, Store
  <2>3. Apply(o, s).jobs[j].next = computeNext(j, o.now, o.now)
    BY <2>1, <2>2, Zenon DEF ClaimedJob, Job
  <2>4. QED
    BY <2>1, <2>3, ComputeNextInstant, Zenon
<1>7. QED
  BY <1>2, <1>3, <1>4, <1>5, <1>6, Zenon DEF Operation

(* No step of any process makes an entry due at another time.              *)
LEMMA NextInstantStep == Inv /\ NextIsInstant(file) /\ [Next]_vars => NextIsInstant(file)'
<1> SUFFICES ASSUME Inv, NextIsInstant(file), [Next]_vars PROVE NextIsInstant(file')
  BY Zenon DEF NextIsInstant
<1>1. CASE file' = file
  BY <1>1, Zenon
<1>2. CASE file' # file
  <2>1. PICK p \in Procs :
           \/ op[p] \in Operation /\ file' = Apply(op[p], file)
           \/ /\ file' = prior[p] /\ file = Submitted(prior[p], op[p].job, op[p].when)
              /\ op[p].job \in AtIds
    BY <1>2, FileSteps, Zenon
  <2>2. file \in Store /\ prior[p] \in Store
    BY Zenon DEF Inv, TypeInv, TypeOK
  <2>3. CASE op[p] \in Operation /\ file' = Apply(op[p], file)
    BY <2>2, <2>3, ApplyNextInstant, Zenon
  <2>4. CASE /\ file' = prior[p] /\ file = Submitted(prior[p], op[p].job, op[p].when)
             /\ op[p].job \in AtIds
    <3>1. op[p].job \notin CronIds /\ CronIds \subseteq JobIds
      BY <2>4, Zenon DEF AtIds, CronIds
    <3>2. \A j \in CronIds : file.jobs[j] = prior[p].jobs[j]
      BY <2>2, <2>4, <3>1 DEF Submitted, Store
    <3>3. QED
      BY <2>4, <3>2, Zenon DEF NextIsInstant
  <2>5. QED
    BY <2>1, <2>3, <2>4, Zenon
<1>3. QED
  BY <1>1, <1>2, Zenon

\* The occurrence c has come by the time n, and its job was due then.
Scheduled(c, n) ==
  /\ c[2] \in 1 .. n
  /\ Kind[c[1]] = "cron" => \E t \in Times : t < c[2] /\ CronNext[c[1]][t] = c[2]

(* What a transaction selects has come by its clock reading, and is an     *)
(* instant of the entry it belongs to.                                     *)
LEMMA SelectedIsScheduled ==
  ASSUME NEW o \in Operation, NEW s \in Store, NextIsInstant(s), NEW n \in Nat,
         o.type = "tick" => o.now <= n, NEW c \in Occurrences(o, s)
  PROVE  Scheduled(c, n)
<1>1. o.type = "tick" /\ o.now \in Times
  BY Zenon DEF Occurrences, Operation
<1>2. PICK j \in Due(s, o.now, o.load) : c = <<j, s.jobs[j].next>>
  BY <1>1, Zenon DEF Occurrences
<1>3. c[1] = j /\ c[2] = s.jobs[j].next /\ j \in JobIds
  BY <1>2, Zenon DEF Due
<1>4. c[2] # 0 /\ c[2] <= o.now
  BY <1>2, <1>3, Zenon DEF Due
<1>5. c[2] \in Nat /\ o.now \in Nat
  BY <1>1, <1>3, StoreAssumption DEF Store, Job, Times
<1>6. \A x, y, z \in Nat : x # 0 /\ x <= y /\ y <= z => x \in 1 .. z
  OBVIOUS
<1>7. c[2] \in 1 .. n
  BY <1>1, <1>4, <1>5, <1>6, Zenon
<1>8. ASSUME Kind[c[1]] = "cron"
      PROVE  \E t \in Times : t < c[2] /\ CronNext[c[1]][t] = c[2]
  BY <1>3, <1>4, <1>8, Zenon DEF NextIsInstant, CronIds
<1>9. QED
  BY <1>7, <1>8, Zenon DEF Scheduled

(* A tick never claims the zero time, nor a crontab entry at a time that   *)
(* is none of its instants, however old the tick's clock reading.          *)
THEOREM ScheduledClaims == Spec => []ClaimsAreScheduled
<1>1. Init => NextIsInstant(file) /\ ClaimsAreScheduled
  <2> SUFFICES ASSUME Init PROVE NextIsInstant(file) /\ ClaimsAreScheduled
    BY Zenon
  <2>1. 1 \in Times
    BY StoreAssumption DEF Times
  <2>2. PICK E : file = EmptyStore(E) /\ claimed = {}
    BY Zenon DEF Init
  <2>3. \A j \in CronIds : file.jobs[j].next = 0 \/ file.jobs[j].next = computeNext(j, 1, 1)
    BY <2>2, Zenon DEF EmptyStore, NoJob, CronIds
  <2>4. NextIsInstant(file)
    BY <2>1, <2>3, ComputeNextInstant, Zenon DEF NextIsInstant
  <2>5. QED
    BY <2>2, <2>4, Zenon DEF ClaimsAreScheduled
<1>2. Inv /\ NextIsInstant(file) /\ ClaimsAreScheduled /\ [Next]_vars => ClaimsAreScheduled'
  <2> SUFFICES ASSUME Inv, NextIsInstant(file), \A c \in claimed : Scheduled(c, now), [Next]_vars
               PROVE  \A c \in claimed' : Scheduled(c, now')
    BY Zenon DEF ClaimsAreScheduled, Scheduled
  <2>1. TypeOK /\ OpInv /\ now \in Nat /\ now' \in Nat /\ now <= now'
    <3>1. TypeOK /\ OpInv /\ now \in Nat
      BY StoreAssumption DEF Inv, TypeInv, TypeOK, Times
    <3>2. now' = now \/ now' = now + 1
      BY <3>1, BeginCases, Zenon
         DEF Next, Transact, Advance, Begin, StartDaemon, StopDaemon, Acquire, AcquireFails,
             Load, Fails, Save, Confirm, ConfirmFails, Rollback, Unlock, Fire, Ended, Done,
             Crash, vars
    <3>3. QED
      BY <3>1, <3>2
  <2>2. \A x : x \in 1 .. now => x \in 1 .. now'
    BY <2>1
  <2>3. \A c : Scheduled(c, now) => Scheduled(c, now')
    BY <2>2, Zenon DEF Scheduled
  <2>4. CASE claimed' = claimed
    BY <2>3, <2>4, Zenon
  <2>5. CASE \E p \in Procs : Save(p)
    <3>1. PICK p \in Procs : Save(p)
      BY <2>5, Zenon
    <3>2. /\ op[p] \in Operation /\ file \in Store
          /\ op[p].type = "tick" => op[p].now <= now
          /\ claimed' = claimed \cup Occurrences(op[p], file)
      BY <2>1, <3>1, Zenon DEF TypeOK, OpInv, Pending, Inv, DueInv, Save
    <3>3. \A c \in Occurrences(op[p], file) : Scheduled(c, now)
      BY <2>1, <3>2, SelectedIsScheduled, Zenon
    <3>4. QED
      BY <2>3, <3>2, <3>3, Zenon
  <2>6. QED
    BY <2>1, <2>4, <2>5, BeginCases, Zenon
       DEF Next, Transact, Advance, Begin, StartDaemon, StopDaemon, Acquire, AcquireFails,
           Load, Fails, Confirm, ConfirmFails, Rollback, Unlock, Fire, Ended, Done, Crash, vars
<1>3. QED
  BY <1>1, <1>2, Invariance, NextInstantStep, PTL DEF Spec

=============================================================================
