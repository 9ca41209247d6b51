---------------------------- MODULE ScheduleCLI ----------------------------
(***************************************************************************)
(* The "schedule" command's own writers beside the locked ones of          *)
(* Schedule.tla: add, enable, disable, rm and run load the store, change   *)
(* their copy and save it WITHOUT taking schedule.lock; run executes the   *)
(* job's command between its load and its save.                            *)
(***************************************************************************)
EXTENDS Schedule

CONSTANT CliOps  \* the subcommands in use: a subset of CliTypes

CliTypes == {"add", "enable", "disable", "rm", "run"}

\* The jobs a command's operand names, by ID or by a name they share.
Named(o, s) == {j \in o.ids : Present(s, j)}

\* What the command makes of the store it loaded; run records its time later.
CliApply(o, s) ==
  [s EXCEPT !.jobs = [j \in JobIds |->
     CASE o.type = "add" /\ j \in o.ids ->
            [status |-> "on", last |-> 0, next |-> o.next]
       [] o.type = "enable" /\ j \in Named(o, s) -> [s.jobs[j] EXCEPT !.status = "on"]
       [] o.type = "disable" /\ j \in Named(o, s) -> [s.jobs[j] EXCEPT !.status = "off"]
       [] o.type = "rm" /\ j \in Named(o, s) -> NoJob
       [] OTHER -> s.jobs[j]]]

CliBegin(p, o) ==
  /\ pc[p] = "idle"
  /\ lease # p
  /\ o.type \in CliOps
  /\ op' = [op EXCEPT ![p] = o]
  /\ used' = used \cup o.ids
  /\ Goto(p, "cliload")
  /\ UNCHANGED <<now, file, lock, lease, snap, prior, due, claimed, started, outcome>>

\* add: exactly one of --cron, --every, --at; the next run is fixed at once.
CliAdd(p) ==
  \E j \in JobIds \ used :
    \E next \in IF Kind[j] = "at" THEN Times ELSE {computeNext(j, now, now)} :
      CliBegin(p, [type |-> "add", ids |-> {j}, next |-> next])

CliChange(p) ==
  \E t \in {"enable", "disable", "rm"}, ids \in (SUBSET used) \ {{}} :
    CliBegin(p, [type |-> t, ids |-> ids])

CliRun(p) == \E j \in used : CliBegin(p, [type |-> "run", ids |-> {j}])

CliLoad(p) ==
  /\ pc[p] = "cliload"
  /\ op[p].type = "add" \/ Named(op[p], file) # {}
  /\ snap' = [snap EXCEPT ![p] = CliApply(op[p], file)]
  /\ Goto(p, IF op[p].type = "run" THEN "clirun" ELSE "clisave")
  /\ UNCHANGED <<now, file, lock, lease, op, prior, due, used, claimed, started, outcome>>

\* The job's command has run; its LastRun is set in the copy loaded before.
CliFire(p) ==
  /\ pc[p] = "clirun"
  /\ snap' = [snap EXCEPT ![p].jobs = [j \in JobIds |->
       IF j \in op[p].ids THEN [@[j] EXCEPT !.last = now] ELSE @[j]]]
  /\ Goto(p, "clisave")
  /\ UNCHANGED <<now, file, lock, lease, op, prior, due, used, claimed, started, outcome>>

\* No such job, an unreadable store, a failed command or a failed save.
CliFails(p) ==
  /\ pc[p] \in {"cliload", "clirun", "clisave"}
  /\ Return(p)
  /\ UNCHANGED <<now, file, lock, lease, used, claimed, started, outcome>>

CliSave(p) ==
  /\ pc[p] = "clisave"
  /\ file' = snap[p]
  /\ outcome' = [j \in JobIds |->
       IF j \notin op[p].ids THEN outcome[j]
       ELSE CASE op[p].type = "add" -> "accepted"
              [] op[p].type = "rm" /\ outcome[j] = "accepted" -> "removed"
              [] OTHER -> outcome[j]]
  /\ Return(p)
  /\ UNCHANGED <<now, lock, lease, used, claimed, started>>

CliNext ==
  \/ Next
  \/ \E p \in Procs : \/ CliAdd(p) \/ CliChange(p) \/ CliRun(p)
                      \/ CliLoad(p) \/ CliFire(p) \/ CliFails(p) \/ CliSave(p)

CliSpec == Init /\ [][CliNext]_vars

----------------------------------------------------------------------------
(* UpdateJobs: "Writers must use this instead of a LoadJobs/SaveJobs pair  *)
(* so a daemon tick cannot overwrite a submission from a stale snapshot."  *)
(* A submission its at command confirmed is in the store until removed.    *)
NoLostSubmission ==
  \A j \in AtIds : outcome[j] = "accepted" => Present(file, j)

(* tick: "one-shot `at` jobs are disabled after firing".  A claimed at job *)
(* that nobody enables again stays disabled.                               *)
OneShotStaysDisabled ==
  \A c \in claimed : Kind[c[1]] = "at" => file.jobs[c[1]].status # "on"

(* ReplaceCron: "atomically replaces cron jobs and their byte-exact        *)
(* submitted source while leaving at/batch/general scheduler jobs          *)
(* untouched".  A job added with "schedule add" is in the store until it   *)
(* is removed with "schedule rm".                                          *)
GeneralJobsUntouched ==
  \A j \in JobIds : outcome[j] = "accepted" => Present(file, j)
=============================================================================
