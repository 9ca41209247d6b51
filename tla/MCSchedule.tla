----------------------------- MODULE MCSchedule -----------------------------
(* A small instance of Schedule: two one-shot jobs of which one is a batch *)
(* job, a repeating job and crontab entries.                                *)
EXTENDS Schedule, TLC

CONSTANTS a, b, e, c, d, u, v, p1, p2

MCKind == [j \in JobIds |-> CASE j = e -> "every" [] j \in {c, d} -> "cron" [] OTHER -> "at"]
MCOwner == [j \in JobIds |-> IF j = b /\ v \in Users THEN v ELSE u]
MCInterval == [j \in JobIds |-> 1]
\* The entry c names one instant only: it has no next run from there on.
MCCronNext == [j \in JobIds |-> [t \in Times |-> IF t < 2 THEN 2 ELSE 0]]
Symmetry == Permutations(Procs)

\* Liveness: the repeating job is in the store, and users submit and remove
\* at jobs; the crontab commands are left to the other runs.
AtCommands ==
  \A p \in Procs : /\ op'[p].type \notin {"replace", "uncron"}
                   /\ op'[p].type = "remove" => op'[p].ids \subseteq AtIds
LiveSpec == Init /\ used = JobIds \ AtIds /\ [][Next /\ AtCommands]_vars /\ Fairness
=============================================================================
