----------------------------- MODULE MCScheduleCLI ---------------------------
(* The jobs of MCSchedule, with the unlocked subcommands of "schedule".    *)
EXTENDS ScheduleCLI, TLC

CONSTANTS a, b, e, c, d, u, p1, p2

MCKind == [j \in JobIds |-> CASE j = e -> "every" [] j \in {c, d} -> "cron" [] OTHER -> "at"]
MCOwner == [j \in JobIds |-> u]
MCInterval == [j \in JobIds |-> 1]
\* The entry c names one instant only: it has no next run from there on.
MCCronNext == [j \in JobIds |-> [t \in Times |-> IF t < 2 THEN 2 ELSE 0]]
=============================================================================
