--------------------------- MODULE AtomicSchedule ---------------------------
(***************************************************************************)
(* What the schedule store promises: every command and every tick takes    *)
(* effect on the current store at one instant or not at all, and a tick    *)
(* that takes effect claims exactly the occurrences due in that store.     *)
(* No locks, snapshots, files or crashes appear here.                      *)
(***************************************************************************)
EXTENDS JobStore

VARIABLES
  store,    \* the content of the schedule store
  claimed,  \* the occurrences <<job, time>> some tick has claimed
  now       \* the clock

avars == <<store, claimed, now>>

Init ==
  /\ \E E \in SUBSET (JobIds \ AtIds) : store = EmptyStore(E)
  /\ claimed = {}
  /\ now = 1

Advance == now < MaxTime /\ now' = now + 1 /\ UNCHANGED <<store, claimed>>

\* An ID is new when the store does not hold it and no tick ever claimed it.
New(j) == ~Present(store, j) /\ \A c \in claimed : c[1] # j

Transaction(o) ==
  /\ \A j \in NewIds(o) : New(j)
  /\ o.type = "tick" => o.now <= now
  /\ store' = Apply(o, store)
  /\ claimed' = claimed \cup Occurrences(o, store)
  /\ now' = now

Next == Advance \/ \E o \in Operation : Transaction(o)

Spec == Init /\ [][Next]_avars

----------------------------------------------------------------------------
(* A step never claims an occurrence that was claimed before.              *)
ClaimAtMostOnce ==
  [][\A o \in Operation :
       Transaction(o) => Occurrences(o, store) \cap claimed = {}]_avars
=============================================================================
