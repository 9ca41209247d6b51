------------------------------- MODULE Xargs -------------------------------
(***************************************************************************)
(* cmds/xargs: run() and execBatches, composed with the commands it runs.  *)
(* Batch j is run by worker j (the loop itself when there is one process,  *)
(* a goroutine otherwise) and the command is "timeout ... COMMAND", which  *)
(* Timeout.tla models, so that xargs meets every way a child can end.      *)
(***************************************************************************)
EXTENDS XargsPlan, Timeout

CONSTANT Cases    \* the inputs, options and timeout options a run may be given

VARIABLES
  input, opts, posix,   \* what the run is given; never change
  o,         \* the options in effect
  xpc,       \* where run() and the dispatching loop are
  batches,   \* the planned batches
  next,      \* the batch the loop comes to next
  wpc,       \* where each worker is
  code,      \* what a worker's runOne passes to note, 0 if it does not
  stop,      \* the workers whose runOne returned true
  wfail,     \* the workers that met a write error
  mu,        \* the worker that holds mu, NoJob if none
  stopped, worst, exit,
  out        \* the writes made to the shared output, in order

xvars == <<input, opts, posix, o, xpc, batches, next, wpc, code, stop, wfail, mu,
           stopped, worst, exit, out>>
given == <<input, opts, posix, o, topts>>
vars == <<xvars, tvars>>

NoJob == 0
None == -1

\* Jobs has a number for every batch of every case.  That the options and
\* the batches of a case have their types is stated here and proved, of every
\* input and every options, in XargsPlanProofs.
ASSUME XargsAssumption ==
  /\ Jobs \subseteq Nat \ {NoJob}
  /\ IsFiniteSet(Jobs)
  /\ \A c \in Cases :
       /\ c.input \in Seq(InputLine)
       /\ c.opts \in Seq(XOption)
       /\ c.posix \in BOOLEAN
       /\ c.topts \in Options
       /\ LET parsed == Parse(c.opts, c.posix)
              planned == PlanFor(c.input, parsed).batches
          IN  Usable(c.opts, parsed) =>
                /\ Limited(parsed).interactive \in BOOLEAN
                /\ Limited(parsed).maxProcs \in Nat
                /\ planned \in Seq(Range(planned))
                /\ DOMAIN planned \subseteq Jobs

Procs ==
  IF o.interactive THEN 1 ELSE IF o.maxProcs = 0 THEN Len(batches) ELSE o.maxProcs

Parallel == Procs > 1

XTypeOK ==
  /\ xpc \in {"run", "seq", "seqrun", "top", "sem", "wait", "exit"}
  /\ next \in 1 .. Len(batches) + 1
  /\ DOMAIN batches \subseteq Jobs
  /\ wpc \in [Jobs -> {"none", "check", "start", "run", "note", "ran", "out",
                       "err", "werr", "done"}]
  /\ code \in [Jobs -> {0, 1} \cup 123 .. 127]
  /\ stop \cup wfail \subseteq Jobs
  /\ mu \in Jobs \cup {NoJob}
  /\ stopped \in BOOLEAN
  /\ worst \in {0, 1} \cup 123 .. 127
  /\ exit \in {None, 0, 1, 2} \cup 123 .. 127
  /\ out \in Seq(Jobs \X {"out", "err"})

TypeOK == XTypeOK /\ TTypeOK

Init ==
  /\ \E c \in Cases : /\ input = c.input /\ opts = c.opts /\ posix = c.posix
                      /\ topts = c.topts
  /\ o = Defaults
  /\ TInit
  /\ xpc = "run"
  /\ batches = <<>>
  /\ next = 1
  /\ wpc = [j \in Jobs |-> "none"]
  /\ code = [j \in Jobs |-> 0]
  /\ stop = {} /\ wfail = {}
  /\ mu = NoJob
  /\ stopped = FALSE
  /\ worst = 0
  /\ exit = None
  /\ out = <<>>

----------------------------------------------------------------------------
\* run(): options, items, plan.

Exit(s) == xpc' = "exit" /\ exit' = s

\* The options cannot be used, the input cannot be read, or it cannot be
\* made into command lines; nothing has been run.
XRefuse ==
  LET parsed == Parse(opts, posix) IN
  /\ xpc = "run"
  /\ \/ ~Usable(opts, parsed) /\ Exit(2)
     \/ Usable(opts, parsed) /\ Exit(1)
     \/ Usable(opts, parsed) /\ PlanFor(input, parsed).error /\ Exit(2)
  /\ UNCHANGED <<batches, next, wpc, code, stop, wfail, mu, stopped, worst, out,
                 given, tvars>>

XPlan ==
  LET parsed == Parse(opts, posix)
      limited == Limited(parsed)
      planned == PlanFor(input, parsed) IN
  /\ xpc = "run"
  /\ Usable(opts, parsed) /\ ~planned.error
  /\ o' = limited
  /\ batches' = planned.batches
  /\ \/ planned.batches = <<>> /\ Exit(0)
     \* -p where prompting is forbidden, or without a terminal to ask on
     \/ planned.batches # <<>> /\ limited.interactive /\ \E s \in {1, 2} : Exit(s)
     \/ /\ planned.batches # <<>>
        /\ xpc' = IF Parallel' THEN "top" ELSE "seq"
        /\ UNCHANGED exit
  /\ UNCHANGED <<input, opts, posix, next, wpc, code, stop, wfail, mu, stopped,
                 worst, out, tvars>>

----------------------------------------------------------------------------
\* runOne.  Each step up to "ran" is the same in the loop and in a goroutine.

WGoto(j, l) == wpc' = [wpc EXCEPT ![j] = l]

\* runOne is about to pass c to note, and to return s.
Verdict(j, c, s) ==
  /\ WGoto(j, IF c = 0 THEN "ran" ELSE "note")
  /\ code' = [code EXCEPT ![j] = c]
  /\ stop' = IF s THEN stop \cup {j} ELSE stop

\* -p: the reply is no, or the terminal cannot be read.
WDecline(j) ==
  /\ wpc[j] = "start" /\ o.interactive
  /\ \/ Verdict(j, 0, FALSE)
     \/ Verdict(j, 1, TRUE)
  /\ UNCHANGED <<xpc, batches, next, wfail, mu, stopped, worst, exit, out,
                 given, tvars>>

\* The program is not found, or cannot be started.
WCannotRun(j) ==
  /\ wpc[j] = "start"
  /\ \E c \in {126, 127} : Verdict(j, c, TRUE)
  /\ UNCHANGED <<xpc, batches, next, wfail, mu, stopped, worst, exit, out,
                 given, tvars>>

WStart(j) ==
  /\ wpc[j] = "start"
  /\ WGoto(j, "run")
  /\ TGoto(j, "start")
  /\ UNCHANGED <<xpc, batches, next, code, stop, wfail, mu, stopped, worst, exit,
                 out, given, tstatus, command, werr, kids>>

ChildOver(j) == tpc[j] \in {"exited", "killed"}

\* A child's output is captured through a pipe in parallel mode, and Wait
\* then lasts until the last process that has the pipe open is gone.
OutputClosed(j) == command[j] # "running" /\ j \notin kids

\* Mutant: the child's status is passed on as it is.
WWaitRaw(j) ==
  /\ wpc[j] = "run" /\ ChildOver(j)
  /\ Parallel => OutputClosed(j)
  /\ Verdict(j, tstatus[j], tstatus[j] = 255)
  /\ UNCHANGED <<xpc, batches, next, wfail, mu, stopped, worst, exit, out,
                 given, tvars>>

WWait(j) ==
  /\ wpc[j] = "run" /\ ChildOver(j)
  /\ Parallel => OutputClosed(j)
  /\ \/ tpc[j] = "killed" /\ Verdict(j, 125, TRUE)
     \/ tpc[j] = "exited" /\ tstatus[j] = 0 /\ Verdict(j, 0, FALSE)
     \/ tpc[j] = "exited" /\ tstatus[j] = 255 /\ Verdict(j, 124, TRUE)
     \/ tpc[j] = "exited" /\ tstatus[j] \notin {0, 255} /\ Verdict(j, 123, FALSE)
     \* Wait itself fails
     \/ Verdict(j, 126, TRUE)
  /\ UNCHANGED <<xpc, batches, next, wfail, mu, stopped, worst, exit, out,
                 given, tvars>>

\* Mutant: the last status wins.
WorseLast(c) == worst' = c

Worse(c) == worst' = Max({worst, c})

WNote(j) ==
  /\ wpc[j] = "note"
  /\ mu = NoJob
  /\ Worse(code[j])
  /\ WGoto(j, "ran")
  /\ UNCHANGED <<xpc, batches, next, code, stop, wfail, mu, stopped, exit, out,
                 given, tvars>>

----------------------------------------------------------------------------
\* One process: the loop runs each batch itself.

SeqNext ==
  /\ xpc = "seq"
  /\ IF next > Len(batches)
     THEN Exit(worst) /\ UNCHANGED <<next, wpc>>
     ELSE /\ WGoto(next, "start")
          /\ next' = next + 1
          /\ xpc' = "seqrun"
          /\ UNCHANGED exit
  /\ UNCHANGED <<batches, code, stop, wfail, mu, stopped, worst, out, given, tvars>>

SeqRan ==
  /\ xpc = "seqrun"
  /\ wpc[next - 1] = "ran"
  /\ WGoto(next - 1, "done")
  /\ IF next - 1 \in stop THEN Exit(worst) ELSE xpc' = "seq" /\ UNCHANGED exit
  /\ UNCHANGED <<batches, next, code, stop, wfail, mu, stopped, worst, out,
                 given, tvars>>

----------------------------------------------------------------------------
\* Several processes: the loop starts a goroutine for each batch.

Active == {j \in Jobs : wpc[j] \notin {"none", "done"}}

DispatchTop ==
  /\ xpc = "top"
  /\ mu = NoJob
  /\ xpc' = IF stopped \/ next > Len(batches) THEN "wait" ELSE "sem"
  /\ UNCHANGED <<batches, next, wpc, code, stop, wfail, mu, stopped, worst, exit,
                 out, given, tvars>>

\* Mutant: the goroutine is started without waiting for a slot.
DispatchUnbounded ==
  /\ xpc = "sem"
  /\ WGoto(next, "check")
  /\ next' = next + 1
  /\ xpc' = "top"
  /\ UNCHANGED <<batches, code, stop, wfail, mu, stopped, worst, exit, out,
                 given, tvars>>

Dispatch ==
  /\ xpc = "sem"
  /\ Cardinality(Active) < Procs
  /\ WGoto(next, "check")
  /\ next' = next + 1
  /\ xpc' = "top"
  /\ UNCHANGED <<batches, code, stop, wfail, mu, stopped, worst, exit, out,
                 given, tvars>>

DispatchWait ==
  /\ xpc = "wait"
  /\ Active = {}
  /\ Exit(worst)
  /\ UNCHANGED <<batches, next, wpc, code, stop, wfail, mu, stopped, worst, out,
                 given, tvars>>

\* Mutant: only the dispatching loop looks at stopped.
WCheckSkipped(j) ==
  /\ wpc[j] = "check"
  /\ mu = NoJob
  /\ WGoto(j, "start")
  /\ UNCHANGED <<xpc, batches, next, code, stop, wfail, mu, stopped, worst, exit,
                 out, given, tvars>>

WCheck(j) ==
  /\ wpc[j] = "check"
  /\ mu = NoJob
  /\ WGoto(j, IF stopped THEN "done" ELSE "start")
  /\ UNCHANGED <<xpc, batches, next, code, stop, wfail, mu, stopped, worst, exit,
                 out, given, tvars>>

\* Mutant: the output is flushed without the lock.
WLockSkipped(j) ==
  /\ wpc[j] = "ran" /\ Parallel
  /\ WGoto(j, "out")
  /\ UNCHANGED <<xpc, batches, next, code, stop, wfail, mu, stopped, worst, exit,
                 out, given, tvars>>

\* The flush of the captured output: both writes under mu.
WLock(j) ==
  /\ wpc[j] = "ran" /\ Parallel
  /\ mu = NoJob
  /\ mu' = j
  /\ WGoto(j, "out")
  /\ UNCHANGED <<xpc, batches, next, code, stop, wfail, stopped, worst, exit, out,
                 given, tvars>>

WOut(j) ==
  /\ wpc[j] = "out"
  /\ \E ok \in BOOLEAN :
       /\ out' = Append(out, <<j, "out">>)
       /\ wfail' = IF ok THEN wfail ELSE wfail \cup {j}
  /\ WGoto(j, "err")
  /\ UNCHANGED <<xpc, batches, next, code, stop, mu, stopped, worst, exit,
                 given, tvars>>

\* Mutant: a write error stops xargs and is not noted.
WErrSilent(j) ==
  /\ wpc[j] = "err"
  /\ \E ok \in BOOLEAN :
       /\ out' = Append(out, <<j, "err">>)
       /\ wfail' = IF ok THEN wfail ELSE wfail \cup {j}
       /\ stopped' = (stopped \/ ~ok \/ j \in stop \cup wfail)
  /\ WGoto(j, "done")
  /\ mu' = NoJob
  /\ UNCHANGED <<xpc, batches, next, code, stop, worst, exit, given, tvars>>

\* Mutant: note is called for a write error before mu is released.
WErrNotesLocked(j) ==
  /\ wpc[j] = "err"
  /\ \E ok \in BOOLEAN :
       LET failed == IF ok THEN wfail ELSE wfail \cup {j} IN
       /\ out' = Append(out, <<j, "err">>)
       /\ wfail' = failed
       /\ stopped' = (stopped \/ j \in failed \/ j \in stop)
       /\ WGoto(j, IF j \in failed THEN "werr" ELSE "done")
       /\ mu' = IF j \in failed THEN j ELSE NoJob
  /\ UNCHANGED <<xpc, batches, next, code, stop, worst, exit, given, tvars>>

\* The second write, and what the section records before it unlocks.
WErr(j) ==
  /\ wpc[j] = "err"
  /\ \E ok \in BOOLEAN :
       LET failed == IF ok THEN wfail ELSE wfail \cup {j} IN
       /\ out' = Append(out, <<j, "err">>)
       /\ wfail' = failed
       /\ stopped' = (stopped \/ j \in failed \/ j \in stop)
       /\ WGoto(j, IF j \in failed THEN "werr" ELSE "done")
  /\ mu' = NoJob
  /\ UNCHANGED <<xpc, batches, next, code, stop, worst, exit, given, tvars>>

\* note(1), once mu has been released.
WNoteWriteError(j) ==
  /\ wpc[j] = "werr"
  /\ mu = NoJob
  /\ Worse(1)
  /\ WGoto(j, "done")
  /\ UNCHANGED <<xpc, batches, next, code, stop, wfail, mu, stopped, exit, out,
                 given, tvars>>

----------------------------------------------------------------------------
Loop == XRefuse \/ XPlan \/ SeqNext \/ SeqRan \/ DispatchTop \/ Dispatch \/ DispatchWait

Worker(j) ==
  \/ WCheck(j) \/ WDecline(j) \/ WCannotRun(j) \/ WStart(j) \/ WWait(j) \/ WNote(j)
  \/ WLock(j) \/ WOut(j) \/ WErr(j) \/ WNoteWriteError(j)

Child(j) == (TimeoutStep(j) \/ TimeoutEnvironment(j)) /\ UNCHANGED xvars

Next == Loop \/ \E j \in Jobs : Worker(j) \/ Child(j)

\* The runtime schedules every goroutine and the timers fire; -p's replies
\* come.  Nothing makes a command or its descendants exit.
Fairness ==
  /\ WF_vars(Loop)
  /\ \A j \in Jobs : WF_vars(Worker(j)) /\ WF_vars(TimeoutStep(j) /\ UNCHANGED xvars)

Spec == Init /\ [][Next]_vars /\ Fairness

----------------------------------------------------------------------------
\* Properties.

\* plan: when the first batch is about to be run, the batches are the items
\* before the EOF string, in order, none lost or given twice, each within
\* -n, -L and -s, and none cut before a limit made it necessary; empty input
\* is one invocation without items.
PlanIsPacking ==
  xpc \in {"seq", "top"} /\ next = 1 =>
    LET items == ReadItems(input, o)
    IN  IF items = <<>> THEN batches = <<<<>>>> ELSE IsPacking(batches, items, o)

\* execBatches: never more children at once than -P allows (one with -p),
\* whatever order the semaphore is given back in.
SlotsRespected ==
  LET running == {j \in Jobs : wpc[j] = "run"}
  IN  running # {} => Cardinality(running) <= Procs

\* The batches begun and not yet through with their output.
Begun == {j \in Jobs : wpc[j] \in {"start", "run", "note", "ran", "out", "err"}}

\* The k-th write ends the output of a batch that stops xargs.
StopsAt(k) == out[k][2] = "err" /\ out[k][1] \in stop \cup wfail

\* The batches whose output comes, or may still come, after the k-th write.
After(k) == {out[i][1] : i \in k + 1 .. Len(out)} \cup Begun

\* execBatches: a batch that ended in a way that stops xargs, or whose output
\* could not be written, is followed in the output by those that shared the
\* slots with it when it ended and by no other: at most -P less one, wherever
\* the dispatcher and the workers were between their looks at stopped.  With
\* one process nothing after it is begun.
StopIsHeeded ==
  /\ \A k \in DOMAIN out : StopsAt(k) => Cardinality(After(k)) < Procs
  /\ ~Parallel => \A j \in stop, i \in Jobs : i > j => wpc[i] = "none"

\* execBatches: the two writes of one batch's output are next to each other
\* in the shared output, however the workers interleave.
OutputWhole ==
  \A k \in DOMAIN out :
    out[k][2] = "err" => k > 1 /\ out[k - 1][1] = out[k][1] /\ out[k - 1][2] = "out"

\* The status xargs owes for a batch, from what became of its child.
Owed(j) ==
  IF wpc[j] = "none" THEN 0
  ELSE IF code[j] = 126 THEN 126
  ELSE IF tpc[j] = "killed" THEN 125
  ELSE IF tpc[j] = "exited"
       THEN IF tstatus[j] = 0 THEN 0 ELSE IF tstatus[j] = 255 THEN 124 ELSE 123
  ELSE code[j]

\* execBatches: the exit status is the worst any batch calls for, whichever
\* order the workers report in; a failed write calls for 1.
ExitIsWorst ==
  xpc = "exit" /\ next > 1 =>
    exit = Max({Owed(j) : j \in Jobs} \cup {IF wfail = {} THEN 0 ELSE 1})

\* xargs: status 0 after running anything means that every item went to a
\* command that was started (or, with -p, declined), that timeout reported
\* 0 for it and that in parallel mode all its output was written.
ZeroMeansDone ==
  xpc = "exit" /\ exit = 0 /\ next > 1 =>
    \A j \in DOMAIN batches :
      /\ wpc[j] = "done"
      /\ \/ o.interactive /\ tpc[j] = "none"
         \/ tpc[j] = "exited" /\ tstatus[j] = 0
      /\ Parallel => wfail = {} /\ {<<j, "out">>, <<j, "err">>} \subseteq Range(out)

\* timeout bounds every command, so xargs ends although commands may ignore
\* the signal or never exit, as long as what is left running when a timeout
\* invocation is over does not keep the output open for ever.
Bounded == topts.expires /\ (topts.killAfter \/ topts.signal = "KILL")

Settled == \A j \in Jobs : ChildOver(j) => OutputClosed(j)

Terminates == Bounded /\ []<>Settled => <>(xpc = "exit")
=============================================================================
