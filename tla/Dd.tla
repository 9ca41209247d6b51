--------------------------------- MODULE Dd ---------------------------------
(***************************************************************************)
(* dd runs embedded in one process (cmds/dd, the linux build): each turns  *)
(* SIGINT into a flag and a byte in a self-pipe, borrows O_NONBLOCK on the *)
(* descriptors it reads and writes through a shared registry of leases,    *)
(* and copies with system calls that it retries between polls.             *)
(*                                                                         *)
(* Data is counted in units: a read returns one, an input block is one,    *)
(* and an output block is obs of them.  A stream that is not a file has a  *)
(* far side: the writers of an input, the readers of an output.            *)
(***************************************************************************)
EXTENDS Integers, FiniteSets

CONSTANTS Runs,
          Fds, File,    \* the descriptors that can block; File stands for a
                        \* regular file, which never does
          Ofd,          \* the open file description behind each descriptor
          Cap,          \* the units a pipe holds
          Scenes        \* where to start: the settings of each run that runs,
                        \* the flag of each description, the far sides, how
                        \* much the writers have to send, how many signals

Descriptions == {Ofd[f] : f \in Fds}

(* The operands of a run, and what may go wrong around it. *)
Settings ==
    [selfpipe : SUBSET {"none", "open"}, in : Fds \cup {File}, out : Fds \cup {File},
     fifoIn : BOOLEAN, fifoOut : BOOLEAN, count : Int, skip : Nat, obs : Nat \ {0}]

ASSUME DdAssumption ==
    /\ Cap \in Nat \ {0} /\ File \notin Fds /\ IsFiniteSet(Runs)
    /\ \A x \in Scenes :
          /\ x.cfg \in [Runs -> Settings]
          /\ \A d \in Runs :
                /\ x.cfg[d].in = x.cfg[d].out => x.cfg[d].in = File
                /\ x.cfg[d].fifoOut => x.cfg[d].count # 0
          /\ x.host \in [Descriptions -> BOOLEAN]
          /\ x.far \in [Fds -> {"never", "open", "gone"}]
          /\ x.supply \in [Fds -> Nat] /\ x.signals \in Nat

VARIABLES cfg,       \* the operands of each run
          host,      \* O_NONBLOCK of each description as the host set it
          flag,      \* O_NONBLOCK as it is
          leases,    \* nonblockLeases.byFD; refs = 0 when there is no entry
          data,      \* the units in each pipe
          far,       \* its far side: not yet there, open, or gone
          supply,    \* the units the writers may still send
          run,       \* each dd run
          ctx,       \* its interruptContext
          signals,   \* the signals that may still come
          delivered  \* history: the runs whose channel a signal reached

hostVars == <<cfg, host>>
pipes == <<data, far, supply>>
vars == <<hostVars, flag, leases, pipes, run, ctx, signals, delivered>>

NoLease == [refs |-> 0, changed |-> FALSE]

Begin(skip) ==
    [pc |-> "context", mode |-> IF skip > 0 THEN "skip" ELSE "copy", skip |-> skip,
     await |-> FALSE, borrowed |-> {}, got |-> 0, put |-> 0, held |-> 0, left |-> 0,
     eof |-> FALSE, code |-> -1]

NoContext == [registered |-> FALSE, sigc |-> FALSE, done |-> FALSE,
              notifier |-> "none", sig |-> FALSE, pipe |-> "none", woken |-> FALSE]

TypeOK ==
    /\ flag \in [Descriptions -> BOOLEAN]
    /\ leases \in [Fds -> [refs : 0..Cardinality(Runs) * 2, changed : BOOLEAN]]
    /\ data \in [Fds -> 0..Cap]
    /\ far \in [Fds -> {"never", "open", "gone"}]
    /\ \A d \in Runs :
          /\ run[d].borrowed \subseteq {cfg[d].in, cfg[d].out} \ {File}
          /\ run[d].code \in {-1, 0, 1, 130}
          /\ run[d].held \in 0..(cfg[d].obs - 1) /\ run[d].left \in 0..cfg[d].obs
          /\ ctx[d].notifier \in {"none", "waiting", "storing", "waking", "exited"}
          /\ ctx[d].pipe \in {"none", "open", "closed"}

Init ==
    \E x \in Scenes :
       /\ cfg = x.cfg
       /\ host = x.host /\ flag = x.host
       /\ leases = [f \in Fds |-> NoLease]
       /\ data = [f \in Fds |-> 0]
       /\ far = x.far /\ supply = x.supply
       /\ run = [d \in Runs |-> IF d \in x.active THEN Begin(x.cfg[d].skip)
                                ELSE [Begin(0) EXCEPT !.pc = "gone"]]
       /\ ctx = [d \in Runs |-> NoContext]
       /\ signals = x.signals
       /\ delivered = {}

-----------------------------------------------------------------------------
(* Moves of one run *)

At(d, p) == run[d].pc = p
Become(d, r) == run' = [run EXCEPT ![d] = r]
Goto(d, p) == Become(d, [run[d] EXCEPT !.pc = p])
Leave(d, n) == Become(d, [run[d] EXCEPT !.pc = "unwind", !.code = n])

Interrupted(d) == ctx[d].sig

(* finishInterrupted: the status so far, and 128 plus the signal. *)
FinishInterrupted(d) == Leave(d, 130)

-----------------------------------------------------------------------------
(* newInterruptContext.  Where the pipe cannot be had, polls rely on their  *)
(* time slice.                                                              *)

NewContext(d) ==
    /\ At(d, "context")
    /\ \E p \in cfg[d].selfpipe :
          ctx' = [ctx EXCEPT ![d] = [@ EXCEPT !.registered = TRUE, !.pipe = p,
                                              !.notifier = "waiting"]]
    /\ Goto(d, IF cfg[d].in = File \/ cfg[d].fifoIn THEN "openin" ELSE "borrowin")
    /\ UNCHANGED <<hostVars, flag, leases, pipes, signals, delivered>>

(* Mutant: after Stop the channel is not looked at again. *)
NotifierDeaf(d) ==
    /\ ctx[d].notifier = "waiting"
    /\ \/ /\ ctx[d].sigc
          /\ ctx' = [ctx EXCEPT ![d].sigc = FALSE, ![d].notifier = "storing"]
       \/ /\ ctx[d].done
          /\ ctx' = [ctx EXCEPT ![d].notifier = "exited"]
    /\ UNCHANGED <<hostVars, flag, leases, pipes, run, signals, delivered>>

(* The goroutine that waits for the signal or for Stop.  After Stop a       *)
(* signal that is already in the channel still counts.                      *)
Notifier(d) ==
    /\ ctx[d].notifier = "waiting"
    /\ \/ /\ ctx[d].sigc
          /\ ctx' = [ctx EXCEPT ![d].sigc = FALSE, ![d].notifier = "storing"]
       \/ /\ ctx[d].done /\ ~ctx[d].sigc
          /\ ctx' = [ctx EXCEPT ![d].notifier = "exited"]
    /\ UNCHANGED <<hostVars, flag, leases, pipes, run, signals, delivered>>

(* interrupt: the flag first, then the byte in the pipe. *)
StoreSignal(d) ==
    /\ ctx[d].notifier = "storing"
    /\ ctx' = [ctx EXCEPT ![d].sig = TRUE, ![d].notifier = "waking"]
    /\ UNCHANGED <<hostVars, flag, leases, pipes, run, signals, delivered>>

Wake(d) ==
    /\ ctx[d].notifier = "waking"
    /\ ctx' = [ctx EXCEPT ![d].woken = @ \/ ctx[d].pipe = "open",
                          ![d].notifier = "exited"]
    /\ UNCHANGED <<hostVars, flag, leases, pipes, run, signals, delivered>>

-----------------------------------------------------------------------------
(* The leases: setNonblockSaving and restore, each under the registry's     *)
(* mutex.                                                                   *)

Borrow(d, f) ==
    IF leases[f].refs > 0
      THEN /\ leases' = [leases EXCEPT ![f].refs = @ + 1]
           /\ UNCHANGED flag
      ELSE /\ leases' = [leases EXCEPT ![f] = [refs |-> 1, changed |-> ~flag[Ofd[f]]]]
           /\ flag' = [flag EXCEPT ![Ofd[f]] = TRUE]

(* Mutant: every borrower clears the flag. *)
RestoreEach(f) ==
    /\ leases' = [leases EXCEPT ![f].refs = @ - 1]
    /\ flag' = [flag EXCEPT ![Ofd[f]] = @ /\ ~leases[f].changed]

(* Mutant: the flag is left set. *)
RestoreNever(f) ==
    /\ leases' = [leases EXCEPT ![f] = IF @.refs = 1 THEN NoLease ELSE [@ EXCEPT !.refs = @ - 1]]
    /\ UNCHANGED flag

Restore(f) ==
    IF leases[f].refs > 1
      THEN /\ leases' = [leases EXCEPT ![f].refs = @ - 1]
           /\ UNCHANGED flag
      ELSE /\ leases' = [leases EXCEPT ![f] = NoLease]
           /\ flag' = [flag EXCEPT ![Ofd[f]] = @ /\ ~leases[f].changed]

-----------------------------------------------------------------------------
(* Opening and borrowing the two ends.  A named FIFO is opened without      *)
(* blocking: for reading at once, for writing as soon as a reader is there. *)

OpenIn(d) ==
    /\ At(d, "openin")
    /\ IF cfg[d].fifoIn /\ Interrupted(d)
         THEN FinishInterrupted(d)
         ELSE \/ Become(d, [run[d] EXCEPT !.pc = "borrowin", !.await = cfg[d].fifoIn])
              \/ Leave(d, 1)
    /\ UNCHANGED <<hostVars, flag, leases, pipes, ctx, signals, delivered>>

BorrowAt(d, p, f, next) ==
    /\ At(d, p)
    /\ IF f = File
         THEN Goto(d, next) /\ UNCHANGED <<flag, leases>>
         ELSE /\ Borrow(d, f)
              /\ Become(d, [run[d] EXCEPT !.pc = next, !.borrowed = @ \cup {f}])
    /\ UNCHANGED <<hostVars, pipes, ctx, signals, delivered>>

BorrowIn(d) ==
    BorrowAt(d, "borrowin", cfg[d].in,
             IF cfg[d].out = File \/ cfg[d].fifoOut THEN "openout" ELSE "borrowout")
BorrowOut(d) ==
    BorrowAt(d, "borrowout", cfg[d].out, IF run[d].mode = "skip" THEN "read" ELSE "loop")

(* Mutant: the open for writing waits in the kernel for a reader. *)
OpenOutBlocks(d) ==
    /\ At(d, "openout")
    /\ cfg[d].fifoOut => far[cfg[d].out] = "open"
    /\ Goto(d, "borrowout") \/ Leave(d, 1)
    /\ UNCHANGED <<hostVars, flag, leases, pipes, ctx, signals, delivered>>

OpenOut(d) ==
    /\ At(d, "openout")
    /\ IF cfg[d].fifoOut /\ (Interrupted(d) \/ ctx[d].woken)
         THEN FinishInterrupted(d)
         ELSE /\ cfg[d].fifoOut => far[cfg[d].out] = "open"
              /\ Goto(d, "borrowout") \/ Leave(d, 1)
    /\ UNCHANGED <<hostVars, flag, leases, pipes, ctx, signals, delivered>>

-----------------------------------------------------------------------------
(* interruptReader.Read, once for every unit skipped or copied.  A read can *)
(* also fail.                                                               *)

Loop(d) ==
    /\ At(d, "loop")
    /\ IF run[d].got = cfg[d].count THEN Goto(d, "flush")
       ELSE IF Interrupted(d) THEN FinishInterrupted(d)
       ELSE Goto(d, "read")
    /\ UNCHANGED <<hostVars, flag, leases, pipes, ctx, signals, delivered>>

(* Mutant: a block is written when it has one unit too many. *)
TookLate(r, c) ==
    IF r.mode = "copy" /\ r.held < c.obs
      THEN [r EXCEPT !.got = @ + 1, !.held = @ + 1, !.pc = "loop"]
      ELSE [r EXCEPT !.got = @ + 1, !.held = 0, !.left = c.obs, !.pc = "write"]

(* What the copy does with a unit of input: it is written at once, or kept  *)
(* until an output block is full.                                           *)
Took(r, c) ==
    IF r.mode = "skip"
      THEN [r EXCEPT !.skip = @ - 1, !.mode = IF r.skip = 1 THEN "copy" ELSE "skip",
                     !.pc = IF r.skip = 1 THEN "loop" ELSE "read"]
    ELSE IF r.held + 1 < c.obs
      THEN [r EXCEPT !.got = @ + 1, !.held = @ + 1, !.pc = "loop"]
      ELSE [r EXCEPT !.got = @ + 1, !.held = 0, !.left = c.obs, !.pc = "write"]

AtEof(r) ==
    IF r.mode = "skip" THEN [r EXCEPT !.mode = "copy", !.pc = "loop"]
    ELSE [r EXCEPT !.eof = TRUE, !.pc = "flush"]

ReadFile(d) ==
    /\ At(d, "read") /\ cfg[d].in = File
    /\ Become(d, Took(run[d], cfg[d])) \/ Become(d, AtEof(run[d])) \/ Leave(d, 1)
    /\ UNCHANGED <<hostVars, flag, leases, pipes, ctx, signals, delivered>>

ReadStream(d) ==
    LET f == cfg[d].in
        r == run[d]
    IN  /\ At(d, "read") /\ f # File
        /\ \/ /\ Interrupted(d)
              /\ FinishInterrupted(d)
              /\ UNCHANGED data
           \/ /\ ~Interrupted(d) /\ data[f] > 0
              /\ data' = [data EXCEPT ![f] = @ - 1]
              /\ Become(d, Took([r EXCEPT !.await = FALSE], cfg[d]))
           \/ /\ ~Interrupted(d) /\ data[f] = 0 /\ far[f] # "open"
              /\ Goto(d, IF r.await THEN "pollhup" ELSE "eof")
              /\ UNCHANGED data
           \/ /\ ~Interrupted(d) /\ data[f] = 0 /\ far[f] = "open"
              /\ flag[Ofd[f]]
              /\ Become(d, [r EXCEPT !.await = FALSE, !.pc = "pollin"])
              /\ UNCHANGED data
           \/ /\ ~Interrupted(d)
              /\ Leave(d, 1)
              /\ UNCHANGED data
        /\ UNCHANGED <<hostVars, flag, leases, far, supply, ctx, signals, delivered>>

(* pollDescriptorOrInterrupt gives up for a signal; it returns for an event *)
(* or at the end of its time slice, and the caller tries again.             *)
Cancelled(d) == Interrupted(d) \/ ctx[d].woken

PollIn(d) ==
    /\ At(d, "pollin")
    /\ IF Cancelled(d) THEN FinishInterrupted(d) ELSE Goto(d, "read")
    /\ UNCHANGED <<hostVars, flag, leases, pipes, ctx, signals, delivered>>

(* A read of nothing from a FIFO that may not have had a writer yet: only   *)
(* a hang-up makes it the end of the input.                                 *)
PollHup(d) ==
    /\ At(d, "pollhup")
    /\ IF Cancelled(d) THEN FinishInterrupted(d)
       ELSE IF far[cfg[d].in] = "gone"
         THEN Become(d, [run[d] EXCEPT !.await = FALSE, !.pc = "eof"])
       ELSE Goto(d, "read")
    /\ UNCHANGED <<hostVars, flag, leases, pipes, ctx, signals, delivered>>

ReadsEof(d) ==
    /\ At(d, "eof")
    /\ IF Interrupted(d) THEN FinishInterrupted(d) ELSE Become(d, AtEof(run[d]))
    /\ UNCHANGED <<hostVars, flag, leases, pipes, ctx, signals, delivered>>

-----------------------------------------------------------------------------
(* interruptWriter.Write: the whole of left, waiting whenever the pipe is   *)
(* full.  A write can fail, and does when the readers are gone.             *)

Wrote(d, n) ==
    LET r == run[d]
    IN  Become(d, [r EXCEPT !.put = @ + n, !.left = @ - n,
          !.pc = IF r.left > n THEN "write"
                 ELSE IF r.eof \/ r.got = cfg[d].count THEN "flush" ELSE "loop"])

WriteFile(d) ==
    /\ At(d, "write") /\ cfg[d].out = File
    /\ Wrote(d, run[d].left) \/ Leave(d, 1)
    /\ UNCHANGED <<hostVars, flag, leases, pipes, ctx, signals, delivered>>

WriteStream(d) ==
    LET f == cfg[d].out
    IN  /\ At(d, "write") /\ f # File
        /\ \/ /\ Interrupted(d)
              /\ FinishInterrupted(d)
              /\ UNCHANGED data
           \/ /\ ~Interrupted(d)
              /\ Leave(d, 1)
              /\ UNCHANGED data
           \/ /\ ~Interrupted(d) /\ far[f] # "gone" /\ data[f] < Cap
              /\ data' = [data EXCEPT ![f] = @ + 1]
              /\ Wrote(d, 1)
           \/ /\ ~Interrupted(d) /\ far[f] # "gone" /\ data[f] = Cap
              /\ flag[Ofd[f]]
              /\ Goto(d, "pollout")
              /\ UNCHANGED data
        /\ UNCHANGED <<hostVars, flag, leases, far, supply, ctx, signals, delivered>>

PollOut(d) ==
    /\ At(d, "pollout")
    /\ IF Cancelled(d) THEN FinishInterrupted(d) ELSE Goto(d, "write")
    /\ UNCHANGED <<hostVars, flag, leases, pipes, ctx, signals, delivered>>

(* The last, partial output block. *)
Flush(d) ==
    /\ At(d, "flush")
    /\ IF run[d].held > 0
         THEN Become(d, [run[d] EXCEPT !.left = run[d].held, !.held = 0, !.pc = "write"])
         ELSE Goto(d, "status")
    /\ UNCHANGED <<hostVars, flag, leases, pipes, ctx, signals, delivered>>

-----------------------------------------------------------------------------
(* The end of a run *)

(* An output dd opened itself is given back and closed before the status;   *)
(* a close that fails ends the run with 1.                                  *)
CloseOut(d) ==
    /\ At(d, "status")
    /\ LET own == {cfg[d].out} \cap run[d].borrowed
       IN  /\ IF cfg[d].fifoOut /\ own # {}
                THEN Restore(cfg[d].out)
                ELSE UNCHANGED <<flag, leases>>
           /\ LET r == [run[d] EXCEPT !.borrowed = IF cfg[d].fifoOut THEN @ \ own ELSE @]
              IN  \/ Become(d, [r EXCEPT !.pc = "emit"])
                 \/ /\ cfg[d].out = File \/ cfg[d].fifoOut
                    /\ Become(d, [r EXCEPT !.pc = "unwind", !.code = 1])
    /\ UNCHANGED <<hostVars, pipes, ctx, signals, delivered>>

(* The status is written; an interrupted run has its own exit. *)
EmitStatus(d) ==
    /\ At(d, "emit")
    /\ IF Interrupted(d) THEN FinishInterrupted(d)
       ELSE Goto(d, "stop") \/ Leave(d, 1)
    /\ UNCHANGED <<hostVars, flag, leases, pipes, ctx, signals, delivered>>

(* The deferred calls: output, then input, then Stop. *)
UnwindOut(d) ==
    /\ At(d, "unwind") /\ cfg[d].out \in run[d].borrowed
    /\ Restore(cfg[d].out)
    /\ Become(d, [run[d] EXCEPT !.borrowed = @ \ {cfg[d].out}])
    /\ UNCHANGED <<hostVars, pipes, ctx, signals, delivered>>

UnwindIn(d) ==
    /\ At(d, "unwind") /\ cfg[d].out \notin run[d].borrowed
    /\ cfg[d].in \in run[d].borrowed
    /\ Restore(cfg[d].in)
    /\ Become(d, [run[d] EXCEPT !.borrowed = @ \ {cfg[d].in}])
    /\ UNCHANGED <<hostVars, pipes, ctx, signals, delivered>>

(* Stop: no more signals, wake the goroutine, wait for it, close the pipe.  *)
(* It runs once, before the exit status is settled or among the deferred    *)
(* calls.                                                                   *)
Stopping(d) == At(d, "stop") \/ (At(d, "unwind") /\ run[d].borrowed = {})

StopNotify(d) ==
    /\ Stopping(d) /\ ctx[d].registered
    /\ ctx' = [ctx EXCEPT ![d].registered = FALSE]
    /\ UNCHANGED <<hostVars, flag, leases, pipes, run, signals, delivered>>

StopDone(d) ==
    /\ Stopping(d) /\ ~ctx[d].registered /\ ~ctx[d].done
    /\ ctx' = [ctx EXCEPT ![d].done = TRUE]
    /\ UNCHANGED <<hostVars, flag, leases, pipes, run, signals, delivered>>

Settle(d) ==
    IF At(d, "stop")
      THEN Leave(d, IF Interrupted(d) THEN 130 ELSE 0)
      ELSE Goto(d, "gone")

(* Mutant: Stop does not wait for the goroutine. *)
StopHasty(d) ==
    /\ Stopping(d) /\ ctx[d].done
    /\ ctx' = [ctx EXCEPT ![d].pipe = IF @ = "open" THEN "closed" ELSE @]
    /\ Settle(d)
    /\ UNCHANGED <<hostVars, flag, leases, pipes, signals, delivered>>

StopWait(d) ==
    /\ Stopping(d) /\ ctx[d].done /\ ctx[d].notifier = "exited"
    /\ ctx' = [ctx EXCEPT ![d].pipe = IF @ = "open" THEN "closed" ELSE @]
    /\ Settle(d)
    /\ UNCHANGED <<hostVars, flag, leases, pipes, signals, delivered>>

-----------------------------------------------------------------------------
(* Outside the process *)

(* SIGINT reaches every channel that asked for it; one that is full drops   *)
(* it.                                                                      *)
Signal ==
    /\ signals > 0
    /\ signals' = signals - 1
    /\ ctx' = [d \in Runs |-> [ctx[d] EXCEPT !.sigc = @ \/ ctx[d].registered]]
    /\ delivered' = delivered \cup {d \in Runs : ctx[d].registered}
    /\ UNCHANGED <<hostVars, flag, leases, pipes, run>>

FarOpens(f) ==
    /\ far[f] = "never"
    /\ far' = [far EXCEPT ![f] = "open"]
    /\ UNCHANGED <<data, supply>>

FarCloses(f) ==
    /\ far[f] = "open"
    /\ far' = [far EXCEPT ![f] = "gone"]
    /\ UNCHANGED <<data, supply>>

Inputs == {cfg[d].in : d \in Runs}
Outputs == {cfg[d].out : d \in Runs}

Feed(f) ==
    /\ f \in Inputs /\ far[f] = "open" /\ supply[f] > 0 /\ data[f] < Cap
    /\ data' = [data EXCEPT ![f] = @ + 1]
    /\ supply' = [supply EXCEPT ![f] = @ - 1]
    /\ UNCHANGED far

Drain(f) ==
    /\ f \in Outputs /\ far[f] = "open" /\ data[f] > 0
    /\ data' = [data EXCEPT ![f] = @ - 1]
    /\ UNCHANGED <<far, supply>>

World ==
    /\ \E f \in (Inputs \cup Outputs) \ {File} : FarOpens(f) \/ FarCloses(f) \/ Feed(f) \/ Drain(f)
    /\ UNCHANGED <<hostVars, flag, leases, run, ctx, signals, delivered>>

-----------------------------------------------------------------------------
Goroutine(d) == Notifier(d) \/ StoreSignal(d) \/ Wake(d)

RunStep(d) ==
    \/ NewContext(d) \/ OpenIn(d) \/ BorrowIn(d) \/ OpenOut(d) \/ BorrowOut(d)
    \/ Loop(d) \/ ReadFile(d) \/ ReadStream(d) \/ PollIn(d) \/ PollHup(d) \/ ReadsEof(d)
    \/ WriteFile(d) \/ WriteStream(d) \/ PollOut(d) \/ Flush(d)
    \/ CloseOut(d) \/ EmitStatus(d) \/ UnwindOut(d) \/ UnwindIn(d)
    \/ StopNotify(d) \/ StopDone(d) \/ StopWait(d)

Next ==
    \/ \E d \in Runs : RunStep(d) \/ Goroutine(d)
    \/ Signal \/ World

(* The program runs on; nothing is assumed of the world outside it. *)
Fairness == \A d \in Runs : WF_vars(RunStep(d)) /\ WF_vars(Goroutine(d))

Spec == Init /\ [][Next]_vars /\ Fairness

-----------------------------------------------------------------------------
(* Properties *)

(* Once no run borrows a description, its O_NONBLOCK flag is what the host  *)
(* had set, whatever runs overlapped and however each of them ended.        *)
FlagsRestored ==
    \A o \in DOMAIN flag :
        (\A d \in Runs : \A f \in run[d].borrowed : Ofd[f] # o) => flag[o] = host[o]

(* A run never finds itself in blocking mode on a descriptor it borrows,    *)
(* where a read or write could not be cancelled: another run that ends does *)
(* not take the flag away.                                                  *)
BorrowedNonblocking ==
    \A d \in Runs : \A f \in run[d].borrowed : flag[Ofd[f]]

(* The wakeup byte is never written after the self-pipe was closed, when    *)
(* the number could belong to another file.                                 *)
NoStrayWakeup ==
    \A d \in Runs : ctx[d].notifier \in {"storing", "waking"} => ctx[d].pipe # "closed"

(* Exit status 0 means that no signal had reached the run, that every unit  *)
(* read was written, and that the input ended or the count was reached.     *)
ZeroMeansCopied ==
    \A d \in Runs : run[d].code = 0 =>
        /\ d \notin delivered
        /\ run[d].put = run[d].got /\ run[d].held = 0
        /\ run[d].eof \/ run[d].got = cfg[d].count

(* A run that a signal reached ends, though its input never comes and its   *)
(* output is never drained.                                                 *)
Cancellable == \A d \in Runs : d \in delivered ~> run[d].pc = "gone"

(* The reader of a named FIFO reports the end of the input only after a     *)
(* writer has come and gone and everything it wrote has been read, as a     *)
(* blocking open and read would.                                            *)
EofMeansDrained ==
    \A d \in Runs : run[d].eof /\ cfg[d].fifoIn =>
        far[cfg[d].in] = "gone" /\ data[cfg[d].in] = 0
=============================================================================
