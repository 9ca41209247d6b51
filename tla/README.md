# Verification of the concurrent parts of coreutils

TLA+ models of the parts of this repository in which the order of events matters:
the schedule store behind `at`, `batch`, `crontab` and `schedule` with the lock files
it rests on, the mailbox store and `mailx` sessions, `xargs` with `timeout`, the
interruptible copy of `dd`, and the editor behind `ed`. TLC checks the models on small
instances; TLAPS proves the safety properties of the scheduler, the lock files, `xargs`,
`dd` and, all but one, of `mailx` for every value of the constants.

The models cover a small share of the repository's lines. Most of it is sequential text
and file processing, for which a model would be the code again; "Not modelled" says
what is left out and why.

## The system and its parts

The repository is a Go userland of about 140 POSIX and GNU utilities behind one
multicall binary. Most are sequential programs that turn input into output. The
parts in which the order of events matters are few:

| part | source | status |
|---|---|---|
| schedule store, locked transactions | `pkg/schedule/export.go` | modelled, proved |
| `schedule` subcommands, tick, daemon | `pkg/schedule/schedule.go`, `service.go` | modelled; running one job is its start and its end |
| `at`, `batch`, `crontab` | `cmds/at`, `cmds/batch`, `cmds/crontab` | their transactions |
| lock files | `pkg/lockfile` | modelled (unix build), proved |
| mailbox store, `mailx` sessions | `pkg/mailx`, `cmds/mailx` | modelled, except composing and syntax; proved but for `NoDuplicates` |
| `xargs`, `timeout` | `cmds/xargs`, `cmds/timeout` | modelled together (unix build), safety proved |
| `dd` | `cmds/dd` | copying and interruption (linux build), safety proved; no conversions |
| `ed` | `cmds/ed`, `cmds/internal/editor` | commands that change the buffer, globals, undo, signals |
| live-session registry, `talk` | `pkg/who`, `cmds/talk` | not modelled |
| everything else | `cmds/*`, `pkg/bre`, `pkg/patch`, locales, `tool`, `multicall` | not modelled |

`PROJECT.json` lists all parts with their sources, the hazards found at their
lines, and which property covers which hazard.

## Modules

    Mutex  <--implements--  Lockfile            pkg/lockfile
      ^ used by
    JobStore <-- Schedule <-- ScheduleCLI       pkg/schedule, at, batch, crontab
      ^             |
    AtomicSchedule <'  (implements)

    XargsPlan, Timeout <-- Xargs                cmds/xargs, cmds/timeout
    Mailbox <-- MailSession                     pkg/mailx, cmds/mailx
    Dd                                          cmds/dd
    EdBuffer <-- Ed                             cmds/internal/editor, cmds/ed

* **Lockfile** models each call (`Acquire`, `TryAcquire`, `AcquireWithin`,
  `Owner`) as its system calls: open, mkdir and reopen, flock, truncate and
  write of the record, unlock. `path` is the inode the path names and `flock`
  the kernel's lock per inode, so the model could tell two processes locking
  different inodes apart. `TryAcquire` is a bounded acquire with no retries left.
* **Mutex** is what the callers of the package rely on.
* **JobStore** holds the content of `schedule.json` and every update function as
  a pure operator: `Submitted`, `Removed`, `CronReplaced`, `CronRemoved` and
  `Claimed` (the tick), with `computeNext`. A job's immutable fields are
  constants of its ID; its state is enabled/disabled, `last` and `next`.
  `source` stands for the crontab text by the set of jobs it parses into.
* **Schedule** runs these as the code does: begin (arguments and clock are read),
  acquire, load, save, confirm or roll back, unlock, then for each due job start its
  command and wait for its end, which need not come. `pc` is the place in
  `UpdateJobs`, `Store.update` or `SubmitJobWithConfirmation`, which have the same
  steps. Reading and applying the update function is one step, since the lock is
  held and the update works on memory. Saving is one step because it takes effect
  by a rename. Any step may fail, and a process may die between any two.
  `claimed`, `started` and `outcome` are history variables.
* **ScheduleCLI** adds the subcommands that write the store without its lock.
* **AtomicSchedule** says the same with no locks, files, failures or processes.
* **XargsPlan** is the sequential part of xargs as operators: options in the order
  given, items, logical lines, limits and `plan`. Where the code keeps state in a loop
  over options or lines, the operator says what the loop has computed: the last option of
  a kind, the number of logical lines begun so far. `Joined` is concatenation as a recursive
  function, which the prover can unfold. `IsPacking` is the reference: what a reader of
  the option's descriptions would call a correct grouping.
* **Timeout** is one `timeout` invocation per batch: start, timer, kill timer, wait.
  The command, its descendants and a kill of `timeout` itself are the environment.
* **Xargs** composes both: `execBatches` with its semaphore, `mu`, `stopped` and one
  goroutine per batch, each running a command under `timeout`. A goroutine's steps are
  the places where another one can come in between: check, start, wait, lock, the two
  writes, note.
* **Mailbox** has the three operations on a mailbox file (append, merge, commit), each
  as lock, read, write, unlock. An append is two steps, so that an unlocked reader may
  see a torn message and a failure has to roll it back. A rewrite takes effect by a
  rename.
* **MailSession** adds `mailx` sessions over a system mailbox and MBOX. `s[r]` is the
  session (its snapshot, its updated entries, states and current message). Leaving is
  the merge, then the commit, as in `finish`. `accepted`, `purged`, `plain` and
  `doubled` are history.
* **Dd** has the runs in one process. `ctx` is a run's interrupt context with its
  goroutine and self-pipe, `leases` the registry of borrowed descriptors, `flag` the
  O_NONBLOCK of each open file description, `far` and `data` the other ends. Content is
  counted in units.
* **EdBuffer** has ed's commands as operators on the engine's state; **Ed** has the
  command loop, global commands one list command at a time, and signals. A line carries
  the identities of the lines it came from, which the code does not have: they say what
  a mark or a pending global line ought to refer to.
* **MCSchedule**, **MCScheduleCLI**, **MCXargs**, **MCMail**, **MCDd**, **MCEd** give the
  constants values.
* Operators marked `Mutant` are faulty variants of the operator after them. No
  specification uses them; they show that a property notices the fault.

## What the runs check

| run | instance | shows |
|---|---|---|
| `schedule_at` | 2 processes, 2 users, an at and a batch job, clock to 2 | `NoStaleSnapshot`, `ClaimIsDurable`, `StartedAtMostOnce`, `SubmissionOutcomeHolds` |
| `schedule_crontab` | 2 processes, 2 crontab entries, a repeating job, clock to 3 | `TypeOK`, `CronJobsMatchTable`, `ClaimsAreScheduled`, `LastRunNeverGoesBack` |
| `schedule_liveness` | 2 processes, an at and a repeating job, clock to 2 | `AcceptedJobIsClaimed`, `StoreLockIsReleased`, `ImplementsAtomicSchedule` |
| `lockfile` | 3 processes, 2 inodes, 1 retry | `TypeOK`, `RecordNamesHolder`, `ImplementsMutex`, `BoundedCallReturns`, `BlockedAcquireReturns` |
| `cli_lost_submission` | violated | `schedule disable` overwrites a submission confirmed since its load |
| `cli_one_shot_twice` | violated | `schedule run` writes back, enabled, a one-shot job a tick has claimed |
| `cli_crontab_general` | violated | `crontab` deletes the jobs of `schedule add --cron` |
| `xargs` | up to 4 batches, 2 workers, 7 inputs by 19 option lists, 5 timeout settings | `TypeOK`, `PlanIsPacking`, `SlotsRespected`, `OutputWhole`, `ExitIsWorst`, `ZeroMeansDone`, `StopIsHeeded`, `Terminates` |
| `mailx` | 2 sessions, a delivery, the system mailbox and MBOX | `TypeOK`, `NothingLost`, `DeletedStaysDeleted`, `NoDuplicates`, `CurrentIsVisible`, `ReadStaysRead` |
| `dd` | 2 runs on shared descriptors, pipes and FIFOs | `TypeOK`, `FlagsRestored`, `BorrowedNonblocking`, `NoStrayWakeup`, `ZeroMeansCopied`, `Cancellable` |
| `dd_fifo` | violated | a FIFO's only writer comes and goes between a read and a poll, and its data is not read |
| `ed` | short sessions over texts of up to 3 lines | `MarksFollow`, `GlobalTracks`, `UndoReturns`, `NoSilentLoss` |

What the scheduler's say. `NoStaleSnapshot`, `ImplementsAtomicSchedule`: the lock makes
every command one atomic step. `ClaimIsDurable`, `StartedAtMostOnce`: no occurrence runs
twice, across deaths and failed saves. `SubmissionOutcomeHolds`: a confirmed job is there
until a tick claims it or an `at -r` of its owner removes it; an `at -r` with one operand
that is unknown or somebody else's removes none. `CronJobsMatchTable`: source and jobs of
the crontab agree, as long as only commands that take the lock write the store; the
unlocked `schedule add --cron`, `rm` and `disable` are in `ScheduleCLI`.
`ClaimsAreScheduled`: no tick takes the zero time of an entry without a further instant
for a time that has passed. `LastRunNeverGoesBack`: nor does a tick with an old clock
reading undo a later one.

What the last five say. `PlanIsPacking`: the batches are the items in order, within the
limits, none cut early. `SlotsRespected`: no batch runs beyond `-P`. `StopIsHeeded`: what comes
out after the output of a batch that stops `xargs` is only what shared the slots with it,
fewer than `-P` batches, and nothing with `-P 1`. `OutputWhole`, `ExitIsWorst`, `ZeroMeansDone`: what the workers report
reaches the output and the status in any order. `NothingLost`: an accepted message is in
a mailbox, was saved, or was deleted by a user who committed. `DeletedStaysDeleted`,
`NoDuplicates`, `ReadStaysRead`: a stale session brings nothing back, and doubles nothing
unless its finish was cut off between its two transactions. `FlagsRestored`,
`BorrowedNonblocking`: the last borrower, and only the last, gives the flag back.
`ZeroMeansCopied`, `NoStrayWakeup`, `Cancellable`: a signal is neither lost, nor written
into somebody else's file, nor ineffective. `MarksFollow`, `GlobalTracks`, `UndoReturns`,
`NoSilentLoss`: line numbers kept across commands keep meaning the same lines, and the
one undo snapshot and the Dirty flag are right at every prompt.

The first three violations are disagreements between comments of `pkg/schedule` and the
code, the fourth one between a comment of `cmds/dd` and the code; `PROJECT.json` quotes
the comments under `findings`.

**Bounds.** Every interaction in question is between two processes: a holder and
one that waits, a tick and a submitter, two ticks. Two clock values let a tick's
reading be stale; three let the repeating job be claimed twice. The second user may ask
to remove the first one's job. In `schedule_liveness` the second job gives the daemon
something to hang on while the first one waits; its commands are `at` and `at -r` of at
jobs (`LiveSpec`), since a crontab would only add states. The crontab entries
fire once and then have no next instant, the zero time. In the lock file run a
second inode is there to be created, and a third process lets a death or a probe
happen between a holder and a waiter. Processes are symmetric in the safety runs;
the liveness runs use no symmetry. `MaxTime`, `MaxInode` and `MaxPolls` are the
only bounds on counters.

In `xargs` the packing cases cross inputs with empty, blank-ended and EOF lines with
every limit, and the scheduling cases have two or three batches for two workers, so that
one waits for a slot while another stops. In `mailx` two sessions on one mailbox and a
delivery are the three parties of every race; messages and commands are bounded per
session, and a process may die once. In `dd` two runs share the host's input, and one run has a terminal
for both input and output, two descriptors of one description, with up to three units of data. An `ed` session is as many lines of input as its scene
allows, from the set of commands of that scene. These runs may end, so they do not ask
for freedom from deadlock; `Terminates` and `Cancellable` say where ending is owed.

**Fairness.** In `Xargs` the dispatching loop, each worker and each `timeout` take their
enabled steps: they are goroutines and processes that wait for nothing else. No command
or descendant is ever forced to exit. `Terminates` has as premises that `timeout` will
end with a KILL, and that what survives it does not hold the output for ever: `os/exec`
waits for the captured pipe to be closed. In `Dd` each run and its goroutine take their
enabled steps, and nothing is assumed of the far ends. `MailSession` and `Ed` have
safety properties only. In `Lockfile` a process inside a call keeps running, and flock does
not pass over one blocked waiter for ever. Holders need not release; the property of
a blocked acquire says so as a premise. In `Schedule` the clock advances, a process
inside a transaction keeps running, and one waiting for `schedule.lock` gets it if it
stays free (`lockfile.Acquire` blocks in flock, for commands and ticks alike). That is
scheduling. Nothing makes the command of a job end. `c.Run` has no time limit, a tick runs
its jobs one after the other, and the daemon makes no further tick until the last has
returned, so one command that hangs keeps every job waiting until somebody kills it or runs
`schedule tick` by hand. `AcceptedJobIsClaimed` therefore has as its premise
that every command ends, or its process dies (`CommandsEnd`); without it the property does
not hold. `StoreLockIsReleased` needs no such premise: the lock is released first. The rest is assumed of the host, not guaranteed by the code: the daemon is
started again when it dies (`service.go` leaves that to the service monitor), its ticker
fires, and its ticks' attempts to lock, load and save do not all fail. For the lock this
is stated over whole attempts (`[]<>TickWaits => []<><<TickStage(Acquire)>>_vars`):
strong fairness of `Acquire` is too weak, because it is satisfied when every tick gives
up just while another process has the lock, and `AcceptedJobIsClaimed` then fails. So
that property depends on ticks getting through the lock now and then. Failures and
deaths themselves are never required and never limited in number.

## What is proved

The theorems hold for any jobs, processes, commands, sessions, messages and bounds that
the named assumptions on the constants allow. `StoreAssumption`, `ProcAssumption`,
`LockfileAssumption`, `PlanAssumption` and `DdAssumption` give the constants their types.
`XargsAssumption` also says that the options of a case parse to numbers and that there
are workers for its batches; `CaseTyped` shows the first to be so for every usable option
list. `MailAssumption` says that senders and readers are different processes, that the
system mailbox and MBOX are different files and that `save` does not name the system
mailbox. `OneCopyAssumption` says that an ID stands for one message: no two senders share
one, the system mailbox begins with a message once and with none that is still to be sent,
and no sender names it twice.

**`LockfileProofs`.** Nothing unlinks the path, so the files open in all processes are
one inode (`IInv`: `path = made`, every open descriptor is `path`, a process with the
lock is the inode's holder). Mutual exclusion, the record's truth and the refinement of
`Mutex` follow.

**`ScheduleProofs`.** It begins with the pure transactions of `JobStore`: their types, and
the three facts behind the claims. A tick selects nothing the store rules out; what it
selects is ruled out afterwards; no transaction takes that back, except by bringing in a
new job under the ID. `Inv` lifts them to processes. `NoStaleSnapshot` is not inductive
alone: it needs that whoever is in a transaction is the lock's holder (`LockInv`). The
claims need that pending IDs are fresh (`FreshInv`) and that what a process is about to
save rules out what it selected (`DueInv`). `FreshSnapshots`, `DurableClaims` and
`AtMostOneStart` follow. For the refinement every step is an atomic transaction, a clock
step or a stutter; a submission counts when it is confirmed, or when its rollback fails or
its process dies, and until then the abstract store is the one before it. That the atomic
store never claims an occurrence twice (`ClaimsAreUnique`) is then true of `Schedule`.
Last come crontab consistency, `LastRun` (through: an armed job's next run is after its
last), the truth of what submitters were told (`OutcomeInv`) and `ScheduledClaims`: the
next run of a crontab entry in the file is the zero time or an instant of the entry
(`NextIsInstant`), and no clock reading under way is ahead of the clock.

**`XargsPlanProofs`.** `PlanRight`: what `plan` returns without an error is a packing, for
every list of items and all options. The argument is that a batch is everything from its
start to the first item that is too many (`BatchEnd`), and that the items after it are
packed likewise; the induction is over the start, downwards. `PlanIsPacking` follows with
what `ReadItems` does to the line numbers: they never decrease, so that counting changes
of line counts lines.

**`XargsProofs`.** `OutputWhole` needs that a worker between its two writes holds `mu` and
that the last write is its own (`OutInv`). `SlotsRespected` needs where the
dispatching loop is: a parallel one never has more batches active than slots, the other
one runs the batch before `next` only (`LoopInv`). `StopIsHeeded` counts: a batch that
stops `xargs` has its slot until its last write and sets `stopped` in the same step, so at that
moment fewer than `-P` others have begun, and from then on no worker gets past its check
(`HeedInv`); with one process the loop itself ends there (`SeqStopInv`). `ExitIsWorst` and `ZeroMeansDone` need
what each batch's place says of its command, its verdict and its two writes (`JobsInv`),
and that `worst` is the greatest verdict passed on so far or the 1 of a failed write
(`WorstInv`).

**`DdProofs`.** `SignalInv` ties the goroutine, the registration, the pipe and the flag
together (a signal that was delivered is in the channel, being stored, or stored until
Stop has waited for the goroutine) and counts units read, held and written. It gives
`NoStrayWakeup` and `ZeroMeansCopied`. `LeaseInv` says that a lease's count is the
number of its borrowers and, where no two descriptors have one open file description
(`OneDescriptorEach`), that `changed` remembers the host's flag. It gives
`BorrowedNonblocking` and `FlagsRestored` under that hypothesis, since leases are per
descriptor. `TypeOK` needs no such hypothesis.

**`MailInvProofs`.** `Inv` says which operation a process at each place has asked for and
from which session it was made (`CallInv`), that an operation past its lock holds the
lock file, and what it then knows of the mailbox: the torn message at its end is its own,
its draft was made from the mailbox as it still is, its merge is in (`StepInv`). Each
session keeps what it read (`SessionInv`: same messages, same order, nothing read becomes
unread). Every command but the ones that wait for the store gives a session with a visible
current message, which is `CurrentIsVisible`.

**`MailLossProofs`.** `LossInv` adds where a message is safe before the commit that drops
it: one marked saved has a copy outside the system mailbox, one being saved is there or in
the append in progress, and one to be moved is in MBOX once the merge is written. The
step that matters is the commit: what is not in its draft was moved, saved or deleted, and
in the last case `purged` records it. `NothingLost` follows.

**`MailSpoolProofs`.** `SpoolInv` adds that the system mailbox holds a message once and
that one still to be delivered has been neither there nor deleted. A commit only thins the
mailbox: each entry it leaves comes from an entry of its own (`Thins`), because its
snapshot is still the mailbox's beginning. So nothing deleted returns, and as a session
never makes a read message unread, nothing read is recorded as unread.

The library's induction theorems take an operator, which the installed provers cannot
instantiate. Where a fact about a recursive function is needed (`PackPlan`, `Joined`,
`Kept`), it is proved from the least counterexample: `LeastNumber` says that a set of
naturals that is not empty has a least element, from the library's well-foundedness of
`<` on the naturals, and `SetInduction` is its consequence for a set.

Only model-checked:

* everything about fairness (`AcceptedJobIsClaimed`, `StoreLockIsReleased`,
  `BoundedCallReturns`, `BlockedAcquireReturns`, `Terminates`, `Cancellable`), which is
  out of the prover's reach;
* `NoDuplicates` of `mailx`. It bounds the number of places where a message occurs in two
  mailboxes, so a proof needs the positions of every message through merge and commit, and
  assumptions on routes and on MBOX that the other theorems do without;
* `MarksFollow`, `GlobalTracks`, `UndoReturns` and `NoSilentLoss` of `ed`, which are about
  what a chain of edits does to line numbers, each command with arithmetic of its own;
* `computeNext`, whose loop `EveryNext` replaces by its closed form.

## Simplifications

Job IDs are unique. The due jobs of a tick are fired in any order. Admission, environment
and mail of a job are part of the step that starts its command or does not. Option
and time parsing, access files, listings and the crontab syntax are left out, and so are
disk failures that corrupt a renamed file. Windows builds are not modelled.

**mailx.** An absent and an empty mailbox are the same. Programs that replace a mailbox
without its lock are left out, and with them the checks that the file is still the one
opened. The truncation that rolls back an append works. `save` does not name the system
mailbox. Composing, replying and sending are one delivery. A lock file left by a death is
never removed: the code leaves that to a person. A session starts on the system
mailbox: `mailx -f FILE`, which starts on another one, is left out, and only the `file`
command leads there. The variables (`hold`, `keepsave` and the like) are constants of a
session, so `set` and `unset` while it runs are left out too.

**xargs and timeout.** Quotes and escapes are resolved before the model begins. `-d` is
`-0` with another byte and `-t` only prints. A signal other than KILL may be ignored, so
sending it changes nothing by itself.

**dd.** Conversions, `noerror`, `sync`, partial blocks and seeking on the output are left
out, and so is `count=0` on an output FIFO, which opens nothing. Errors of poll count as
errors of the read or write that follows. Borrowing does not fail. The check of the
interrupt flag and the read after it are one step (`ReadStream`). In the code a signal may
come between them. Then the read does not wait, provided that the descriptor is
non-blocking, and the next turn of the loop sees the flag; a read from a blocking
descriptor would not return. So `Cancellable` rests on `BorrowedNonblocking`, which is
checked and proved on its own.

**ed.** A line is a sequence of atoms and a regular expression one atom. There is one file
and it has a name. Shell escapes, `=`, `f`, `h`, `H`, `P`, print formats, the `g` and count
flags of `s`, remembered expressions, and omitted addresses around separators are left out.
So is a regular expression that fails while it runs: only the backtracking matcher of
`pkg/bre` reports such errors, and an `s` over several lines that meets one returns with the
earlier lines changed and neither Dirty nor the change count touched
(`engine.go:1103`). `NoSilentLoss` says nothing of that case.

## Observations

Behaviour met while modelling that no run states as a violation:

* `timeout --preserve-status` without `-k` exits with 0 after the signal, whatever the
  command returned (`cmds/timeout/timeout.go:180`; the help text at line 215 says "exit
  with the same status as COMMAND").
* `ed`: a signal that arrives while `s` or `g` reads a continuation line is reported as an
  unterminated argument; after a SIGHUP there, `ed.hup` is not written.
* `ed`: a `w` of the whole buffer inside a global command, followed by `u`, restores the
  Dirty flag from before the `w`; `NoSilentLoss` names this exception.
* `ed`: `c` with no text in an empty buffer replaces the undo snapshot, though it changes
  nothing.
* `ed`: the addresses of a command in a global command's list are parsed twice, so an
  address before `;` moves the current line twice.
* `lockfile.TryAcquire` that meets an `Owner` probe is told that the lock is held. The
  package promises it one attempt only.
* One-shot jobs are disabled and never removed from the schedule store, batch jobs wait as
  long as the load is high, and of two concurrent `crontab -e` the later one wins. The
  code promises nothing else.

## Not modelled

* `pkg/who` (registry and plan pages) and `talk` (meeting through endpoint files) have
  interleavings of their own and could be modelled; they are not. The hazards seen in
  `pkg/who` are listed in `PROJECT.json` without a property.
* Job admission is a callback this repository leaves unset. Providers are looked up and
  executed; they keep no state.
* `make`, `awk`, `sed`, `bc`, `m4`, `pax`, `sort`, `diff`, `patch`, regular expressions and
  locales are interpreters and transformations of text. What could go wrong in them is in
  the characters, which a model of this kind abstracts from, or would have to repeat.
* The file-system utilities are sequences of system calls on state that is the host's.
* `tail`, `tee`, `write`, `mesg` and the process utilities are short loops or single calls.
* Windows and other builds of the modelled parts.
