------------------------------ MODULE Timeout ------------------------------
(***************************************************************************)
(* cmds/timeout: one invocation per member of Jobs.  An invocation starts  *)
(* its command in a process group of its own, waits for it in one          *)
(* goroutine and selects, in the other, between that wait and a timer.     *)
(* The command may leave descendants in its group that outlive it.         *)
(*                                                                         *)
(* KILL takes effect at once; any other signal may be handled or ignored,  *)
(* so sending it changes nothing by itself: a command may exit with any    *)
(* result at any time, and nothing makes it exit.                          *)
(***************************************************************************)
EXTENDS Integers

CONSTANTS
  Jobs,
  Codes,      \* the exit codes a command may end with
  Forking,    \* the jobs whose command may leave a descendant running
  Exposed     \* the jobs whose timeout process may itself be killed

ASSUME TimeoutAssumption ==
  Codes \subseteq 0 .. 255 /\ Forking \subseteq Jobs /\ Exposed \subseteq Jobs

VARIABLES
  topts,     \* the options every invocation is given
  tpc,       \* where each invocation's main goroutine is
  tstatus,   \* the status it exited with
  command,   \* "none", "running" or "gone"
  werr,      \* how the command ended: its code, or Signalled
  kids       \* the jobs whose command has left a descendant running

tvars == <<topts, tpc, tstatus, command, werr, kids>>

Signalled == -1

Options == [killAfter : BOOLEAN, preserveStatus : BOOLEAN,
            foreground : BOOLEAN, signal : {"TERM", "KILL"},
            expires : BOOLEAN]   \* the duration is short enough to pass

TPcs == {"none", "start", "select", "grace", "kill", "drain", "exited", "killed"}

TTypeOK ==
  /\ topts \in Options
  /\ tpc \in [Jobs -> TPcs]
  /\ tstatus \in [Jobs -> 0 .. 255]
  /\ command \in [Jobs -> {"none", "running", "gone"}]
  /\ werr \in [Jobs -> Codes \cup {0, Signalled}]
  /\ kids \subseteq Jobs

TInit ==
  /\ tpc = [j \in Jobs |-> "none"]
  /\ tstatus = [j \in Jobs |-> 0]
  /\ command = [j \in Jobs |-> "none"]
  /\ werr = [j \in Jobs |-> 0]
  /\ kids = {}

TGoto(j, l) == tpc' = [tpc EXCEPT ![j] = l]

TExit(j, s) == TGoto(j, "exited") /\ tstatus' = [tstatus EXCEPT ![j] = s]

\* The command's result as a status.
ExitStatus(w, timedOut) ==
  IF timedOut /\ ~topts.preserveStatus THEN 124
  ELSE IF w = Signalled THEN 137 ELSE w

----------------------------------------------------------------------------
\* The command is looked up and started.
TNotFound(j) ==
  /\ tpc[j] = "start"
  /\ \E s \in {126, 127} : TExit(j, s)
  /\ UNCHANGED <<topts, command, werr, kids>>

TStart(j) ==
  /\ tpc[j] = "start"
  /\ TGoto(j, "select")
  /\ command' = [command EXCEPT ![j] = "running"]
  /\ UNCHANGED <<topts, tstatus, werr, kids>>

\* procTree.signal: the whole group, or the command alone with --foreground.
Send(j, sig) ==
  IF sig = "KILL"
  THEN /\ command' = [command EXCEPT ![j] = "gone"]
       /\ werr' = IF command[j] = "running"
                  THEN [werr EXCEPT ![j] = Signalled] ELSE werr
       /\ kids' = IF topts.foreground THEN kids ELSE kids \ {j}
  ELSE UNCHANGED <<command, werr, kids>>

TPrimary(j) ==
  /\ tpc[j] = "select" /\ topts.expires
  /\ Send(j, topts.signal)
  /\ TGoto(j, IF topts.killAfter THEN "grace" ELSE "drain")
  /\ UNCHANGED <<topts, tstatus>>

TKillTimer(j) ==
  /\ tpc[j] = "grace"
  /\ Send(j, "KILL")
  /\ TGoto(j, "kill")
  /\ UNCHANGED <<topts, tstatus>>

\* The wait goroutine's result arrives.  Where a timer has fired as well,
\* select takes either.
TDone(j) ==
  /\ command[j] = "gone"
  /\ \/ tpc[j] = "select" /\ TExit(j, ExitStatus(werr[j], FALSE))
     \/ tpc[j] = "grace" /\ TExit(j, ExitStatus(werr[j], TRUE))
     \/ tpc[j] = "kill" /\ TExit(j, 137)
     \/ tpc[j] = "drain" /\ TExit(j, ExitStatus(0, TRUE))
  /\ UNCHANGED <<topts, command, werr, kids>>

TimeoutStep(j) ==
  TNotFound(j) \/ TStart(j) \/ TPrimary(j) \/ TKillTimer(j) \/ TDone(j)

----------------------------------------------------------------------------
\* The surroundings of an invocation.

CommandExits(j) ==
  /\ command[j] = "running"
  /\ command' = [command EXCEPT ![j] = "gone"]
  /\ \E w \in Codes \cup {Signalled} : werr' = [werr EXCEPT ![j] = w]
  /\ UNCHANGED <<topts, tpc, tstatus, kids>>

CommandForks(j) ==
  /\ command[j] = "running" /\ j \in Forking \ kids
  /\ kids' = kids \cup {j}
  /\ UNCHANGED <<topts, tpc, tstatus, command, werr>>

KidExits(j) ==
  /\ j \in kids
  /\ kids' = kids \ {j}
  /\ UNCHANGED <<topts, tpc, tstatus, command, werr>>

\* Somebody kills timeout itself; its command runs on.
TKilled(j) ==
  /\ j \in Exposed
  /\ tpc[j] \in {"start", "select", "grace", "kill", "drain"}
  /\ TGoto(j, "killed")
  /\ UNCHANGED <<topts, tstatus, command, werr, kids>>

TimeoutEnvironment(j) ==
  CommandExits(j) \/ CommandForks(j) \/ KidExits(j) \/ TKilled(j)
=============================================================================
