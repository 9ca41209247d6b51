------------------------------- MODULE Mailbox -------------------------------
(***************************************************************************)
(* The mailbox store of pkg/mailx: mbox files shared by every mailx        *)
(* process, each guarded by a lock file that is created with O_EXCL and    *)
(* tried once.                                                             *)
(*                                                                         *)
(* A mailbox is the sequence of its entries.  An entry is a message, its   *)
(* Status field, and whether its text is whole: the single write(2) of an  *)
(* append is not atomic for a reader that takes no lock (ReadMbox), which  *)
(* can see the text cut short.  An absent and an empty mailbox read the    *)
(* same and are both the empty sequence.                                   *)
(*                                                                         *)
(* A client calls one operation at a time; call holds its arguments, step  *)
(* where the operation is, and answer what it returned.                    *)
(***************************************************************************)
EXTENDS Integers, Sequences, FiniteSets

CONSTANTS Clients, Boxes, Ids, Free

VARIABLES box,     \* the entries of each mailbox
          lock,    \* the client whose lock file guards each mailbox, or Free
          call,    \* the operation each client is in
          step,    \* how far that operation is
          draft,   \* the mailbox content an operation is about to install
          answer   \* what the last operation returned to its caller

store == <<box, lock, call, step, draft, answer>>

Entry == [id : Ids, status : {"none", "O", "RO"}, whole : BOOLEAN]

IdsOf(entries) == {entries[i].id : i \in DOMAIN entries}

NoCall == [op |-> "none"]

StoreTypeOK ==
    /\ \A b \in Boxes : \A i \in DOMAIN box[b] : box[b][i] \in Entry
    /\ lock \in [Boxes -> Clients \cup {Free}]
    /\ \A c \in Clients :
          /\ step[c] \in {"out", "called", "locked", "torn", "loaded", "written", "dead"}
          /\ step[c] \in {"out", "dead"} \/ call[c].box \in Boxes
          /\ step[c] \in {"locked", "torn", "loaded", "written"}
                => lock[call[c].box] = c
          /\ \A i \in DOMAIN draft[c] : draft[c][i] \in Entry
    /\ answer \in [Clients -> {"none", "ok", "error"}]

StoreInit(initial) ==
    /\ box = initial
    /\ lock = [b \in Boxes |-> Free]
    /\ call = [c \in Clients |-> NoCall]
    /\ step = [c \in Clients |-> "out"]
    /\ draft = [c \in Clients |-> <<>>]
    /\ answer = [c \in Clients |-> "none"]

-----------------------------------------------------------------------------
(* Calls and returns *)

AppendMbox(b, e) == [op |-> "append", box |-> b, entry |-> e]
MergeMbox(b, es, atEnd) ==
    [op |-> "merge", box |-> b, entries |-> es, atEnd |-> atEnd]
CommitMbox(b, snapshot, updated, keep) ==
    [op |-> "commit", box |-> b, snapshot |-> snapshot, updated |-> updated,
     keep |-> keep]

Call(c, operation) ==
    /\ call' = [call EXCEPT ![c] = operation]
    /\ step' = [step EXCEPT ![c] = "called"]
    /\ answer' = [answer EXCEPT ![c] = "none"]
    /\ UNCHANGED <<box, lock, draft>>

(* The caller has looked at the answer and goes on without another call. *)
Heard(c) ==
    /\ answer' = [answer EXCEPT ![c] = "none"]
    /\ UNCHANGED <<box, lock, call, step, draft>>

Return(c, result) ==
    /\ step' = [step EXCEPT ![c] = "out"]
    /\ call' = [call EXCEPT ![c] = NoCall]
    /\ draft' = [draft EXCEPT ![c] = <<>>]
    /\ answer' = [answer EXCEPT ![c] = result]

(* The deferred unlock, run on every return once the lock file is there. *)
UnlockAndReturn(c, result) ==
    /\ lock' = [lock EXCEPT ![call[c].box] = Free]
    /\ Return(c, result)

-----------------------------------------------------------------------------
(* The lock file *)

(* Mutant: an existing lock file is opened instead of refused. *)
AcquireShared(c) ==
    /\ step[c] = "called"
    /\ step' = [step EXCEPT ![c] = "locked"]
    /\ lock' = [lock EXCEPT ![call[c].box] = c]
    /\ UNCHANGED <<box, call, draft, answer>>

Acquire(c) ==
    /\ step[c] = "called"
    /\ lock[call[c].box] = Free
    /\ step' = [step EXCEPT ![c] = "locked"]
    /\ lock' = [lock EXCEPT ![call[c].box] = c]
    /\ UNCHANGED <<box, call, draft, answer>>

(* ErrBusy: the lock file exists, whoever left it there. *)
AcquireBusy(c) ==
    /\ step[c] = "called"
    /\ lock[call[c].box] # Free
    /\ Return(c, "error")
    /\ UNCHANGED <<box, lock>>

(* An I/O error before the mailbox is touched: opening it, reading it, or   *)
(* making the temporary file.                                               *)
FailUntouched(c) ==
    /\ step[c] \in {"locked", "loaded"}
    /\ UnlockAndReturn(c, "error")
    /\ UNCHANGED box

-----------------------------------------------------------------------------
(* AppendMbox: one write, rolled back by a truncate when it fails.          *)

AppendBegins(c) ==
    /\ step[c] = "locked"
    /\ call[c].op = "append"
    /\ box' = [box EXCEPT ![call[c].box] =
                  Append(@, [call[c].entry EXCEPT !.whole = FALSE])]
    /\ step' = [step EXCEPT ![c] = "torn"]
    /\ UNCHANGED <<lock, call, draft, answer>>

(* What the mailbox held before the write. *)
Truncated(entries) == SubSeq(entries, 1, Len(entries) - 1)

AppendEnds(c) ==
    /\ step[c] = "torn"
    /\ box' = [box EXCEPT ![call[c].box] = Append(Truncated(@), call[c].entry)]
    /\ step' = [step EXCEPT ![c] = "written"]
    /\ UNCHANGED <<lock, call, draft, answer>>

AppendRollsBack(c) ==
    /\ step[c] = "torn"
    /\ box' = [box EXCEPT ![call[c].box] = Truncated(@)]
    /\ UnlockAndReturn(c, "error")

(* The close that follows a complete write can still report an error. *)
CloseFails(c) ==
    /\ step[c] = "written"
    /\ call[c].op = "append"
    /\ UnlockAndReturn(c, "error")
    /\ UNCHANGED box

-----------------------------------------------------------------------------
(* MergeMbox and CommitMboxChangesKeep: read the mailbox under the lock,    *)
(* then replace it by a rename (or, when nothing is left, remove it).       *)

Merged(old, entries, atEnd) ==
    IF atEnd THEN old \o entries ELSE entries \o old

MergeReads(c) ==
    /\ step[c] = "locked"
    /\ call[c].op = "merge"
    /\ draft' = [draft EXCEPT ![c] =
                    Merged(box[call[c].box], call[c].entries, call[c].atEnd)]
    /\ step' = [step EXCEPT ![c] = "loaded"]
    /\ UNCHANGED <<box, lock, call, answer>>

(* Mutant: only the number of entries is compared. *)
UnchangedLength(snapshot, latest) == Len(latest) >= Len(snapshot)

(* The snapshot is still an unchanged prefix of what the file holds now. *)
Unchanged(snapshot, latest) ==
    /\ Len(latest) >= Len(snapshot)
    /\ \A i \in DOMAIN snapshot : latest[i] = snapshot[i]

(* The entries to keep, in their updated form, before what arrived since. *)
Kept(updated, keep) ==
    LET upTo[i \in 0..Len(updated)] ==
          IF i = 0 THEN <<>>
          ELSE IF keep[i] THEN Append(upTo[i - 1], updated[i]) ELSE upTo[i - 1]
    IN  upTo[Len(updated)]

(* Mutant: what arrived since the snapshot is forgotten. *)
NotArrived(snapshot, latest) == <<>>

Arrived(snapshot, latest) == SubSeq(latest, Len(snapshot) + 1, Len(latest))

CommitReads(c) ==
    /\ step[c] = "locked"
    /\ call[c].op = "commit"
    /\ LET latest == box[call[c].box]
       IN  /\ Unchanged(call[c].snapshot, latest)
           /\ draft' = [draft EXCEPT ![c] =
                  Kept(call[c].updated, call[c].keep)
                     \o Arrived(call[c].snapshot, latest)]
    /\ step' = [step EXCEPT ![c] = "loaded"]
    /\ UNCHANGED <<box, lock, call, answer>>

(* ErrMailboxChanged *)
CommitRefused(c) ==
    /\ step[c] = "locked"
    /\ call[c].op = "commit"
    /\ ~ Unchanged(call[c].snapshot, box[call[c].box])
    /\ UnlockAndReturn(c, "error")
    /\ UNCHANGED box

Replace(c) ==
    /\ step[c] = "loaded"
    /\ box' = [box EXCEPT ![call[c].box] = draft[c]]
    /\ step' = [step EXCEPT ![c] = "written"]
    /\ UNCHANGED <<lock, call, draft, answer>>

Succeed(c) ==
    /\ step[c] = "written"
    /\ UnlockAndReturn(c, "ok")
    /\ UNCHANGED box

-----------------------------------------------------------------------------
(* The process dies; a lock file it holds stays behind for good. *)
StoreCrash(c) ==
    /\ step[c] # "dead"
    /\ step' = [step EXCEPT ![c] = "dead"]
    /\ call' = [call EXCEPT ![c] = NoCall]
    /\ draft' = [draft EXCEPT ![c] = <<>>]
    /\ answer' = [answer EXCEPT ![c] = "none"]
    /\ UNCHANGED <<box, lock>>

(* Every step of an operation but the last, and but the ones that change a  *)
(* mailbox through a rename.                                                *)
StoreStep(c) ==
    \/ Acquire(c) \/ AcquireBusy(c) \/ FailUntouched(c)
    \/ AppendBegins(c) \/ AppendEnds(c) \/ AppendRollsBack(c) \/ CloseFails(c)
    \/ MergeReads(c) \/ CommitReads(c) \/ CommitRefused(c) \/ Replace(c)
    \/ Succeed(c)

(* ReadMbox takes no lock: it returns the mailbox as it stands, the entry   *)
(* being appended cut short included.                                       *)
ReadMbox(b) == box[b]
=============================================================================
