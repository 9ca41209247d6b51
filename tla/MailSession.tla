----------------------------- MODULE MailSession -----------------------------
(***************************************************************************)
(* mailx processes sharing mailboxes: senders that deliver one message to  *)
(* a list of mailboxes, and readers that run a receive session             *)
(* (cmds/mailx/session.go) over the store of Mailbox.                      *)
(*                                                                         *)
(* A session works on a snapshot of its mailbox.  Commands change only     *)
(* the session, but for save, copy and write; quit, end of input and file  *)
(* commit it: messages to move are merged into MBOX first, and a second    *)
(* transaction then drops them from the mailbox.  Either can fail, and     *)
(* the process can die between them.                                       *)
(*                                                                         *)
(* Message positions count from 1 and 0 stands for the code's -1.          *)
(***************************************************************************)
EXTENDS Mailbox, FiniteSetsExt

CONSTANTS Senders, Readers,
          Spool, Mbox,      \* the user's system mailbox and their MBOX
          Mail,             \* the message of each sender
          SaveTo, FileTo,   \* targets of save and copy, and of file
          Scenes            \* where to start: the entries of each mailbox, the
                            \* mailboxes each sender delivers to, the settings
                            \* and the number of commands of each session that
                            \* runs, and the number of crashes

\* The variables of a session that decide what becomes of a message.
Settings == [hold : BOOLEAN, keepsave : BOOLEAN, append : BOOLEAN, autoprint : BOOLEAN]

ASSUME MailAssumption ==
    /\ Clients = Senders \cup Readers /\ Senders \cap Readers = {}
    /\ {Spool, Mbox} \subseteq Boxes /\ Spool # Mbox
    /\ Free \notin Clients
    /\ SaveTo \subseteq Boxes \ {Spool} /\ FileTo \subseteq Boxes
    /\ Mail \in [Senders -> Ids]
    /\ \A x \in Scenes :
          /\ x.boxes \in [Boxes -> Seq(Entry)] /\ x.route \in [Senders -> Seq(Boxes)]
          /\ x.options \in [Readers -> Settings]

(* An id stands for one message: no two senders share one, none is in the  *)
(* system mailbox from the start, where no two entries share one either,   *)
(* and no sender names the system mailbox twice.                           *)
ASSUME OneCopyAssumption ==
    /\ \A c, d \in Senders : Mail[c] = Mail[d] => c = d
    /\ \A x \in Scenes :
          /\ \A c \in Senders : Mail[c] \notin IdsOf(x.boxes[Spool])
          /\ \A i, j \in DOMAIN x.boxes[Spool] :
                x.boxes[Spool][i].id = x.boxes[Spool][j].id => i = j
          /\ \A c \in Senders : \A i, j \in DOMAIN x.route[c] :
                x.route[c][i] = Spool /\ x.route[c][j] = Spool => i = j

VARIABLES todo,    \* what a sender still has to deliver to
          pc,      \* where each process is between store operations
          opt,     \* the variables set in each session
          s,       \* the session of each reader
          commands,\* how many commands each session may still run
          pending, \* what a save or a finish still has to do
          crashes, \* how many processes may still die
          plain,   \* history: messages whose body a write command put in a file
          accepted,\* history: messages some mailbox has held whole
          purged,  \* history: what a user's deletion took out of which mailbox
          doubled  \* history: messages copied by a user, or left in two places
                   \* by a finish that merged and then did not commit

session == <<todo, pc, opt, s, commands, pending, crashes, plain, doubled>>
history == <<accepted, purged>>
vars == <<store, session, history>>

States == {"new", "unread", "read", "deleted", "preserved", "saved", "mboxed"}

Fresh(m) == [id |-> m, status |-> "none", whole |-> TRUE]

WholeIn(entries) ==
    {entries[i].id : i \in {i \in DOMAIN entries : entries[i].whole}}
Whole(contents) == UNION {WholeIn(contents[b]) : b \in Boxes}

NoSession == [at |-> Spool, original |-> <<>>, entries |-> <<>>, state |-> <<>>,
              readFlag |-> <<>>, shown |-> <<>>, current |-> 0]

Idle == [kind |-> "none"]

TypeOK ==
    /\ StoreTypeOK
    /\ \A r \in Readers :
          LET n == Len(s[r].original)
          IN  /\ s[r].at \in Boxes
              /\ Len(s[r].entries) = n /\ s[r].state \in [1..n -> States]
              /\ s[r].readFlag \in [1..n -> BOOLEAN]
              /\ s[r].shown \in [1..n -> BOOLEAN]
              /\ s[r].current \in 0..n
    /\ pc \in [Clients -> {"start", "send", "prompt", "save", "merge", "commit", "done"}]
    /\ plain \subseteq Ids /\ accepted \subseteq Ids /\ doubled \subseteq Ids

Init ==
    \E x \in Scenes :
       /\ StoreInit(x.boxes)
       /\ todo = x.route
       /\ pc = [c \in Clients |-> IF c \in Senders THEN "send"
                                  ELSE IF c \in x.readers THEN "start" ELSE "done"]
       /\ opt = x.options
       /\ s = [r \in Readers |-> NoSession]
       /\ commands = x.commands
       /\ pending = [r \in Readers |-> Idle]
       /\ crashes = x.crashes
       /\ plain = {} /\ purged = {} /\ doubled = {}
       /\ accepted = Whole(x.boxes)

-----------------------------------------------------------------------------
(* deliver: one append per recipient, then one for the record file; the     *)
(* first error ends it, with the earlier recipients served.                 *)

Deliver(c) ==
    /\ c \in Senders /\ pc[c] = "send" /\ step[c] = "out"
    /\ IF answer[c] # "error" /\ todo[c] # <<>>
         THEN /\ Call(c, AppendMbox(Head(todo[c]), Fresh(Mail[c])))
              /\ todo' = [todo EXCEPT ![c] = Tail(@)]
              /\ UNCHANGED pc
         ELSE /\ Heard(c)
              /\ pc' = [pc EXCEPT ![c] = "done"]
              /\ UNCHANGED todo
    /\ UNCHANGED <<opt, s, commands, pending, crashes, plain, doubled, history>>

-----------------------------------------------------------------------------
(* Sessions *)

(* The program is over, and its session with it. *)
End(r) ==
    /\ pc' = [pc EXCEPT ![r] = "done"]
    /\ s' = [s EXCEPT ![r] = NoSession]

AtPrompt(r) == pc[r] = "prompt" /\ step[r] = "out"

(* The state a message starts in, by its mailbox and its Status field. *)
InitialState(system, status) ==
    CASE ~system \/ status = "RO" -> "read"
      [] system /\ status = "O" -> "unread"
      [] OTHER -> "new"

(* The first new message, else the first unread, else the first read one. *)
FirstIn(state, want) ==
    LET found == {i \in DOMAIN state : state[i] = want}
    IN  IF found = {} THEN 0 ELSE Min(found)
FirstCurrent(state) ==
    IF FirstIn(state, "new") # 0 THEN FirstIn(state, "new")
    ELSE IF FirstIn(state, "unread") # 0 THEN FirstIn(state, "unread")
    ELSE FirstIn(state, "read")

Opened(b) ==
    LET es == ReadMbox(b)
        system == b = Spool
        state == [i \in DOMAIN es |-> InitialState(system, es[i].status)]
    IN  [at |-> b, original |-> es, entries |-> es, state |-> state,
         readFlag |-> [i \in DOMAIN es |-> system /\ state[i] = "read"],
         shown |-> [i \in DOMAIN es |-> FALSE],
         current |-> FirstCurrent(state)]

(* An empty mailbox ends the program; so does one that cannot be read. *)
Start(r) ==
    /\ pc[r] = "start" /\ step[r] = "out"
    /\ \/ /\ ReadMbox(Spool) # <<>>
          /\ s' = [s EXCEPT ![r] = Opened(Spool)]
          /\ pc' = [pc EXCEPT ![r] = "prompt"]
       \/ End(r)
    /\ UNCHANGED <<store, todo, opt, commands, pending, crashes, plain, doubled, history>>

Visible(x) == {i \in DOMAIN x.state : x.state[i] # "deleted"}
Deleted(x) == DOMAIN x.state \ Visible(x)

(* selectMessages: the current message, or what a message list picks out. *)
Selections(x) ==
    ((SUBSET Visible(x)) \ {{}}) \cup (IF x.current = 0 THEN {} ELSE {{x.current}})

(* markMessageRead, and what the commands that print do to each message. *)
ReadState(state) == IF state \in {"new", "unread"} THEN "read" ELSE state

Show(x, nums) ==
    [x EXCEPT !.readFlag = [i \in DOMAIN @ |-> i \in nums \/ @[i]],
              !.state = [i \in DOMAIN @ |-> IF i \in nums THEN ReadState(@[i]) ELSE @[i]],
              !.shown = [i \in DOMAIN @ |-> i \in nums \/ @[i]],
              !.current = Max(nums)]

After(x, i) == {j \in Visible(x) : j > i}
Before(x, i) == {j \in Visible(x) : j < i}

(* Mutant: with nothing after it, the deleted message stays current. *)
ChooseAfterStays(x, last) ==
    IF After(x, last) # {} THEN Min(After(x, last)) ELSE last

ChooseAfter(x, last) ==
    IF After(x, last) # {} THEN Min(After(x, last))
    ELSE IF Before(x, last) # {} THEN Max(Before(x, last)) ELSE 0

(* mark, before any automatic printing: delete overrides a message that is  *)
(* preserved, the other marks do not.                                       *)
MarkedState(state, st) ==
    IF st = "read" THEN ReadState(state)
    ELSE IF state = "preserved" /\ st # "deleted" THEN state ELSE st

Marked(x, nums, st) ==
    LET y == [x EXCEPT
          !.state = [i \in DOMAIN @ |-> IF i \in nums THEN MarkedState(@[i], st) ELSE @[i]],
          !.readFlag = [i \in DOMAIN @ |-> (i \in nums /\ st \in {"mboxed", "read"}) \/ @[i]],
          !.shown = [i \in DOMAIN @ |-> (i \in nums /\ st # "deleted") \/ @[i]]]
    IN  [y EXCEPT !.current = IF st = "deleted" THEN ChooseAfter(y, Max(nums)) ELSE Max(nums)]

(* The message a command leaves current is printed under autoprint. *)
AutoPrint(r, x) ==
    IF opt[r].autoprint /\ x.current \in Visible(x) THEN Show(x, {x.current}) ELSE x

(* A command that changes nothing but the session. *)
Command(r, x) ==
    /\ commands[r] > 0
    /\ commands' = [commands EXCEPT ![r] = @ - 1]
    /\ s' = [s EXCEPT ![r] = x]
    /\ UNCHANGED <<store, todo, pc, opt, pending, crashes, plain, doubled, history>>

(* print, Print, top, and pipe, which does not count as showing. *)
ShowMessages(r) ==
    /\ AtPrompt(r)
    /\ \E nums \in Selections(s[r]) :
          \/ Command(r, Show(s[r], nums))
          \/ Command(r, [Show(s[r], nums) EXCEPT !.shown = s[r].shown])

(* next: the current message if it has not been shown, else the one after. *)
NextMessage(r) ==
    /\ AtPrompt(r)
    /\ LET x == s[r]
       IN  IF x.current # 0 /\ ~x.shown[x.current]
             THEN Command(r, Show(x, {x.current}))
             ELSE /\ After(x, x.current) # {}
                  /\ Command(r, Show(x, {Min(After(x, x.current))}))

(* size, from, headers, edit and reply only move the current message. *)
Look(r) ==
    /\ AtPrompt(r)
    /\ \E i \in Visible(s[r]) : Command(r, [s[r] EXCEPT !.current = i])

Mark(r) ==
    /\ AtPrompt(r)
    /\ \E nums \in Selections(s[r]), st \in {"deleted", "preserved", "mboxed", "read"} :
          Command(r, AutoPrint(r, Marked(s[r], nums, st)))

(* dp prints the next message only when one follows the last one deleted. *)
DeletePrint(r) ==
    /\ AtPrompt(r)
    /\ \E nums \in Selections(s[r]) :
          LET x == Marked(s[r], nums, "deleted")
          IN  Command(r, IF x.current > Max(nums) THEN Show(x, {x.current}) ELSE x)

(* undelete: a list of deleted messages, or the nearest one, after first. *)
NearestDeleted(x) ==
    LET after == {i \in Deleted(x) : i > x.current}
        before == {i \in Deleted(x) : i < x.current}
    IN  IF after # {} THEN {{Min(after)}}
        ELSE IF before # {} THEN {{Max(before)}} ELSE {}

Undelete(r) ==
    /\ AtPrompt(r)
    /\ \E nums \in ((SUBSET Deleted(s[r])) \ {{}}) \cup NearestDeleted(s[r]) :
          Command(r, AutoPrint(r,
             [s[r] EXCEPT !.state = [i \in DOMAIN @ |-> IF i \in nums THEN "read" ELSE @[i]],
                          !.readFlag = [i \in DOMAIN @ |-> i \in nums \/ @[i]],
                          !.current = Max(nums)]))

-----------------------------------------------------------------------------
(* save, copy and write *)

Saved(x, nums) ==
    [x EXCEPT !.state = [i \in DOMAIN @ |->
                  IF i \in nums /\ @[i] # "preserved" THEN "saved" ELSE @[i]],
              !.current = Max(nums)]

(* save and copy append the messages one by one, in the order of the       *)
(* mailbox, each under the lock.                                            *)
Save(r) ==
    /\ AtPrompt(r) /\ commands[r] > 0
    /\ \E nums \in Selections(s[r]), b \in SaveTo, kind \in {"save", "copy"} :
          pending' = [pending EXCEPT ![r] =
              [kind |-> kind, nums |-> nums, left |-> nums, to |-> b]]
    /\ pc' = [pc EXCEPT ![r] = "save"]
    /\ commands' = [commands EXCEPT ![r] = @ - 1]
    /\ UNCHANGED <<store, todo, opt, s, crashes, plain, doubled, history>>

SaveAppend(r) ==
    /\ pc[r] = "save" /\ step[r] = "out"
    /\ pending[r].left # {} /\ answer[r] # "error"
    /\ LET i == Min(pending[r].left)
           e == s[r].entries[i]
       IN  /\ Call(r, AppendMbox(pending[r].to, e))
           /\ doubled' = doubled \cup {e.id}
           /\ pending' = [pending EXCEPT ![r].left = @ \ {i}]
    /\ UNCHANGED <<todo, pc, opt, s, commands, crashes, plain, history>>

(* An error leaves the states as they were, whatever was appended before. *)
SaveDone(r) ==
    /\ pc[r] = "save" /\ step[r] = "out"
    /\ pending[r].left = {} \/ answer[r] = "error"
    /\ Heard(r)
    /\ s' = [s EXCEPT ![r] =
          IF answer[r] = "error" THEN @
          ELSE IF pending[r].kind = "save" THEN Saved(@, pending[r].nums)
          ELSE Show(@, pending[r].nums)]
    /\ pc' = [pc EXCEPT ![r] = "prompt"]
    /\ pending' = [pending EXCEPT ![r] = Idle]
    /\ UNCHANGED <<todo, opt, commands, crashes, plain, doubled, history>>

(* write puts the bodies in a plain file, which no lock guards. *)
Write(r) ==
    /\ AtPrompt(r) /\ commands[r] > 0
    /\ \E nums \in Selections(s[r]) :
          /\ s' = [s EXCEPT ![r] = Saved(@, nums)]
          /\ plain' = plain \cup {s[r].entries[i].id : i \in
                                    {i \in nums : s[r].entries[i].whole}}
    /\ commands' = [commands EXCEPT ![r] = @ - 1]
    /\ UNCHANGED <<store, todo, pc, opt, pending, crashes, doubled, history>>

-----------------------------------------------------------------------------
(* finish: what becomes of each message by its state.                       *)

ToMbox(x, o) ==
    {i \in DOMAIN x.state :
        \/ x.state[i] = "mboxed"
        \/ x.at = Spool /\ x.state[i] = "saved" /\ o.keepsave
        \/ x.at = Spool /\ x.state[i] = "read" /\ ~o.hold}

Dropped(x, o) ==
    ToMbox(x, o) \cup {i \in DOMAIN x.state :
        x.state[i] = "deleted" \/ (x.at = Spool /\ x.state[i] = "saved")}

(* The messages to move, unless MBOX is the mailbox being read. *)
Moved(x, o) == IF x.at = Mbox THEN {} ELSE ToMbox(x, o)

(* Mutant: the messages moved to MBOX are kept as well. *)
KeepMoved(x, o) == [i \in DOMAIN x.state |-> i \notin Dropped(x, o) \ ToMbox(x, o)]

Keep(x, o) ==
    [i \in DOMAIN x.state |->
        i \notin Dropped(x, o) \/ (x.at = Mbox /\ i \in ToMbox(x, o))]

(* Mutant: a preserved message is recorded as old, read or not. *)
NewStatusForgets(x, o, i) ==
    IF x.at = Mbox /\ i \in ToMbox(x, o) THEN "RO"
    ELSE IF x.at # Spool THEN x.entries[i].status
    ELSE CASE x.state[i] = "read" /\ o.hold -> "RO"
           [] x.state[i] \in {"new", "unread", "preserved"} -> "O"
           [] OTHER -> x.entries[i].status

NewStatus(x, o, i) ==
    IF x.at = Mbox /\ i \in ToMbox(x, o) THEN "RO"
    ELSE IF x.at # Spool THEN x.entries[i].status
    ELSE CASE x.state[i] = "read" /\ o.hold -> "RO"
           [] x.state[i] \in {"new", "unread"} -> "O"
           [] x.state[i] = "preserved" -> IF x.readFlag[i] THEN "RO" ELSE "O"
           [] OTHER -> x.entries[i].status

Stamped(x, o) ==
    [x EXCEPT !.entries = [i \in DOMAIN @ |-> [@[i] EXCEPT !.status = NewStatus(x, o, i)]]]

CommitCall(x, o) == CommitMbox(x.at, x.original, x.entries, Keep(x, o))
MovedEntries(x, o) == Kept(x.entries, [i \in DOMAIN x.state |-> i \in Moved(x, o)])
MovedIds(r) == IdsOf(MovedEntries(s[r], opt[r]))

Finish(r, then, to) ==
    LET x == Stamped(s[r], opt[r])
    IN  /\ s' = [s EXCEPT ![r] = x]
        /\ pending' = [pending EXCEPT ![r] = [kind |-> then, to |-> to]]
        /\ IF Moved(x, opt[r]) = {}
             THEN /\ Call(r, CommitCall(x, opt[r]))
                  /\ pc' = [pc EXCEPT ![r] = "commit"]
             ELSE /\ Call(r, MergeMbox(Mbox, MovedEntries(x, opt[r]), opt[r].append))
                  /\ pc' = [pc EXCEPT ![r] = "merge"]
        /\ UNCHANGED <<todo, opt, crashes, plain, doubled, history>>

(* quit and the end of the input commit and end the program; exit only      *)
(* ends it; file commits and opens another mailbox.                         *)
Quit(r) == AtPrompt(r) /\ Finish(r, "quit", Spool) /\ UNCHANGED commands

ExitSession(r) ==
    /\ AtPrompt(r)
    /\ End(r)
    /\ UNCHANGED <<store, todo, opt, commands, pending, crashes, plain, doubled, history>>

File(r) ==
    /\ AtPrompt(r) /\ commands[r] > 0
    /\ commands' = [commands EXCEPT ![r] = @ - 1]
    /\ \E b \in FileTo : Finish(r, "file", b)

(* A finish that fails ends a quit with status 1; after file the session    *)
(* goes on with the old mailbox.                                            *)
FinishFails(r) ==
    /\ Heard(r)
    /\ IF pending[r].kind = "quit"
         THEN End(r)
         ELSE pc' = [pc EXCEPT ![r] = "prompt"] /\ UNCHANGED s
    /\ pending' = [pending EXCEPT ![r] = Idle]
    /\ UNCHANGED <<todo, opt, commands, crashes, plain, history>>

MergeReturns(r) ==
    /\ pc[r] = "merge" /\ step[r] = "out"
    /\ \/ /\ answer[r] = "error"
          /\ FinishFails(r)
          /\ UNCHANGED doubled
       \/ /\ answer[r] = "ok"
          /\ Call(r, CommitCall(s[r], opt[r]))
          /\ pc' = [pc EXCEPT ![r] = "commit"]
          /\ UNCHANGED <<todo, opt, s, commands, pending, crashes, plain, doubled, history>>

CommitFails(r) ==
    /\ pc[r] = "commit" /\ step[r] = "out" /\ answer[r] = "error"
    /\ FinishFails(r)
    /\ doubled' = doubled \cup MovedIds(r)

(* After file the other mailbox is opened; when it cannot be read the       *)
(* session keeps the snapshot it has just committed.                        *)
CommitReturns(r) ==
    /\ pc[r] = "commit" /\ step[r] = "out" /\ answer[r] = "ok"
    /\ Heard(r)
    /\ IF pending[r].kind = "quit"
         THEN End(r)
         ELSE /\ pc' = [pc EXCEPT ![r] = "prompt"]
              /\ \/ s' = [s EXCEPT ![r] = Opened(pending[r].to)]
                 \/ UNCHANGED s
    /\ pending' = [pending EXCEPT ![r] = Idle]
    /\ UNCHANGED <<todo, opt, commands, crashes, plain, doubled, history>>

-----------------------------------------------------------------------------
(* The store at work.  The history variables record what its step did.      *)

Purges(c) ==
    IF step[c] = "loaded" /\ step'[c] = "written" /\ call[c].op = "commit"
      THEN {<<call[c].box, s[c].original[i].id>> : i \in Deleted(s[c])}
      ELSE {}

StoreWorks(c) ==
    /\ StoreStep(c)
    /\ accepted' = accepted \cup Whole(box')
    /\ purged' = purged \cup Purges(c)
    /\ UNCHANGED session

(* The process dies.  A finish between its two transactions leaves what it  *)
(* moved in both mailboxes.                                                 *)
Moving(r) == pc[r] = "commit" \/ (pc[r] = "merge" /\ (step[r] = "written" \/ answer[r] = "ok"))

Crash(c) ==
    /\ crashes > 0 /\ pc[c] # "done"
    /\ StoreCrash(c)
    /\ crashes' = crashes - 1
    /\ doubled' = IF c \in Readers /\ Moving(c) THEN doubled \cup MovedIds(c) ELSE doubled
    /\ IF c \in Readers
         THEN End(c) /\ pending' = [pending EXCEPT ![c] = Idle]
         ELSE pc' = [pc EXCEPT ![c] = "done"] /\ UNCHANGED <<s, pending>>
    /\ UNCHANGED <<todo, opt, commands, plain, history>>

ReaderStep(r) ==
    \/ Start(r) \/ ShowMessages(r) \/ NextMessage(r) \/ Look(r) \/ Mark(r)
    \/ DeletePrint(r) \/ Undelete(r) \/ Save(r) \/ SaveAppend(r) \/ SaveDone(r)
    \/ Write(r) \/ Quit(r) \/ ExitSession(r) \/ File(r)
    \/ MergeReturns(r) \/ CommitFails(r) \/ CommitReturns(r)

Next ==
    \/ \E r \in Readers : ReaderStep(r)
    \/ \E c \in Senders : Deliver(c)
    \/ \E c \in Clients : StoreWorks(c) \/ Crash(c)

Spec == Init /\ [][Next]_vars

-----------------------------------------------------------------------------
(* Properties *)

(* No message that a mailbox has ever held whole is lost: it is whole in    *)
(* some mailbox, or its body was written to a file, or a user deleted it    *)
(* and committed.  Deliveries racing a commit, sessions racing each other,  *)
(* failing writes and a process that dies anywhere do not change that.      *)
NothingLost ==
    \A m \in accepted : m \in Whole(box) \cup plain \cup {q[2] : q \in purged}

(* What a user deleted and committed stays out of the system mailbox: a     *)
(* session that still has it in its snapshot does not write it back.        *)
DeletedStaysDeleted ==
    \A q \in purged : q[1] = Spool => q[2] \notin IdsOf(box[Spool])

(* A message is in the system mailbox and MBOX together, or twice in one    *)
(* of them, only if a user copied it or a finish merged it into MBOX and    *)
(* did not get to drop it.                                                  *)
Occurrences(m) ==
    Cardinality({i \in DOMAIN box[Spool] : box[Spool][i].id = m})
      + Cardinality({i \in DOMAIN box[Mbox] : box[Mbox][i].id = m})
NoDuplicates ==
    \A m \in Ids :
        \/ m \in doubled
        \/ \E r \in Readers : Moving(r) /\ m \in MovedIds(r)
        \/ Occurrences(m) <= 1

(* The current message of a session is never a deleted one, and there is    *)
(* one unless every message is deleted.                                     *)
CurrentIsVisible ==
    \A r \in Readers : pc[r] \notin {"start", "done"} =>
        IF s[r].current = 0 THEN Visible(s[r]) = {} ELSE s[r].current \in Visible(s[r])

(* A message that was recorded as read in the system mailbox is never       *)
(* recorded as merely old again, whichever sessions commit.                 *)
ReadStaysRead ==
    [][\A i \in DOMAIN box[Spool], j \in DOMAIN box'[Spool] :
          box[Spool][i].id = box'[Spool][j].id /\ box[Spool][i].status = "RO"
             => box'[Spool][j].status = "RO"]_vars
=============================================================================
