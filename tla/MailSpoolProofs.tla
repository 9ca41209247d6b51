-------------------------- MODULE MailSpoolProofs --------------------------
(***************************************************************************)
(* DeletedStaysDeleted and ReadStaysRead for any number of senders,        *)
(* sessions, mailboxes and messages.                                       *)
(*                                                                         *)
(* SpoolInv says, on top of Inv, that the system mailbox holds a message   *)
(* once, and that one still to be delivered has been neither there nor     *)
(* deleted.  A commit then only thins the mailbox: each entry it leaves    *)
(* comes from one entry of its own, and stays read if that was read.       *)
(***************************************************************************)
EXTENDS MailInvProofs

\* No two entries of a mailbox are the same message.
Once(q) == \A i, j \in DOMAIN q : q[i].id = q[j].id => i = j

\* Nothing recorded as read in old is recorded as something else in new.
ReadIn(old, new) ==
  \A i \in DOMAIN old, j \in DOMAIN new :
     old[i].id = new[j].id /\ old[i].status = "RO" => new[j].status = "RO"

\* Every entry of new comes from an entry of old of its own, and stays read.
Thins(new, old) ==
  \E f \in [DOMAIN new -> DOMAIN old] :
     /\ \A j, k \in DOMAIN new : f[j] = f[k] => j = k
     /\ \A k \in DOMAIN new : /\ new[k].id = old[f[k]].id
                              /\ old[f[k]].status = "RO" => new[k].status = "RO"

\* A sender has yet to put its message in the system mailbox.
MayArrive(c) ==
  \/ \E k \in DOMAIN todo[c] : todo[c][k] = Spool
  \/ step[c] \in {"called", "locked"} /\ call[c].box = Spool

\* A sender names the system mailbox at most once more.
Queue(c) ==
  /\ \A i, j \in DOMAIN todo[c] : todo[c][i] = Spool /\ todo[c][j] = Spool => i = j
  /\ step[c] \in {"called", "locked"} /\ call[c].box = Spool =>
       \A k \in DOMAIN todo[c] : todo[c][k] # Spool

\* A message that has yet to arrive is neither in the system mailbox nor deleted.
Unseen(c) ==
  MayArrive(c) => /\ Mail[c] \notin IdsOf(box[Spool])
                  /\ \A q \in purged : q[1] = Spool => q[2] # Mail[c]

SpoolInv ==
  /\ Once(box[Spool]) /\ DeletedStaysDeleted
  /\ \A c \in Senders : Queue(c) /\ Unseen(c)

SpoolTurn == SpoolInv' /\ ReadIn(box[Spool], box'[Spool])

(* What a sequence with one more member is.                                *)
LEMMA AppendedIs ==
  ASSUME NEW q \in Seq(Entry), NEW e \in Entry
  PROVE  \A new, l : new = Append(q, e) /\ l = Len(q) =>
           /\ DOMAIN q = 1 .. l /\ DOMAIN new = 1 .. l + 1 /\ new[l + 1] = e
           /\ \A k \in 1 .. l : new[k] = q[k]
OBVIOUS

(* What two sequences joined are.                                          *)
LEMMA JoinedIs ==
  ASSUME NEW q \in Seq(Entry), NEW r \in Seq(Entry)
  PROVE  \A new, l, d : new = q \o r /\ l = Len(q) /\ d = Len(r) =>
           /\ DOMAIN new = 1 .. l + d
           /\ \A j \in 1 .. l : new[j] = q[j]
           /\ \A j \in 1 .. d : new[l + j] = r[j]
OBVIOUS

(* Thinning a mailbox adds no message and doubles none.                    *)
LEMMA ThinsOnce ==
  ASSUME NEW old, NEW new, Once(old), Thins(new, old)
  PROVE  Once(new) /\ IdsOf(new) \subseteq IdsOf(old) /\ ReadIn(old, new)
<1>1. PICK f \in [DOMAIN new -> DOMAIN old] :
        /\ \A j, k \in DOMAIN new : f[j] = f[k] => j = k
        /\ \A k \in DOMAIN new : /\ new[k].id = old[f[k]].id
                                 /\ old[f[k]].status = "RO" => new[k].status = "RO"
  BY Zenon DEF Thins
<1>2. \A k \in DOMAIN new : f[k] \in DOMAIN old
  BY <1>1, Zenon
<1>3. Once(new)
  <2> SUFFICES ASSUME NEW j \in DOMAIN new, NEW k \in DOMAIN new, new[j].id = new[k].id
               PROVE  j = k
    BY Zenon DEF Once
  <2>1. old[f[j]].id = old[f[k]].id
    BY <1>1, Zenon
  <2>2. f[j] = f[k]
    BY <1>2, <2>1, Zenon DEF Once
  <2>3. QED
    BY <1>1, <2>2, Zenon
<1>4. IdsOf(new) \subseteq IdsOf(old)
  BY <1>1, <1>2, Zenon DEF IdsOf
<1>5. ReadIn(old, new)
  <2> SUFFICES ASSUME NEW i \in DOMAIN old, NEW j \in DOMAIN new, old[i].id = new[j].id,
                      old[i].status = "RO"
               PROVE  new[j].status = "RO"
    BY Zenon DEF ReadIn
  <2>1. f[j] = i
    BY <1>1, <1>2, Zenon DEF Once
  <2>2. QED
    BY <1>1, <2>1, Zenon
<1>6. QED
  BY <1>3, <1>4, <1>5, SMTT(30)

(* A mailbox thins itself.                                                 *)
LEMMA SameThins ==
  ASSUME NEW q
  PROVE  Thins(q, q)
<1>1. PICK f : f = [k \in DOMAIN q |-> k]
  BY Zenon
<1>2. f \in [DOMAIN q -> DOMAIN q] /\ \A k \in DOMAIN q : f[k] = k
  BY <1>1, Zenon
<1>3. QED
  BY <1>2, Zenon DEF Thins

(* What a step that only thins the system mailbox keeps.                   *)
LEMMA ThinSpool ==
  ASSUME SpoolInv, Thins(box'[Spool], box[Spool]),
         \A q \in purged' : q[1] = Spool =>
            \/ q \in purged
            \/ q[2] \in IdsOf(box[Spool]) /\ q[2] \notin IdsOf(box'[Spool]),
         \A c \in Senders : Queue(c)' /\ (MayArrive(c)' => MayArrive(c))
  PROVE  SpoolTurn
<1>1. PICK old, new : old = box[Spool] /\ new = box'[Spool]
  BY Zenon
<1>2. Once(new) /\ IdsOf(new) \subseteq IdsOf(old) /\ ReadIn(old, new)
  <2>1. Once(old) /\ Thins(new, old)
    BY <1>1, Zenon DEF SpoolInv
  <2>2. QED
    BY <2>1, ThinsOnce, Zenon
<1>3. DeletedStaysDeleted'
  <2> SUFFICES ASSUME NEW q \in purged', q[1] = Spool PROVE q[2] \notin IdsOf(box'[Spool])
    BY Zenon DEF DeletedStaysDeleted
  <2>1. CASE q \in purged
    <3>1. q[2] \notin IdsOf(box[Spool])
      BY <2>1, Zenon DEF SpoolInv, DeletedStaysDeleted
    <3>2. QED
      BY <1>1, <1>2, <3>1, Zenon
  <2>2. CASE q \notin purged
    BY <2>2, Zenon
  <2>3. QED
    BY <2>1, <2>2, Zenon
<1>4. ASSUME NEW c \in Senders PROVE Unseen(c)'
  <2> SUFFICES ASSUME MayArrive(c)'
               PROVE  /\ Mail[c] \notin IdsOf(box'[Spool])
                      /\ \A q \in purged' : q[1] = Spool => q[2] # Mail[c]
    BY Zenon DEF Unseen
  <2>1. /\ Mail[c] \notin IdsOf(box[Spool])
        /\ \A q \in purged : q[1] = Spool => q[2] # Mail[c]
    BY <1>4, Zenon DEF SpoolInv, Unseen
  <2>2. Mail[c] \notin IdsOf(box'[Spool])
    BY <1>1, <1>2, <2>1, Zenon
  <2>3. ASSUME NEW q \in purged', q[1] = Spool PROVE q[2] # Mail[c]
    <3>1. CASE q \in purged
      BY <2>1, <2>3, <3>1, Zenon
    <3>2. CASE q[2] \in IdsOf(box[Spool])
      BY <2>1, <3>2, Zenon
    <3>3. QED
      BY <2>3, <3>1, <3>2, Zenon
  <2>4. QED
    BY <2>2, <2>3, Zenon
<1>5. SpoolInv'
  BY <1>1, <1>2, <1>3, <1>4, Zenon DEF SpoolInv
<1>6. QED
  BY <1>1, <1>2, <1>5, Zenon DEF SpoolTurn

\* A sender's step, or another's, does not make a message arrive twice.
QueueKept(c) == Queue(c)' /\ (MayArrive(c)' => MayArrive(c))

(* The senders that do not move.                                           *)
LEMMA OthersQueue ==
  ASSUME Inv, SpoolInv, NEW c \in Clients, Turn(c), NEW d \in Senders, d # c, todo'[d] = todo[d]
  PROVE  QueueKept(d)
<1>1. d \in Clients
  BY MailAssumption, Zenon
<1>2. DOMAIN step = Clients /\ DOMAIN call = Clients
  BY Zenon DEF Inv, StoreTyped
<1>3. step'[d] = step[d] /\ call'[d] = call[d]
  BY <1>1, <1>2, Zenon DEF Turn, OnlyAt
<1>4. Queue(d)
  BY Zenon DEF SpoolInv
<1>5. Queue(d)'
  BY <1>3, <1>4, Zenon DEF Queue
<1>6. MayArrive(d)' => MayArrive(d)
  BY <1>3, Zenon DEF MayArrive
<1>7. QED
  BY <1>5, <1>6, Zenon DEF QueueKept

(* A delivery takes the next mailbox off its list.                         *)
LEMMA DeliverQueue ==
  ASSUME Inv, SpoolInv, NEW c \in Senders, Deliver(c)
  PROVE  QueueKept(c)
<1>1. c \in Clients /\ Queue(c)
  BY MailAssumption, Zenon DEF SpoolInv
<1>2. /\ DOMAIN step = Clients /\ DOMAIN call = Clients /\ todo \in [Senders -> Seq(Boxes)]
  BY Zenon DEF Inv, StoreTyped, SessionTyped
<1>3. step[c] = "out"
  BY Zenon DEF Deliver
<1>4. CASE Heard(c) /\ todo' = todo
  <2>1. step' = step
    BY <1>4, Zenon DEF Heard
  <2>2. step'[c] \notin {"called", "locked"}
    BY <1>3, <2>1, Zenon
  <2>3. QED
    BY <1>1, <1>4, <2>2, ZenonT(30) DEF QueueKept, Queue, MayArrive
<1>5. CASE /\ Call(c, AppendMbox(Head(todo[c]), Fresh(Mail[c]))) /\ todo[c] # <<>>
           /\ todo' = [todo EXCEPT ![c] = Tail(@)]
  <2>1. PICK q \in Seq(Boxes) : q = todo[c] /\ q # <<>>
    BY <1>2, <1>5, Zenon
  <2>2. PICK q2 : q2 = Tail(q)
    BY Zenon
  <2>3. todo'[c] = q2
    BY <1>2, <1>5, <2>1, <2>2, Zenon
  <2>4. /\ Head(q) = q[1] /\ 1 \in DOMAIN q
        /\ \A k \in DOMAIN q2 : k + 1 \in DOMAIN q /\ q2[k] = q[k + 1] /\ k + 1 # 1
        /\ \A j, k \in DOMAIN q2 : j + 1 = k + 1 => j = k
    BY <2>1, <2>2, SMTT(30)
  <2>5. call'[c] = AppendMbox(q[1], Fresh(Mail[c]))
    BY <1>1, <1>2, <1>5, <2>1, <2>4, Zenon DEF Call
  <2>6. call'[c].box = q[1]
    BY <2>5, SMTT(30) DEF AppendMbox
  <2>7. \A i, j \in DOMAIN q : q[i] = Spool /\ q[j] = Spool => i = j
    BY <1>1, <2>1, Zenon DEF Queue
  <2>8. \A i, j \in DOMAIN q2 : q2[i] = Spool /\ q2[j] = Spool => i = j
    <3> SUFFICES ASSUME NEW i \in DOMAIN q2, NEW j \in DOMAIN q2, q2[i] = Spool, q2[j] = Spool
                 PROVE  i = j
      BY Zenon
    <3>1. i + 1 = j + 1
      BY <2>4, <2>7, Zenon
    <3>2. QED
      BY <2>4, <3>1, Zenon
  <2>9. q[1] = Spool => \A k \in DOMAIN q2 : q2[k] # Spool
    BY <2>4, <2>7, Zenon
  <2>10. Queue(c)'
    BY <2>3, <2>6, <2>8, <2>9, ZenonT(30) DEF Queue
  <2>11. MayArrive(c)' => \E k \in DOMAIN q : q[k] = Spool
    BY <2>3, <2>4, <2>6, Zenon DEF MayArrive
  <2>12. MayArrive(c)' => MayArrive(c)
    BY <2>1, <2>11, Zenon DEF MayArrive
  <2>13. QED
    BY <2>10, <2>12, Zenon DEF QueueKept
<1>6. QED
  BY <1>4, <1>5, Zenon DEF Deliver

(* A sender's append goes on, fails, or its process dies.                  *)
LEMMA StoreQueue ==
  ASSUME Inv, SpoolInv, NEW c \in Senders, StoreWorks(c) \/ Crash(c)
  PROVE  QueueKept(c)
<1>1. c \in Clients /\ Queue(c)
  BY MailAssumption, Zenon DEF SpoolInv
<1>2. DOMAIN step = Clients
  BY Zenon DEF Inv, StoreTyped
<1>3. todo' = todo
  BY StoreRest, Zenon DEF Crash
<1>4. ASSUME step'[c] \notin {"called", "locked"} PROVE QueueKept(c)
  BY <1>1, <1>3, <1>4, Zenon DEF QueueKept, Queue, MayArrive
<1>5. CASE Acquire(c)
  <2>1. step[c] = "called" /\ call' = call
    BY <1>5, Zenon DEF Acquire
  <2>2. step[c] \in {"called", "locked"}
    BY <2>1, Zenon
  <2>3. QED
    BY <1>1, <1>3, <2>1, <2>2, Zenon DEF QueueKept, Queue, MayArrive
<1>6. CASE Crash(c)
  <2>1. step' = [step EXCEPT ![c] = "dead"]
    BY <1>6, Zenon DEF Crash, StoreCrash
  <2>2. step'[c] \notin {"called", "locked"}
    BY <1>1, <1>2, <2>1, ZenonT(30)
  <2>3. QED
    BY <1>4, <2>2, Zenon
<1>7. CASE StoreWorks(c) /\ ~Acquire(c)
  <2>1. \E st \in {"out", "torn", "loaded", "written"} : step' = [step EXCEPT ![c] = st]
    BY <1>7, Zenon
       DEF StoreWorks, StoreStep, AcquireBusy, FailUntouched, AppendBegins, AppendEnds,
                AppendRollsBack, CloseFails, MergeReads, CommitReads, CommitRefused,
       Replace,
                Succeed, UnlockAndReturn, Return
  <2>2. step'[c] \notin {"called", "locked"}
    BY <1>1, <1>2, <2>1, Zenon
  <2>3. QED
    BY <1>4, <2>2, SMTT(30)
<1>8. QED
  BY <1>5, <1>6, <1>7, Zenon

(* So no step makes a message arrive twice.                                *)
LEMMA QueuesKept ==
  ASSUME Inv, SpoolInv, NEW c \in Clients, Turn(c),
         \/ StoreWorks(c) \/ Crash(c)
         \/ c \in Senders /\ Deliver(c)
         \/ c \in Readers /\ todo' = todo
  PROVE  \A d \in Senders : QueueKept(d)
<1> TAKE d \in Senders
<1>1. CASE d = c
  <2>1. c \notin Readers
    BY <1>1, MailAssumption, Zenon
  <2>2. QED
    BY <1>1, <2>1, DeliverQueue, StoreQueue, ZenonT(30)
<1>2. CASE d # c
  <2>1. todo'[d] = todo[d]
    <3>1. CASE StoreWorks(c) \/ Crash(c)
      BY <3>1, StoreRest, Zenon DEF Crash
    <3>2. CASE Deliver(c)
      <4>1. todo' = todo \/ todo' = [todo EXCEPT ![c] = Tail(@)]
        BY <3>2, Zenon DEF Deliver
      <4>2. DOMAIN todo = Senders
        BY Zenon DEF Inv, SessionTyped
      <4>3. QED
        BY <1>2, <4>1, <4>2, Zenon
    <3>3. QED
      BY <3>1, <3>2, Zenon
  <2>2. QED
    BY <1>2, <2>1, OthersQueue, Zenon
<1>3. QED
  BY <1>1, <1>2, Zenon

(* The append that a process is in goes to the system mailbox only if it    *)
(* delivers the message of a sender.                                        *)
LEMMA SpoolAppends ==
  ASSUME Inv, NEW c \in Clients, step[c] \in Busy, call[c].op = "append", call[c].box = Spool
  PROVE  c \in Senders /\ call[c].entry = Fresh(Mail[c])
<1>1. ASSUME c \in Readers, pc[c] = "save", call[c].box = pending[c].to PROVE FALSE
  <2>1. PendingInv(c)
    BY <1>1, ReaderFacts, Zenon
  <2>2. pending[c].to \in SaveTo
    BY <1>1, <2>1, Zenon DEF PendingInv
  <2>3. QED
    BY <1>1, <2>2, MailAssumption, Zenon
<1>2. QED
  BY <1>1, AskedWhat, Zenon

(* A message arrives: it was not there, and no one has deleted it.         *)
LEMMA ArrivesSpool ==
  ASSUME Inv, SpoolInv, NEW c \in Clients, StoreWorks(c), AppendBegins(c), call[c].box = Spool,
         \A d \in Senders : QueueKept(d)
  PROVE  SpoolTurn
<1>1. step[c] = "locked" /\ step[c] \in Busy /\ call[c].op = "append"
  BY Zenon DEF AppendBegins, Busy, Holding
<1>2. c \in Senders /\ call[c].entry = Fresh(Mail[c]) /\ Spool \in Boxes
  BY <1>1, SpoolAppends, MailAssumption, Zenon
<1>3. PICK q \in Seq(Entry) : q = box[Spool]
  BY <1>2, Zenon DEF Inv, StoreTyped
<1>4. PICK e : e = [Fresh(Mail[c]) EXCEPT !.whole = FALSE]
  BY Zenon
<1>5. e \in Entry /\ e.id = Mail[c]
  <2>1. Mail[c] \in Ids
    BY <1>2, MailAssumption, SMTT(30)
  <2>2. QED
    BY <1>4, <2>1, Zenon DEF Fresh, Entry
<1>6. PICK new : new = Append(q, e) /\ new = box'[Spool]
  <2>1. box'[Spool] = Append(q, e)
    BY <1>2, <1>3, <1>4, ZenonT(30) DEF AppendBegins, Inv, StoreTyped
  <2>2. QED
    BY <2>1, Zenon
<1>7. PICK l \in Nat : l = Len(q)
  BY <1>3, SMTT(30)
<1>8. /\ DOMAIN q = 1 .. l /\ DOMAIN new = 1 .. l + 1 /\ new[l + 1] = e
      /\ \A k \in DOMAIN q : k \in DOMAIN new /\ new[k] = q[k]
  <2>1. /\ DOMAIN q = 1 .. l /\ DOMAIN new = 1 .. l + 1 /\ new[l + 1] = e
        /\ \A k \in 1 .. l : new[k] = q[k]
    <3>1. \A x, n : x = Append(q, e) /\ n = Len(q) =>
            /\ DOMAIN q = 1 .. n /\ DOMAIN x = 1 .. n + 1 /\ x[n + 1] = e
            /\ \A k \in 1 .. n : x[k] = q[k]
      BY <1>3, <1>5, AppendedIs, Zenon
    <3>2. new = Append(q, e)
      BY <1>6, Zenon
    <3>3. QED
      BY <1>7, <3>1, <3>2, Zenon
  <2>2. \A k \in 1 .. l : k \in 1 .. l + 1
    OBVIOUS
  <2>3. QED
    BY <2>1, <2>2, Zenon
<1>9. \A k \in DOMAIN new : k \in DOMAIN q \/ k = l + 1
  BY <1>8, SMTT(30)
<1>10. MayArrive(c)
  BY <1>1, Zenon DEF MayArrive
<1>11. /\ Once(q) /\ DeletedStaysDeleted /\ Mail[c] \notin IdsOf(q)
       /\ \A p \in purged : p[1] = Spool => p[2] # Mail[c]
  BY <1>2, <1>3, <1>10, Zenon DEF SpoolInv, Unseen
<1>12. \A k \in DOMAIN q : q[k].id # Mail[c]
  BY <1>11, Zenon DEF IdsOf
<1>13. Once(new)
  <2> SUFFICES ASSUME NEW i \in DOMAIN new, NEW j \in DOMAIN new, new[i].id = new[j].id
               PROVE  i = j
    BY Zenon DEF Once
  <2>1. CASE i \in DOMAIN q /\ j \in DOMAIN q
    BY <1>8, <1>11, <2>1, Zenon DEF Once
  <2>2. CASE i = l + 1 /\ j \in DOMAIN q
    BY <1>5, <1>8, <1>12, <2>2, ZenonT(30)
  <2>3. CASE j = l + 1 /\ i \in DOMAIN q
    BY <1>5, <1>8, <1>12, <2>3, Zenon
  <2>4. QED
    BY <1>9, <2>1, <2>2, <2>3, Zenon
<1>14. \A m \in IdsOf(new) : m \in IdsOf(q) \/ m = Mail[c]
  BY <1>5, <1>8, <1>9, Zenon DEF IdsOf
<1>15. ReadIn(q, new)
  <2> SUFFICES ASSUME NEW i \in DOMAIN q, NEW j \in DOMAIN new, q[i].id = new[j].id,
                      q[i].status = "RO"
               PROVE  new[j].status = "RO"
    BY Zenon DEF ReadIn
  <2>1. j \in DOMAIN q
    BY <1>5, <1>8, <1>9, <1>12, Zenon
  <2>2. j = i
    BY <1>8, <1>11, <2>1, ZenonT(30) DEF Once
  <2>3. QED
    BY <1>8, <2>1, <2>2, Zenon
<1>16. purged' = purged
  <2>1. step[c] # "loaded"
    BY <1>1, SMTT(30)
  <2>2. Purges(c) = {}
    BY <2>1, Zenon DEF Purges
  <2>3. QED
    BY <2>2, StoreRest, ZenonT(30)
<1>17. DeletedStaysDeleted'
  <2> SUFFICES ASSUME NEW p \in purged, p[1] = Spool PROVE p[2] \notin IdsOf(box'[Spool])
    BY <1>16, Zenon DEF DeletedStaysDeleted
  <2>1. p[2] # Mail[c] /\ p[2] \notin IdsOf(q)
    BY <1>3, <1>11, Zenon DEF DeletedStaysDeleted
  <2>2. QED
    BY <1>6, <1>14, <2>1, Zenon
<1>18. ASSUME NEW d \in Senders PROVE Queue(d)' /\ Unseen(d)'
  <2>1. Queue(d)' /\ (MayArrive(d)' => MayArrive(d)) /\ Unseen(d) /\ Queue(d)
    BY <1>18, Zenon DEF QueueKept, SpoolInv
  <2>2. CASE d = c
    <3>1. step' = [step EXCEPT ![c] = "torn"] /\ DOMAIN step = Clients /\ todo' = todo
      BY StoreRest, Zenon DEF AppendBegins, Inv, StoreTyped
    <3>2. step'[c] \notin {"called", "locked"}
      BY <3>1, Zenon
    <3>3. step[c] \in {"called", "locked"}
      BY <1>1, Zenon
    <3>4. ~MayArrive(c)'
      BY <2>1, <2>2, <3>1, <3>2, <3>3, ZenonT(30) DEF MayArrive, Queue
    <3>5. QED
      BY <2>1, <2>2, <3>4, Zenon DEF Unseen
  <2>3. CASE d # c
    <3>1. Mail[d] # Mail[c]
      BY <1>2, <1>18, <2>3, OneCopyAssumption, Zenon
    <3>2. SUFFICES ASSUME MayArrive(d)'
                   PROVE  /\ Mail[d] \notin IdsOf(box'[Spool])
                          /\ \A p \in purged' : p[1] = Spool => p[2] # Mail[d]
      BY <2>1, Zenon DEF Unseen
    <3>3. /\ Mail[d] \notin IdsOf(q)
          /\ \A p \in purged : p[1] = Spool => p[2] # Mail[d]
      BY <1>3, <2>1, <3>2, Zenon DEF Unseen
    <3>4. QED
      BY <1>6, <1>14, <1>16, <3>1, <3>3, ZenonT(30)
  <2>4. QED
    BY <2>2, <2>3, Zenon
<1>19. QED
  BY <1>3, <1>6, <1>13, <1>15, <1>17, <1>18, Zenon DEF SpoolTurn, SpoolInv

(* An append that ends has the message where its text was begun; one that   *)
(* fails cuts it off.                                                       *)
LEMMA TornThins ==
  ASSUME Inv, NEW c \in Clients, StoreWorks(c), AppendEnds(c) \/ AppendRollsBack(c),
         call[c].box = Spool
  PROVE  Thins(box'[Spool], box[Spool])
<1>1. step[c] = "torn"
  BY Zenon DEF AppendEnds, AppendRollsBack
<1>2. PICK q \in Seq(Entry) : q = box[Spool] /\ q # <<>>
  BY TornEnds, Zenon
<1>3. PICK e \in Entry : e = call[c].entry
  BY TornEnds, Zenon
<1>4. PICK l \in Nat : l = Len(q)
  BY <1>2, SMTT(30)
<1>5. q[l].id = e.id /\ q[l].status = e.status
  BY <1>1, <1>2, <1>3, <1>4, ZenonT(30) DEF Inv, StepInv
<1>6. PICK r \in Seq(Entry) : /\ r = Truncated(q) /\ Len(r) = l - 1
                              /\ \A k \in 1 .. l - 1 : r[k] = q[k]
  <2>1. PICK r \in Seq(Entry) : r = Truncated(q)
    BY <1>2, TruncatedFacts, Zenon
  <2>2. Len(r) = l - 1 /\ \A k \in 1 .. l - 1 : r[k] = q[k]
    BY <1>2, <1>4, <2>1, TruncatedFacts, ZenonT(30)
  <2>3. QED
    BY <2>1, <2>2, Zenon
<1>7. DOMAIN q = 1 .. l /\ l >= 1
  BY <1>2, <1>4, SMTT(30)
<1>8. PICK new : new = box'[Spool] /\ (new = r \/ new = Append(r, e))
  BY <1>2, <1>3, <1>6, TornEnds, ZenonT(30)
<1>9. /\ DOMAIN new \subseteq DOMAIN q
      /\ \A k \in DOMAIN new : new[k].id = q[k].id /\ new[k].status = q[k].status
  <2>1. CASE new = r
    BY <1>6, <1>7, <2>1, SMTT(30)
  <2>2. CASE new = Append(r, e)
    <3>1. DOMAIN new = 1 .. l /\ new[l] = e /\ \A k \in 1 .. l - 1 : new[k] = q[k]
      BY <1>6, <1>7, <2>2, SMTT(30)
    <3>2. \A k \in 1 .. l : k \in 1 .. l - 1 \/ k = l
      OBVIOUS
    <3>3. QED
      BY <1>5, <1>7, <3>1, <3>2, ZenonT(30)
  <2>3. QED
    BY <1>8, <2>1, <2>2, ZenonT(30)
<1>10. PICK f : f = [k \in DOMAIN new |-> k]
  BY Zenon
<1>11. f \in [DOMAIN new -> DOMAIN q] /\ \A k \in DOMAIN new : f[k] = k
  BY <1>9, <1>10, ZenonT(30)
<1>12. Thins(new, q)
  <2>1. \A j, k \in DOMAIN new : f[j] = f[k] => j = k
    BY <1>11, Zenon
  <2>2. \A k \in DOMAIN new : /\ new[k].id = q[f[k]].id
                              /\ q[f[k]].status = "RO" => new[k].status = "RO"
    <3> TAKE k \in DOMAIN new
    <3>1. f[k] = k
      BY <1>11, Zenon
    <3>2. new[k].id = q[k].id /\ new[k].status = q[k].status
      BY <1>9, Zenon
    <3>3. QED
      BY <3>1, <3>2, Zenon
  <2>3. QED
    BY <1>11, <2>1, <2>2, ZenonT(30) DEF Thins
<1>13. QED
  BY <1>2, <1>8, <1>12, ZenonT(30)

(* A commit of the system mailbox thins it, and leaves out what the user    *)
(* deleted.                                                                 *)
LEMMA CommitThins ==
  ASSUME Inv, NEW c \in Clients, step[c] = "loaded", call[c].op = "commit", call[c].box = Spool,
         Once(box[Spool])
  PROVE  /\ Thins(draft[c], box[Spool])
         /\ \A i \in Deleted(s[c]) : /\ s[c].original[i].id \in IdsOf(box[Spool])
                                     /\ s[c].original[i].id \notin IdsOf(draft[c])
<1>1. Spool \in Boxes /\ Spool # Mbox
  BY MailAssumption, Zenon
<1>2. PICK q \in Seq(Entry) : q = box[Spool]
  BY <1>1, Zenon DEF Inv, StoreTyped
<1>3. /\ c \in Readers /\ s[c].at = Spool /\ Len(q) >= Len(s[c].original)
      /\ \A i \in 1 .. Len(s[c].original) : q[i] = s[c].original[i]
  BY <1>2, CommitWrites, Zenon
<1>4. PICK n \in Nat : n = Len(s[c].original)
  BY <1>3, ReaderFacts, EntriesTyped, ZenonT(30)
<1>5. PICK m \in Nat : m = Len(q) /\ DOMAIN q = 1 .. m /\ m >= n
  BY <1>2, <1>3, <1>4, SMTT(30)
<1>6. PICK k \in Seq(Entry), a \in Seq(Entry) :
        /\ draft[c] = k \o a
        /\ \E at : Picks(k, at, s[c].entries, Keep(s[c], opt[c]), n)
        /\ Len(a) = m - n
        /\ \A j \in 1 .. m - n : a[j] = q[n + j]
  <2>1. \E k \in Seq(Entry), a \in Seq(Entry) :
          /\ draft[c] = k \o a
          /\ \E at : Picks(k, at, s[c].entries, Keep(s[c], opt[c]), Len(s[c].original))
          /\ Len(a) = Len(q) - Len(s[c].original)
          /\ \A j \in 1 .. Len(q) - Len(s[c].original) : a[j] = q[Len(s[c].original) + j]
    BY <1>2, CommitWrites, ZenonT(30)
  <2>2. QED
    BY <1>4, <1>5, <2>1, Zenon
<1>7. PICK at : Picks(k, at, s[c].entries, Keep(s[c], opt[c]), n)
  BY <1>6, Zenon
<1>8. PICK l \in Nat : l = Len(k)
  BY <1>6, SMTT(30)
<1>9. PICK new : new = draft[c]
  BY Zenon
<1>10. /\ DOMAIN new = 1 .. l + (m - n)
       /\ \A j \in 1 .. l : new[j] = k[j]
       /\ \A j \in 1 .. m - n : new[l + j] = q[n + j]
  <2>1. PICK d \in Nat : d = m - n /\ d = Len(a)
    <3>1. m - n \in Nat
      BY <1>4, <1>5, SMTT(30)
    <3>2. Len(a) = m - n
      BY <1>6, Zenon
    <3>3. QED
      BY <3>1, <3>2, ZenonT(30)
  <2>2. /\ DOMAIN new = 1 .. l + d /\ \A j \in 1 .. l : new[j] = k[j]
        /\ \A j \in 1 .. d : new[l + j] = a[j]
    <3>1. k \in Seq(Entry) /\ a \in Seq(Entry) /\ new = k \o a
      BY <1>6, <1>9, Zenon
    <3>2. QED
      <4>1. \A x, i, j : x = k \o a /\ i = Len(k) /\ j = Len(a) =>
              /\ DOMAIN x = 1 .. i + j
              /\ \A h \in 1 .. i : x[h] = k[h]
              /\ \A h \in 1 .. j : x[i + h] = a[h]
        BY <3>1, JoinedIs, ZenonT(30)
      <4>2. new = k \o a /\ l = Len(k) /\ d = Len(a)
        BY <1>8, <2>1, <3>1, Zenon
      <4>3. QED
        BY <4>1, <4>2, SMTT(30)
  <2>3. QED
    BY <1>6, <2>1, <2>2, Zenon
<1>11. /\ at \in [1 .. l -> 1 .. n]
       /\ \A j \in 1 .. l : Keep(s[c], opt[c])[at[j]] /\ k[j] = s[c].entries[at[j]]
       /\ \A i, j \in 1 .. l : at[i] = at[j] => i = j
  BY <1>7, <1>8, Zenon DEF Picks
<1>12. \A i \in 1 .. n : /\ s[c].entries[i].id = q[i].id
                         /\ q[i].status = "RO" => s[c].entries[i].status = "RO"
  <2>1. SameMessages(s[c]) /\ ReadKept(s[c]) /\ DOMAIN s[c].original = 1 .. n
    BY <1>3, <1>4, ReaderFacts, EntriesTyped, ZenonT(30) DEF SessionGood
  <2>2. QED
    BY <1>3, <1>4, <2>1, ZenonT(30) DEF SameMessages, ReadKept
<1>13. PICK f : f = [j \in 1 .. l + (m - n) |-> IF j \in 1 .. l THEN at[j] ELSE n + (j - l)]
  BY Zenon
<1>14. \A j \in DOMAIN new : \/ j \in 1 .. l /\ f[j] = at[j] /\ f[j] \in 1 .. n
                             \/ j \notin 1 .. l /\ j - l \in 1 .. m - n /\ f[j] = n + (j - l)
  <2> TAKE j \in DOMAIN new
  <2>1. j \in 1 .. l + (m - n)
    BY <1>10, Zenon
  <2>2. CASE j \in 1 .. l
    <3>1. f[j] = at[j]
      BY <1>13, <2>1, <2>2, ZenonT(30)
    <3>2. QED
      BY <1>11, <2>2, <3>1, ZenonT(30)
  <2>3. CASE j \notin 1 .. l
    <3>1. f[j] = n + (j - l)
      BY <1>13, <2>1, <2>3, ZenonT(30)
    <3>2. j - l \in 1 .. m - n
      BY <1>5, <2>1, <2>3, SMTT(30)
    <3>3. QED
      BY <2>3, <3>1, <3>2, Zenon
  <2>4. QED
    BY <2>2, <2>3, Zenon
<1>15. f \in [DOMAIN new -> DOMAIN q]
  <2>1. \A j \in DOMAIN new : f[j] \in 1 .. m
    <3> TAKE j \in DOMAIN new
    <3>1. CASE f[j] \in 1 .. n
      BY <1>4, <1>5, <3>1, SMTT(30)
    <3>2. CASE j - l \in 1 .. m - n /\ f[j] = n + (j - l)
      BY <1>4, <1>5, <3>2, SMTT(30)
    <3>3. QED
      BY <1>14, <3>1, <3>2, ZenonT(30)
  <2>2. DOMAIN new = 1 .. l + (m - n)
    BY <1>10, Zenon
  <2>3. f = [j \in DOMAIN new |-> f[j]]
    BY <1>13, <2>2, ZenonT(30)
  <2>4. QED
    BY <1>5, <2>1, <2>3, Zenon
<1>16. \A i, j \in DOMAIN new : f[i] = f[j] => i = j
  <2> SUFFICES ASSUME NEW i \in DOMAIN new, NEW j \in DOMAIN new, f[i] = f[j] PROVE i = j
    BY Zenon
  <2>1. i \in Int /\ j \in Int
    BY <1>5, <1>10, SMTT(30)
  <2>2. CASE i \in 1 .. l /\ j \in 1 .. l
    BY <1>11, <1>14, <2>2, SMTT(30)
  <2>3. CASE i \notin 1 .. l /\ j \notin 1 .. l
    <3>1. n + (i - l) = n + (j - l)
      BY <1>14, <2>3, Zenon
    <3>2. QED
      BY <2>1, <3>1, SMTT(30)
  <2>4. CASE i \in 1 .. l /\ j \notin 1 .. l
    <3>1. f[i] \in 1 .. n /\ f[j] = n + (j - l) /\ j - l \in 1 .. m - n
      BY <1>14, <2>4, Zenon
    <3>2. QED
      BY <2>1, <3>1, SMTT(30)
  <2>5. CASE i \notin 1 .. l /\ j \in 1 .. l
    <3>1. f[j] \in 1 .. n /\ f[i] = n + (i - l) /\ i - l \in 1 .. m - n
      BY <1>14, <2>5, Zenon
    <3>2. QED
      BY <2>1, <3>1, SMTT(30)
  <2>6. QED
    BY <2>2, <2>3, <2>4, <2>5, ZenonT(30)
<1>17. \A j \in DOMAIN new : /\ new[j].id = q[f[j]].id
                             /\ q[f[j]].status = "RO" => new[j].status = "RO"
  <2> TAKE j \in DOMAIN new
  <2>1. CASE j \in 1 .. l /\ f[j] = at[j] /\ f[j] \in 1 .. n
    <3>1. new[j] = s[c].entries[f[j]]
      BY <1>10, <1>11, <2>1, Zenon
    <3>2. QED
      BY <1>12, <2>1, <3>1, ZenonT(30)
  <2>2. CASE j \notin 1 .. l /\ j - l \in 1 .. m - n /\ f[j] = n + (j - l)
    <3>1. l + (j - l) = j
      BY <1>5, <1>10, SMTT(30)
    <3>2. new[j] = q[n + (j - l)]
      BY <1>10, <2>2, <3>1, ZenonT(30)
    <3>3. QED
      BY <2>2, <3>2, ZenonT(30)
  <2>3. QED
    BY <1>14, <2>1, <2>2, ZenonT(30)
<1>18. Thins(new, q)
  BY <1>15, <1>16, <1>17, ZenonT(30) DEF Thins
<1>19. ASSUME NEW i \in Deleted(s[c])
       PROVE  s[c].original[i].id \in IdsOf(q) /\ s[c].original[i].id \notin IdsOf(new)
  <2>1. i \in 1 .. n /\ i \in DOMAIN s[c].state
    BY <1>3, <1>4, <1>19, ReaderFacts, EntriesTyped, ZenonT(30)
  <2>2. i \in DOMAIN q /\ q[i] = s[c].original[i]
    BY <1>3, <1>4, <1>5, <2>1, SMTT(30)
  <2>3. s[c].original[i].id \in IdsOf(q)
    BY <2>2, Zenon DEF IdsOf
  <2>4. ~Keep(s[c], opt[c])[i]
    <3>1. s[c].state[i] = "deleted"
      BY <1>19, <2>1, Zenon DEF Deleted, Visible
    <3>2. i \in Dropped(s[c], opt[c])
      BY <2>1, <3>1, ZenonT(30) DEF Dropped
    <3>3. QED
      BY <1>1, <1>3, <2>1, <3>2, Zenon DEF Keep
  <2>5. ASSUME NEW j \in DOMAIN new, new[j].id = s[c].original[i].id PROVE FALSE
    <3>1. f[j] \in DOMAIN q /\ q[f[j]].id = q[i].id
      <4>1. f[j] \in DOMAIN q /\ new[j].id = q[f[j]].id
        BY <1>15, <1>17, <2>5, Zenon
      <4>2. QED
        BY <2>2, <2>5, <4>1, ZenonT(30)
    <3>2. f[j] = i
      BY <1>2, <2>2, <3>1, ZenonT(30) DEF Once
    <3>3. CASE j \in 1 .. l /\ f[j] = at[j]
      BY <1>11, <2>4, <3>2, <3>3, Zenon
    <3>4. CASE j - l \in 1 .. m - n /\ f[j] = n + (j - l)
      BY <2>1, <3>2, <3>4, SMTT(30)
    <3>5. QED
      BY <1>14, <3>3, <3>4, ZenonT(30)
  <2>6. s[c].original[i].id \notin IdsOf(new)
    BY <2>5, Zenon DEF IdsOf
  <2>7. QED
    BY <2>3, <2>6, Zenon
<1>20. QED
  BY <1>2, <1>9, <1>18, <1>19, ZenonT(30)

(* A step that leaves the system mailbox and what was deleted from it.      *)
LEMMA SameSpool ==
  ASSUME SpoolInv, box'[Spool] = box[Spool],
         \A q \in purged' : q[1] = Spool => q \in purged,
         \A d \in Senders : QueueKept(d)
  PROVE  SpoolTurn
<1>1. Thins(box'[Spool], box[Spool])
  BY SameThins, Zenon
<1>2. \A d \in Senders : Queue(d)' /\ (MayArrive(d)' => MayArrive(d))
  BY Zenon DEF QueueKept
<1>3. QED
  BY <1>1, <1>2, ThinSpool, Zenon

(* A reader delivers no mail.                                              *)
LEMMA ReaderTodo ==
  ASSUME NEW r, ReaderStep(r)
  PROVE  todo' = todo
<1>1. ASSUME NEW x, Command(r, x) PROVE todo' = todo
  BY <1>1, Zenon DEF Command
<1>2. CASE ShowMessages(r) \/ NextMessage(r) \/ Look(r) \/ Mark(r) \/ DeletePrint(r) \/ Undelete(r)
  <2>1. \E x : Command(r, x)
    BY <1>2, Zenon DEF ShowMessages, NextMessage, Look, Mark, DeletePrint, Undelete
  <2>2. QED
    BY <1>1, <2>1, Zenon
<1>3. CASE Start(r) \/ Save(r) \/ SaveAppend(r) \/ SaveDone(r) \/ Write(r) \/ ExitSession(r)
  BY <1>3, Zenon DEF Start, Save, SaveAppend, SaveDone, Write, ExitSession
<1>4. CASE Quit(r) \/ File(r)
  BY <1>4, Zenon DEF Quit, File, Finish
<1>5. CASE MergeReturns(r) \/ CommitFails(r) \/ CommitReturns(r)
  BY <1>5, Zenon DEF MergeReturns, CommitFails, CommitReturns, FinishFails
<1>6. QED
  BY <1>2, <1>3, <1>4, <1>5, ZenonT(30) DEF ReaderStep

(* A step of a reader or a sender, or a crash, leaves every mailbox.        *)
LEMMA CallerSpool ==
  ASSUME Inv, SpoolInv,
         NEW c \in Clients, \/ c \in Readers /\ ReaderStep(c)
                            \/ c \in Senders /\ Deliver(c)
                            \/ Crash(c)
  PROVE  SpoolTurn
<1>1. box' = box /\ purged' = purged
  BY CallersQuiet, Zenon
<1>2. Turn(c)
  BY CallerTurn, Zenon
<1>3. \A d \in Senders : QueueKept(d)
  BY <1>2, QueuesKept, ReaderTodo, Zenon
<1>4. QED
  BY <1>1, <1>3, SameSpool, Zenon

(* A replacement: a merge goes to MBOX, a commit thins its mailbox.         *)
LEMMA ReplaceSpool ==
  ASSUME Inv, SpoolInv, NEW c \in Clients, StoreWorks(c), Replace(c),
         \A d \in Senders : QueueKept(d)
  PROVE  SpoolTurn
<1>1. step[c] = "loaded" /\ step[c] \in Busy /\ Spool \in Boxes /\ Spool # Mbox
  BY MailAssumption, Zenon DEF Replace, Busy, Holding
<1>2. /\ box' = [box EXCEPT ![call[c].box] = draft[c]] /\ DOMAIN box = Boxes
      /\ call[c].box \in Boxes
  BY <1>1, AskedWhat, Zenon DEF Replace, Inv, StoreTyped
<1>3. purged' = purged \cup Purges(c)
  BY StoreRest, Zenon
<1>4. call[c].op = "merge" \/ call[c].op = "commit"
  BY <1>1, ZenonT(30) DEF Inv, StepInv
<1>5. \A q \in Purges(c) : /\ call[c].op = "commit" /\ q[1] = call[c].box
                           /\ \E i \in Deleted(s[c]) : q[2] = s[c].original[i].id
  <2> TAKE q \in Purges(c)
  <2>1. call[c].op = "commit"
    BY Zenon DEF Purges
  <2>2. PICK i \in Deleted(s[c]) : q = <<call[c].box, s[c].original[i].id>>
    BY <2>1, Zenon DEF Purges
  <2>3. q[1] = call[c].box /\ q[2] = s[c].original[i].id
    BY <2>2, Zenon
  <2>4. QED
    BY <2>1, <2>3, Zenon
<1>6. CASE call[c].box # Spool
  <2>1. box'[Spool] = box[Spool]
    BY <1>1, <1>2, <1>6, Zenon
  <2>2. \A q \in purged' : q[1] = Spool => q \in purged
    BY <1>3, <1>5, <1>6, Zenon
  <2>3. QED
    BY <2>1, <2>2, SameSpool, ZenonT(30)
<1>7. CASE call[c].box = Spool
  <2>1. call[c].op = "commit"
    BY <1>1, <1>4, <1>7, AskedWhat, ZenonT(30)
  <2>2. Once(box[Spool])
    BY Zenon DEF SpoolInv
  <2>3. /\ Thins(draft[c], box[Spool])
        /\ \A i \in Deleted(s[c]) : /\ s[c].original[i].id \in IdsOf(box[Spool])
                                    /\ s[c].original[i].id \notin IdsOf(draft[c])
    BY <1>1, <1>7, <2>1, <2>2, CommitThins, Zenon
  <2>4. box'[Spool] = draft[c]
    BY <1>1, <1>2, <1>7, Zenon
  <2>5. \A q \in purged' : q[1] = Spool =>
           \/ q \in purged
           \/ q[2] \in IdsOf(box[Spool]) /\ q[2] \notin IdsOf(box'[Spool])
    BY <1>3, <1>5, <2>3, <2>4, Zenon
  <2>6. Thins(box'[Spool], box[Spool])
    BY <2>3, <2>4, Zenon
  <2>7. \A d \in Senders : Queue(d)' /\ (MayArrive(d)' => MayArrive(d))
    BY Zenon DEF QueueKept
  <2>8. QED
    BY <2>5, <2>6, <2>7, ThinSpool, Zenon
<1>8. QED
  BY <1>6, <1>7, Zenon

(* Every step of the store.                                                *)
LEMMA StoreSpool ==
  ASSUME Inv, SpoolInv, NEW c \in Clients, StoreWorks(c)
  PROVE  SpoolTurn
<1>1. Turn(c)
  BY StoreWorksInv, Zenon
<1>2. \A d \in Senders : QueueKept(d)
  BY <1>1, QueuesKept, Zenon
<1>3. purged' = purged \cup Purges(c)
  BY StoreRest, Zenon
<1>4. CASE Replace(c)
  BY <1>2, <1>4, ReplaceSpool, Zenon
<1>5. CASE ~Replace(c)
  <2>1. Purges(c) = {}
    <3>1. ASSUME step[c] = "loaded", step'[c] = "written" PROVE FALSE
      <4>1. DOMAIN step = Clients
        BY ZenonT(30) DEF Inv, StoreTyped
      <4>2. FailUntouched(c)
        BY <1>5, <3>1, ZenonT(30)
           DEF StoreWorks, StoreStep, Acquire, AcquireBusy, AppendBegins, AppendEnds,
                          AppendRollsBack, CloseFails, MergeReads, CommitReads,
           CommitRefused,
                          Succeed
      <4>3. QED
        BY <3>1, <4>1, <4>2, Zenon DEF FailUntouched, UnlockAndReturn, Return
    <3>2. QED
      BY <3>1, Zenon DEF Purges
  <2>2. purged' = purged
    BY <1>3, <2>1, Zenon
  <2>3. ASSUME box'[Spool] = box[Spool] PROVE SpoolTurn
    BY <1>2, <2>2, <2>3, SameSpool, ZenonT(30)
  <2>4. CASE Acquire(c) \/ AcquireBusy(c) \/ FailUntouched(c) \/ CloseFails(c) \/ MergeReads(c)
             \/ CommitReads(c) \/ CommitRefused(c) \/ Succeed(c)
    <3>1. box' = box
      BY <2>4, Zenon DEF Acquire, AcquireBusy, FailUntouched, CloseFails, MergeReads, CommitReads,
                  CommitRefused, Succeed
    <3>2. QED
      BY <2>3, <3>1, Zenon
  <2>5. CASE AppendBegins(c) \/ AppendEnds(c) \/ AppendRollsBack(c)
    <3>1. CASE call[c].box # Spool
      <4>1. DOMAIN box = Boxes /\ Spool \in Boxes
        BY MailAssumption, Zenon DEF Inv, StoreTyped
      <4>2. box'[Spool] = box[Spool]
        BY <2>5, <3>1, <4>1, Zenon DEF AppendBegins, AppendEnds, AppendRollsBack
      <4>3. QED
        BY <2>3, <4>2, Zenon
    <3>2. CASE call[c].box = Spool /\ AppendBegins(c)
      BY <1>2, <3>2, ArrivesSpool, Zenon
    <3>3. CASE call[c].box = Spool /\ (AppendEnds(c) \/ AppendRollsBack(c))
      <4>1. Thins(box'[Spool], box[Spool])
        BY <3>3, TornThins, Zenon
      <4>2. \A d \in Senders : Queue(d)' /\ (MayArrive(d)' => MayArrive(d))
        BY <1>2, Zenon DEF QueueKept
      <4>3. \A q \in purged' : q \in purged
        BY <2>2, Zenon
      <4>4. QED
        BY <4>1, <4>2, <4>3, ThinSpool, ZenonT(30)
    <3>4. QED
      BY <2>5, <3>1, <3>2, <3>3, Zenon
  <2>6. QED
    BY <1>5, <2>4, <2>5, ZenonT(30) DEF StoreWorks, StoreStep
<1>6. QED
  BY <1>4, <1>5, Zenon

(* SpoolInv holds at the start.                                            *)
LEMMA SpoolInit ==
  ASSUME Init
  PROVE  SpoolInv
<1>1. PICK x \in Scenes : /\ box = x.boxes /\ todo = x.route /\ purged = {}
                          /\ step = [c \in Clients |-> "out"]
  BY Zenon DEF Init, StoreInit
<1>2. Once(box[Spool])
  BY <1>1, OneCopyAssumption, Zenon DEF Once
<1>3. DeletedStaysDeleted
  BY <1>1, Zenon DEF DeletedStaysDeleted
<1>4. ASSUME NEW c \in Senders PROVE Queue(c) /\ Unseen(c)
  <2>1. c \in Clients
    BY MailAssumption, Zenon
  <2>2. step[c] \notin {"called", "locked"}
    BY <1>1, <2>1, Zenon
  <2>3. Queue(c)
    BY <1>1, <2>2, OneCopyAssumption, ZenonT(30) DEF Queue
  <2>4. Mail[c] \notin IdsOf(box[Spool])
    BY <1>1, OneCopyAssumption, Zenon
  <2>5. Unseen(c)
    BY <1>1, <2>4, Zenon DEF Unseen
  <2>6. QED
    BY <2>3, <2>5, Zenon
<1>5. QED
  BY <1>2, <1>3, <1>4, ZenonT(30) DEF SpoolInv

(* Every step keeps SpoolInv, and what is recorded as read in the system    *)
(* mailbox.                                                                 *)
LEMMA SpoolNext ==
  ASSUME Inv, SpoolInv, [Next]_vars
  PROVE  SpoolTurn
<1>1. CASE Next
  <2>1. Readers \subseteq Clients /\ Senders \subseteq Clients
    BY MailAssumption, Zenon
  <2>2. QED
    BY <1>1, <2>1, CallerSpool, StoreSpool, ZenonT(30) DEF Next
<1>2. CASE UNCHANGED vars
  <2>1. box' = box /\ purged' = purged /\ todo' = todo /\ step' = step /\ call' = call
    BY <1>2, Zenon DEF vars, store, session, history
  <2>2. ASSUME NEW d \in Senders PROVE QueueKept(d)
    <3>1. Queue(d)
      BY Zenon DEF SpoolInv
    <3>2. Queue(d)'
      BY <2>1, <3>1, Zenon DEF Queue
    <3>3. MayArrive(d)' => MayArrive(d)
      BY <2>1, Zenon DEF MayArrive
    <3>4. QED
      BY <3>2, <3>3, Zenon DEF QueueKept
  <2>3. QED
    BY <2>1, <2>2, SameSpool, ZenonT(30)
<1>3. QED
  BY <1>1, <1>2, Zenon

(* Every state satisfies SpoolInv.                                         *)
THEOREM SpoolInvHolds ==
  Spec => []SpoolInv
<1>1. Inv /\ SpoolInv /\ [Next]_vars => SpoolInv'
  BY SpoolNext, Zenon DEF SpoolTurn
<1>2. QED
  BY <1>1, SpoolInit, InvHolds, PTL DEF Spec

(* What a user deleted from the system mailbox and committed never comes    *)
(* back to it, whatever another session commits from the snapshot it took   *)
(* before.                                                                  *)
THEOREM DeletedStaysDeletedHolds ==
  Spec => []DeletedStaysDeleted
<1>1. SpoolInv => DeletedStaysDeleted
  BY Zenon DEF SpoolInv
<1>2. QED
  BY <1>1, SpoolInvHolds, PTL

(* No step makes a message of the system mailbox unread again once its      *)
(* Status field records it as read.                                         *)
THEOREM ReadStaysReadHolds ==
  Spec => ReadStaysRead
<1>1. Inv /\ SpoolInv /\ [Next]_vars =>
        [\A i \in DOMAIN box[Spool], j \in DOMAIN box'[Spool] :
           box[Spool][i].id = box'[Spool][j].id /\ box[Spool][i].status = "RO"
              => box'[Spool][j].status = "RO"]_vars
  BY SpoolNext, Zenon DEF SpoolTurn, ReadIn
<1>2. QED
  BY <1>1, InvHolds, SpoolInvHolds, PTL DEF Spec, ReadStaysRead

=============================================================================
