--------------------------- MODULE MailLossProofs ---------------------------
(***************************************************************************)
(* NothingLost for any number of senders, sessions, mailboxes and messages.*)
(*                                                                         *)
(* LossInv says, on top of Inv, where each message that a commit is about to*)
(* drop is safe already: a saved one outside the system mailbox, a moved one*)
(* in MBOX, one that a command is still saving in the append it is making. *)
(***************************************************************************)
EXTENDS MailInvProofs

\* Where a message is out of reach of the commit of another mailbox.
PurgedIds == {q[2] : q \in purged}
SafeInMbox == WholeIn(box[Mbox]) \cup plain \cup PurgedIds
SafeElsewhere == (UNION {WholeIn(box[b]) : b \in Boxes \ {Spool}}) \cup plain \cup PurgedIds

\* A message marked saved has a copy outside the system mailbox, from which the
\* commit will drop it.
SavedSafe(r) ==
  s[r].at = Spool => \A i \in DOMAIN s[r].state :
     s[r].state[i] = "saved" /\ s[r].entries[i].whole => s[r].entries[i].id \in SafeElsewhere

\* A save that has met no error has put its messages where they are safe, but for
\* the one it is appending.
PendingSafe(r) ==
  pc[r] = "save" /\ (answer[r] # "error" \/ step[r] \in Busy) =>
    \A i \in pending[r].nums \ pending[r].left : s[r].entries[i].whole =>
       \/ s[r].entries[i].id \in SafeElsewhere
       \/ step[r] \in {"called", "locked", "torn"} /\ call[r].entry = s[r].entries[i]

\* Once the merge is written, what the commit moves out of its mailbox is in MBOX.
MovedSafe(r) ==
  Moving(r) => \A i \in Moved(s[r], opt[r]) :
     s[r].entries[i].whole => s[r].entries[i].id \in SafeInMbox

LossInv ==
  /\ NothingLost
  /\ \A r \in Readers : SavedSafe(r) /\ PendingSafe(r) /\ MovedSafe(r)

\* Nothing that was safe ceases to be.
StaysSafe ==
  /\ NothingLost'
  /\ SafeInMbox \subseteq SafeInMbox' /\ SafeElsewhere \subseteq SafeElsewhere'

(* No deletion is taken back.                                              *)
LEMMA PurgedGrows ==
  ASSUME NEW c, StoreWorks(c)
  PROVE  PurgedIds \subseteq PurgedIds'
BY StoreRest, Zenon DEF PurgedIds

(* A step that changes no mailbox and no deletion.                         *)
LEMMA QuietSafe ==
  ASSUME NothingLost, box' = box, purged' = purged, accepted' = accepted, plain \subseteq plain'
  PROVE  StaysSafe
<1>1. SafeInMbox \subseteq SafeInMbox' /\ SafeElsewhere \subseteq SafeElsewhere'
  BY Zenon DEF SafeInMbox, SafeElsewhere, PurgedIds
<1>2. NothingLost'
  BY Zenon DEF NothingLost, Whole
<1>3. QED
  BY <1>1, <1>2, Zenon DEF StaysSafe

(* The other readers keep what they had, and it stays safe.                *)
LEMMA OthersSafe ==
  ASSUME Inv, LossInv, NEW c \in Clients, Turn(c), StaysSafe, NEW d \in Readers, d # c
  PROVE  SavedSafe(d)' /\ PendingSafe(d)' /\ MovedSafe(d)'
<1>1. d \in Clients
  BY MailAssumption, Zenon
<1>2. step'[d] = step[d] /\ call'[d] = call[d] /\ answer'[d] = answer[d] /\ pc'[d] = pc[d]
  <2>1. /\ DOMAIN step = Clients /\ DOMAIN call = Clients /\ DOMAIN answer = Clients
        /\ DOMAIN pc = Clients
    BY Zenon DEF Inv, StoreTyped, SessionTyped
  <2>2. QED
    BY <1>1, <2>1, Zenon DEF Turn, OnlyAt
<1>3. s'[d] = s[d] /\ pending'[d] = pending[d] /\ opt'[d] = opt[d]
  BY Zenon DEF Turn, OnlyAt, Inv, SessionTyped
<1>4. SavedSafe(d)'
  BY <1>3, Zenon DEF LossInv, SavedSafe, StaysSafe
<1>5. PendingSafe(d)'
  <2> SUFFICES ASSUME pc'[d] = "save", answer'[d] # "error" \/ step'[d] \in Busy,
                      NEW i \in pending'[d].nums \ pending'[d].left, s'[d].entries[i].whole
               PROVE  \/ s'[d].entries[i].id \in SafeElsewhere'
                      \/ /\ step'[d] \in {"called", "locked", "torn"}
                         /\ call'[d].entry = s'[d].entries[i]
    BY Zenon DEF PendingSafe
  <2>1. \/ s[d].entries[i].id \in SafeElsewhere
        \/ step[d] \in {"called", "locked", "torn"} /\ call[d].entry = s[d].entries[i]
    BY <1>2, <1>3, Zenon DEF LossInv, PendingSafe
  <2>2. QED
    BY <1>2, <1>3, <2>1, Zenon DEF StaysSafe
<1>6. MovedSafe(d)'
  <2>1. Moving(d)' => Moving(d)
    BY <1>2, Zenon DEF Moving
  <2>2. QED
    BY <1>3, <2>1, Zenon DEF LossInv, MovedSafe, StaysSafe
<1>7. QED
  BY <1>4, <1>5, <1>6, SMTT(30)

(* So a step keeps LossInv if the mover does.                              *)
LEMMA SafeTurn ==
  ASSUME Inv, LossInv, NEW c \in Clients, Turn(c), StaysSafe,
         c \in Readers => SavedSafe(c)' /\ PendingSafe(c)' /\ MovedSafe(c)'
  PROVE  LossInv'
BY OthersSafe, Zenon DEF LossInv, StaysSafe

(* A step after which every mailbox still has its whole messages.          *)
LEMMA GrowsSafe ==
  ASSUME Inv, NothingLost, NEW c, StoreWorks(c),
         \A b \in Boxes : WholeIn(box[b]) \subseteq WholeIn(box'[b])
  PROVE  StaysSafe
<1>1. Mbox \in Boxes
  BY MailAssumption, Zenon
<1>2. SafeInMbox \subseteq SafeInMbox'
  BY <1>1, StoreRest, PurgedGrows, Zenon DEF SafeInMbox
<1>3. SafeElsewhere \subseteq SafeElsewhere'
  BY StoreRest, PurgedGrows, Zenon DEF SafeElsewhere
<1>4. Whole(box) \subseteq Whole(box')
  BY Zenon DEF Whole
<1>5. NothingLost'
  <2> SUFFICES ASSUME NEW m \in accepted' PROVE m \in Whole(box') \cup plain' \cup PurgedIds'
    BY Zenon DEF NothingLost, PurgedIds
  <2>1. m \in accepted => m \in Whole(box) \cup plain \cup PurgedIds
    BY Zenon DEF NothingLost, PurgedIds
  <2>2. QED
    BY <1>4, <2>1, StoreRest, PurgedGrows, Zenon
<1>6. QED
  BY <1>2, <1>3, <1>5, Zenon DEF StaysSafe

(* An append loses nothing: what it cuts off is the text it had begun.     *)
LEMMA AppendSafe ==
  ASSUME Inv, NothingLost, NEW c \in Clients, StoreWorks(c),
         AppendBegins(c) \/ AppendEnds(c) \/ AppendRollsBack(c)
  PROVE  StaysSafe
<1>1. PICK b : b = call[c].box
  BY Zenon
<1>2. step[c] \in Busy /\ step[c] \in Holding
  BY Zenon DEF AppendBegins, AppendEnds, AppendRollsBack, Busy, Holding
<1>3. b \in Boxes /\ box[b] \in Seq(Entry)
  BY <1>1, <1>2, AskedWhat, Zenon
<1>4. \E v : box' = [box EXCEPT ![b] = v]
  BY <1>1, Zenon DEF AppendBegins, AppendEnds, AppendRollsBack
<1>5. PICK q \in Seq(Entry) : q = box[b]
  BY <1>3, Zenon
<1>6. PICK l \in Nat : l = Len(q)
  BY <1>5, SMTT(30)
<1>7. DOMAIN q = 1 .. l
  BY <1>6, SMTT(30)
<1>8. \A i \in DOMAIN q : q[i].whole => i \in DOMAIN box'[b] /\ box'[b][i] = q[i]
  <2>1. CASE AppendBegins(c)
    <3>1. PICK e : box' = [box EXCEPT ![b] = Append(q, e)] /\ e \in Entry
      <4>1. call[c].op = "append" /\ call[c].entry \in Entry
        BY <1>2, <2>1, AskedWhat, Zenon DEF AppendBegins
      <4>2. PICK e : e = [call[c].entry EXCEPT !.whole = FALSE]
        BY Zenon
      <4>3. e \in Entry
        BY <4>1, <4>2, Zenon DEF Entry
      <4>4. box' = [box EXCEPT ![b] = Append(q, e)]
        BY <1>1, <1>5, <2>1, <4>2, Zenon DEF AppendBegins
      <4>5. QED
        BY <4>3, <4>4, Zenon
    <3>2. box'[b] = Append(q, e)
      BY <1>3, <3>1, Zenon DEF Inv, StoreTyped
    <3>3. \A i \in 1 .. l : i \in DOMAIN Append(q, e) /\ Append(q, e)[i] = q[i]
      BY <1>5, <1>6, <3>1, SMTT(30)
    <3>4. QED
      BY <1>7, <3>2, <3>3, Zenon
  <2>2. CASE AppendEnds(c) \/ AppendRollsBack(c)
    <3>1. /\ q # <<>> /\ call[c].entry \in Entry
          /\ box'[b] = Truncated(q) \/ box'[b] = Append(Truncated(q), call[c].entry)
      BY <1>1, <1>5, <2>2, TornEnds, ZenonT(30)
    <3>2. step[c] = "torn"
      BY <2>2, Zenon DEF AppendEnds, AppendRollsBack
    <3>3. ~q[l].whole
      BY <1>1, <1>5, <1>6, <3>2, Zenon DEF Inv, StepInv
    <3>4. PICK t \in Seq(Entry) : t = Truncated(q)
      BY <3>1, TruncatedFacts, Zenon
    <3>5. Len(t) = l - 1 /\ \A k \in 1 .. l - 1 : t[k] = q[k]
      BY <1>6, <3>1, <3>4, TruncatedFacts, Zenon
    <3>6. \A k \in 1 .. l - 1 : /\ k \in DOMAIN t /\ t[k] = q[k]
                                /\ k \in DOMAIN Append(t, call[c].entry)
                                /\ Append(t, call[c].entry)[k] = q[k]
      BY <3>1, <3>5, SMTT(30)
    <3>7. \A i \in 1 .. l : i \in 1 .. l - 1 \/ i = l
      OBVIOUS
    <3>8. QED
      BY <1>7, <3>1, <3>3, <3>4, <3>6, <3>7, Zenon
  <2>3. QED
    BY <2>1, <2>2, Zenon
<1>9. WholeIn(box[b]) \subseteq WholeIn(box'[b])
  BY <1>5, <1>8, Zenon DEF WholeIn
<1>10. \A d \in Boxes : d # b => box'[d] = box[d]
  BY <1>4, Zenon DEF Inv, StoreTyped
<1>11. \A d \in Boxes : WholeIn(box[d]) \subseteq WholeIn(box'[d])
  BY <1>9, <1>10, Zenon
<1>12. QED
  BY <1>11, GrowsSafe, Zenon

(* So it has every message it was given, but for the ones it drops.        *)
LEMMA CommitKeeps ==
  ASSUME Inv, NEW c \in Clients, step[c] = "loaded", call[c].op = "commit",
         NEW m \in WholeIn(box[call[c].box]), m \notin WholeIn(draft[c])
  PROVE  \E i \in 1 .. Len(s[c].original) :
            /\ ~Keep(s[c], opt[c])[i] /\ s[c].entries[i].whole /\ s[c].entries[i].id = m
            /\ s[c].original[i].id = m
<1>1. step[c] \in Busy
  BY Zenon DEF Busy, Holding
<1>2. PICK q \in Seq(Entry) : q = box[call[c].box]
  BY <1>1, AskedWhat, Zenon
<1>3. c \in Readers /\ Len(q) >= Len(s[c].original)
      /\ \A i \in 1 .. Len(s[c].original) : q[i] = s[c].original[i]
  BY <1>2, CommitWrites, Zenon
<1>4. PICK n \in Nat : n = Len(s[c].original)
  BY <1>3, ReaderFacts, EntriesTyped, Zenon
<1>5. PICK k \in Seq(Entry), a \in Seq(Entry) :
        /\ draft[c] = k \o a
        /\ \E at : Picks(k, at, s[c].entries, Keep(s[c], opt[c]), n)
        /\ Len(a) = Len(q) - n
        /\ \A j \in 1 .. Len(q) - n : a[j] = q[n + j]
  <2>1. \E k \in Seq(Entry), a \in Seq(Entry) :
          /\ draft[c] = k \o a
          /\ \E at : Picks(k, at, s[c].entries, Keep(s[c], opt[c]), Len(s[c].original))
          /\ Len(a) = Len(q) - Len(s[c].original)
          /\ \A j \in 1 .. Len(q) - Len(s[c].original) : a[j] = q[Len(s[c].original) + j]
    BY <1>2, CommitWrites, Zenon
  <2>2. QED
    BY <1>4, <2>1, Zenon
<1>6. PICK at : Picks(k, at, s[c].entries, Keep(s[c], opt[c]), n)
  BY <1>5, Zenon
<1>7. Joins(draft[c], k, a)
  BY <1>5, ConcatJoins, Zenon
<1>8. PICK i \in DOMAIN q : q[i].whole /\ q[i].id = m
  BY <1>2, Zenon DEF WholeIn
<1>9. i \in 1 .. n
  <2> SUFFICES ASSUME i \notin 1 .. n PROVE FALSE
    BY Zenon
  <2>1. PICK j \in 1 .. Len(q) - n : i = n + j
    <3>1. i \in 1 .. Len(q) /\ Len(q) \in Nat
      BY <1>8, SMTT(30)
    <3>2. i - n \in 1 .. Len(q) - n /\ i = n + (i - n)
      BY <3>1, SMTT(30)
    <3>3. QED
      BY <3>2, Zenon
  <2>2. a[j] = q[i] /\ j \in DOMAIN a
    BY <1>5, <2>1, SMTT(30)
  <2>3. m \in WholeIn(a)
    BY <1>8, <2>2, Zenon DEF WholeIn
  <2>4. QED
    BY <1>7, <2>3, JoinsWhole, Zenon
<1>10. s[c].entries[i].whole /\ s[c].entries[i].id = m /\ s[c].original[i].id = m
  <2>1. SameMessages(s[c]) /\ i \in DOMAIN s[c].original
    BY <1>3, <1>4, <1>9, ReaderFacts, EntriesTyped, ZenonT(30) DEF SessionGood
  <2>2. QED
    BY <1>3, <1>4, <1>8, <1>9, <2>1, Zenon DEF SameMessages
<1>11. ~Keep(s[c], opt[c])[i]
  <2> SUFFICES ASSUME Keep(s[c], opt[c])[i] PROVE FALSE
    BY Zenon
  <2>1. PICK j \in 1 .. Len(k) : at[j] = i
    BY <1>6, <1>9, Zenon DEF Picks
  <2>2. k[j] = s[c].entries[i]
    BY <1>6, <2>1, Zenon DEF Picks
  <2>3. j \in DOMAIN k
    BY <2>1, SMTT(30)
  <2>4. m \in WholeIn(k)
    BY <1>10, <2>2, <2>3, Zenon DEF WholeIn
  <2>5. QED
    BY <1>7, <2>4, JoinsWhole, Zenon
<1>12. QED
  BY <1>4, <1>9, <1>10, <1>11, Zenon

(* What it is to be safe outside the system mailbox, now and after a step.  *)
LEMMA ElsewhereIs ==
  /\ \A m : m \in SafeElsewhere <=>
        (\E b \in Boxes \ {Spool} : m \in WholeIn(box[b])) \/ m \in plain \/ m \in PurgedIds
  /\ \A m : m \in SafeElsewhere' <=>
        (\E b \in Boxes \ {Spool} : m \in WholeIn(box'[b])) \/ m \in plain' \/ m \in PurgedIds'
<1>1. PICK p : p = PurgedIds
  BY Zenon
<1>2. PICK w : w = {WholeIn(box[b]) : b \in Boxes \ {Spool}}
  BY Zenon
<1>3. \A m : m \in UNION w <=> \E b \in Boxes \ {Spool} : m \in WholeIn(box[b])
  BY <1>2, Zenon
<1>4. \A m : m \in SafeElsewhere <=> m \in UNION w \/ m \in plain \/ m \in PurgedIds
  <2>1. SafeElsewhere = (UNION w) \cup plain \cup PurgedIds
    BY <1>2, Zenon DEF SafeElsewhere
  <2>2. PICK u : u = UNION w
    BY Zenon
  <2>3. QED
    BY <2>1, <2>2, Zenon
<1>5. PICK v : v = {WholeIn(box'[b]) : b \in Boxes \ {Spool}}
  BY Zenon
<1>6. \A m : m \in UNION v <=> \E b \in Boxes \ {Spool} : m \in WholeIn(box'[b])
  BY <1>5, Zenon
<1>7. \A m : m \in SafeElsewhere' <=> m \in UNION v \/ m \in plain' \/ m \in PurgedIds'
  <2>1. SafeElsewhere' = (UNION v) \cup plain' \cup PurgedIds'
    BY <1>5, Zenon DEF SafeElsewhere
  <2>2. PICK u : u = UNION v
    BY Zenon
  <2>3. QED
    BY <2>1, <2>2, Zenon
<1>8. QED
  BY <1>3, <1>4, <1>6, <1>7, Zenon

(* MBOX is not the system mailbox, before a step or after it.              *)
LEMMA MboxElsewhere ==
  ASSUME Mbox \in Boxes, Spool # Mbox
  PROVE  SafeInMbox \subseteq SafeElsewhere /\ SafeInMbox' \subseteq SafeElsewhere'
<1>1. Mbox \in Boxes \ {Spool}
  BY Zenon
<1>2. ASSUME NEW m \in SafeInMbox PROVE m \in SafeElsewhere
  <2>1. m \in WholeIn(box[Mbox]) \/ m \in plain \/ m \in PurgedIds
    BY <1>2, Zenon DEF SafeInMbox
  <2>2. QED
    BY <1>1, <2>1, Zenon DEF SafeElsewhere
<1>3. ASSUME NEW m \in SafeInMbox' PROVE m \in SafeElsewhere'
  <2>1. m \in WholeIn(box'[Mbox]) \/ m \in plain' \/ m \in PurgedIds'
    BY <1>3, Zenon DEF SafeInMbox
  <2>2. QED
    BY <1>1, <2>1, Zenon DEF SafeElsewhere
<1>4. QED
  BY <1>2, <1>3, Zenon

(* What a commit drops is safe.                                            *)
LEMMA CommitSafe ==
  ASSUME Inv, LossInv, NEW c \in Clients, StoreWorks(c), Replace(c), call[c].op = "commit"
  PROVE  StaysSafe
<1>1. step[c] = "loaded" /\ step[c] \in Busy
  BY Zenon DEF Replace, Busy, Holding
<1>2. PICK b : b = call[c].box
  BY Zenon
<1>3. b \in Boxes /\ box'[b] = draft[c] /\ \A d \in Boxes : d # b => box'[d] = box[d]
  <2>1. b \in Boxes /\ box'[b] = draft[c]
    BY <1>2, ReplaceInv, Zenon
  <2>2. DOMAIN box = Boxes /\ box' = [box EXCEPT ![b] = draft[c]]
    BY <1>2, Zenon DEF Inv, StoreTyped, Replace
  <2>3. QED
    BY <2>1, <2>2, Zenon
<1>4. c \in Readers /\ b = s[c].at /\ pc[c] = "commit"
  BY <1>1, <1>2, AskedWhat, Zenon
<1>5. Mbox \in Boxes /\ Spool # Mbox /\ Spool \in Boxes
  BY MailAssumption, Zenon
<1>6. ASSUME NEW m \in WholeIn(box[b]), m \notin WholeIn(box'[b])
      PROVE  \/ m \in PurgedIds'
             \/ b # Mbox /\ m \in SafeInMbox
             \/ b = Spool /\ m \in SafeElsewhere
  <2>1. PICK i \in 1 .. Len(s[c].original) :
          /\ ~Keep(s[c], opt[c])[i] /\ s[c].entries[i].whole /\ s[c].entries[i].id = m
          /\ s[c].original[i].id = m
    BY <1>1, <1>2, <1>3, <1>6, CommitKeeps, ZenonT(30)
  <2>2. i \in DOMAIN s[c].state
    BY <1>4, <2>1, ReaderFacts, EntriesTyped, Zenon
  <2>3. i \in Dropped(s[c], opt[c]) /\ ~(s[c].at = Mbox /\ i \in ToMbox(s[c], opt[c]))
    BY <2>1, <2>2, Zenon DEF Keep
  <2>4. CASE i \in ToMbox(s[c], opt[c])
    <3>1. b # Mbox /\ i \in Moved(s[c], opt[c])
      BY <1>4, <2>3, <2>4, Zenon DEF Moved
    <3>2. Moving(c) /\ MovedSafe(c)
      BY <1>4, Zenon DEF Moving, LossInv
    <3>3. m \in SafeInMbox
      BY <2>1, <3>1, <3>2, Zenon DEF MovedSafe
    <3>4. QED
      BY <3>1, <3>3, Zenon
  <2>5. CASE s[c].state[i] = "deleted"
    <3>1. i \in Deleted(s[c])
      BY <2>2, <2>5, Zenon DEF Deleted, Visible
    <3>2. step' = [step EXCEPT ![c] = "written"] /\ DOMAIN step = Clients
      BY Zenon DEF Replace, Inv, StoreTyped
    <3>3. step'[c] = "written"
      BY <3>2, Zenon
    <3>4. <<b, m>> \in Purges(c)
      BY <1>1, <1>2, <2>1, <3>1, <3>3, Zenon DEF Purges
    <3>5. <<b, m>> \in purged' /\ <<b, m>>[2] = m
      BY <3>4, StoreRest, Zenon
    <3>6. QED
      BY <3>5, Zenon DEF PurgedIds
  <2>6. CASE s[c].at = Spool /\ s[c].state[i] = "saved"
    <3>1. SavedSafe(c)
      BY <1>4, Zenon DEF LossInv
    <3>2. m \in SafeElsewhere
      BY <2>1, <2>2, <2>6, <3>1, Zenon DEF SavedSafe
    <3>3. QED
      BY <1>4, <2>6, <3>2, Zenon
  <2>7. QED
    BY <2>2, <2>3, <2>4, <2>5, <2>6, Zenon DEF Dropped
<1>7. SafeInMbox \subseteq SafeInMbox'
  <2> SUFFICES ASSUME NEW m \in SafeInMbox PROVE m \in SafeInMbox'
    BY Zenon
  <2>1. CASE m \in plain \cup PurgedIds
    BY <2>1, StoreRest, PurgedGrows, Zenon DEF SafeInMbox
  <2>2. CASE m \in WholeIn(box[Mbox])
    <3>1. CASE b # Mbox
      <4>1. box'[Mbox] = box[Mbox]
        BY <1>3, <1>5, <3>1, Zenon
      <4>2. QED
        BY <2>2, <4>1, Zenon DEF SafeInMbox
    <3>2. CASE b = Mbox
      <4>1. m \in WholeIn(box'[Mbox]) \/ m \in PurgedIds'
        BY <1>5, <1>6, <2>2, <3>2, Zenon
      <4>2. QED
        BY <4>1, Zenon DEF SafeInMbox
    <3>3. QED
      BY <3>1, <3>2, Zenon
  <2>3. QED
    BY <2>1, <2>2, Zenon DEF SafeInMbox
<1>8. SafeInMbox' \subseteq SafeElsewhere'
  BY <1>5, MboxElsewhere, Zenon
<1>9. SafeElsewhere \subseteq SafeElsewhere'
  <2> SUFFICES ASSUME NEW m \in SafeElsewhere PROVE m \in SafeElsewhere'
    BY Zenon
  <2>1. CASE m \in plain \cup PurgedIds
    BY <2>1, StoreRest, PurgedGrows, Zenon DEF SafeElsewhere
  <2>2. ASSUME NEW d \in Boxes \ {Spool}, m \in WholeIn(box[d]) PROVE m \in SafeElsewhere'
    <3>1. CASE m \in WholeIn(box'[d])
      BY <2>2, <3>1, Zenon DEF SafeElsewhere
    <3>2. CASE m \notin WholeIn(box'[d])
      <4>1. d = b /\ d # Spool
        BY <1>3, <2>2, <3>2, Zenon
      <4>2. CASE m \in PurgedIds'
        BY <4>2, Zenon DEF SafeElsewhere
      <4>3. CASE m \in SafeInMbox
        BY <1>7, <1>8, <4>3, Zenon
      <4>4. QED
        BY <1>6, <2>2, <3>2, <4>1, <4>2, <4>3, ZenonT(30)
    <3>3. QED
      BY <3>1, <3>2, Zenon
  <2>3. \/ m \in plain \cup PurgedIds
        \/ \E d \in Boxes \ {Spool} : m \in WholeIn(box[d])
    BY Zenon DEF SafeElsewhere
  <2>4. QED
    BY <2>1, <2>2, <2>3, Zenon
<1>10. SafeElsewhere' \subseteq Whole(box') \cup plain' \cup PurgedIds'
  <2> SUFFICES ASSUME NEW m \in SafeElsewhere'
               PROVE  m \in Whole(box') \cup plain' \cup PurgedIds'
    BY Zenon
  <2>1. \/ m \in plain' \cup PurgedIds'
        \/ \E d \in Boxes : m \in WholeIn(box'[d])
    BY Zenon DEF SafeElsewhere
  <2>2. QED
    BY <2>1, Zenon DEF Whole
<1>11. NothingLost'
  <2> SUFFICES ASSUME NEW m \in accepted', m \notin Whole(box')
               PROVE  m \in Whole(box') \cup plain' \cup PurgedIds'
    BY Zenon DEF NothingLost, PurgedIds
  <2>1. m \in accepted
    BY StoreRest, Zenon
  <2>2. m \in Whole(box) \cup plain \cup PurgedIds
    BY <2>1, Zenon DEF LossInv, NothingLost, PurgedIds
  <2>3. CASE m \in Whole(box)
    <3>1. PICK d \in Boxes : m \in WholeIn(box[d]) /\ m \notin WholeIn(box'[d])
      BY <2>3, Zenon DEF Whole
    <3>2. d = b
      BY <1>3, <3>1, Zenon
    <3>3. m \in PurgedIds' \/ m \in SafeInMbox \/ m \in SafeElsewhere
      BY <1>6, <3>1, <3>2, Zenon
    <3>4. QED
      BY <1>7, <1>8, <1>9, <1>10, <3>3, Zenon
  <2>4. QED
    BY <2>2, <2>3, StoreRest, PurgedGrows, Zenon
<1>12. QED
  BY <1>7, <1>9, <1>11, Zenon DEF StaysSafe

(* A merge adds to MBOX: what was there and what was moved are both in it. *)
LEMMA MergeAdds ==
  ASSUME Inv, NEW c \in Clients, StoreWorks(c), Replace(c), call[c].op = "merge"
  PROVE  /\ c \in Readers /\ \A b \in Boxes : WholeIn(box[b]) \subseteq WholeIn(box'[b])
         /\ WholeIn(MovedEntries(s[c], opt[c])) \subseteq WholeIn(box'[Mbox])
<1>1. step[c] = "loaded" /\ step[c] \in Busy
  BY Zenon DEF Replace, Busy, Holding
<1>2. /\ c \in Readers /\ call[c].box = Mbox /\ Mbox \in Boxes
      /\ call[c].entries = MovedEntries(s[c], opt[c]) /\ call[c].entries \in Seq(Entry)
      /\ box[Mbox] \in Seq(Entry)
  BY <1>1, AskedWhat, Zenon
<1>3. box'[Mbox] = draft[c]
  BY <1>2, ReplaceInv, Zenon
<1>4. draft[c] = Merged(box[Mbox], call[c].entries, call[c].atEnd)
  <2>1. "commit" # "merge"
    BY Zenon
  <2>2. QED
    BY <1>1, <1>2, <2>1, Zenon DEF Inv, StepInv
<1>5. PICK new, old, es : /\ new = box'[Mbox] /\ old = box[Mbox] /\ es = call[c].entries
                          /\ Joins(new, old, es)
  BY <1>2, <1>3, <1>4, MergedJoins, Zenon
<1>6. /\ WholeIn(box[Mbox]) \subseteq WholeIn(box'[Mbox])
      /\ WholeIn(call[c].entries) \subseteq WholeIn(box'[Mbox])
  <2>1. WholeIn(old) \subseteq WholeIn(new) /\ WholeIn(es) \subseteq WholeIn(new)
    BY <1>5, JoinsWhole, ZenonT(30)
  <2>2. QED
    BY <1>5, <2>1, Zenon
<1>7. DOMAIN box = Boxes /\ box' = [box EXCEPT ![Mbox] = draft[c]]
  <2>1. DOMAIN box = Boxes
    BY Zenon DEF Inv, StoreTyped
  <2>2. QED
    BY <1>2, <2>1, Zenon DEF Replace
<1>8. \A b \in Boxes : b # Mbox => box'[b] = box[b]
  BY <1>7, Zenon
<1>9. \A b \in Boxes : WholeIn(box[b]) \subseteq WholeIn(box'[b])
  BY <1>6, <1>8, Zenon
<1>10. QED
  BY <1>2, <1>6, <1>9, Zenon

(* No step of the store makes anything unsafe.                             *)
LEMMA StoreSafe ==
  ASSUME Inv, LossInv, NEW c \in Clients, StoreWorks(c)
  PROVE  StaysSafe
<1>1. NothingLost
  BY Zenon DEF LossInv
<1>2. ASSUME box' = box PROVE StaysSafe
  <2>1. \A b \in Boxes : WholeIn(box[b]) \subseteq WholeIn(box'[b])
    BY <1>2, Zenon
  <2>2. QED
    BY <1>1, <2>1, GrowsSafe, Zenon
<1>3. CASE AppendBegins(c) \/ AppendEnds(c) \/ AppendRollsBack(c)
  BY <1>1, <1>3, AppendSafe, Zenon
<1>4. CASE Replace(c)
  <2>1. step[c] \in Busy
    BY <1>4, Zenon DEF Replace, Busy, Holding
  <2>2. CASE call[c].op = "commit"
    BY <1>4, <2>2, CommitSafe, Zenon
  <2>3. CASE call[c].op = "merge"
    BY <1>1, <1>4, <2>3, MergeAdds, GrowsSafe, ZenonT(30)
  <2>4. call[c].op = "merge" \/ call[c].op = "commit"
    BY <1>4, Zenon DEF Inv, StepInv, Replace
  <2>5. QED
    BY <2>2, <2>3, <2>4, Zenon
<1>5. CASE Acquire(c) \/ AcquireBusy(c) \/ FailUntouched(c) \/ CloseFails(c) \/ MergeReads(c)
           \/ CommitReads(c) \/ CommitRefused(c) \/ Succeed(c)
  <2>1. box' = box
    BY <1>5, Zenon DEF Acquire, AcquireBusy, FailUntouched, CloseFails, MergeReads, CommitReads,
                CommitRefused, Succeed
  <2>2. QED
    BY <1>2, <2>1, Zenon
<1>6. QED
  BY <1>3, <1>4, <1>5, Zenon DEF StoreWorks, StoreStep

(* Once a merge is written, what it moved is in MBOX.                      *)
LEMMA MergeMoves ==
  ASSUME Inv, NEW r \in Readers, StoreWorks(r), Replace(r), call[r].op = "merge",
         NEW i \in Moved(s[r], opt[r]), s[r].entries[i].whole
  PROVE  s[r].entries[i].id \in WholeIn(box'[Mbox])
<1>1. SessionGood(s[r]) /\ r \in Clients
  BY ReaderFacts, Zenon
<1>2. PICK q : q = MovedEntries(s[r], opt[r])
  BY Zenon
<1>3. PICK n \in Nat : n = Len(s[r].original)
  BY <1>1, EntriesTyped, Zenon
<1>4. q \in Seq(Entry) /\ \E at : Picks(q, at, s[r].entries,
                                  [k \in DOMAIN s[r].state |-> k \in Moved(s[r], opt[r])], n)
  BY <1>1, <1>2, <1>3, MovedTyped, ZenonT(30)
<1>5. i \in DOMAIN s[r].state
  <2>1. i \in ToMbox(s[r], opt[r])
    BY Zenon DEF Moved
  <2>2. QED
    BY <2>1, Zenon DEF ToMbox
<1>6. i \in 1 .. n
  BY <1>1, <1>3, <1>5, EntriesTyped, ZenonT(30)
<1>7. [k \in DOMAIN s[r].state |-> k \in Moved(s[r], opt[r])][i]
  BY <1>5, Zenon
<1>8. \E k \in 1 .. Len(q) : q[k] = s[r].entries[i]
  <2>1. PICK at : Picks(q, at, s[r].entries,
                        [k \in DOMAIN s[r].state |-> k \in Moved(s[r], opt[r])], n)
    BY <1>4, ZenonT(30)
  <2>2. PICK k \in 1 .. Len(q) : at[k] = i
    BY <1>6, <1>7, <2>1, Zenon DEF Picks
  <2>3. QED
    BY <2>1, <2>2, Zenon DEF Picks
<1>9. DOMAIN q = 1 .. Len(q)
  BY <1>4, SMTT(30)
<1>10. s[r].entries[i].id \in WholeIn(q)
  BY <1>8, <1>9, Zenon DEF WholeIn
<1>11. QED
  BY <1>1, <1>2, <1>10, MergeAdds, ZenonT(30)

(* The step of the store that a save has asked for brings its message to    *)
(* safety, unless it fails.                                                 *)
LEMMA StorePending ==
  ASSUME Inv, LossInv, NEW r \in Readers, StoreWorks(r), StaysSafe
  PROVE  PendingSafe(r)'
<1>1. r \in Clients /\ pc' = pc /\ s' = s /\ pending' = pending /\ PendingInv(r)
  BY ReaderFacts, StoreRest, Zenon
<1>2. /\ DOMAIN step = Clients /\ DOMAIN call = Clients /\ DOMAIN answer = Clients
      /\ DOMAIN box = Boxes
  BY Zenon DEF Inv, StoreTyped
<1>3. SUFFICES ASSUME pc[r] = "save", answer'[r] # "error" \/ step'[r] \in Busy,
                      NEW i \in pending[r].nums \ pending[r].left, s[r].entries[i].whole
               PROVE  \/ s[r].entries[i].id \in SafeElsewhere'
                      \/ /\ step'[r] \in {"called", "locked", "torn"}
                         /\ call'[r].entry = s[r].entries[i]
  BY <1>1, ZenonT(30) DEF PendingSafe
<1>4. step[r] \in Busy
  BY Zenon
     DEF StoreWorks, StoreStep, Acquire, AcquireBusy, FailUntouched, AppendBegins,
     AppendEnds,
         AppendRollsBack, CloseFails, MergeReads, CommitReads, CommitRefused, Replace,
     Succeed,
         Busy, Holding
<1>5. call[r].op = "append" /\ call[r].box = pending[r].to /\ call[r].entry \in Entry
  <2>1. "save" # "merge" /\ "save" # "commit"
    BY Zenon
  <2>2. r \notin Senders
    BY MailAssumption, Zenon
  <2>3. QED
    BY <1>1, <1>3, <1>4, <2>1, <2>2, AskedWhat, Zenon
<1>6. \/ s[r].entries[i].id \in SafeElsewhere
      \/ step[r] \in {"called", "locked", "torn"} /\ call[r].entry = s[r].entries[i]
  BY <1>3, <1>4, Zenon DEF LossInv, PendingSafe
<1>7. CASE s[r].entries[i].id \in SafeElsewhere
  BY <1>7, Zenon DEF StaysSafe
<1>8. CASE step[r] \in {"called", "locked", "torn"} /\ call[r].entry = s[r].entries[i]
  <2>1. CASE Acquire(r) \/ AppendBegins(r)
    <3>1. call' = call /\ (step' = [step EXCEPT ![r] = "locked"] \/ step' = [step EXCEPT ![r] = "torn"])
      BY <2>1, Zenon DEF Acquire, AppendBegins
    <3>2. step'[r] \in {"locked", "torn"}
      BY <1>1, <1>2, <3>1, Zenon
    <3>3. QED
      BY <1>8, <3>1, <3>2, Zenon
  <2>2. CASE AppendEnds(r)
    <3>1. PICK q \in Seq(Entry) : q = Truncated(box[call[r].box])
      BY <1>1, <2>2, TornEnds, TruncatedFacts, Zenon
    <3>2. call[r].box \in Boxes
      BY <1>1, <1>4, AskedWhat, ZenonT(30)
    <3>3. box'[call[r].box] = Append(q, call[r].entry)
      BY <1>2, <2>2, <3>1, <3>2, ZenonT(30) DEF AppendEnds
    <3>4. PICK k \in DOMAIN Append(q, call[r].entry) : Append(q, call[r].entry)[k] = call[r].entry
      <4>1. Len(q) + 1 \in DOMAIN Append(q, call[r].entry)
        BY <1>5, SMTT(30)
      <4>2. Append(q, call[r].entry)[Len(q) + 1] = call[r].entry
        BY <1>5, SMTT(30)
      <4>3. QED
        BY <4>1, <4>2, Zenon
    <3>5. s[r].entries[i].id \in WholeIn(box'[pending[r].to])
      BY <1>3, <1>5, <1>8, <3>3, <3>4, ZenonT(30) DEF WholeIn
    <3>6. pending[r].to \in Boxes \ {Spool}
      <4>1. pending[r].to \in SaveTo
        BY <1>1, <1>3, ZenonT(30) DEF PendingInv
      <4>2. QED
        BY <4>1, MailAssumption, Zenon
    <3>7. QED
      BY <3>5, <3>6, ElsewhereIs, ZenonT(30)
  <2>3. CASE MergeReads(r) \/ CommitReads(r) \/ CommitRefused(r)
    BY <1>5, <2>3, Zenon DEF MergeReads, CommitReads, CommitRefused
  <2>4. CASE Replace(r) \/ Succeed(r) \/ CloseFails(r)
    BY <1>8, <2>4, Zenon DEF Replace, Succeed, CloseFails
  <2>5. CASE AcquireBusy(r) \/ FailUntouched(r) \/ AppendRollsBack(r)
    <3>1. Return(r, "error")
      BY <2>5, Zenon DEF AcquireBusy, FailUntouched, AppendRollsBack, UnlockAndReturn
    <3>2. answer'[r] = "error" /\ step'[r] = "out"
      BY <1>1, <1>2, <3>1, ZenonT(30) DEF Return
    <3>3. QED
      BY <1>3, <3>2, NotBusy, Zenon
  <2>6. QED
    BY <2>1, <2>2, <2>3, <2>4, <2>5, Zenon DEF StoreWorks, StoreStep
<1>9. QED
  BY <1>6, <1>7, <1>8, Zenon

(* A merge that is written has moved its messages to safety.               *)
LEMMA StoreMoved ==
  ASSUME Inv, LossInv, NEW r \in Readers, StoreWorks(r), StaysSafe
  PROVE  MovedSafe(r)'
<1>1. r \in Clients /\ pc' = pc /\ s' = s /\ opt' = opt
  BY ReaderFacts, StoreRest, Zenon
<1>2. DOMAIN step = Clients /\ DOMAIN answer = Clients
  BY Zenon DEF Inv, StoreTyped
<1>3. CASE Moving(r)
  BY <1>1, <1>3, Zenon DEF LossInv, MovedSafe, StaysSafe
<1>4. CASE ~Moving(r) /\ Moving(r)'
  <2>1. pc[r] = "merge" /\ step[r] # "written" /\ answer[r] # "ok"
        /\ (step'[r] = "written" \/ answer'[r] = "ok")
    BY <1>1, <1>4, Zenon DEF Moving
  <2>2. Replace(r) \/ AppendEnds(r)
    <3>1. ASSUME Return(r, "error") PROVE FALSE
      <4>1. answer'[r] = "error" /\ step'[r] = "out"
        BY <1>1, <1>2, <3>1, ZenonT(30) DEF Return
      <4>2. QED
        BY <2>1, <4>1, Zenon
    <3>2. ~AcquireBusy(r) /\ ~FailUntouched(r) /\ ~AppendRollsBack(r) /\ ~CloseFails(r)
          /\ ~CommitRefused(r)
      BY <3>1, Zenon DEF AcquireBusy, FailUntouched, AppendRollsBack, CloseFails, CommitRefused,
                        UnlockAndReturn
    <3>3. ~Succeed(r)
      BY <2>1, Zenon DEF Succeed
    <3>4. ASSUME answer' = answer, NEW st \in {"locked", "torn", "loaded"},
                 step' = [step EXCEPT ![r] = st]
          PROVE  FALSE
      BY <1>1, <1>2, <2>1, <3>4, Zenon
    <3>5. ~Acquire(r) /\ ~AppendBegins(r) /\ ~MergeReads(r) /\ ~CommitReads(r)
      BY <3>4, Zenon DEF Acquire, AppendBegins, MergeReads, CommitReads
    <3>6. QED
      BY <3>2, <3>3, <3>5, Zenon DEF StoreWorks, StoreStep
  <2>3. step[r] \in Busy
    BY <2>2, Zenon DEF Replace, AppendEnds, Busy, Holding
  <2>4. call[r].op = "merge"
    <3>1. "merge" # "save" /\ "merge" # "commit"
      BY Zenon
    <3>2. r \notin Senders
      BY MailAssumption, Zenon
    <3>3. call[r].op # "append" /\ call[r].op # "commit"
      BY <1>1, <2>1, <2>3, <3>1, <3>2, AskedWhat, ZenonT(30)
    <3>4. QED
      BY <1>1, <2>3, <3>3, AskedWhat, ZenonT(30)
  <2>5. ~AppendEnds(r)
    <3>1. "append" # "merge"
      BY Zenon
    <3>2. QED
      BY <1>1, <2>4, <3>1, TornEnds, ZenonT(30)
  <2>6. \A i \in Moved(s[r], opt[r]) :
          s[r].entries[i].whole => s[r].entries[i].id \in WholeIn(box'[Mbox])
    BY <2>2, <2>4, <2>5, MergeMoves, Zenon
  <2>7. WholeIn(box'[Mbox]) \subseteq SafeInMbox'
    BY Zenon DEF SafeInMbox
  <2>8. QED
    BY <1>1, <2>6, <2>7, Zenon DEF MovedSafe
<1>5. CASE ~Moving(r)'
  BY <1>5, Zenon DEF MovedSafe
<1>6. QED
  BY <1>3, <1>4, <1>5, Zenon

(* So the store at work for a reader keeps what the reader relies on.      *)
LEMMA StoreWorksSafe ==
  ASSUME Inv, LossInv, NEW c \in Clients, StoreWorks(c)
  PROVE  LossInv'
<1>1. StaysSafe
  BY StoreSafe, Zenon
<1>2. ASSUME c \in Readers PROVE SavedSafe(c)' /\ PendingSafe(c)' /\ MovedSafe(c)'
  <2>1. SavedSafe(c)'
    <3>1. s' = s /\ SavedSafe(c)
      BY <1>2, StoreRest, Zenon DEF LossInv
    <3>2. QED
      BY <1>1, <3>1, Zenon DEF SavedSafe, StaysSafe
  <2>2. QED
    BY <1>1, <1>2, <2>1, StorePending, StoreMoved, Zenon
<1>3. Turn(c)
  BY StoreWorksInv, Zenon
<1>4. QED
  BY <1>1, <1>2, <1>3, SafeTurn, ZenonT(30)

(* A reader that is in no operation relies on what it marked saved only.   *)
LEMMA IdleSafe ==
  ASSUME NEW r, pc'[r] \notin {"save", "merge", "commit"}
  PROVE  PendingSafe(r)' /\ MovedSafe(r)'
BY Zenon DEF PendingSafe, MovedSafe, Moving

(* Stamping a session changes no message and no mark.                      *)
LEMMA StampedSame ==
  ASSUME NEW x, SessionGood(x), NEW o \in Settings, NEW y, y = Stamped(x, o)
  PROVE  y.at = x.at /\ y.state = x.state
         /\ \A i \in DOMAIN x.original :
              y.entries[i].id = x.entries[i].id /\ y.entries[i].whole = x.entries[i].whole
BY StampedGood, Zenon

(* What is marked saved stays safe when a session is stamped.              *)
LEMMA StampedSafe ==
  ASSUME Inv, LossInv, NEW r \in Readers, StaysSafe, NEW y, y = Stamped(s[r], opt[r]), s'[r] = y
  PROVE  SavedSafe(r)'
<1>1. SavedSafe(r) /\ DOMAIN s = Readers /\ SessionGood(s[r]) /\ opt[r] \in Settings
  BY ReaderFacts, Zenon DEF LossInv, Inv, SessionTyped
<1>2. DOMAIN s[r].state = 1 .. Len(s[r].original)
      /\ DOMAIN s[r].original = 1 .. Len(s[r].original)
  BY <1>1, EntriesTyped, Zenon
<1>3. PICK x, o : x = s[r] /\ o = opt[r]
  BY Zenon
<1>4. SessionGood(x) /\ o \in Settings /\ y = Stamped(x, o)
  BY <1>1, <1>3, Zenon
<1>5. y.at = s[r].at /\ y.state = s[r].state
      /\ \A i \in DOMAIN s[r].original :
           y.entries[i].id = s[r].entries[i].id /\ y.entries[i].whole = s[r].entries[i].whole
  <2>1. y.at = x.at /\ y.state = x.state
        /\ \A i \in DOMAIN x.original :
             y.entries[i].id = x.entries[i].id /\ y.entries[i].whole = x.entries[i].whole
    BY <1>4, StampedSame, ZenonT(30)
  <2>2. QED
    BY <1>3, <2>1, Zenon
<1>6. SUFFICES ASSUME s'[r].at = Spool, NEW i \in DOMAIN s'[r].state,
                      s'[r].state[i] = "saved", s'[r].entries[i].whole
               PROVE  s'[r].entries[i].id \in SafeElsewhere'
  BY Zenon DEF SavedSafe
<1>7. i \in DOMAIN s[r].original /\ i \in DOMAIN s[r].state
  BY <1>2, <1>5, <1>6, Zenon
<1>8. s'[r].entries[i].id = s[r].entries[i].id /\ s[r].entries[i].whole
  BY <1>5, <1>6, <1>7, Zenon
<1>9. s[r].entries[i].id \in SafeElsewhere
  BY <1>1, <1>5, <1>6, <1>7, <1>8, ZenonT(30) DEF SavedSafe
<1>10. QED
  BY <1>8, <1>9, Zenon DEF StaysSafe

(* What a caller's step may do to a session: nothing, close it, open one,   *)
(* stamp it, or mark saved what is safe by then.                            *)
LEMMA SessionSafe ==
  ASSUME Inv, LossInv, NEW r \in Readers, StaysSafe,
         \/ s'[r] = s[r]
         \/ s' = [s EXCEPT ![r] = NoSession]
         \/ \E b \in Boxes : s' = [s EXCEPT ![r] = Opened(b)]
         \/ s' = [s EXCEPT ![r] = Stamped(s[r], opt[r])]
         \/ \E y, nums : /\ s' = [s EXCEPT ![r] = y]
                         /\ Tended(s[r], y, Len(s[r].original), nums)
                         /\ \A i \in nums : s[r].entries[i].whole
                                              => s[r].entries[i].id \in SafeElsewhere'
  PROVE  SavedSafe(r)'
<1>1. /\ SavedSafe(r) /\ DOMAIN s = Readers /\ SessionGood(s[r]) /\ opt[r] \in Settings
      /\ box \in [Boxes -> Seq(Entry)]
  BY ReaderFacts, Zenon DEF LossInv, Inv, SessionTyped, StoreTyped
<1>2. DOMAIN s[r].state = 1 .. Len(s[r].original)
      /\ DOMAIN s[r].original = 1 .. Len(s[r].original)
  BY <1>1, EntriesTyped, Zenon
<1>3. CASE s'[r] = s[r]
  BY <1>1, <1>3, Zenon DEF SavedSafe, StaysSafe
<1>4. CASE s' = [s EXCEPT ![r] = NoSession]
  <2>1. s'[r] = NoSession
    BY <1>1, <1>4, ZenonT(30)
  <2>2. DOMAIN NoSession.state = {}
    BY SMTT(30) DEF NoSession
  <2>3. QED
    BY <2>1, <2>2, Zenon DEF SavedSafe
<1>5. ASSUME NEW b \in Boxes, s' = [s EXCEPT ![r] = Opened(b)] PROVE SavedSafe(r)'
  <2>1. s'[r] = Opened(b)
    BY <1>1, <1>5, Zenon
  <2>2. PICK es : es = box[b]
    BY ZenonT(30)
  <2>3. Opened(b).state = [i \in DOMAIN es |-> InitialState(b = Spool, es[i].status)]
    BY <2>2, Zenon DEF Opened, ReadMbox
  <2>4. \A system, status : InitialState(system, status) # "saved"
    BY Zenon DEF InitialState
  <2>5. \A i \in DOMAIN Opened(b).state : Opened(b).state[i] # "saved"
    <3> TAKE i \in DOMAIN Opened(b).state
    <3>1. PICK system : system = (b = Spool)
      BY Zenon
    <3>2. Opened(b).state[i] = InitialState(system, es[i].status)
      BY <2>3, <3>1, Zenon
    <3>3. QED
      BY <2>4, <3>2, ZenonT(30)
  <2>6. QED
    BY <2>1, <2>5, Zenon DEF SavedSafe
<1>6. CASE s' = [s EXCEPT ![r] = Stamped(s[r], opt[r])]
  <2>1. s'[r] = Stamped(s[r], opt[r])
    BY <1>1, <1>6, Zenon
  <2>2. QED
    BY <2>1, StampedSafe, Zenon
<1>7. ASSUME NEW y, NEW nums, s' = [s EXCEPT ![r] = y],
             Tended(s[r], y, Len(s[r].original), nums),
             \A i \in nums : s[r].entries[i].whole => s[r].entries[i].id \in SafeElsewhere'
      PROVE  SavedSafe(r)'
  <2>1. s'[r] = y
    BY <1>1, <1>7, Zenon
  <2>2. /\ y.at = s[r].at /\ y.entries = s[r].entries
        /\ \A i \in 1 .. Len(s[r].original) :
              y.state[i] = "saved" => s[r].state[i] = "saved" \/ i \in nums
    BY <1>7, Zenon DEF Tended
  <2>3. DOMAIN y.state = 1 .. Len(s[r].original)
    BY <1>7, Zenon DEF Tended, SessionOf
  <2>4. QED
    BY <1>1, <1>2, <1>7, <2>1, <2>2, <2>3, ZenonT(30) DEF SavedSafe, StaysSafe
<1>8. QED
  BY <1>3, <1>4, <1>5, <1>6, <1>7, Zenon

(* Save, copy and write.                                                   *)
LEMMA SavingSafe ==
  ASSUME Inv, LossInv, NEW r \in Readers, StaysSafe,
         Save(r) \/ SaveAppend(r) \/ SaveDone(r) \/ Write(r)
  PROVE  SavedSafe(r)' /\ PendingSafe(r)' /\ MovedSafe(r)'
<1>1. /\ r \in Clients /\ PendingInv(r) /\ SavedSafe(r) /\ PendingSafe(r) /\ SessionGood(s[r])
      /\ SessionInv(r)
  BY ReaderFacts, Zenon DEF LossInv
<1>2. /\ DOMAIN step = Clients /\ DOMAIN call = Clients /\ DOMAIN answer = Clients
      /\ DOMAIN pc = Clients /\ DOMAIN pending = Readers /\ DOMAIN s = Readers
  BY Zenon DEF Inv, StoreTyped, SessionTyped
<1>3. CASE Save(r)
  <2>1. PICK nums, b, kind :
          pending' = [pending EXCEPT ![r] = [kind |-> kind, nums |-> nums, left |-> nums, to |-> b]]
    BY <1>3, Zenon DEF Save
  <2>2. pending'[r].nums = pending'[r].left
    BY <1>2, <2>1, Zenon
  <2>3. s' = s /\ pc'[r] = "save"
    BY <1>1, <1>2, <1>3, Zenon DEF Save
  <2>4. "save" # "merge" /\ "save" # "commit"
    BY Zenon
  <2>5. PendingSafe(r)'
    BY <2>2, Zenon DEF PendingSafe
  <2>6. MovedSafe(r)'
    BY <2>3, <2>4, Zenon DEF MovedSafe, Moving
  <2>7. QED
    BY <2>3, <2>5, <2>6, SessionSafe, Zenon
<1>4. CASE SaveAppend(r)
  <2>1. PICK i, e : /\ e = s[r].entries[i] /\ Call(r, AppendMbox(pending[r].to, e))
                    /\ pending' = [pending EXCEPT ![r].left = @ \ {i}]
    BY <1>4, Zenon DEF SaveAppend
  <2>2. /\ pc' = pc /\ s' = s /\ pc[r] = "save" /\ step[r] = "out" /\ answer[r] # "error"
    BY <1>4, Zenon DEF SaveAppend
  <2>3. step'[r] = "called" /\ call'[r] = AppendMbox(pending[r].to, e)
    BY <1>1, <1>2, <2>1, ZenonT(30) DEF Call
  <2>4. call'[r].entry = e
    <3>1. PICK a, b : a = call'[r] /\ b = pending[r].to
      BY Zenon
    <3>2. a = AppendMbox(b, e)
      BY <2>3, <3>1, Zenon
    <3>3. a.entry = e
      BY <3>2, AppendFields, Zenon
    <3>4. QED
      BY <3>1, <3>3, Zenon
  <2>5. pending'[r].nums = pending[r].nums /\ pending'[r].left = pending[r].left \ {i}
    <3>1. PICK pd : pd = pending[r]
      BY Zenon
    <3>2. pending'[r] = [pd EXCEPT !.left = @ \ {i}]
      BY <1>2, <2>1, <3>1, ZenonT(30)
    <3>3. pd \in [kind : {"save", "copy"}, nums : SUBSET Visible(s[r]),
                  left : SUBSET Visible(s[r]), to : SaveTo]
      BY <1>1, <2>2, <3>1, ZenonT(30) DEF PendingInv
    <3>4. pending'[r].nums = pd.nums /\ pending'[r].left = pd.left \ {i}
      BY <3>2, <3>3, Zenon
    <3>5. QED
      BY <3>1, <3>4, Zenon
  <2>6. ASSUME NEW k \in pending'[r].nums \ pending'[r].left, s'[r].entries[k].whole
        PROVE  \/ s'[r].entries[k].id \in SafeElsewhere'
               \/ /\ step'[r] \in {"called", "locked", "torn"}
                  /\ call'[r].entry = s'[r].entries[k]
    <3>1. CASE k = i
      BY <2>1, <2>2, <2>3, <2>4, <3>1, ZenonT(30)
    <3>2. CASE k # i
      <4>1. k \in pending[r].nums \ pending[r].left
        BY <2>5, <2>6, <3>2, ZenonT(30)
      <4>2. s[r].entries[k].id \in SafeElsewhere
        <5>1. step[r] \notin {"called", "locked", "torn"}
          BY <2>2, Zenon
        <5>2. QED
          BY <1>1, <2>2, <2>6, <4>1, <5>1, ZenonT(30) DEF PendingSafe
      <4>3. QED
        BY <2>2, <4>2, Zenon DEF StaysSafe
    <3>3. QED
      BY <3>1, <3>2, Zenon
  <2>7. PendingSafe(r)'
    BY <2>6, Zenon DEF PendingSafe
  <2>8. "save" # "merge" /\ "save" # "commit"
    BY SMTT(30)
  <2>9. MovedSafe(r)'
    BY <2>2, <2>8, ZenonT(30) DEF MovedSafe, Moving
  <2>10. QED
    BY <2>2, <2>7, <2>9, SessionSafe, ZenonT(30)
<1>5. CASE SaveDone(r)
  <2>1. pc'[r] = "prompt"
    BY <1>1, <1>2, <1>5, Zenon DEF SaveDone
  <2>2. pc'[r] \notin {"save", "merge", "commit"}
    BY <2>1, Zenon
  <2>3. pc[r] = "save" /\ step[r] = "out"
    BY <1>5, Zenon DEF SaveDone
  <2>4. PICK y : /\ s' = [s EXCEPT ![r] = y]
                 /\ \/ y = s[r]
                    \/ /\ answer[r] # "error" /\ pending[r].left = {}
                       /\ Tended(s[r], y, Len(s[r].original), pending[r].nums)
    BY <1>5, SaveDoneTends, Zenon
  <2>5. CASE y = s[r]
    <3>1. s'[r] = s[r]
      BY <1>2, <2>4, <2>5, Zenon
    <3>2. QED
      BY <2>2, <3>1, SessionSafe, IdleSafe, ZenonT(30)
  <2>6. CASE answer[r] # "error" /\ pending[r].left = {}
             /\ Tended(s[r], y, Len(s[r].original), pending[r].nums)
    <3>1. step[r] \notin {"called", "locked", "torn"}
      BY <2>3, Zenon
    <3>2. \A i \in pending[r].nums : s[r].entries[i].whole => s[r].entries[i].id \in SafeElsewhere
      BY <1>1, <2>3, <2>6, <3>1, ZenonT(30) DEF PendingSafe
    <3>3. \A i \in pending[r].nums : s[r].entries[i].whole => s[r].entries[i].id \in SafeElsewhere'
      BY <3>2, Zenon DEF StaysSafe
    <3>4. SavedSafe(r)'
      BY <2>4, <2>6, <3>3, SessionSafe, Zenon
    <3>5. QED
      BY <2>2, <3>4, IdleSafe, ZenonT(30)
  <2>7. QED
    BY <2>4, <2>5, <2>6, Zenon
<1>6. CASE Write(r)
  <2>1. pc' = pc /\ pc[r] = "prompt"
    BY <1>6, Zenon DEF Write, AtPrompt
  <2>2. PICK nums \in Selections(s[r]) :
          /\ s' = [s EXCEPT ![r] = Saved(@, nums)]
          /\ plain' = plain \cup {s[r].entries[i].id : i \in
                                    {i \in nums : s[r].entries[i].whole}}
    BY <1>6, ZenonT(30) DEF Write
  <2>3. s' = [s EXCEPT ![r] = Saved(s[r], nums)]
    BY <1>2, <2>2, Zenon
  <2>4. nums \in SUBSET Visible(s[r]) /\ nums # {}
    <3>1. "prompt" \notin {"start", "done"}
      BY Zenon
    <3>2. CurrentOK(s[r])
      BY <1>1, <2>1, <3>1, Zenon DEF SessionInv, Open
    <3>3. QED
      BY <2>2, <3>2, SelectionsIn, ZenonT(30)
  <2>5. Tended(s[r], Saved(s[r], nums), Len(s[r].original), nums)
    <3>1. Len(s[r].original) \in Nat /\ s[r] \in SessionOf(Len(s[r].original))
      BY <1>1, EntriesTyped, Zenon DEF SessionGood
    <3>2. QED
      BY <2>4, <3>1, SavedTended, ZenonT(30)
  <2>6. \A i \in nums : s[r].entries[i].whole => s[r].entries[i].id \in plain'
    BY <2>2, Zenon
  <2>7. \A i \in nums : s[r].entries[i].whole => s[r].entries[i].id \in SafeElsewhere'
    BY <2>6, ElsewhereIs, ZenonT(30)
  <2>8. SavedSafe(r)'
    BY <2>3, <2>5, <2>7, SessionSafe, ZenonT(30)
  <2>9. pc'[r] \notin {"save", "merge", "commit"}
    BY <2>1, Zenon
  <2>10. QED
    BY <2>8, <2>9, IdleSafe, ZenonT(30)
<1>7. QED
  BY <1>3, <1>4, <1>5, <1>6, Zenon

(* Committing a session.                                                   *)
LEMMA FinishSafe ==
  ASSUME Inv, LossInv, NEW r \in Readers, StaysSafe, Quit(r) \/ File(r)
  PROVE  SavedSafe(r)' /\ PendingSafe(r)' /\ MovedSafe(r)'
<1>1. PICK then, to : Finish(r, then, to)
  BY Zenon DEF Quit, File
<1>2. /\ r \in Clients /\ DOMAIN step = Clients /\ DOMAIN answer = Clients /\ DOMAIN pc = Clients
      /\ DOMAIN s = Readers
  BY ReaderFacts, Zenon DEF Inv, StoreTyped, SessionTyped
<1>3. PICK x : x = Stamped(s[r], opt[r])
  BY Zenon
<1>4. s' = [s EXCEPT ![r] = x] /\ opt' = opt
  BY <1>1, <1>3, Zenon DEF Finish
<1>5. s'[r] = x
  BY <1>2, <1>4, Zenon
<1>6. SavedSafe(r)'
  BY <1>3, <1>4, SessionSafe, ZenonT(30)
<1>7. CASE Moved(x, opt[r]) = {} /\ pc' = [pc EXCEPT ![r] = "commit"]
  <2>1. pc'[r] = "commit" /\ "commit" # "save"
    BY <1>2, <1>7, Zenon
  <2>2. Moved(s'[r], opt'[r]) = {}
    BY <1>4, <1>5, <1>7, Zenon
  <2>3. MovedSafe(r)'
    BY <2>2, Zenon DEF MovedSafe
  <2>4. PendingSafe(r)'
    BY <2>1, Zenon DEF PendingSafe
  <2>5. QED
    BY <1>6, <2>3, <2>4, Zenon
<1>8. CASE pc' = [pc EXCEPT ![r] = "merge"] /\ \E o : Call(r, o)
  <2>1. pc'[r] = "merge" /\ "merge" # "save" /\ "merge" # "commit"
    BY <1>2, <1>8, Zenon
  <2>2. step'[r] = "called" /\ answer'[r] = "none"
    BY <1>2, <1>8, Zenon DEF Call
  <2>3. ~Moving(r)'
    <3>1. step'[r] # "written" /\ answer'[r] # "ok"
      BY <2>2, Zenon
    <3>2. QED
      BY <2>1, <3>1, ZenonT(30) DEF Moving
  <2>4. MovedSafe(r)'
    BY <2>3, Zenon DEF MovedSafe
  <2>5. PendingSafe(r)'
    BY <2>1, Zenon DEF PendingSafe
  <2>6. QED
    BY <1>6, <2>4, <2>5, SMTT(30)
<1>9. QED
  BY <1>1, <1>3, <1>7, <1>8, Zenon DEF Finish

(* The rest of a finish: the merge has returned, or the commit has.        *)
LEMMA ReturnedSafe ==
  ASSUME Inv, LossInv, NEW r \in Readers, StaysSafe,
         MergeReturns(r) \/ CommitFails(r) \/ CommitReturns(r)
  PROVE  SavedSafe(r)' /\ PendingSafe(r)' /\ MovedSafe(r)'
<1>1. r \in Clients /\ DOMAIN pc = Clients /\ PendingInv(r) /\ MovedSafe(r)
  BY ReaderFacts, Zenon DEF Inv, SessionTyped, LossInv
<1>2. ASSUME NEW p \in {"prompt", "done"}, pc' = [pc EXCEPT ![r] = p]
      PROVE  PendingSafe(r)' /\ MovedSafe(r)'
  <2>1. pc'[r] \notin {"save", "merge", "commit"}
    BY <1>1, <1>2, Zenon
  <2>2. QED
    BY <2>1, IdleSafe, Zenon
<1>3. CASE FinishFails(r)
  <2>1. \/ pc' = [pc EXCEPT ![r] = "done"] /\ s' = [s EXCEPT ![r] = NoSession]
        \/ pc' = [pc EXCEPT ![r] = "prompt"] /\ s' = s
    BY <1>3, Zenon DEF FinishFails, End
  <2>2. PendingSafe(r)' /\ MovedSafe(r)'
    BY <1>2, <2>1, Zenon
  <2>3. SavedSafe(r)'
    BY <2>1, SessionSafe, Zenon
  <2>4. QED
    BY <2>2, <2>3, Zenon
<1>4. CASE MergeReturns(r) /\ ~FinishFails(r)
  <2>1. /\ pc[r] = "merge" /\ answer[r] = "ok" /\ pc' = [pc EXCEPT ![r] = "commit"]
        /\ s' = s /\ opt' = opt
    BY <1>4, Zenon DEF MergeReturns
  <2>2. Moving(r)
    BY <2>1, Zenon DEF Moving
  <2>3. MovedSafe(r)'
    BY <1>1, <2>1, <2>2, ZenonT(30) DEF MovedSafe, StaysSafe
  <2>4. pc'[r] # "save"
    BY <1>1, <2>1, Zenon
  <2>5. PendingSafe(r)'
    BY <2>4, Zenon DEF PendingSafe
  <2>6. QED
    BY <2>1, <2>3, <2>5, SessionSafe, ZenonT(30)
<1>5. CASE CommitReturns(r)
  <2>1. pc[r] = "commit"
    BY <1>5, Zenon DEF CommitReturns
  <2>2. pending[r].to \in Boxes
    <3>1. pc[r] \in {"merge", "commit"}
      BY <2>1, Zenon
    <3>2. QED
      BY <1>1, <3>1, Zenon DEF PendingInv
  <2>3. \/ pc' = [pc EXCEPT ![r] = "done"] /\ s' = [s EXCEPT ![r] = NoSession]
        \/ /\ pc' = [pc EXCEPT ![r] = "prompt"]
           /\ s' = [s EXCEPT ![r] = Opened(pending[r].to)] \/ s' = s
    BY <1>5, Zenon DEF CommitReturns, End
  <2>4. PendingSafe(r)' /\ MovedSafe(r)'
    BY <1>2, <2>3, ZenonT(30)
  <2>5. SavedSafe(r)'
    BY <2>2, <2>3, SessionSafe, ZenonT(30)
  <2>6. QED
    BY <2>4, <2>5, SMTT(30)
<1>6. QED
  BY <1>3, <1>4, <1>5, Zenon DEF CommitFails

(* Starting, the commands, leaving and dying.                              *)
LEMMA CommandSafe ==
  ASSUME Inv, LossInv, NEW r \in Readers, StaysSafe,
         \/ Start(r) \/ ShowMessages(r) \/ NextMessage(r) \/ Look(r) \/ Mark(r)
         \/ DeletePrint(r) \/ Undelete(r) \/ ExitSession(r) \/ Crash(r)
  PROVE  SavedSafe(r)' /\ PendingSafe(r)' /\ MovedSafe(r)'
<1>1. r \in Clients /\ DOMAIN pc = Clients /\ Spool \in Boxes
  BY ReaderFacts, MailAssumption, Zenon DEF Inv, SessionTyped
<1>2. ASSUME NEW p \in {"prompt", "done"}, pc' = [pc EXCEPT ![r] = p]
      PROVE  PendingSafe(r)' /\ MovedSafe(r)'
  <2>1. pc'[r] \notin {"save", "merge", "commit"}
    BY <1>1, <1>2, Zenon
  <2>2. QED
    BY <2>1, IdleSafe, Zenon
<1>3. CASE Start(r) \/ ExitSession(r) \/ Crash(r)
  <2>1. \/ pc' = [pc EXCEPT ![r] = "done"] /\ s' = [s EXCEPT ![r] = NoSession]
        \/ pc' = [pc EXCEPT ![r] = "prompt"] /\ s' = [s EXCEPT ![r] = Opened(Spool)]
    BY <1>3, Zenon DEF Start, ExitSession, Crash, End
  <2>2. PendingSafe(r)' /\ MovedSafe(r)'
    BY <1>2, <2>1, Zenon
  <2>3. SavedSafe(r)'
    BY <1>1, <2>1, SessionSafe, Zenon
  <2>4. QED
    BY <2>2, <2>3, Zenon
<1>4. CASE \/ ShowMessages(r) \/ NextMessage(r) \/ Look(r) \/ Mark(r)
           \/ DeletePrint(r) \/ Undelete(r)
  <2>1. PICK y : AtPrompt(r) /\ Tended(s[r], y, Len(s[r].original), {}) /\ Command(r, y)
    BY <1>4, CommandsTend, Zenon
  <2>2. pc' = pc /\ s' = [s EXCEPT ![r] = y] /\ pc[r] = "prompt"
    BY <2>1, Zenon DEF Command, AtPrompt
  <2>3. pc'[r] \notin {"save", "merge", "commit"}
    BY <2>2, Zenon
  <2>4. PICK none : none = {}
    BY Zenon
  <2>5. /\ Tended(s[r], y, Len(s[r].original), none)
        /\ \A i \in none : s[r].entries[i].whole => s[r].entries[i].id \in SafeElsewhere'
    BY <2>1, <2>4, Zenon
  <2>6. SavedSafe(r)'
    BY <2>2, <2>5, SessionSafe, Zenon
  <2>7. QED
    BY <2>3, <2>6, IdleSafe, Zenon
<1>5. QED
  BY <1>3, <1>4, ZenonT(30)

(* The steps of the callers.                                               *)
LEMMA CallerSafe ==
  ASSUME Inv, LossInv,
         NEW c \in Clients, \/ c \in Readers /\ ReaderStep(c)
                            \/ c \in Senders /\ Deliver(c)
                            \/ Crash(c)
  PROVE  LossInv'
<1>1. StaysSafe
  <2>1. NothingLost
    BY Zenon DEF LossInv
  <2>2. QED
    BY <2>1, CallersQuiet, QuietSafe, Zenon
<1>2. Turn(c)
  BY CallerTurn, Zenon
<1>3. ASSUME c \in Readers PROVE SavedSafe(c)' /\ PendingSafe(c)' /\ MovedSafe(c)'
  <2>1. CASE ReaderStep(c)
    BY <1>1, <1>3, <2>1, CommandSafe, SavingSafe, FinishSafe, ReturnedSafe, ZenonT(30) DEF ReaderStep
  <2>2. CASE Crash(c)
    BY <1>1, <1>3, <2>2, CommandSafe, ZenonT(30)
  <2>3. c \notin Senders
    BY <1>3, MailAssumption, Zenon
  <2>4. QED
    BY <2>1, <2>2, <2>3, ZenonT(30)
<1>4. QED
  BY <1>1, <1>2, <1>3, SafeTurn, ZenonT(30)

(* No message that a mailbox has held whole is ever lost: it is whole in    *)
(* some mailbox, in a file it was written to, or deleted and committed,     *)
(* whatever deliveries, commits, failed writes and crashes interleave.      *)
THEOREM NothingLostHolds ==
  Spec => []NothingLost
<1>1. Init => LossInv
  <2> SUFFICES ASSUME Init PROVE LossInv
    BY Zenon
  <2>1. PICK x \in Scenes :
          /\ box = x.boxes /\ s = [r \in Readers |-> NoSession] /\ accepted = Whole(x.boxes)
          /\ pc = [c \in Clients |-> IF c \in Senders THEN "send"
                                     ELSE IF c \in x.readers THEN "start" ELSE "done"]
    BY Zenon DEF Init, StoreInit
  <2>2. NothingLost
    BY <2>1, Zenon DEF NothingLost
  <2>3. ASSUME NEW r \in Readers PROVE SavedSafe(r) /\ PendingSafe(r) /\ MovedSafe(r)
    <3>1. r \in Clients
      BY MailAssumption, Zenon
    <3>2. pc[r] # "save" /\ pc[r] # "merge" /\ pc[r] # "commit"
      BY <2>1, <3>1, Zenon
    <3>3. DOMAIN s[r].state = {}
      BY <2>1, SMTT(30) DEF NoSession
    <3>4. QED
      BY <3>2, <3>3, ZenonT(30) DEF SavedSafe, PendingSafe, MovedSafe, Moving
  <2>4. QED
    BY <2>2, <2>3, Zenon DEF LossInv
<1>2. Inv /\ LossInv /\ [Next]_vars => LossInv'
  <2> SUFFICES ASSUME Inv, LossInv, [Next]_vars PROVE LossInv'
    BY Zenon
  <2>1. CASE Next
    <3>1. Readers \subseteq Clients /\ Senders \subseteq Clients
      BY MailAssumption, Zenon
    <3>2. QED
      BY <2>1, <3>1, CallerSafe, StoreWorksSafe, ZenonT(30) DEF Next
  <2>2. CASE UNCHANGED vars
    <3>1. /\ box' = box /\ purged' = purged /\ accepted' = accepted /\ plain' = plain
          /\ pc' = pc /\ s' = s /\ opt' = opt /\ pending' = pending
          /\ step' = step /\ call' = call /\ answer' = answer
      BY <2>2, Zenon DEF vars, store, session, history
    <3>2. QED
      <4>1. NothingLost' = NothingLost
        BY <3>1, Zenon DEF NothingLost, Whole
      <4>2. SafeElsewhere' = SafeElsewhere /\ SafeInMbox' = SafeInMbox
        BY <3>1, Zenon DEF SafeElsewhere, SafeInMbox, PurgedIds
      <4>3. ASSUME NEW r \in Readers PROVE SavedSafe(r)' /\ PendingSafe(r)' /\ MovedSafe(r)'
        <5>1. SavedSafe(r) /\ PendingSafe(r) /\ MovedSafe(r)
          BY <4>3, Zenon DEF LossInv
        <5>2. SavedSafe(r)'
          BY <3>1, <4>2, <5>1, ZenonT(30) DEF SavedSafe
        <5>3. PendingSafe(r)'
          BY <3>1, <4>2, <5>1, Zenon DEF PendingSafe
        <5>4. MovedSafe(r)'
          BY <3>1, <4>2, <5>1, ZenonT(30) DEF MovedSafe, Moving
        <5>5. QED
          BY <5>2, <5>3, <5>4, Zenon
      <4>4. QED
        BY <4>1, <4>3, Zenon DEF LossInv
  <2>3. QED
    BY <2>1, <2>2, Zenon
<1>3. LossInv => NothingLost
  BY DEF LossInv
<1>4. QED
  BY <1>1, <1>2, <1>3, InvHolds, PTL DEF Spec

=============================================================================
