------------------------------ MODULE EdBuffer ------------------------------
(***************************************************************************)
(* The ed commands as functions on the engine's state                      *)
(* (cmds/internal/editor: engine.go, operations.go, address.go,            *)
(* buffer.go).  An engine `e` is a record; a command takes an engine and   *)
(* returns the one it leaves, with err and quit set the way execute        *)
(* returns them.                                                           *)
(*                                                                         *)
(* The text of a line is a sequence of atoms, a regular expression is one  *)
(* atom and matches the lines that contain it.  Every line also carries    *)
(* the identities it is made of (history, not code): a mark and a global   *)
(* command mean a line, and the code keeps them as line numbers.           *)
(***************************************************************************)
EXTENDS Integers, Sequences, SequencesExt, FiniteSets

CONSTANT Marks         \* the letters of k

Unset == 0             \* a mark with no entry in the map

NoText == <<"none">>   \* history: there is no text to go back to

LastLine(e) == Len(e.lines)

Text(ls) == [i \in DOMAIN ls |-> ls[i].text]

IdsAt(e, first, last) == UNION {e.lines[n].ids : n \in first..last}

Fail(e, how) == [e EXCEPT !.err = how]

Ascending(S) == [i \in 1..Cardinality(S) |-> CHOOSE n \in S : Cardinality({m \in S : m <= n}) = i]

(* The lines of `texts`, each with an identity nothing in the engine has. *)
NewLines(e, texts) ==
    LET used == UNION {e.lines[n].ids : n \in DOMAIN e.lines}
                \cup UNION {e.undo.lines[n].ids : n \in DOMAIN e.undo.lines}
                \cup {e.meant[k] : k \in Marks} \cup {e.undo.meant[k] : k \in Marks}
                \cup e.left
        fresh == Ascending((1..Cardinality(used) + Len(texts)) \ used)
    IN  [i \in DOMAIN texts |-> [ids |-> {fresh[i]}, text |-> texts[i]]]

Snapshot(e) ==
    [lines |-> e.lines, cur |-> e.cur, dirty |-> e.dirty, marks |-> e.marks,
     meant |-> e.meant, valid |-> TRUE, written |-> FALSE]

(* Mutant: every command of a global command takes a snapshot. *)
SaveUndoEach(e) == [e EXCEPT !.undo = Snapshot(e)]

(* A global command takes one snapshot, before its first line. *)
SaveUndo(e) == IF e.inGlobal THEN e ELSE [e EXCEPT !.undo = Snapshot(e)]

(* Mutant: the line appended to is shifted too. *)
AdjustInsertAt(e, after, count) ==
    [i \in DOMAIN e.targets |-> IF e.targets[i] >= after THEN e.targets[i] + count
                                                         ELSE e.targets[i]]
AdjustGlobalInsert(e, after, count) ==
    [i \in DOMAIN e.targets |-> IF e.targets[i] > after THEN e.targets[i] + count
                                                        ELSE e.targets[i]]

AdjustGlobalDelete(e, first, last) ==
    [i \in DOMAIN e.targets |->
        CASE e.targets[i] \in first..last -> 0
          [] e.targets[i] > last -> e.targets[i] - (last - first + 1)
          [] OTHER -> e.targets[i]]

AppendLinesNoUndo(e, after, ls) ==
    [e EXCEPT !.lines = SubSeq(@, 1, after) \o ls \o SubSeq(@, after + 1, Len(@)),
              !.cur = after + Len(ls),
              !.dirty = @ \/ ls # <<>>,
              !.marks = [k \in Marks |-> IF @[k] > after THEN @[k] + Len(ls) ELSE @[k]],
              !.targets = AdjustGlobalInsert(e, after, Len(ls))]

AppendLines(e, after, ls) ==
    IF ls = <<>> THEN AppendLinesNoUndo(e, after, ls)
    ELSE [AppendLinesNoUndo(SaveUndo(e), after, ls) EXCEPT !.changed = TRUE]

DeleteLinesNoUndo(e, first, last) ==
    LET rest == SubSeq(e.lines, 1, first - 1) \o SubSeq(e.lines, last + 1, LastLine(e))
        delta == last - first + 1
    IN  [e EXCEPT !.lines = rest,
                  !.cur = IF first <= Len(rest) THEN first ELSE Len(rest),
                  !.dirty = TRUE,
                  !.targets = AdjustGlobalDelete(e, first, last),
                  !.left = @ \ IdsAt(e, first, last),
                  !.marks = [k \in Marks |-> CASE @[k] \in first..last -> Unset
                                               [] @[k] > last -> @[k] - delta
                                               [] OTHER -> @[k]]]

DeleteLines(e, first, last) ==
    [DeleteLinesNoUndo(SaveUndo(e), first, last) EXCEPT !.changed = TRUE]

ChangeLines(e, first, last, ls) ==
    IF e.lines = <<>> THEN [AppendLinesNoUndo(SaveUndo(e), 0, ls) EXCEPT
                              !.changed = ls # <<>>,
                              !.before = IF ls = <<>> /\ ~e.inGlobal THEN <<>> ELSE @]
    ELSE LET cut == [DeleteLinesNoUndo(SaveUndo(e), first, last) EXCEPT !.changed = TRUE]
         IN  IF ls = <<>> THEN cut ELSE AppendLinesNoUndo(cut, first - 1, ls)

Join(e, first, last) ==
    IF first = last THEN e
    ELSE LET joined == [ids |-> IdsAt(e, first, last),
                        text |-> FlattenSeq([i \in 1..(last - first + 1) |->
                                               e.lines[first + i - 1].text])]
             r == AppendLinesNoUndo(DeleteLinesNoUndo(SaveUndo(e), first, last),
                                    first - 1, <<joined>>)
         IN  [r EXCEPT !.changed = TRUE,
                       !.marks = [k \in Marks |-> IF e.marks[k] \in first..last
                                                  THEN first ELSE @[k]]]

Copy(e, first, last, dest) ==
    AppendLines(e, dest, NewLines(e, Text(SubSeq(e.lines, first, last))))

MoveLines(e, first, last, to) ==
    LET r == AppendLinesNoUndo(DeleteLinesNoUndo(SaveUndo(e), first, last), to,
                               SubSeq(e.lines, first, last))
    IN  [r EXCEPT !.changed = TRUE,
                  !.marks = [k \in Marks |-> IF e.marks[k] \in first..last
                                             THEN to + 1 + e.marks[k] - first ELSE @[k]]]

(* Mutant: marks of the moved lines keep the destination the user named. *)
MoveUnshifted(e, first, last, dest) ==
    CASE dest = last \/ dest = first - 1 -> [e EXCEPT !.cur = last]
      [] dest \in first..(last - 1) -> Fail(e, "error")
      [] OTHER -> LET to == IF dest > last THEN dest - (last - first + 1) ELSE dest
                      r == MoveLines(e, first, last, to)
                  IN  [r EXCEPT !.marks = [k \in Marks |-> IF e.marks[k] \in first..last
                                             THEN dest + 1 + e.marks[k] - first ELSE @[k]]]
Move(e, first, last, dest) ==
    CASE dest = last \/ dest = first - 1 -> [e EXCEPT !.cur = last]
      [] dest \in first..(last - 1) -> Fail(e, "error")
      [] OTHER -> MoveLines(e, first, last,
                            IF dest > last THEN dest - (last - first + 1) ELSE dest)

(* One line of s: `re` gives way to the pieces of `repl`, a mark goes to   *)
(* the last of them, and so does the identity.                             *)
SubstituteLine(e, n, re, repl) ==
    LET line == e.lines[n]
        at == SelectInSeq(line.text, LAMBDA a : a = re)
        before == SubSeq(line.text, 1, at - 1)
        after == SubSeq(line.text, at + 1, Len(line.text))
        texts == [i \in DOMAIN repl |-> (IF i = 1 THEN before ELSE <<>>) \o repl[i]
                                        \o (IF i = Len(repl) THEN after ELSE <<>>)]
        pieces == NewLines(e, Front(texts)) \o <<[ids |-> line.ids, text |-> Last(texts)]>>
        delta == Len(repl) - 1
    IN  [e EXCEPT !.lines = SubSeq(@, 1, n - 1) \o pieces \o SubSeq(@, n + 1, Len(@)),
                  !.targets = [i \in DOMAIN @ |-> CASE @[i] = n -> 0
                                                    [] @[i] > n -> @[i] + delta
                                                    [] OTHER -> @[i]],
                  !.left = @ \ line.ids,
                  !.marks = [k \in Marks |-> IF @[k] >= n THEN @[k] + delta ELSE @[k]],
                  !.cur = n + delta, !.dirty = TRUE, !.changed = TRUE]

(* Inside a global command a line without a match is noted, not refused.   *)
Substitute(e, first, last, re, repl) ==
    LET Matches(n) == Contains(e.lines[n].text, re)
        hits == {n \in first..last : Matches(n)}
        Step(r, n) == SubstituteLine(r, n + LastLine(r) - LastLine(e), re, repl)
        tried == [e EXCEPT !.sub = [i \in DOMAIN @ |->
                                      IF i # e.subAt THEN @[i]
                                      ELSE IF hits # {} THEN "changed"
                                      ELSE IF @[i] = "changed" THEN @[i] ELSE "tried"]]
    IN  IF hits # {} THEN FoldLeft(Step, SaveUndo(tried), Ascending(hits))
        ELSE IF e.inGlobal THEN tried ELSE Fail(e, "error")
-----------------------------------------------------------------------------
(* An address is a line number, dot, $, a mark, or the next line with some *)
(* text, and an offset.  A second address after ";" is taken from the      *)
(* first, which dot keeps.                                                 *)

Search(e, re) ==
    LET n == LastLine(e)
        Line(step) == ((e.cur + step - 1) % n) + 1
        steps == {s \in 1..n : Contains(e.lines[Line(s)].text, re)}
    IN  IF steps = {} THEN -1 ELSE Line(CHOOSE s \in steps : \A t \in steps : s <= t)

ParseAddress(e, a) ==
    LET base == CASE a.base = "number" -> 0
                  [] a.base = "dot" -> e.cur
                  [] a.base = "last" -> LastLine(e)
                  [] a.base = "search" -> Search(e, a.of)
                  [] a.base = "mark" -> IF e.marks[a.of] = Unset THEN -1 ELSE e.marks[a.of]
        value == base + a.offset
    IN  IF base < 0 \/ value \notin 0..LastLine(e) THEN -1 ELSE value

ParseAddresses(e, c) ==
    LET one == ParseAddress(e, c.addr[1])
        moved == IF c.semicolon THEN [e EXCEPT !.cur = one] ELSE e
        two == ParseAddress(moved, c.addr[2])
    IN  CASE c.addr = <<>> -> [e |-> e, addrs |-> <<>>]
          [] Len(c.addr) = 1 -> [e |-> IF one < 0 THEN Fail(e, "error") ELSE e,
                                 addrs |-> <<one>>]
          [] OTHER -> IF one < 0 THEN [e |-> Fail(e, "error"), addrs |-> <<>>]
                      ELSE [e |-> IF two < 0 THEN Fail(moved, "error") ELSE moved,
                            addrs |-> <<one, two>>]

(* The range a command works on; first = -1 is "invalid address". *)
OneAddress(e, addrs, default, zero) ==
    LET a == IF addrs = <<>> THEN default ELSE Last(addrs)
    IN  IF a \in (IF zero THEN 0 ELSE 1)..LastLine(e) THEN a ELSE -1

TwoAddresses(e, addrs, first, last, zero) ==
    LET l == IF addrs = <<>> THEN last ELSE Last(addrs)
        f == IF addrs = <<>> THEN first ELSE addrs[1]
    IN  IF f <= l /\ f \in (IF zero THEN 0 ELSE 1)..l /\ l <= LastLine(e)
        THEN <<f, l>> ELSE <<-1, -1>>
-----------------------------------------------------------------------------
(* The commands.  A print suffix prints dot, which an empty buffer has not. *)

PrintDot(e, c) ==
    IF c.print /\ e.err = "" /\ e.cur = 0 THEN Fail(e, "error") ELSE e

On(e, range, c, new) == IF range[1] < 0 THEN Fail(e, "error") ELSE PrintDot(new, c)

DoAppend(e, addrs, c) ==
    LET a == OneAddress(e, addrs, e.cur, TRUE)
    IN  On(e, <<a>>, c, AppendLines(e, a, NewLines(e, c.text)))

DoInsert(e, addrs, c) ==
    LET given == OneAddress(e, addrs, e.cur, TRUE)
        a == IF given = 0 THEN 1 ELSE given
        r == AppendLines(e, a - 1, NewLines(e, c.text))
    IN  On(e, <<given>>, c,
           IF c.text # <<>> THEN r
           ELSE [r EXCEPT !.cur = IF a > LastLine(e) THEN LastLine(e) ELSE a])

DoChange(e, addrs, c) ==
    LET range == TwoAddresses(e, addrs, e.cur, e.cur, TRUE)
        At(n) == IF n = 0 THEN 1 ELSE n
    IN  On(e, range, c, ChangeLines(e, At(range[1]), At(range[2]), NewLines(e, c.text)))

DoDelete(e, addrs, c) ==
    LET range == TwoAddresses(e, addrs, e.cur, e.cur, FALSE)
        r == DeleteLines(e, range[1], range[2])
    IN  On(e, range, [c EXCEPT !.print = c.print /\ r.lines # <<>>], r)

DoJoin(e, addrs, c) ==
    LET range == TwoAddresses(e, addrs, e.cur, e.cur + 1, FALSE)
    IN  On(e, range, c, Join(e, range[1], range[2]))

DoMark(e, addrs, c) ==
    LET a == OneAddress(e, addrs, e.cur, FALSE)
    IN  On(e, <<a>>, c, [e EXCEPT !.marks[c.mark] = a,
                                  !.meant[c.mark] = CHOOSE i \in e.lines[a].ids : TRUE])

DoTransfer(e, addrs, c) ==
    LET range == TwoAddresses(e, addrs, e.cur, e.cur, FALSE)
        dest == IF c.dest = <<>> THEN e.cur ELSE ParseAddress(e, c.dest[1])
    IN  IF dest < 0 THEN Fail(e, "error")
        ELSE On(e, range, c, IF c.op = "m" THEN Move(e, range[1], range[2], dest)
                                           ELSE Copy(e, range[1], range[2], dest))

DoSubstitute(e, addrs, c) ==
    LET range == TwoAddresses(e, addrs, e.cur, e.cur, FALSE)
    IN  On(e, range, c, Substitute(e, range[1], range[2], c.re, c.repl))

(* p and its kin; a line with no command is p on the line after dot. *)
DoPrint(e, addrs, c) ==
    LET wanted == IF c.op = "p" THEN addrs
                  ELSE <<IF addrs = <<>> THEN e.cur + 1 ELSE Last(addrs)>>
        range == TwoAddresses(e, wanted, e.cur, e.cur, FALSE)
    IN  On(e, range, c, [e EXCEPT !.cur = range[2]])

(* w replaces the file, W appends to it.  A file that cannot be opened is  *)
(* left as it was, one that cannot be written has been truncated.  Only a  *)
(* w of every line makes the buffer clean.                                 *)
DoWrite(e, addrs, c) ==
    LET range == IF addrs = <<>> THEN <<1, LastLine(e)>>
                 ELSE TwoAddresses(e, addrs, 1, LastLine(e), FALSE)
        data == Text(SubSeq(e.lines, range[1], range[2]))
        whole == c.op # "W" /\ range = <<1, LastLine(e)>>
    IN  IF range[1] < 0 \/ c.io = "open" THEN Fail(e, "error")
        ELSE IF c.io = "write"
        THEN Fail([e EXCEPT !.disk = IF c.op = "W" THEN @ ELSE <<>>], "error")
        ELSE [e EXCEPT !.disk = IF c.op = "W" THEN @ \o data ELSE data,
                       !.dirty = @ /\ ~whole,
                       !.warned = FALSE,
                       !.kept = IF whole THEN data ELSE @,
                       !.rewound = @ /\ ~whole,
                       !.undo.written = @ \/ (whole /\ e.inGlobal),
                       !.quit = c.op = "wq"]

DoRead(e, addrs, c) ==
    LET a == OneAddress(e, addrs, LastLine(e), TRUE)
    IN  IF a < 0 \/ c.io # "ok" THEN Fail(e, "error")
        ELSE AppendLines(e, a, NewLines(e, e.disk))

(* History: was text given up that was neither loaded nor written whole,   *)
(* nor warned about?                                                       *)
Discard(e) ==
    [e EXCEPT !.lost = @ \/ (Text(e.lines) \notin {e.kept, e.told} /\ ~e.rewound)]

Warn(e) == [e EXCEPT !.warned = TRUE, !.told = Text(e.lines), !.err = "warned"]

(* e forgets the buffer even when the file cannot be read. *)
DoEdit(e, addrs, c) ==
    LET old == IF c.op = "E" THEN e ELSE Discard(e)
        lines == IF c.io = "ok" THEN NewLines(e, e.disk) ELSE <<>>
    IN  IF addrs # <<>> THEN Fail(e, "error")
        ELSE IF c.op = "e" /\ e.dirty /\ ~e.warned THEN Warn(e)
        ELSE [old EXCEPT !.lines = lines, !.cur = Len(lines), !.dirty = FALSE,
                         !.marks = [k \in Marks |-> Unset],
                         !.meant = [k \in Marks |-> Unset],
                         !.undo.valid = FALSE, !.changed = TRUE,
                         !.targets = [i \in DOMAIN @ |-> 0], !.left = {},
                         !.kept = Text(lines), !.start = NoText, !.rewound = FALSE,
                         !.warned = FALSE, !.err = IF c.io = "ok" THEN "" ELSE "error"]

DoQuit(e, addrs, c) ==
    IF addrs # <<>> THEN Fail(e, "error")
    ELSE IF c.op = "q" /\ e.dirty /\ ~e.warned THEN Warn(e)
    ELSE [(IF c.op = "Q" THEN e ELSE Discard(e)) EXCEPT !.quit = TRUE]

(* u swaps the buffer and the snapshot. *)
Swap(e, dirty) ==
    [e EXCEPT !.lines = e.undo.lines, !.cur = e.undo.cur, !.dirty = dirty,
              !.marks = e.undo.marks, !.meant = e.undo.meant,
              !.undo = Snapshot(e), !.changed = TRUE,
              !.start = Text(e.lines), !.rewound = @ \/ (e.undo.written /\ ~dirty),
              !.targets = [i \in DOMAIN @ |-> 0], !.left = {}]

(* Mutant: u restores Dirty as it was in the snapshot. *)
UndoClean(e, addrs, c) ==
    IF addrs # <<>> \/ ~e.undo.valid THEN Fail(e, "error") ELSE Swap(e, e.undo.dirty)
DoUndo(e, addrs, c) ==
    IF addrs # <<>> \/ ~e.undo.valid THEN Fail(e, "error")
    ELSE Swap(e, e.undo.dirty \/ Text(e.undo.lines) # Text(e.lines))

Perform(e, addrs, c) ==
    CASE c.op = "a" -> DoAppend(e, addrs, c)
      [] c.op = "i" -> DoInsert(e, addrs, c)
      [] c.op = "c" -> DoChange(e, addrs, c)
      [] c.op = "d" -> DoDelete(e, addrs, c)
      [] c.op = "j" -> DoJoin(e, addrs, c)
      [] c.op = "k" -> DoMark(e, addrs, c)
      [] c.op \in {"m", "t"} -> DoTransfer(e, addrs, c)
      [] c.op = "s" -> DoSubstitute(e, addrs, c)
      [] c.op \in {"p", ""} -> DoPrint(e, addrs, c)
      [] c.op \in {"w", "W", "wq"} -> DoWrite(e, addrs, c)
      [] c.op = "r" -> DoRead(e, addrs, c)
      [] c.op \in {"e", "E"} -> DoEdit(e, addrs, c)
      [] c.op \in {"q", "Q"} -> DoQuit(e, addrs, c)
      [] c.op = "u" -> DoUndo(e, addrs, c)
      [] c.op = "unknown" -> Fail(e, "error")

(* execute's deferred function, for a command that began in e0: an error   *)
(* that changed nothing gives dot back, and the warning lasts until an     *)
(* error or a change.                                                      *)
Deferred(e0, r) ==
    [r EXCEPT !.cur = IF r.err # "" /\ ~r.changed THEN e0.cur ELSE @,
              !.warned = @ /\ ~r.changed /\ r.err \in {"", "warned"}]

Execute(e, c) ==
    LET p == ParseAddresses([e EXCEPT !.changed = FALSE], c)
    IN  Deferred(e, IF p.e.err # "" THEN p.e ELSE Perform(p.e, p.addrs, c))
=============================================================================
