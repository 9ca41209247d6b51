----------------------------- MODULE XargsPlan -----------------------------
(***************************************************************************)
(* cmds/xargs up to the first invocation: the options, the items read from *)
(* standard input, and the batches of items plan() makes of them.          *)
(*                                                                         *)
(* The input is a sequence of physical lines, each its words (quoting and  *)
(* escapes already resolved) and whether it ends in an unescaped blank.  A *)
(* word is a member of Words and has a length.  An option is a flag and,   *)
(* for the flags that take a number, what atoiOr made of its argument.     *)
(***************************************************************************)
EXTENDS Integers, Sequences, FiniteSetsExt

CONSTANTS
  Words, Length,   \* the words and their lengths in bytes
  EofWord,         \* the word -E names
  BaseSize,        \* argvSize of the command and its initial arguments
  Supported,       \* commandSizeLimit: the largest argument vector
  LineMax,         \* the implicit -s limit when -n is used
  ReplArgs,        \* initial arguments that contain the replacement string
  ReplArgMax,      \* 5: the most such arguments -I accepts
  ReplSizeMax      \* 255: the longest argument a replacement may build

ASSUME PlanAssumption ==
  /\ Length \in [Words -> Nat]
  /\ EofWord \in Words
  /\ {BaseSize, ReplArgs, ReplArgMax, ReplSizeMax} \subseteq Nat
  /\ {Supported, LineMax} \subseteq Nat \ {0}

Malformed == -2

InputLine == [words : Seq(Words), blank : BOOLEAN]
XOption == [flag : STRING, n : Int]

\* The pieces one after the other.
Joined(pieces) ==
  LET upTo[i \in 1 .. Len(pieces)] ==
        IF i = 1 THEN pieces[i] ELSE upTo[i - 1] \o pieces[i]
  IN  IF pieces = <<>> THEN <<>> ELSE upTo[Len(pieces)]

----------------------------------------------------------------------------
\* Options.  The last of -n, -L and -I wins, but what -I does to exactSize
\* stays.

Flags == {"-0", "-r", "-p", "-x", "-E", "-P", "-s", "-n", "-L", "-I"}

Defaults ==
  [null |-> FALSE, noRunEmpty |-> FALSE, interactive |-> FALSE,
   maxArgs |-> -1, maxLines |-> 0, maxChars |-> 0, maxProcs |-> 1,
   exactSize |-> FALSE, strictSize |-> FALSE, replaceSet |-> FALSE,
   eof |-> FALSE, unknown |-> FALSE]

\* Where the last option with one of the flags is, 0 if there is none.
LastOf(opts, flags) == Max({0} \cup {k \in DOMAIN opts : opts[k].flag \in flags})

Parse(opts, posix) ==
  LET has(flag) == LastOf(opts, {flag}) > 0
      arg(flag, default) == IF has(flag) THEN opts[LastOf(opts, {flag})].n ELSE default
      grouping == LastOf(opts, {"-n", "-L", "-I"})
      by(flag) == grouping > 0 /\ opts[grouping].flag = flag
  IN  [null |-> has("-0"), noRunEmpty |-> has("-r"), interactive |-> has("-p"),
       eof |-> has("-E"), exactSize |-> has("-x") \/ has("-I"),
       maxProcs |-> arg("-P", Defaults.maxProcs),
       maxChars |-> arg("-s", Defaults.maxChars), strictSize |-> posix /\ has("-s"),
       maxArgs |-> IF by("-n") THEN arg("-n", -1) ELSE Defaults.maxArgs,
       maxLines |-> IF by("-L") THEN arg("-L", 0) ELSE IF by("-I") THEN 1 ELSE 0,
       replaceSet |-> by("-I"),
       unknown |-> \E opt \in Range(opts) : opt.flag \notin Flags]

Usable(opts, o) ==
  /\ ~o.unknown
  /\ \A opt \in Range(opts) : opt.flag = "-L" => opt.n >= 1
  /\ o.maxArgs = -1 \/ o.maxArgs >= 1
  /\ o.maxChars >= 0
  /\ o.maxProcs >= 0

\* The size limit the batches are built to.
Limited(o) ==
  LET default == IF o.maxArgs > 0 THEN Min({Supported, LineMax}) ELSE Supported
  IN  CASE o.maxChars = 0         -> [o EXCEPT !.maxChars = default]
        [] o.maxChars > Supported -> [o EXCEPT !.maxChars = Supported,
                                               !.strictSize = FALSE]
        [] OTHER                  -> o

----------------------------------------------------------------------------
\* Items.  A value is a sequence of words joined by single blanks: one word,
\* or under -I a whole line.

TextLength(value) ==
  IF value = <<>> THEN 0
  ELSE MapThenSumSet(LAMBDA k : Length[value[k]] + 1, DOMAIN value) - 1

\* A line that ends in a blank continues on the next one that has a word.
Continues(input, i) ==
  \E k \in 1 .. i - 1 : /\ input[k].words # <<>> /\ input[k].blank
                       /\ \A l \in k + 1 .. i - 1 : input[l].words = <<>>

\* The logical line each line belongs to: every line with words that is not
\* a continuation begins one, and so does an empty first line.
LogicalLines(input) ==
  [i \in DOMAIN input |->
     Cardinality({k \in 1 .. i : IF input[k].words = <<>> THEN k = 1
                                ELSE ~Continues(input, k)})]

BlankItems(input, o) ==
  LET logical == LogicalLines(input)
      number(i) == IF o.maxLines > 0 THEN logical[i] ELSE i
      itemsOf(i) == [k \in DOMAIN input[i].words |->
                       [value |-> <<input[i].words[k]>>, line |-> number(i)]]
  IN  Joined([i \in DOMAIN input |-> itemsOf(i)])

NullItems(input) ==
  LET words == Joined([i \in DOMAIN input |-> input[i].words])
  IN  [k \in DOMAIN words |-> [value |-> <<words[k]>>, line |-> k]]

\* A trailing blank belongs to the line's value: a line that is the EOF word
\* and a blank does not end the input.
LineItems(input) ==
  [i \in DOMAIN input |->
     [value |-> input[i].words, line |-> i, blank |-> input[i].blank]]

IsEof(item, o) ==
  /\ o.eof
  /\ item.value = <<EofWord>>
  /\ o.replaceSet => ~item.blank

BeforeEof(items, o) ==
  LET ends == {k \in DOMAIN items : IsEof(items[k], o)}
  IN  IF ends = {} THEN items ELSE SubSeq(items, 1, Min(ends) - 1)

ReadItems(input, o) ==
  BeforeEof(IF o.replaceSet THEN LineItems(input)
            ELSE IF o.null THEN NullItems(input) ELSE BlankItems(input, o), o)

----------------------------------------------------------------------------
\* Batches.

TooLarge(size, o) ==
  IF o.strictSize THEN size >= o.maxChars ELSE size > o.maxChars

SizeOf(batch) ==
  BaseSize + MapThenSumSet(LAMBDA k : TextLength(batch[k].value) + 1, DOMAIN batch)

LinesOf(batch) ==
  Cardinality({k \in DOMAIN batch : k = 1 \/ batch[k].line # batch[k - 1].line})

Failed == [error |-> TRUE, batches |-> <<>>]
Planned(batches) == [error |-> FALSE, batches |-> batches]

\* -I: one invocation for each line, with the line in place of the
\* replacement string in ReplArgs arguments.
ReplacePlan(items, o) ==
  LET argument(it) == TextLength(it.value) + (IF it.blank THEN 1 ELSE 0)
      size(it) == BaseSize + ReplArgs * (argument(it) + 1)
  IN  IF \/ ReplArgs > ReplArgMax
         \/ \E it \in Range(items) : \/ ReplArgs > 0 /\ argument(it) > ReplSizeMax
                                     \/ TooLarge(size(it), o)
      THEN Failed
      ELSE Planned([k \in DOMAIN items |-> <<items[k]>>])

\* Mutant: the line limit is looked at before every item, not only at the
\* first item of another line.
FullMidLine(items, o, start, end) ==
  LET batch == SubSeq(items, start, end - 1)
  IN  \/ o.maxLines > 0 /\ LinesOf(batch) = o.maxLines
      \/ o.maxArgs > 0 /\ end - start = o.maxArgs

\* Why the batch items[start .. end-1] does not take items[end] as well.
Full(items, o, start, end) ==
  LET batch == SubSeq(items, start, end - 1)
  IN  \/ /\ o.maxLines > 0 /\ LinesOf(batch) = o.maxLines
         /\ items[end].line # batch[Len(batch)].line
      \/ o.maxArgs > 0 /\ end - start = o.maxArgs

Overflows(items, o, start, end) == TooLarge(SizeOf(SubSeq(items, start, end)), o)

BatchEnd(items, o, start) ==
  Min({e \in start .. Len(items) : Full(items, o, start, e)
                                     \/ Overflows(items, o, start, e)}
      \cup {Len(items) + 1})

\* The batch that starts at item start cannot be built: its next item does
\* not fit and the batch may not be cut short.
Unbuildable(items, o, start) ==
  LET end == BatchEnd(items, o, start)
  IN  /\ end <= Len(items)
      /\ ~Full(items, o, start, end)
      /\ o.exactSize \/ end = start

PackPlan(items, o) ==
  LET from[start \in 1 .. Len(items) + 1] ==
        IF start > Len(items) THEN Planned(<<>>)
        ELSE IF Unbuildable(items, o, start) THEN Failed
        ELSE LET end == BatchEnd(items, o, start)
             IN  IF from[end].error THEN Failed
                 ELSE Planned(<<SubSeq(items, start, end - 1)>> \o from[end].batches)
  IN  from[1]

Plan(items, o) ==
  IF o.replaceSet THEN ReplacePlan(items, o)
  ELSE IF items = <<>> /\ o.noRunEmpty THEN Planned(<<>>)
  ELSE IF TooLarge(BaseSize, o) THEN Failed
  ELSE IF items = <<>> THEN Planned(<<<<>>>>)
  ELSE PackPlan(items, o)

\* What plan() makes of an input under the options in effect.
PlanFor(lines, parsed) == Plan(ReadItems(lines, Limited(parsed)), Limited(parsed))

----------------------------------------------------------------------------
\* What a plan must be, without the way it is found.

WithinLimits(batch, o) ==
  /\ o.maxArgs > 0 => Len(batch) <= o.maxArgs
  /\ o.maxLines > 0 => Cardinality({it.line : it \in Range(batch)}) <= o.maxLines
  /\ o.replaceSet \/ ~TooLarge(SizeOf(batch), o)

\* batches is items cut into the fewest pieces a left-to-right cut allows:
\* nothing lost, repeated or reordered, every piece within the limits and
\* none that could have taken the first item of the next.
IsPacking(batches, items, o) ==
  /\ Joined(batches) = items
  /\ \A k \in DOMAIN batches : WithinLimits(batches[k], o)
  /\ ~o.replaceSet =>
       \A k \in DOMAIN batches :
         k > 1 => ~WithinLimits(Append(batches[k - 1], batches[k][1]), o)
=============================================================================
