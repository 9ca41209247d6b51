------------------------------ MODULE MCXargs ------------------------------
(***************************************************************************)
(* Xargs for TLC: words of one and three bytes and the EOF string.  The    *)
(* packing cases cross many inputs with the options that decide how items  *)
(* are grouped and stop at their plan or run with one process; the         *)
(* scheduling cases run two or three batches in parallel.                  *)
(***************************************************************************)
EXTENDS Xargs

MCLength == [w \in Words |-> IF w = "ccc" THEN 3 ELSE 1]

Line(ws, b) == [words |-> ws, blank |-> b]
Opt(f, n) == [flag |-> f, n |-> n]

PackOpts ==
  { <<>>, <<Opt("-r", 0), Opt("-E", 0)>>, <<Opt("-n", 2)>>, <<Opt("-n", -1)>>,
    <<Opt("-L", 1)>>, <<Opt("-L", 2), Opt("-s", 9)>>, <<Opt("-s", 8)>>,
    <<Opt("-s", 7), Opt("-x", 0)>>, <<Opt("-0", 0), Opt("-L", 2)>>,
    <<Opt("-I", 0), Opt("-E", 0)>>, <<Opt("-I", 0), Opt("-n", 2)>>,
    <<Opt("-n", 2), Opt("-L", 1)>>, <<Opt("-s", 30)>>, <<Opt("-L", 0)>>,
    <<Opt("-P", Malformed)>>, <<Opt("-s", -1)>>, <<Opt("?", 0)>> }

TimeoutOpts(k, p, f, s) ==
  [killAfter |-> k, preserveStatus |-> p, foreground |-> f, signal |-> s,
   expires |-> TRUE]

Inputs ==
  { <<>>, <<Line(<<>>, FALSE)>>, <<Line(<<"a", "ccc", "a">>, FALSE)>>,
    <<Line(<<"a", "E">>, FALSE), Line(<<"a">>, FALSE)>>,
    <<Line(<<>>, FALSE), Line(<<"a">>, TRUE), Line(<<"a", "ccc">>, FALSE)>>,
    <<Line(<<"a">>, TRUE), Line(<<>>, FALSE), Line(<<"a">>, FALSE), Line(<<"a">>, FALSE)>>,
    <<Line(<<"E">>, TRUE), Line(<<"E">>, FALSE), Line(<<"a">>, FALSE)>> }

Packing ==
  [input : Inputs, opts : PackOpts, posix : {FALSE},
   topts : {TimeoutOpts(TRUE, TRUE, FALSE, "KILL")}]
  \cup
  [input : Inputs, opts : {<<Opt("-s", 8)>>, <<Opt("-s", 30)>>}, posix : {TRUE},
   topts : {TimeoutOpts(TRUE, TRUE, FALSE, "KILL")}]

Words2 == <<Line(<<"a", "a">>, FALSE)>>
Words3 == <<Line(<<"a", "a", "a">>, FALSE)>>

Case(ws, os, t) == [input |-> ws, opts |-> os, posix |-> FALSE, topts |-> t]

OneEach(p) == <<Opt("-n", 1), Opt("-P", p)>>

\* Two workers: three batches whose commands finish in time or hang, and two
\* batches under each way timeout can end a command.  One process with -p.
Scheduling ==
  { Case(Words3, OneEach(2),
         [TimeoutOpts(TRUE, FALSE, FALSE, "TERM") EXCEPT !.expires = FALSE]),
    Case(Words2, OneEach(2), TimeoutOpts(TRUE, FALSE, FALSE, "TERM")),
    Case(Words2, OneEach(0), TimeoutOpts(TRUE, TRUE, TRUE, "TERM")),
    Case(Words2, OneEach(2), TimeoutOpts(FALSE, TRUE, FALSE, "TERM")),
    Case(Words2, <<Opt("-n", 1), Opt("-p", 0)>>, TimeoutOpts(FALSE, FALSE, FALSE, "KILL")) }

MCCases == Packing \cup Scheduling
=============================================================================
