-------------------------------- MODULE MCEd --------------------------------
(***************************************************************************)
(* Texts of up to three lines over two atoms, and the commands that a      *)
(* user types to move, mark, change, undo and save them.                   *)
(***************************************************************************)
EXTENDS Ed

At(base, offset) == [base |-> base, of |-> "x", offset |-> offset]
Num(n) == At("number", n)
Dot(offset) == At("dot", offset)
MarkA == [base |-> "mark", of |-> "a", offset |-> 0]

Plain(op) == [op |-> op, addr |-> <<>>, semicolon |-> FALSE, text |-> <<>>, re |-> "x",
              repl |-> <<<<"y">>>>, dest |-> <<>>, mark |-> "a", io |-> "ok", print |-> FALSE,
              list |-> <<>>]
On1(op, a) == [Plain(op) EXCEPT !.addr = <<a>>]
On2(op, a, b) == [Plain(op) EXCEPT !.addr = <<a, b>>]
Typed(op, texts) == [Plain(op) EXCEPT !.text = texts]
To(c, a) == [c EXCEPT !.dest = <<a>>]
Broken(c, io) == [c EXCEPT !.io = io]
Printing(c) == [c EXCEPT !.print = TRUE]
Sub(re, repl) == [Plain("s") EXCEPT !.re = re, !.repl = repl]
Global(op, re, list) == [Plain(op) EXCEPT !.re = re, !.list = list]

Back == Sub("y", <<<<"x">>>>)
Split == Sub("x", <<<<"y">>, <<"x">>>>)
Edits == {[Typed("a", <<<<"x">>>>) EXCEPT !.addr = <<Num(0)>>], Typed("i", <<>>), Printing(Typed("c", <<>>)),
          Typed("c", <<<<"y">>, <<"x">>>>), Plain("d"), On2("d", Num(1), Num(2)),
          On2("j", Num(1), Num(2)), To(On1("m", Num(1)), At("last", 0)),
          To(On2("m", Num(2), At("last", 0)), Num(0)),
          To(On1("t", Dot(0)), Num(0)), Sub("x", <<<<"y">>>>), Split,
          On1("k", Num(2)), On1("", MarkA), On1("d", At("search", 0)), Plain("u")}
Files == {Plain("w"), On1("w", Num(1)), Broken(Plain("w"), "write"), Broken(Plain("w"), "open"),
          Plain("W"), Plain("wq"), Plain("r"), Plain("e"), Broken(Plain("e"), "open"), Plain("E"),
          Plain("q"), Plain("Q"), Plain("unknown"), Plain("p"), Plain("")}
Lists == {<<Plain("d")>>, <<Sub("x", <<<<"y">>>>), Plain("w"), Back>>,
          <<To(Plain("m"), Num(0))>>, <<To(Plain("t"), Dot(0))>>, <<On2("j", Dot(0), Dot(1))>>,
          <<Split, On1("k", Dot(0))>>, <<Sub("y", <<<<"x">>>>)>>, <<Plain("d"), Plain("u")>>,
          <<Typed("a", <<<<"x">>>>), Plain("q")>>, <<Plain("e")>>,
          <<[On2("d", Dot(1), Dot(1)) EXCEPT !.semicolon = TRUE]>>, <<Global("g", "x", <<>>)>>}
Globals == {Global("g", "x", l) : l \in Lists}
           \cup {Global("v", "x", <<Plain("d")>>), Global("G", "x", <<>>), Global("V", "x", <<>>)}

MCAnswers == {Plain("d"), Sub("x", <<<<"y">>>>), Typed("a", <<<<"x">>>>), Plain("u"), Plain("q")}

Texts == {<<>>, <<<<"x">>, <<"y">>, <<"x", "y">>>>}
Few == {Typed("c", <<<<"y">>, <<"x">>>>), Plain("d"), On2("j", Num(1), Num(2)),
        To(On2("m", Num(2), At("last", 0)), Num(0)), To(On1("t", Dot(0)), Num(0)), Split,
        On1("k", Num(2)), Plain("u"), Plain("w"), Plain("e"), Plain("q")}
       \cup {Global("g", "x", l) : l \in {<<Plain("d")>>, <<Split, On1("k", Dot(0))>>,
                                          <<To(Plain("t"), Dot(0))>>, <<Sub("y", <<<<"x">>>>)>>}}
MCCommands == [all |-> Edits \cup Files \cup Globals, few |-> Few]

MCScenes ==
    {[text |-> t, script |-> s, input |-> 3, commands |-> "all"] : t \in Texts, s \in BOOLEAN}
    \cup {[text |-> t, script |-> FALSE, input |-> 4, commands |-> "few"] : t \in Texts}
=============================================================================
