--------------------------------- MODULE Ed ---------------------------------
(***************************************************************************)
(* ed's command loop (cmds/internal/editor: Run, execute, global) over the *)
(* commands of EdBuffer: commands at the prompt, end of file, SIGINT and   *)
(* SIGHUP, and the global commands, whose list runs once per selected line *)
(* one command at a time.                                                  *)
(***************************************************************************)
EXTENDS EdBuffer

CONSTANTS Commands,    \* named sets of what can be typed at the prompt
          Answers,     \* what can be typed at a line of G or V
          Scenes       \* a text to load, whether the first error ends ed (a
                       \* script), how many lines of input there are, and which
                       \* of these sets their commands come from

ASSUME EdAssumption == \A scene \in Scenes : scene.commands \in DOMAIN Commands

VARIABLES e,       \* the engine
          mode,    \* at the prompt, in a global command, or gone
          g,       \* the locals of the global command under way
          script,  \* ExitOnError
          input,   \* lines of input left
          typed    \* the name of the set their commands come from

vars == <<e, mode, g, script, input, typed>>

Load(text) ==
    [lines |-> [i \in DOMAIN text |-> [ids |-> {i}, text |-> text[i]]], cur |-> Len(text),
     dirty |-> FALSE, marks |-> [k \in Marks |-> Unset], meant |-> [k \in Marks |-> Unset],
     undo |-> [lines |-> <<>>, cur |-> 0, dirty |-> FALSE, marks |-> [k \in Marks |-> Unset],
               meant |-> [k \in Marks |-> Unset], valid |-> FALSE, written |-> FALSE],
     warned |-> FALSE, disk |-> text, hup |-> <<>>,
     inGlobal |-> FALSE, targets |-> <<>>, sub |-> <<>>, subAt |-> 0,
     changed |-> FALSE, err |-> "", quit |-> FALSE,
     kept |-> text, told |-> NoText, before |-> NoText, start |-> <<>>,
     left |-> {}, lost |-> FALSE, rewound |-> FALSE]

NoGlobal == [cmd |-> "none", list |-> <<>>, at |-> 0, pos |-> 0, cur |-> 0, changed |-> FALSE,
             old |-> <<>>, previous |-> <<>>]

Init ==
    \E scene \in Scenes :
        /\ e = Load(scene.text)
        /\ mode = "command"
        /\ g = NoGlobal
        /\ script = scene.script
        /\ input = scene.input
        /\ typed = scene.commands

IsGlobal(c) == c.op \in {"g", "v", "G", "V"}
-----------------------------------------------------------------------------
(* The end of a turn of Run: an error stops a script, q stops ed. *)
Finish(r) ==
    /\ e' = [r EXCEPT !.before = IF r.changed THEN r.start ELSE @,
                      !.start = <<>>, !.changed = FALSE, !.err = "", !.quit = FALSE]
    /\ mode' = IF r.quit \/ (script /\ r.err \in {"error", "warned"}) THEN "gone" ELSE "command"
    /\ g' = NoGlobal
    /\ UNCHANGED script

Reads == input > 0 /\ input' = input - 1

Prompt == mode = "command" /\ Reads

Begun == [e EXCEPT !.start = Text(e.lines)]

Command(c) ==
    /\ Prompt
    /\ ~IsGlobal(c)
    /\ Finish(Execute(Begun, c))

(* End of file is a q that does not go through execute. *)
EndOfFile ==
    /\ mode = "command"
    /\ input' = IF e.dirty /\ ~e.warned THEN input ELSE 0
    /\ Finish(IF e.dirty /\ ~e.warned THEN Warn(e) ELSE [Discard(e) EXCEPT !.quit = TRUE])

(* SIGINT at the prompt, or while a, i or c reads its text: the text typed *)
(* so far is dropped.                                                      *)
Interrupt(c) ==
    /\ Prompt
    /\ c.op \in {"a", "i", "c"}
    /\ Finish(Deferred(e, Fail(e, "signal")))

(* Any signal while s or g reads the next line of its argument is taken    *)
(* for an argument that ends early.                                        *)
SignalInArgument(c) ==
    /\ Prompt
    /\ IF IsGlobal(c) THEN Len(c.list) > 1 ELSE c.op = "s" /\ Len(c.repl) > 1
    /\ Finish(Deferred(e, Fail(e, "error")))

SaveHup == [e EXCEPT !.hup = IF e.dirty /\ e.lines # <<>> THEN Text(e.lines) ELSE @, !.quit = TRUE]

Hangup ==
    /\ mode = "command"
    /\ Finish(SaveHup)
    /\ UNCHANGED input
-----------------------------------------------------------------------------
(* The undo snapshot a global command leaves when it changed nothing: the  *)
(* one from before if it failed, its own if it did not.                    *)
EndGlobal(r) ==
    LET done == [r EXCEPT !.inGlobal = FALSE, !.targets = <<>>, !.left = {}, !.sub = <<>>,
                          !.subAt = 0, !.changed = @ \/ g.changed]
    IN  IF done.changed THEN done
        ELSE IF done.err # "" THEN [done EXCEPT !.undo = g.old]
        ELSE [done EXCEPT !.undo = Snapshot(done), !.changed = TRUE]

Leave(r) == Finish(Deferred([e EXCEPT !.cur = g.cur], EndGlobal(r)))

GlobalBegins(c) ==
    LET p == ParseAddresses(Begun, c)
        range == TwoAddresses(p.e, p.addrs, 1, LastLine(e), FALSE)
        wanted == c.op \in {"g", "G"}
        chosen == {n \in range[1]..range[2] : Contains(e.lines[n].text, c.re) = wanted}
    IN  /\ Prompt
        /\ IsGlobal(c)
        /\ IF p.e.err # "" \/ range[1] < 0 THEN Finish(Deferred(e, Fail(p.e, "error")))
           ELSE /\ e' = [SaveUndo(p.e) EXCEPT !.inGlobal = TRUE,
                                              !.targets = Ascending(chosen),
                                              !.left = UNION {e.lines[n].ids : n \in chosen},
                                              !.sub = [i \in DOMAIN c.list |-> "idle"]]
                /\ mode' = "global"
                /\ g' = [NoGlobal EXCEPT !.cmd = c.op, !.list = c.list, !.cur = e.cur, !.old = e.undo]
                /\ UNCHANGED script

Asks == g.cmd \in {"G", "V"}

Waiting == {i \in DOMAIN e.targets : i > g.at /\ e.targets[i] > 0}

(* Selects the next line that is still marked.  G and V then ask. *)
Select ==
    LET i == CHOOSE i \in Waiting : \A j \in Waiting : i <= j
        n == e.targets[i]
    IN  /\ mode = "global" /\ g.pos = 0 /\ Waiting # {}
        /\ e' = [e EXCEPT !.targets[i] = 0, !.cur = n, !.left = @ \ e.lines[n].ids]
        /\ g' = [g EXCEPT !.at = i, !.pos = 1]
        /\ mode' = IF Asks THEN "ask" ELSE "global"
        /\ UNCHANGED <<script, input>>

(* The loop is over: an s that was tried and changed no line is an error. *)
Exhausted ==
    /\ mode = "global" /\ g.pos = 0 /\ Waiting = {}
    /\ Leave(IF \E i \in DOMAIN e.sub : e.sub[i] = "tried" THEN Fail(e, "error") ELSE e)
    /\ UNCHANGED input

(* One command of the list.  Its addresses are parsed to find its letter,  *)
(* and again to execute it.                                                *)
ListCommand ==
    LET c == g.list[g.pos]
        p == ParseAddresses(e, c)
        r == IF p.e.err # "" \/ IsGlobal(c) THEN Fail(p.e, "error")
             ELSE Execute([p.e EXCEPT !.subAt = IF c.op = "s" /\ ~Asks THEN g.pos ELSE 0], c)
    IN  /\ mode = "global" /\ g.pos > 0
        /\ IF r.err # "" \/ r.quit THEN Leave(r)
           ELSE /\ e' = [r EXCEPT !.changed = FALSE]
                /\ g' = [g EXCEPT !.changed = @ \/ r.changed,
                                  !.pos = IF @ < Len(g.list) THEN @ + 1 ELSE 0]
                /\ UNCHANGED <<mode, script>>
        /\ UNCHANGED input

AnswerEmpty ==
    /\ mode = "ask" /\ Reads
    /\ mode' = "global"
    /\ g' = [g EXCEPT !.pos = 0]
    /\ UNCHANGED <<e, script>>

Answer(c) ==
    LET p == ParseAddresses(e, c)
    IN  /\ mode = "ask" /\ Reads
        /\ IF p.e.err # "" \/ c.op \in {"a", "c", "i"} \/ IsGlobal(c) THEN Leave(Fail(p.e, "error"))
           ELSE /\ e' = p.e
                /\ mode' = "global"
                /\ g' = [g EXCEPT !.list = <<c>>, !.previous = <<c>>]
                /\ UNCHANGED script

AnswerAgain ==
    /\ g.previous # <<>>
    /\ Answer(g.previous[1])

(* End of file, "&" with nothing to repeat, or SIGINT ends the command. *)
AnswerFails ==
    /\ mode = "ask"
    /\ \E how \in {"error", "signal"} : Leave(Fail(e, how))
    /\ UNCHANGED input

AnswerHangup ==
    /\ mode = "ask"
    /\ Leave(Fail(SaveHup, "signal"))
    /\ UNCHANGED input

Step ==
    \/ \E c \in Commands[typed] : Command(c) \/ Interrupt(c) \/ SignalInArgument(c) \/ GlobalBegins(c)
    \/ EndOfFile \/ Hangup
    \/ Select \/ ListCommand \/ Exhausted
    \/ \E c \in Answers : Answer(c)
    \/ AnswerEmpty \/ AnswerAgain \/ AnswerFails \/ AnswerHangup

Next == Step /\ UNCHANGED typed

Spec == Init /\ [][Next]_vars
-----------------------------------------------------------------------------
(* A mark names the line it was put on, whatever has been inserted,        *)
(* deleted, moved, joined, split or undone since, and a mark whose line is *)
(* gone names nothing (the marks map, kept as line numbers by              *)
(* appendLines, deleteLines, join, move, substitute and u).                *)
MarksFollow ==
    \A k \in Marks :
        IF e.marks[k] = Unset
        THEN \A n \in DOMAIN e.lines : e.meant[k] \notin e.lines[n].ids
        ELSE e.marks[k] \in DOMAIN e.lines /\ e.meant[k] \in e.lines[e.marks[k]].ids

(* While a global command runs, the line numbers that wait in              *)
(* globalTargets are exactly those of the lines it selected at the start   *)
(* and has neither visited, nor deleted, moved, joined or substituted: no  *)
(* line is visited twice, none that did not match, none is skipped.        *)
GlobalTracks ==
    mode = "global" =>
        /\ \A i \in DOMAIN e.targets : e.targets[i] \in 0..LastLine(e)
        /\ e.left = UNION {e.lines[e.targets[i]].ids :
                             i \in {j \in DOMAIN e.targets : e.targets[j] > 0}}
        /\ \A i, j \in DOMAIN e.targets : e.targets[i] = e.targets[j] /\ i # j => e.targets[i] = 0

(* At the prompt u goes back to the text from before the last command that *)
(* changed the buffer, a global command counting as one (or its last u, or *)
(* a c of no lines in an empty buffer, which takes a snapshot too); after  *)
(* e there is nothing to undo.  A command that failed without a change     *)
(* hides nothing (saveUndo, the deferred function of global).              *)
UndoReturns ==
    mode = "command" =>
        IF e.before = NoText THEN ~e.undo.valid
        ELSE e.undo.valid /\ Text(e.undo.lines) = e.before

(* q, e and end of file never give up text that was neither loaded, nor    *)
(* written whole, nor warned about as it stands (Dirty and warned).  The   *)
(* one exception is a u that returns to a snapshot taken before a w inside *)
(* the same global command: it restores the Dirty of that time.            *)
NoSilentLoss == ~e.lost
=============================================================================
