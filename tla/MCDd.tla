-------------------------------- MODULE MCDd --------------------------------
(***************************************************************************)
(* Four kinds of scene: two runs that share the host's input; one run      *)
(* whose input and output are one terminal, which the host may have left   *)
(* in non-blocking mode; one between two named FIFOs; one between files.   *)
(***************************************************************************)
EXTENDS Dd, TLC

CONSTANTS first, second

MCRuns == {first, second}
MCOfd == [f \in Fds |-> IF f \in {"ttyin", "ttyout"} THEN "tty" ELSE f]

Operands(in, out, fifo, count, skip, obs) ==
    [selfpipe |-> {"none", "open"}, in |-> in, out |-> out, fifoIn |-> fifo, fifoOut |-> fifo,
     count |-> count, skip |-> skip, obs |-> obs]
Fifos == {"fifoin", "fifoout"}
Scene(active, operands, nonblock, units, sigs) ==
    [active |-> active, cfg |-> operands,
     host |-> [o \in {MCOfd[f] : f \in Fds} |-> o \in nonblock \cup Fifos],
     far |-> [f \in Fds |-> IF f \in Fifos THEN "never" ELSE "open"],
     supply |-> [f \in Fds |-> units],
     signals |-> sigs]
Alone(c) == [d \in MCRuns |-> c]

Sharing == [Operands("in", File, FALSE, 1, 0, 1) EXCEPT !.selfpipe = {"open"}]
SharedScenes == {Scene(MCRuns, Alone(Sharing), {}, 1, 1)}
TerminalScenes ==
    {Scene({first}, Alone(Operands("ttyin", "ttyout", FALSE, -1, skip, 1)), tty, 2, 1) :
        skip \in {0, 1}, tty \in {{}, {"tty"}}}
FifoScenes ==
    {Scene({first}, Alone(Operands("fifoin", "fifoout", TRUE, -1, 0, obs)), {}, 3, 2) :
        obs \in {1, 2}}
FileScenes ==
    {Scene({first}, Alone(Operands(File, File, FALSE, 2, 0, obs)), {}, 0, 1) : obs \in {1, 2}}

MCScenes == SharedScenes \cup TerminalScenes \cup FifoScenes \cup FileScenes
=============================================================================
