------------------------------- MODULE MCMail -------------------------------
(***************************************************************************)
(* Three scenes: one session alone that runs three commands over two       *)
(* messages; two sessions and a delivery over one message, with a crash;   *)
(* and a delivery to the system mailbox and a folder beside a session that *)
(* saves to that folder.                                                   *)
(***************************************************************************)
EXTENDS MailSession

CONSTANTS reader, other, sender

MCReaders == {reader, other}
MCSenders == {sender}
MCClients == MCReaders \cup MCSenders
MCMail == [c \in MCSenders |-> 3]

Old(m) == [Fresh(m) EXCEPT !.status = "RO"]
Boxed(entries) == [b \in Boxes |-> IF b = "spool" THEN entries ELSE <<>>]
Setting(h, k, a, p) == [hold |-> h, keepsave |-> k, append |-> a, autoprint |-> p]
Scene(boxes, route, readers, options, count, crash) ==
    [boxes |-> boxes, route |-> [c \in Senders |-> route], readers |-> readers,
     options |-> [r \in Readers |-> options],
     commands |-> [r \in Readers |-> IF r = reader THEN count ELSE 0],
     crashes |-> crash]

MCScenes ==
    {Scene(Boxed(<<Fresh(1), Old(2)>>), <<>>, {reader}, Setting(h, TRUE, FALSE, p), 3, 0) :
        <<h, p>> \in {<<FALSE, TRUE>>, <<TRUE, FALSE>>}}
    \cup {Scene(Boxed(<<Fresh(1)>>), <<"spool">>, MCReaders, Setting(h, FALSE, a, FALSE), 1, 1) :
            <<h, a>> \in {<<FALSE, TRUE>>, <<TRUE, FALSE>>}}
    \cup {Scene(Boxed(<<Fresh(1), Old(2)>>), <<"spool", "folder">>, {reader},
                Setting(FALSE, k, FALSE, FALSE), 1, 1) : k \in BOOLEAN}
=============================================================================
