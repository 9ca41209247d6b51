------------------------------ MODULE DdProofs ------------------------------
(***************************************************************************)
(* What holds of dd for every set of runs, every operands and every number *)
(* of signals: the wakeup byte goes to the run's own pipe, exit status 0   *)
(* means that everything was copied and no signal came, and a borrowed     *)
(* descriptor is non-blocking until its last borrower gives it back.       *)
(***************************************************************************)
EXTENDS Dd, FiniteSetTheorems, TLAPS

Points == {"context", "openin", "borrowin", "openout", "borrowout", "loop", "read", "pollin",
           "pollhup", "eof", "write", "pollout", "flush", "status", "emit", "stop", "unwind",
           "gone"}

RunFields == {"pc", "mode", "skip", "await", "borrowed", "got", "put", "held", "left", "eof",
              "code"}

IsRun(r) ==
  /\ DOMAIN r = RunFields
  /\ r.pc \in Points /\ r.mode \in {"skip", "copy"} /\ r.skip \in Int
  /\ r.await \in BOOLEAN /\ r.borrowed \subseteq Fds
  /\ r.got \in Int /\ r.put \in Int /\ r.held \in Int /\ r.left \in Int
  /\ r.eof \in BOOLEAN /\ r.code \in {-1, 0, 1, 130}

ContextFields == {"registered", "sigc", "done", "notifier", "sig", "pipe", "woken"}

IsContext(c) ==
  /\ DOMAIN c = ContextFields
  /\ c.registered \in BOOLEAN /\ c.sigc \in BOOLEAN /\ c.done \in BOOLEAN
  /\ c.notifier \in {"none", "waiting", "storing", "waking", "exited"}
  /\ c.sig \in BOOLEAN /\ c.pipe \in {"none", "open", "closed"} /\ c.woken \in BOOLEAN

Types ==
  /\ cfg \in [Runs -> Settings]
  /\ \A d \in Runs : cfg[d].in = cfg[d].out => cfg[d].in = File
  /\ host \in [Descriptions -> BOOLEAN]
  /\ flag \in [Descriptions -> BOOLEAN]
  /\ leases \in [Fds -> [refs : Int, changed : BOOLEAN]]
  /\ DOMAIN run = Runs /\ \A d \in Runs : IsRun(run[d])
  /\ DOMAIN ctx = Runs /\ \A d \in Runs : IsContext(ctx[d])
  /\ delivered \subseteq Runs

(* A run's pipe is closed after its goroutine has gone, and a signal that  *)
(* reached its channel is there, on its way, or stored.  The goroutine     *)
(* leaves without a signal only once none can come.                        *)
Settled(c) ==
  /\ c.pipe = "closed" => c.notifier = "exited"
  /\ c.done => ~c.registered
  /\ c.notifier \in {"waking", "exited"} => c.sig \/ (c.done /\ ~c.sigc)

Heard(c) == c.sig \/ c.sigc \/ c.notifier = "storing"

Notified(c, reached) == Settled(c) /\ (reached => Heard(c))

(* What was read has been written, is held for a block, or is being        *)
(* written; r is a run, s its operands.                                    *)
Copied(r, s) ==
  /\ r.held \in 0 .. s.obs - 1
  /\ r.left \in 0 .. s.obs
  /\ r.got = r.put + r.held + r.left
  /\ r.pc \in {"context", "openin", "borrowin", "openout", "borrowout", "loop", "read",
               "pollin", "pollhup", "eof", "flush"} => r.left = 0
  /\ r.pc \in {"write", "pollout"} => r.left > 0
  /\ r.pc \in {"status", "emit", "stop"} => r.left = 0 /\ r.held = 0
  /\ r.pc \in {"flush", "status", "emit", "stop"} => r.eof \/ r.got = s.count
  /\ r.pc \in {"write", "pollout"} => r.held = 0
  /\ r.eof => r.pc \in {"flush", "write", "pollout", "status", "emit", "stop", "unwind", "gone"}
  /\ r.code # -1 => r.pc \in {"unwind", "gone"}

(* Exit status 0, from its conditions at the moment Stop had returned.     *)
Zero(d) ==
  run[d].code = 0 =>
    /\ run[d].left = 0 /\ run[d].held = 0
    /\ run[d].eof \/ run[d].got = cfg[d].count
    /\ ~ctx[d].sig /\ ctx[d].notifier = "exited"

SignalInv ==
  /\ Types
  /\ \A d \in Runs :
       /\ Notified(ctx[d], d \in delivered)
       /\ run[d].pc = "context" => ctx[d] = NoContext
       /\ Copied(run[d], cfg[d])
       /\ Zero(d)

Borrowers(f) == {d \in Runs : f \in run[d].borrowed}

(* What a run r with operands s may have borrowed.                         *)
Holds(r, s) ==
  /\ r.borrowed \subseteq {s.in, s.out}
  /\ r.pc \in {"context", "openin", "borrowin"} => r.borrowed = {}
  /\ r.pc \in {"openout", "borrowout"} => s.out \notin r.borrowed

(* No two descriptors lead to the same open file description.  The leases  *)
(* are kept by descriptor, so that without this a run could give back what *)
(* another one still uses (the limitation named at nonblockLease).         *)
OneDescriptorEach == \A f, g \in Fds : Ofd[f] = Ofd[g] => f = g

(* A lease counts its borrowers; while there is one the flag is set and    *)
(* the lease knows whether the host had it set.                            *)
Leased(f) ==
  /\ leases[f].refs = Cardinality(Borrowers(f))
  /\ OneDescriptorEach =>
       /\ leases[f].refs > 0 => flag[Ofd[f]] /\ (leases[f].changed <=> ~host[Ofd[f]])
       /\ leases[f].refs = 0 => (flag[Ofd[f]] <=> host[Ofd[f]])

LeaseInv ==
  /\ Types
  /\ \A d \in Runs : Holds(run[d], cfg[d])
  /\ \A f \in Fds : Leased(f)
-----------------------------------------------------------------------------
(* Types *)

LEMMA TypesInit == Init => Types
<1> SUFFICES ASSUME Init PROVE Types
  BY Zenon
<1> PICK x \in Scenes :
         /\ cfg = x.cfg
         /\ host = x.host /\ flag = x.host
         /\ leases = [f \in Fds |-> NoLease]
         /\ run = [d \in Runs |-> IF d \in x.active THEN Begin(x.cfg[d].skip)
                                  ELSE [Begin(0) EXCEPT !.pc = "gone"]]
         /\ ctx = [d \in Runs |-> NoContext]
         /\ delivered = {}
  BY Zenon DEF Init
<1>1. x.cfg \in [Runs -> Settings]
  BY DdAssumption, Zenon
<1>2. \A d \in Runs : x.cfg[d].skip \in Nat
  BY <1>1, Zenon DEF Settings
<1>3. \A n \in Nat : IsRun(Begin(n))
  BY DEF Begin, IsRun, RunFields, Points
<1>4. IsRun([Begin(0) EXCEPT !.pc = "gone"])
  BY DEF Begin, IsRun, RunFields, Points
<1>5. DOMAIN run = Runs /\ \A d \in Runs : IsRun(run[d])
  BY <1>2, <1>3, <1>4, Zenon
<1>6. IsContext(NoContext)
  BY Zenon DEF NoContext, IsContext, ContextFields
<1>7. leases \in [Fds -> [refs : Int, changed : BOOLEAN]]
  BY DEF NoLease
<1>8. QED
  BY <1>1, <1>5, <1>6, <1>7, DdAssumption, Zenon DEF Types

LEMMA OperandTypes ==
  ASSUME Types, NEW d \in Runs
  PROVE  /\ cfg[d].selfpipe \subseteq {"none", "open"}
         /\ cfg[d].in \in Fds \cup {File} /\ cfg[d].out \in Fds \cup {File}
         /\ cfg[d].fifoIn \in BOOLEAN /\ cfg[d].fifoOut \in BOOLEAN
         /\ cfg[d].count \in Int /\ cfg[d].obs \in Nat \ {0}
BY Zenon DEF Types, Settings

(* Steps that move a run and leave the descriptors and its context alone. *)
Moves(d) ==
  \/ OpenIn(d) \/ OpenOut(d) \/ Loop(d) \/ PollIn(d) \/ PollHup(d) \/ PollOut(d)
  \/ Flush(d) \/ EmitStatus(d) \/ ReadFile(d) \/ ReadStream(d) \/ ReadsEof(d)
  \/ WriteFile(d) \/ WriteStream(d)

(* What such a step makes of a run r with operands s. *)
Good(r, s) == IsRun(r) /\ Copied(r, s) /\ s.obs \in Nat \ {0} /\ s.count \in Int

After(q, r, s) ==
  /\ Good(q, s)
  /\ q.borrowed = r.borrowed
  /\ q.pc # "context"
  /\ q.pc \in {"openin", "borrowin"} => r.pc = "openin"
  /\ q.pc \in {"openout", "borrowout"} => r.pc = "openout"
  /\ q.code = 0 => r.code = 0

LEMMA LeaveShape ==
  ASSUME NEW r, NEW s, Good(r, s), NEW n \in {1, 130}
  PROVE  After([r EXCEPT !.pc = "unwind", !.code = n], r, s)
BY DEF After, Good, IsRun, Copied, RunFields, Points

LEMMA TookShape ==
  ASSUME NEW r, NEW s, Good(r, s), r.pc = "read"
  PROVE  After(Took(r, s), r, s)
<1>1. CASE r.mode = "skip"
  BY <1>1 DEF After, Good, Took, IsRun, Copied, RunFields, Points
<1>2. CASE r.mode # "skip" /\ r.held + 1 < s.obs
  BY <1>2, SMTT(30) DEF After, Good, Took, IsRun, Copied, RunFields, Points
<1>3. CASE r.mode # "skip" /\ ~(r.held + 1 < s.obs)
  BY <1>3 DEF After, Good, Took, IsRun, Copied, RunFields, Points
<1>4. QED
  BY <1>1, <1>2, <1>3, Zenon

LEMMA EofShape ==
  ASSUME NEW r, NEW s, Good(r, s), r.pc \in {"read", "eof"}
  PROVE  After(AtEof(r), r, s)
BY ZenonT(60) DEF After, Good, AtEof, IsRun, Copied, RunFields, Points

LEMMA GotoShape ==
  ASSUME NEW r, NEW s, Good(r, s), NEW p,
         \/ r.pc = "openout" /\ p = "borrowout"
         \/ r.pc = "loop" /\ p = "read"
         \/ r.pc = "loop" /\ p = "flush" /\ r.got = s.count
         \/ r.pc = "read" /\ p \in {"pollhup", "eof"}
         \/ r.pc \in {"pollin", "pollhup"} /\ p = "read"
         \/ r.pc = "write" /\ p = "pollout"
         \/ r.pc = "pollout" /\ p = "write"
         \/ r.pc = "flush" /\ p = "status" /\ ~(r.held > 0)
         \/ r.pc = "emit" /\ p = "stop"
  PROVE  After([r EXCEPT !.pc = p], r, s)
BY DEF After, Good, IsRun, Copied, RunFields, Points

LEMMA WroteShape ==
  ASSUME NEW r, NEW s, Good(r, s), r.pc = "write", NEW n \in 1 .. r.left
  PROVE  After([r EXCEPT !.put = @ + n, !.left = @ - n,
                         !.pc = IF r.left > n THEN "write"
                                ELSE IF r.eof \/ r.got = s.count THEN "flush" ELSE "loop"], r, s)
<1>1. CASE r.left > n
  BY <1>1 DEF After, Good, IsRun, Copied, RunFields, Points
<1>2. CASE ~(r.left > n) /\ (r.eof \/ r.got = s.count)
  BY <1>2 DEF After, Good, IsRun, Copied, RunFields, Points
<1>3. CASE ~(r.left > n) /\ ~(r.eof \/ r.got = s.count)
  BY <1>3 DEF After, Good, IsRun, Copied, RunFields, Points
<1>4. QED
  BY <1>1, <1>2, <1>3

LEMMA AwaitShape ==
  ASSUME NEW r, NEW s, Good(r, s)
  PROVE  /\ r.pc = "read" => Good([r EXCEPT !.await = FALSE], s)
         /\ r.pc = "read" => After([r EXCEPT !.await = FALSE, !.pc = "pollin"], r, s)
         /\ r.pc = "pollhup" => After([r EXCEPT !.await = FALSE, !.pc = "eof"], r, s)
         /\ \A a \in BOOLEAN :
              r.pc = "openin" => After([r EXCEPT !.pc = "borrowin", !.await = a], r, s)
BY DEF After, Good, IsRun, Copied, RunFields, Points

LEMMA FlushShape ==
  ASSUME NEW r, NEW s, Good(r, s), r.pc = "flush", r.held > 0
  PROVE  After([r EXCEPT !.left = r.held, !.held = 0, !.pc = "write"], r, s)
BY DEF After, Good, IsRun, Copied, RunFields, Points

LEMMA MovesAre ==
  ASSUME Types, NEW d \in Runs, Copied(run[d], cfg[d]), Moves(d)
  PROVE  /\ DOMAIN run' = Runs
         /\ After(run'[d], run[d], cfg[d])
         /\ \A x \in Runs \ {d} : run'[x] = run[x]
         /\ UNCHANGED <<cfg, host, flag, leases, ctx, delivered>>
<1> DEFINE r == run[d]
           s == cfg[d]
<1>0. Good(r, s)
  BY OperandTypes DEF Types, Good
<1>1. UNCHANGED <<cfg, host, flag, leases, ctx, delivered>>
  BY DEF Moves, OpenIn, OpenOut, Loop, PollIn, PollHup, PollOut, Flush, EmitStatus, ReadFile,
         ReadStream, ReadsEof, WriteFile, WriteStream, hostVars
<1>2. DOMAIN run' = Runs /\ \A x \in Runs \ {d} : run'[x] = run[x]
  BY Zenon
     DEF Types, Moves, OpenIn, OpenOut, Loop, PollIn, PollHup, PollOut, Flush, EmitStatus,
         ReadFile, ReadStream, ReadsEof, WriteFile, WriteStream, Wrote, Goto, Leave,
         FinishInterrupted, Become
<1>5. d \in DOMAIN run
  BY Zenon DEF Types
<1> SUFFICES After(run'[d], r, s)
  BY <1>1, <1>2, Zenon
<1>3. Leave(d, 1) => After(run'[d], r, s)
  <2>1. After([r EXCEPT !.pc = "unwind", !.code = 1], r, s)
    BY <1>0, LeaveShape, ZenonT(30)
  <2>2. QED
    BY <1>5, <2>1, Zenon DEF Leave, Become
<1>4. FinishInterrupted(d) => After(run'[d], r, s)
  <2>1. After([r EXCEPT !.pc = "unwind", !.code = 130], r, s)
    BY <1>0, LeaveShape, Zenon
  <2>2. QED
    BY <1>5, <2>1 DEF FinishInterrupted, Leave, Become
<1>6. CASE OpenIn(d)
  <2>1. s.fifoIn \in BOOLEAN
    BY OperandTypes, Zenon
  <2>2. r.pc = "openin" /\ After([r EXCEPT !.pc = "borrowin", !.await = s.fifoIn], r, s)
    BY <1>0, <1>6, <2>1, AwaitShape, Zenon DEF OpenIn, At
  <2>3. QED
    BY <1>3, <1>4, <1>5, <1>6, <2>2 DEF OpenIn, Become
<1>7. CASE OpenOut(d)
  <2>1. After([r EXCEPT !.pc = "borrowout"], r, s)
    BY <1>0, <1>7, GotoShape, Zenon DEF OpenOut, At
  <2>2. QED
    BY <1>3, <1>4, <1>5, <1>7, <2>1, Zenon DEF OpenOut, Goto, Become
<1>8. CASE Loop(d)
  <2>1. After([r EXCEPT !.pc = "read"], r, s)
    BY <1>0, <1>8, GotoShape, Zenon DEF Loop, At
  <2>2. r.got = s.count => After([r EXCEPT !.pc = "flush"], r, s)
    BY <1>0, <1>8, GotoShape, Zenon DEF Loop, At
  <2>3. QED
    BY <1>4, <1>5, <1>8, <2>1, <2>2, Zenon DEF Loop, Goto, Become
<1>9. CASE PollIn(d)
  <2>1. After([r EXCEPT !.pc = "read"], r, s)
    BY <1>0, <1>9, GotoShape, Zenon DEF PollIn, At
  <2>2. QED
    BY <1>4, <1>5, <1>9, <2>1, Zenon DEF PollIn, Goto, Become
<1>10. CASE PollHup(d)
  <2>1. After([r EXCEPT !.pc = "read"], r, s)
    BY <1>0, <1>10, GotoShape, Zenon DEF PollHup, At
  <2>2. After([r EXCEPT !.await = FALSE, !.pc = "eof"], r, s)
    BY <1>0, <1>10, AwaitShape, Zenon DEF PollHup, At
  <2>3. QED
    BY <1>4, <1>5, <1>10, <2>1, <2>2, Zenon DEF PollHup, Goto, Become
<1>11. CASE PollOut(d)
  <2>1. After([r EXCEPT !.pc = "write"], r, s)
    BY <1>0, <1>11, GotoShape, Zenon DEF PollOut, At
  <2>2. QED
    BY <1>4, <1>5, <1>11, <2>1, Zenon DEF PollOut, Goto, Become
<1>12. CASE Flush(d)
  <2>1. ~(r.held > 0) => After([r EXCEPT !.pc = "status"], r, s)
    BY <1>0, <1>12, GotoShape, Zenon DEF Flush, At
  <2>2. r.held > 0 => After([r EXCEPT !.left = r.held, !.held = 0, !.pc = "write"], r, s)
    BY <1>0, <1>12, FlushShape, Zenon DEF Flush, At
  <2>3. QED
    BY <1>5, <1>12, <2>1, <2>2, Zenon DEF Flush, Goto, Become
<1>13. CASE EmitStatus(d)
  <2>1. After([r EXCEPT !.pc = "stop"], r, s)
    BY <1>0, <1>13, GotoShape, Zenon DEF EmitStatus, At
  <2>2. QED
    BY <1>3, <1>4, <1>5, <1>13, <2>1, Zenon DEF EmitStatus, Goto, Become
<1>14. CASE ReadFile(d)
  <2>1. After(Took(r, s), r, s) /\ After(AtEof(r), r, s)
    BY <1>0, <1>14, TookShape, EofShape, Zenon DEF ReadFile, At
  <2>2. QED
    BY <1>3, <1>5, <1>14, <2>1, Zenon DEF ReadFile, Become
<1>15. CASE ReadStream(d)
  <2>1. r.pc = "read"
    BY <1>15, Zenon DEF ReadStream, At
  <2>2. After(Took([r EXCEPT !.await = FALSE], s), r, s)
    <3>1. /\ Good([r EXCEPT !.await = FALSE], s) /\ [r EXCEPT !.await = FALSE].pc = "read"
          /\ [r EXCEPT !.await = FALSE].borrowed = r.borrowed
          /\ [r EXCEPT !.await = FALSE].code = r.code
      BY <1>0, <2>1, AwaitShape, ZenonT(30) DEF Good, IsRun, RunFields
    <3>2. After(Took([r EXCEPT !.await = FALSE], s), [r EXCEPT !.await = FALSE], s)
      BY <3>1, TookShape, Zenon
    <3>3. QED
      BY <2>1, <3>1, <3>2, Zenon DEF After
  <2>3. \A p \in {"pollhup", "eof"} : After([r EXCEPT !.pc = p], r, s)
    BY <1>0, <2>1, GotoShape, Zenon
  <2>4. After([r EXCEPT !.await = FALSE, !.pc = "pollin"], r, s)
    BY <1>0, <2>1, AwaitShape, Zenon
  <2>5. QED
    BY <1>3, <1>4, <1>5, <1>15, <2>2, <2>3, <2>4, Zenon DEF ReadStream, Goto, Become
<1>16. CASE ReadsEof(d)
  <2>1. After(AtEof(r), r, s)
    BY <1>0, <1>16, EofShape, Zenon DEF ReadsEof, At
  <2>2. QED
    BY <1>4, <1>5, <1>16, <2>1, Zenon DEF ReadsEof, Become
<1>17. ASSUME r.pc = "write", NEW n \in 1 .. r.left, Wrote(d, n) PROVE After(run'[d], r, s)
  <2>1. After([r EXCEPT !.put = @ + n, !.left = @ - n,
                        !.pc = IF r.left > n THEN "write"
                               ELSE IF r.eof \/ r.got = s.count THEN "flush" ELSE "loop"], r, s)
    BY <1>0, <1>17, WroteShape, Zenon
  <2>2. QED
    BY <1>5, <1>17, <2>1, Zenon DEF Wrote, Become
<1>18. CASE WriteFile(d)
  <2>1. r.pc = "write" /\ r.left \in 1 .. r.left /\ r.left > 0
    BY <1>0, <1>18 DEF WriteFile, At, Good, IsRun, Copied
  <2>2. QED
    BY <1>3, <1>17, <1>18, <2>1, Zenon DEF WriteFile
<1>19. CASE WriteStream(d)
  <2>1. r.pc = "write" /\ 1 \in 1 .. r.left
    BY <1>0, <1>19, SMTT(30) DEF WriteStream, At, Good, IsRun, Copied
  <2>2. After([r EXCEPT !.pc = "pollout"], r, s)
    BY <1>0, <2>1, GotoShape, Zenon
  <2>3. QED
    BY <1>3, <1>4, <1>5, <1>17, <1>19, <2>1, <2>2, Zenon DEF WriteStream, Goto, Become
<1>20. QED
  BY <1>6, <1>7, <1>8, <1>9, <1>10, <1>11, <1>12, <1>13, <1>14, <1>15, <1>16,
     <1>18, <1>19 DEF Moves

LEMMA LeaseTypes ==
  ASSUME Types, NEW d, NEW f \in Fds, Borrow(d, f) \/ Restore(f)
  PROVE  /\ flag' \in [Descriptions -> BOOLEAN]
         /\ leases' \in [Fds -> [refs : Int, changed : BOOLEAN]]
<1>1. flag[Ofd[f]] \in BOOLEAN /\ leases[f].changed \in BOOLEAN
  BY Zenon DEF Types, Descriptions
<1>2. flag' \in [Descriptions -> BOOLEAN]
  BY <1>1, Zenon DEF Types, Borrow, Restore
<1>3. leases' \in [Fds -> [refs : Int, changed : BOOLEAN]]
  <2>1. leases[f] \in [refs : Int, changed : BOOLEAN]
    BY DEF Types
  <2>2. /\ [leases[f] EXCEPT !.refs = @ + 1] \in [refs : Int, changed : BOOLEAN]
        /\ [leases[f] EXCEPT !.refs = @ - 1] \in [refs : Int, changed : BOOLEAN]
    BY <2>1
  <2>3. [refs |-> 1, changed |-> ~flag[Ofd[f]]] \in [refs : Int, changed : BOOLEAN]
    BY <1>1
  <2>4. NoLease \in [refs : Int, changed : BOOLEAN]
    BY DEF NoLease
  <2>5. QED
    BY <2>2, <2>3, <2>4, ZenonT(30) DEF Types, Borrow, Restore
<1>4. QED
  BY <1>2, <1>3, Zenon

(* Giving a descriptor back, or taking one, as far as the copy can tell.   *)
LEMMA BorrowedShape ==
  ASSUME NEW r, NEW s, Good(r, s), NEW b \in SUBSET Fds
  PROVE  /\ r.pc = "unwind" => Good([r EXCEPT !.borrowed = b], s)
         /\ r.pc = "status" => Good([[r EXCEPT !.borrowed = b] EXCEPT !.pc = "emit"], s)
         /\ r.pc = "status" =>
              Good([[r EXCEPT !.borrowed = b] EXCEPT !.pc = "unwind", !.code = 1], s)
         /\ \A p \in {"openout", "borrowout", "loop", "read"} : r.pc \in {"borrowin", "borrowout"} =>
              /\ Good([r EXCEPT !.pc = p, !.borrowed = b], s)
              /\ Good([r EXCEPT !.pc = p], s)
BY DEF Good, IsRun, Copied, RunFields, Points

(* The step of one run that leaves every context alone.                    *)
LEMMA RunKept ==
  ASSUME SignalInv, NEW d \in Runs,
         DOMAIN run' = Runs, \A x \in Runs \ {d} : run'[x] = run[x],
         UNCHANGED <<cfg, host, ctx, delivered>>,
         flag' \in [Descriptions -> BOOLEAN],
         leases' \in [Fds -> [refs : Int, changed : BOOLEAN]],
         Good(run'[d], cfg[d]), run'[d].pc # "context",
         run'[d].code = 0 => /\ run[d].code = 0
                             /\ run'[d].left = run[d].left /\ run'[d].held = run[d].held
                             /\ run'[d].eof = run[d].eof /\ run'[d].got = run[d].got
  PROVE  SignalInv'
<1>1. Types'
  BY Zenon DEF SignalInv, Types, Good
<1>2. ASSUME NEW x \in Runs
      PROVE  /\ Notified(ctx[x], x \in delivered)'
             /\ run'[x].pc = "context" => ctx'[x] = NoContext
             /\ Copied(run[x], cfg[x])'
             /\ Zero(x)'
  <2>1. CASE x = d
    BY <1>2, <2>1, ZenonT(30) DEF SignalInv, Notified, Settled, Heard, Good, Copied, Zero
  <2>2. CASE x # d
    BY <1>2, <2>2 DEF SignalInv, Notified, Settled, Heard, Copied, Zero
  <2>3. QED
    BY <2>1, <2>2, Zenon
<1>3. QED
  BY <1>1, <1>2, Zenon DEF SignalInv

(* A step that changes the context of one run and nothing else.            *)
LEMMA ContextKept ==
  ASSUME SignalInv, NEW d \in Runs,
         DOMAIN ctx' = Runs, \A x \in Runs \ {d} : ctx'[x] = ctx[x],
         UNCHANGED <<cfg, host, flag, leases, run, delivered>>,
         IsContext(ctx'[d]), Notified(ctx'[d], d \in delivered), run[d].pc # "context",
         run[d].code = 0 => ~ctx'[d].sig /\ ctx'[d].notifier = "exited"
  PROVE  SignalInv'
<1>1. Types'
  BY Zenon DEF SignalInv, Types
<1>2. ASSUME NEW x \in Runs
      PROVE  /\ Notified(ctx[x], x \in delivered)'
             /\ run'[x].pc = "context" => ctx'[x] = NoContext
             /\ Copied(run[x], cfg[x])'
             /\ Zero(x)'
  <2>1. CASE x = d
    BY <1>2, <2>1, Zenon DEF SignalInv, Notified, Settled, Heard, Copied, Zero
  <2>2. CASE x # d
    BY <1>2, <2>2 DEF SignalInv, Notified, Settled, Heard, Copied, Zero
  <2>3. QED
    BY <2>1, <2>2, Zenon
<1>3. QED
  BY <1>1, <1>2, Zenon DEF SignalInv
-----------------------------------------------------------------------------
(* Signals *)

LEMMA SignalInit == Init => SignalInv
<1> SUFFICES ASSUME Init PROVE SignalInv
  OBVIOUS
<1>1. Types
  BY TypesInit, Zenon
<1> PICK x \in Scenes :
         /\ run = [d \in Runs |-> IF d \in x.active THEN Begin(x.cfg[d].skip)
                                  ELSE [Begin(0) EXCEPT !.pc = "gone"]]
         /\ ctx = [d \in Runs |-> NoContext]
         /\ delivered = {}
  BY Zenon DEF Init
<1>2. ASSUME NEW d \in Runs
      PROVE  /\ Notified(ctx[d], d \in delivered)
             /\ run[d].pc = "context" => ctx[d] = NoContext
             /\ Copied(run[d], cfg[d])
             /\ Zero(d)
  <2>1. cfg[d].obs \in Nat \ {0}
    BY <1>1, <1>2, OperandTypes, Zenon
  <2>2. ASSUME NEW n PROVE /\ Copied(Begin(n), cfg[d]) /\ Begin(n).code = -1
    BY <2>1 DEF Begin, Copied
  <2>3. LET r == [Begin(0) EXCEPT !.pc = "gone"] IN Copied(r, cfg[d]) /\ r.code = -1
    BY <2>1 DEF Begin, Copied
  <2>4. Copied(run[d], cfg[d]) /\ run[d].code = -1
    BY <1>2, <2>2, <2>3, Zenon
  <2>5. QED
    BY <1>2, <2>4 DEF Notified, Settled, Heard, NoContext, Zero
<1>3. QED
  BY <1>1, <1>2, Zenon DEF SignalInv

LEMMA SignalRun ==
  ASSUME SignalInv, NEW d \in Runs, RunStep(d)
  PROVE  SignalInv'
<1>0. /\ Types /\ Good(run[d], cfg[d]) /\ IsContext(ctx[d]) /\ Notified(ctx[d], d \in delivered)
      /\ (run[d].pc = "context" => ctx[d] = NoContext) /\ Zero(d)
      /\ (run[d].code = 0 => run[d].pc \in {"unwind", "gone"})
  BY OperandTypes, SMTT(30) DEF SignalInv, Types, Good, Copied
<1>1. CASE Moves(d)
  <2>1. run[d].pc \notin {"unwind", "gone"}
    BY <1>1, Zenon
       DEF Moves, OpenIn, OpenOut, Loop, PollIn, PollHup, PollOut, Flush, EmitStatus,
                ReadFile, ReadStream, ReadsEof, WriteFile, WriteStream, At
  <2>2. /\ DOMAIN run' = Runs
        /\ After(run'[d], run[d], cfg[d])
        /\ \A x \in Runs \ {d} : run'[x] = run[x]
        /\ UNCHANGED <<cfg, host, flag, leases, ctx, delivered>>
    BY <1>0, <1>1, MovesAre, Zenon DEF Good
  <2>3. run'[d].code # 0 /\ run'[d].pc # "context" /\ Good(run'[d], cfg[d])
    BY <1>0, <2>1, <2>2, Zenon DEF After
  <2>4. /\ flag' \in [Descriptions -> BOOLEAN]
        /\ leases' \in [Fds -> [refs : Int, changed : BOOLEAN]]
    BY <1>0, <2>2, Zenon DEF Types
  <2>5. QED
    BY <2>2, <2>3, <2>4, RunKept, Zenon
<1>2. ASSUME NEW p, NEW f \in {cfg[d].in, cfg[d].out},
             NEW n \in {"openout", "borrowout", "loop", "read"},
             p \in {"borrowin", "borrowout"}, BorrowAt(d, p, f, n)
      PROVE  SignalInv'
  <2>1. run[d].borrowed \subseteq Fds /\ (f = File \/ f \in Fds) /\ run[d].pc = p
    BY <1>0, <1>2, OperandTypes DEF BorrowAt, At, Good, IsRun
  <2>2. /\ flag' \in [Descriptions -> BOOLEAN]
        /\ leases' \in [Fds -> [refs : Int, changed : BOOLEAN]]
    <3>1. CASE f = File
      BY <1>0, <1>2, <3>1, Zenon DEF Types, BorrowAt
    <3>2. CASE f # File
      BY <1>0, <1>2, <2>1, <3>2, LeaseTypes, Zenon DEF BorrowAt
    <3>3. QED
      BY <3>1, <3>2, Zenon
  <2>3. f \in Fds => Good([run[d] EXCEPT !.pc = n, !.borrowed = run[d].borrowed \cup {f}], cfg[d])
    BY <1>0, <1>2, <2>1, BorrowedShape, ZenonT(30)
  <2>4. Good([run[d] EXCEPT !.pc = n], cfg[d])
    BY <1>0, <1>2, <2>1, BorrowedShape, Zenon
  <2>5. /\ DOMAIN run' = Runs /\ \A x \in Runs \ {d} : run'[x] = run[x]
        /\ UNCHANGED <<cfg, host, ctx, delivered>>
        /\ \/ run'[d] = [run[d] EXCEPT !.pc = n]
           \/ f \in Fds /\ run'[d] = [run[d] EXCEPT !.pc = n, !.borrowed = run[d].borrowed \cup {f}]
    BY <1>0, <1>2, <2>1, Zenon DEF Types, BorrowAt, Goto, Become, hostVars
  <2>6. Good(run'[d], cfg[d])
    BY <2>3, <2>4, <2>5, Zenon
  <2>7. run'[d].pc = n /\ run'[d].code = run[d].code
    BY <1>0, <2>5, ZenonT(30) DEF Good, IsRun, RunFields
  <2>8. run'[d].code # 0 /\ run'[d].pc # "context"
    BY <1>0, <1>2, <2>1, <2>7
  <2>9. QED
    BY <2>2, <2>5, <2>6, <2>8, RunKept, Zenon
<1>3. CASE BorrowIn(d)
  BY <1>2, <1>3 DEF BorrowIn
<1>4. CASE BorrowOut(d)
  BY <1>2, <1>4 DEF BorrowOut
<1>5. CASE CloseOut(d)
  <2> DEFINE own == {cfg[d].out} \cap run[d].borrowed
             b == IF cfg[d].fifoOut THEN run[d].borrowed \ own ELSE run[d].borrowed
  <2>1. run[d].borrowed \subseteq Fds /\ b \in SUBSET Fds /\ run[d].pc = "status"
    BY <1>0, <1>5 DEF CloseOut, At, Good, IsRun
  <2>2. /\ flag' \in [Descriptions -> BOOLEAN]
        /\ leases' \in [Fds -> [refs : Int, changed : BOOLEAN]]
    <3>1. CASE cfg[d].fifoOut /\ own # {}
      BY <1>0, <1>5, <2>1, <3>1, LeaseTypes, Zenon DEF CloseOut
    <3>2. CASE ~(cfg[d].fifoOut /\ own # {})
      BY <1>0, <1>5, <3>2, Zenon DEF CloseOut, Types
    <3>3. QED
      BY <3>1, <3>2
  <2>3. /\ DOMAIN run' = Runs /\ \A x \in Runs \ {d} : run'[x] = run[x]
        /\ UNCHANGED <<cfg, host, ctx, delivered>>
        /\ \/ run'[d] = [[run[d] EXCEPT !.borrowed = b] EXCEPT !.pc = "emit"]
           \/ run'[d] = [[run[d] EXCEPT !.borrowed = b] EXCEPT !.pc = "unwind", !.code = 1]
    BY <1>0, <1>5, Zenon DEF Types, CloseOut, Become, hostVars
  <2> HIDE DEF b
  <2>4. Good(run'[d], cfg[d])
    <3>1. /\ Good([[run[d] EXCEPT !.borrowed = b] EXCEPT !.pc = "emit"], cfg[d])
          /\ Good([[run[d] EXCEPT !.borrowed = b] EXCEPT !.pc = "unwind", !.code = 1], cfg[d])
      BY <1>0, <2>1, BorrowedShape, Zenon
    <3>2. QED
      BY <2>3, <3>1, Zenon
  <2>5. run'[d].pc \in {"emit", "unwind"} /\ run'[d].code \in {run[d].code, 1}
    <3>1. LET q == [[run[d] EXCEPT !.borrowed = b] EXCEPT !.pc = "emit"]
          IN  q.pc = "emit" /\ q.code = run[d].code
      BY <1>0 DEF Good, IsRun, RunFields
    <3>2. LET q == [[run[d] EXCEPT !.borrowed = b] EXCEPT !.pc = "unwind", !.code = 1]
          IN  q.pc = "unwind" /\ q.code = 1
      BY <1>0 DEF Good, IsRun, RunFields
    <3>3. QED
      BY <2>3, <3>1, <3>2, Zenon
  <2>6. run'[d].code # 0 /\ run'[d].pc # "context"
    BY <1>0, <2>1, <2>5
  <2>7. QED
    BY <2>2, <2>3, <2>4, <2>6, RunKept
<1>6. ASSUME NEW f \in run[d].borrowed, At(d, "unwind"), Restore(f),
             Become(d, [run[d] EXCEPT !.borrowed = @ \ {f}]),
             UNCHANGED <<hostVars, pipes, ctx, signals, delivered>>
      PROVE  SignalInv'
  <2>1. /\ run[d].borrowed \subseteq Fds /\ f \in Fds /\ run[d].pc = "unwind"
        /\ run[d].borrowed \ {f} \in SUBSET Fds
    BY <1>0, <1>6 DEF At, Good, IsRun
  <2>2. /\ flag' \in [Descriptions -> BOOLEAN]
        /\ leases' \in [Fds -> [refs : Int, changed : BOOLEAN]]
    BY <1>0, <1>6, <2>1, LeaseTypes, Zenon
  <2>3. /\ DOMAIN run' = Runs /\ \A x \in Runs \ {d} : run'[x] = run[x]
        /\ UNCHANGED <<cfg, host, ctx, delivered>>
        /\ run'[d] = [run[d] EXCEPT !.borrowed = run[d].borrowed \ {f}]
    BY <1>0, <1>6 DEF Types, Become, hostVars
  <2>4. Good(run'[d], cfg[d])
    BY <1>0, <2>1, <2>3, BorrowedShape, ZenonT(30)
  <2>5. /\ run'[d].pc = "unwind"
        /\ run'[d].code = run[d].code /\ run'[d].left = run[d].left
        /\ run'[d].held = run[d].held /\ run'[d].eof = run[d].eof /\ run'[d].got = run[d].got
    BY <1>0, <2>1, <2>3 DEF Good, IsRun, RunFields
  <2>6. QED
    BY <2>2, <2>3, <2>4, <2>5, RunKept, Zenon
<1>7. CASE UnwindOut(d)
  BY <1>6, <1>7 DEF UnwindOut
<1>8. CASE UnwindIn(d)
  BY <1>6, <1>8 DEF UnwindIn
<1>9. ASSUME DOMAIN run' = Runs, \A x \in Runs \ {d} : run'[x] = run[x],
             DOMAIN ctx' = Runs, \A x \in Runs \ {d} : ctx'[x] = ctx[x],
             UNCHANGED <<cfg, host, flag, leases, delivered>>,
             Good(run'[d], cfg[d]), run'[d].pc # "context",
             IsContext(ctx'[d]), Notified(ctx'[d], d \in delivered), Zero(d)'
      PROVE  SignalInv'
  <2>1. Types'
    BY <1>0, <1>9 DEF Types, Good
  <2>2. ASSUME NEW x \in Runs
        PROVE  /\ Notified(ctx[x], x \in delivered)'
               /\ run'[x].pc = "context" => ctx'[x] = NoContext
               /\ Copied(run[x], cfg[x])'
               /\ Zero(x)'
    <3>1. CASE x = d
      BY <1>9, <3>1, ZenonT(30) DEF Notified, Settled, Heard, Good, Copied
    <3>2. CASE x # d
      <4>1. /\ run'[x] = run[x] /\ ctx'[x] = ctx[x] /\ cfg' = cfg
            /\ (x \in delivered)' = (x \in delivered)
        BY <1>9, <2>2, <3>2, Zenon
      <4>2. /\ Notified(ctx[x], x \in delivered)
            /\ run[x].pc = "context" => ctx[x] = NoContext
            /\ Copied(run[x], cfg[x]) /\ Zero(x)
        BY <2>2, Zenon DEF SignalInv
      <4>3. Notified(ctx[x], x \in delivered)' /\ Zero(x)'
        BY <4>1, <4>2, Zenon DEF Notified, Settled, Heard, Zero
      <4>4. QED
        BY <4>1, <4>2, <4>3, Zenon DEF Copied
    <3>3. QED
      BY <3>1, <3>2
  <2>3. QED
    BY <2>1, <2>2 DEF SignalInv
<1>10. CASE NewContext(d)
  <2>1. PICK p \in cfg[d].selfpipe :
             ctx' = [ctx EXCEPT ![d] = [@ EXCEPT !.registered = TRUE, !.pipe = p,
                                                 !.notifier = "waiting"]]
    BY <1>10, Zenon DEF NewContext
  <2>2. PICK n \in {"openin", "borrowin"} : Goto(d, n)
    BY <1>10, Zenon DEF NewContext
  <2>3. /\ run[d].pc = "context" /\ ctx[d] = NoContext /\ p \in {"none", "open"}
        /\ UNCHANGED <<cfg, host, flag, leases, delivered>>
    BY <1>0, <1>10, OperandTypes, Zenon DEF NewContext, At, hostVars
  <2>4. /\ DOMAIN run' = Runs /\ \A x \in Runs \ {d} : run'[x] = run[x]
        /\ run'[d] = [run[d] EXCEPT !.pc = n]
        /\ DOMAIN ctx' = Runs /\ \A x \in Runs \ {d} : ctx'[x] = ctx[x]
        /\ ctx'[d] = [NoContext EXCEPT !.registered = TRUE, !.pipe = p, !.notifier = "waiting"]
    BY <1>0, <2>1, <2>2, <2>3, Zenon DEF Types, Goto, Become
  <2>5. Good([run[d] EXCEPT !.pc = n], cfg[d]) /\ [run[d] EXCEPT !.pc = n].pc = n
    BY <1>0, <2>2, <2>3, Zenon DEF Good, IsRun, Copied, RunFields, Points
  <2>6. [run[d] EXCEPT !.pc = n].code = run[d].code
    BY <1>0, Zenon DEF Good, IsRun, RunFields
  <2>7. /\ IsContext(ctx'[d])
        /\ ctx'[d].pipe # "closed" /\ ~ctx'[d].done /\ ctx'[d].notifier = "waiting"
    BY <2>3, <2>4, Zenon DEF NoContext, IsContext, ContextFields
  <2>8. Notified(ctx'[d], d \in delivered)
    BY <1>0, <2>3, <2>7 DEF Notified, Settled, Heard, NoContext
  <2>9. Zero(d)'
    BY <1>0, <2>3, <2>4, <2>6, Zenon DEF Zero
  <2>10. run'[d].pc # "context" /\ Good(run'[d], cfg[d])
    BY <2>4, <2>5, Zenon
  <2>11. QED
    BY <1>9, <2>3, <2>4, <2>7, <2>8, <2>9, <2>10, Zenon
<1>11. Stopping(d) => run[d].pc \in {"stop", "unwind"}
  BY Zenon DEF Stopping, At
<1>12. CASE StopNotify(d)
  <2>1. /\ DOMAIN ctx' = Runs /\ \A x \in Runs \ {d} : ctx'[x] = ctx[x]
        /\ ctx'[d] = [ctx[d] EXCEPT !.registered = FALSE]
        /\ UNCHANGED <<cfg, host, flag, leases, run, delivered>>
    BY <1>0, <1>12 DEF StopNotify, Types, hostVars
  <2>2. IsContext(ctx'[d]) /\ Notified(ctx'[d], d \in delivered)
    BY <1>0, <2>1, SMTT(30) DEF IsContext, ContextFields, Notified, Settled, Heard
  <2>3. run[d].code = 0 => ~ctx'[d].sig /\ ctx'[d].notifier = "exited"
    BY <1>0, <2>1 DEF Zero, IsContext, ContextFields
  <2>4. run[d].pc # "context"
    BY <1>11, <1>12 DEF StopNotify
  <2>5. QED
    BY <2>1, <2>2, <2>3, <2>4, ContextKept, Zenon
<1>13. CASE StopDone(d)
  <2>1. /\ DOMAIN ctx' = Runs /\ \A x \in Runs \ {d} : ctx'[x] = ctx[x]
        /\ ctx'[d] = [ctx[d] EXCEPT !.done = TRUE] /\ ~ctx[d].registered
        /\ UNCHANGED <<cfg, host, flag, leases, run, delivered>>
    BY <1>0, <1>13, SMTT(30) DEF StopDone, Types, hostVars
  <2>2. IsContext(ctx'[d]) /\ Notified(ctx'[d], d \in delivered)
    BY <1>0, <2>1 DEF IsContext, ContextFields, Notified, Settled, Heard
  <2>3. run[d].code = 0 => ~ctx'[d].sig /\ ctx'[d].notifier = "exited"
    BY <1>0, <2>1 DEF Zero, IsContext, ContextFields
  <2>4. run[d].pc # "context"
    BY <1>11, <1>13 DEF StopDone
  <2>5. QED
    BY <2>1, <2>2, <2>3, <2>4, ContextKept, Zenon
<1>14. CASE StopWait(d)
  <2> DEFINE c == [ctx[d] EXCEPT !.pipe = IF @ = "open" THEN "closed" ELSE @]
  <2>1. /\ DOMAIN ctx' = Runs /\ \A x \in Runs \ {d} : ctx'[x] = ctx[x]
        /\ ctx'[d] = c
        /\ ctx[d].done /\ ctx[d].notifier = "exited"
        /\ UNCHANGED <<cfg, host, flag, leases, delivered>>
        /\ run[d].pc \in {"stop", "unwind"} /\ Settle(d)
    BY <1>0, <1>11, <1>14, Zenon DEF StopWait, Types, hostVars
  <2>2. /\ IsContext(ctx'[d]) /\ Notified(ctx'[d], d \in delivered)
        /\ ctx'[d].sig = ctx[d].sig /\ ctx'[d].notifier = "exited"
    <3> HIDE DEF c
    <3>1. /\ DOMAIN c = ContextFields
          /\ \A x \in ContextFields \ {"pipe"} : c[x] = ctx[d][x]
          /\ c.pipe = IF ctx[d].pipe = "open" THEN "closed" ELSE ctx[d].pipe
      BY <1>0, Zenon DEF c, IsContext, ContextFields
    <3>2. /\ c.registered = ctx[d].registered /\ c.sigc = ctx[d].sigc /\ c.done = ctx[d].done
          /\ c.notifier = ctx[d].notifier /\ c.sig = ctx[d].sig /\ c.woken = ctx[d].woken
      BY <3>1, Zenon DEF ContextFields
    <3>3. QED
      BY <1>0, <2>1, <3>1, <3>2, Zenon DEF IsContext, Notified, Settled, Heard
  <2>3. /\ DOMAIN run' = Runs /\ \A x \in Runs \ {d} : run'[x] = run[x]
    BY <1>0, <2>1, Zenon DEF Settle, Leave, Goto, Become, Types
  <2>4. CASE run[d].pc = "stop"
    <3>1. PICK n \in {0, 130} : /\ run'[d] = [run[d] EXCEPT !.pc = "unwind", !.code = n]
                                /\ n = 0 => ~ctx[d].sig
      <4>1. CASE ctx[d].sig
        BY <1>0, <2>1, <2>4, <4>1, SMTT(30) DEF Settle, At, Leave, Become, Types, Interrupted
      <4>2. CASE ~ctx[d].sig
        BY <1>0, <2>1, <2>4, <4>2, Zenon DEF Settle, At, Leave, Become, Types, Interrupted
      <4>3. QED
        BY <4>1, <4>2, Zenon
    <3>2. /\ Good([run[d] EXCEPT !.pc = "unwind", !.code = n], cfg[d])
          /\ run[d].left = 0 /\ run[d].held = 0 /\ (run[d].eof \/ run[d].got = cfg[d].count)
      BY <1>0, <2>4, <3>1, SMTT(30) DEF Good, IsRun, Copied, RunFields, Points
    <3>3. LET q == [run[d] EXCEPT !.pc = "unwind", !.code = n]
          IN  /\ q.pc = "unwind" /\ q.code = n /\ q.left = run[d].left /\ q.held = run[d].held
              /\ q.eof = run[d].eof /\ q.got = run[d].got
      BY <1>0, Zenon DEF Good, IsRun, RunFields
    <3>4. Zero(d)'
      BY <2>1, <2>2, <3>1, <3>2, <3>3, SMTT(30) DEF Zero
    <3>5. Good(run'[d], cfg[d]) /\ run'[d].pc # "context"
      BY <3>1, <3>2, <3>3, Zenon
    <3>6. QED
      BY <1>9, <2>1, <2>2, <2>3, <3>4, <3>5, Zenon
  <2>5. CASE run[d].pc # "stop"
    <3>1. run'[d] = [run[d] EXCEPT !.pc = "gone"] /\ run[d].pc = "unwind"
      BY <1>0, <2>1, <2>5, Zenon DEF Settle, At, Goto, Become, Types
    <3>2. Good([run[d] EXCEPT !.pc = "gone"], cfg[d])
      BY <1>0, <3>1 DEF Good, IsRun, Copied, RunFields, Points
    <3>3. LET q == [run[d] EXCEPT !.pc = "gone"]
          IN  /\ q.pc = "gone" /\ q.code = run[d].code /\ q.left = run[d].left
              /\ q.held = run[d].held /\ q.eof = run[d].eof /\ q.got = run[d].got
      BY <1>0, Zenon DEF Good, IsRun, RunFields
    <3>4. Zero(d)'
      BY <1>0, <2>1, <2>2, <3>1, <3>3, SMTT(30) DEF Zero
    <3>5. Good(run'[d], cfg[d]) /\ run'[d].pc # "context"
      BY <3>1, <3>2, <3>3, Zenon
    <3>6. QED
      BY <1>9, <2>1, <2>2, <2>3, <3>4, <3>5, Zenon
  <2>6. QED
    BY <2>4, <2>5
<1>15. QED
  BY <1>1, <1>3, <1>4, <1>5, <1>7, <1>8, <1>10, <1>12, <1>13, <1>14, Zenon DEF RunStep, Moves

LEMMA ContextShape ==
  ASSUME NEW c, IsContext(c), Settled(c)
  PROVE  /\ c.notifier = "storing" =>
              LET k == [c EXCEPT !.sig = TRUE, !.notifier = "waking"]
              IN  IsContext(k) /\ Settled(k) /\ Heard(k)
         /\ \A w \in BOOLEAN : c.notifier = "waking" =>
              LET k == [c EXCEPT !.woken = w, !.notifier = "exited"]
              IN  IsContext(k) /\ Settled(k) /\ (Heard(c) => Heard(k))
         /\ \A b \in BOOLEAN : (b => c.registered \/ c.sigc) =>
              LET k == [c EXCEPT !.sigc = b]
              IN  /\ IsContext(k) /\ Settled(k) /\ ((b \/ ~c.sigc) /\ (b \/ Heard(c)) => Heard(k))
                  /\ k.sig = c.sig /\ k.notifier = c.notifier
<1>1. ASSUME c.notifier = "storing"
      PROVE  LET k == [c EXCEPT !.sig = TRUE, !.notifier = "waking"]
             IN  IsContext(k) /\ Settled(k) /\ Heard(k)
  BY <1>1, Zenon DEF IsContext, ContextFields, Settled, Heard
<1>2. ASSUME NEW w \in BOOLEAN, c.notifier = "waking"
      PROVE  LET k == [c EXCEPT !.woken = w, !.notifier = "exited"]
             IN  IsContext(k) /\ Settled(k) /\ (Heard(c) => Heard(k))
  BY <1>2, Zenon DEF IsContext, ContextFields, Settled, Heard
<1>3. ASSUME NEW b \in BOOLEAN, b => c.registered \/ c.sigc
      PROVE  LET k == [c EXCEPT !.sigc = b]
             IN  /\ IsContext(k) /\ Settled(k) /\ ((b \/ ~c.sigc) /\ (b \/ Heard(c)) => Heard(k))
                 /\ k.sig = c.sig /\ k.notifier = c.notifier
  BY <1>3, Zenon DEF IsContext, ContextFields, Settled, Heard
<1>4. QED
  BY <1>1, <1>2, <1>3, Zenon

LEMMA SignalGoroutine ==
  ASSUME SignalInv, NEW d \in Runs, Goroutine(d)
  PROVE  SignalInv'
<1>0. /\ Types /\ IsContext(ctx[d]) /\ Notified(ctx[d], d \in delivered) /\ Zero(d)
  BY Zenon DEF SignalInv, Types
<1>1. /\ ctx[d].notifier \in {"waiting", "storing", "waking"}
      /\ UNCHANGED <<cfg, host, flag, leases, run, delivered>>
      /\ DOMAIN ctx' = Runs /\ \A x \in Runs \ {d} : ctx'[x] = ctx[x]
  BY <1>0, Zenon DEF Goroutine, Notifier, StoreSignal, Wake, Types, hostVars
<1>2. run[d].pc # "context" /\ run[d].code # 0
  BY <1>0, <1>1 DEF SignalInv, NoContext, Zero
<1>3. IsContext(ctx'[d]) /\ Notified(ctx'[d], d \in delivered)
  <2>1. CASE Notifier(d) /\ ctx[d].sigc
    <3>1. ctx'[d] = [ctx[d] EXCEPT !.sigc = FALSE, !.notifier = "storing"]
      BY <1>0, <2>1, Zenon DEF Notifier, Types
    <3>2. QED
      BY <1>0, <2>1, <3>1, Zenon DEF Notifier, IsContext, ContextFields, Notified, Settled, Heard
  <2>2. CASE Notifier(d) /\ ~ctx[d].sigc
    <3>1. ctx'[d] = [ctx[d] EXCEPT !.notifier = "exited"]
      BY <1>0, <2>2 DEF Notifier, Types
    <3>2. QED
      BY <1>0, <2>2, <3>1, SMTT(30)
         DEF Notifier, IsContext, ContextFields, Notified, Settled, Heard
  <2>3. CASE StoreSignal(d)
    <3>1. ctx'[d] = [ctx[d] EXCEPT !.sig = TRUE, !.notifier = "waking"]
      BY <1>0, <2>3 DEF StoreSignal, Types
    <3>2. QED
      BY <1>0, <2>3, <3>1, ContextShape, ZenonT(30) DEF StoreSignal, Notified
  <2>4. CASE Wake(d)
    <3>1. PICK w \in BOOLEAN : ctx'[d] = [ctx[d] EXCEPT !.woken = w, !.notifier = "exited"]
      BY <1>0, <2>4, Zenon DEF Wake, Types, IsContext
    <3>2. QED
      <4>1. ctx[d].notifier = "waking" /\ Settled(ctx[d])
        BY <1>0, <2>4, Zenon DEF Wake, Notified
      <4>2. LET k == [ctx[d] EXCEPT !.woken = w, !.notifier = "exited"]
            IN  IsContext(k) /\ Settled(k) /\ (Heard(ctx[d]) => Heard(k))
        BY <1>0, <4>1, ContextShape, ZenonT(30)
      <4>3. QED
        BY <1>0, <3>1, <4>2, Zenon DEF Notified
  <2>5. QED
    BY <2>1, <2>2, <2>3, <2>4, Zenon DEF Goroutine
<1>4. QED
  BY <1>1, <1>2, <1>3, ContextKept, Zenon

LEMMA SignalSignal == SignalInv /\ Signal => SignalInv'
<1> SUFFICES ASSUME SignalInv, Signal PROVE SignalInv'
  BY Zenon
<1>1. /\ UNCHANGED <<cfg, host, flag, leases, run>>
      /\ delivered' = delivered \cup {d \in Runs : ctx[d].registered}
      /\ DOMAIN ctx' = Runs
      /\ \A d \in Runs : ctx'[d] = [ctx[d] EXCEPT !.sigc = @ \/ ctx[d].registered]
  BY Zenon DEF Signal, hostVars
<1>2. ASSUME NEW d \in Runs
      PROVE  /\ IsContext(ctx'[d]) /\ Notified(ctx'[d], d \in delivered')
             /\ ctx'[d].sig = ctx[d].sig /\ ctx'[d].notifier = ctx[d].notifier
             /\ ctx[d] = NoContext => ctx'[d] = NoContext
  <2>1. IsContext(ctx[d]) /\ Notified(ctx[d], d \in delivered)
    BY Zenon DEF SignalInv, Types
  <2>2. ctx'[d] = [ctx[d] EXCEPT !.sigc = @ \/ ctx[d].registered]
    BY <1>1, Zenon
  <2>3. PICK b \in BOOLEAN : b = (ctx[d].sigc \/ ctx[d].registered)
    BY <2>1, Zenon DEF IsContext
  <2>4. ctx'[d] = [ctx[d] EXCEPT !.sigc = b]
    BY <2>2, <2>3, Zenon
  <2>5. /\ IsContext(ctx'[d]) /\ Settled(ctx'[d])
        /\ (b \/ ~ctx[d].sigc) /\ (b \/ Heard(ctx[d])) => Heard(ctx'[d])
        /\ ctx'[d].sig = ctx[d].sig /\ ctx'[d].notifier = ctx[d].notifier
    <3>1. Settled(ctx[d]) /\ (b => ctx[d].registered \/ ctx[d].sigc)
      BY <2>1, <2>3, Zenon DEF Notified
    <3>2. LET k == [ctx[d] EXCEPT !.sigc = b]
          IN  /\ IsContext(k) /\ Settled(k)
              /\ (b \/ ~ctx[d].sigc) /\ (b \/ Heard(ctx[d])) => Heard(k)
              /\ k.sig = ctx[d].sig /\ k.notifier = ctx[d].notifier
      BY <2>1, <3>1, ContextShape, Zenon
    <3>3. QED
      BY <2>4, <3>2, Zenon
  <2>6. d \in delivered' => b \/ d \in delivered
    BY <1>1, <2>3, Zenon
  <2>7. Notified(ctx'[d], d \in delivered')
    BY <2>1, <2>3, <2>5, <2>6, Zenon DEF Notified
  <2>8. ASSUME ctx[d] = NoContext PROVE ctx'[d] = NoContext
    <3>1. ~ctx[d].sigc /\ ~ctx[d].registered
      BY <2>8 DEF NoContext
    <3>2. b = FALSE
      BY <2>3, <3>1, Zenon
    <3>3. ctx'[d] = [NoContext EXCEPT !.sigc = FALSE]
      BY <2>4, <2>8, <3>2, Zenon
    <3>4. QED
      BY <3>3, Zenon DEF NoContext
  <2>9. QED
    BY <2>5, <2>7, <2>8, Zenon
<1>3. Types'
  BY <1>1, <1>2, SMTT(30) DEF SignalInv, Types
<1>4. ASSUME NEW d \in Runs
      PROVE  /\ Notified(ctx[d], d \in delivered)'
             /\ run'[d].pc = "context" => ctx'[d] = NoContext
             /\ Copied(run[d], cfg[d])'
             /\ Zero(d)'
  BY <1>1, <1>2 DEF SignalInv, Copied, Zero
<1>5. QED
  BY <1>3, <1>4, Zenon DEF SignalInv

LEMMA SignalStep == SignalInv /\ [Next]_vars => SignalInv'
<1> SUFFICES ASSUME SignalInv, [Next]_vars PROVE SignalInv'
  BY Zenon
<1>1. CASE \E d \in Runs : RunStep(d) \/ Goroutine(d)
  BY <1>1, SignalRun, SignalGoroutine, Zenon
<1>2. CASE Signal
  BY <1>2, SignalSignal, Zenon
<1>3. CASE World \/ UNCHANGED vars
  <2>1. UNCHANGED <<cfg, host, flag, leases, run, ctx, delivered>>
    BY <1>3, Zenon DEF World, vars, hostVars
  <2>2. QED
    BY <2>1 DEF SignalInv, Types, Notified, Settled, Heard, Copied, Zero
<1>4. QED
  BY <1>1, <1>2, <1>3, Zenon DEF Next

(* The interrupt goroutine (newInterruptContext) never writes its byte     *)
(* after Stop closed the self-pipe: Stop waits for the goroutine first.    *)
THEOREM NoStrayWakeupHolds == Spec => []NoStrayWakeup
<1>1. SignalInv => NoStrayWakeup
  BY Zenon DEF SignalInv, Notified, Settled, Heard, NoStrayWakeup
<1>2. QED
  BY <1>1, SignalInit, SignalStep, PTL DEF Spec

(* copyDD returns 0 only when what was read was written, the input had     *)
(* ended or the count was reached, and no signal had reached the run: the  *)
(* goroutine prefers a signal that is in the channel to Stop, and nothing  *)
(* reaches the channel once Stop has begun.                                *)
THEOREM ZeroMeansCopiedHolds == Spec => []ZeroMeansCopied
<1>1. SignalInv => ZeroMeansCopied
  <2> SUFFICES ASSUME SignalInv, NEW d \in Runs, run[d].code = 0
               PROVE  /\ d \notin delivered
                      /\ run[d].put = run[d].got /\ run[d].held = 0
                      /\ run[d].eof \/ run[d].got = cfg[d].count
    BY Zenon DEF ZeroMeansCopied
  <2>1. IsRun(run[d]) /\ Notified(ctx[d], d \in delivered) /\ Copied(run[d], cfg[d]) /\ Zero(d)
    BY Zenon DEF SignalInv, Types
  <2>2. d \notin delivered
    BY <2>1, Zenon DEF Notified, Settled, Heard, Zero
  <2>3. run[d].put = run[d].got
    BY <2>1 DEF IsRun, Copied, Zero
  <2>4. QED
    BY <2>1, <2>2, <2>3, Zenon DEF Zero
<1>2. QED
  BY <1>1, SignalInit, SignalStep, PTL DEF Spec
-----------------------------------------------------------------------------
(* Leases *)

LEMMA LeaseInit == Init => LeaseInv
<1> SUFFICES ASSUME Init PROVE LeaseInv
  OBVIOUS
<1>1. Types
  BY TypesInit
<1> PICK x \in Scenes :
         /\ host = x.host /\ flag = x.host
         /\ leases = [f \in Fds |-> NoLease]
         /\ run = [d \in Runs |-> IF d \in x.active THEN Begin(x.cfg[d].skip)
                                  ELSE [Begin(0) EXCEPT !.pc = "gone"]]
  BY Zenon DEF Init
<1>2. \A d \in Runs : run[d].borrowed = {}
  BY Zenon DEF Begin
<1>3. \A f \in Fds : Leased(f)
  <2> TAKE f \in Fds
  <2>1. Borrowers(f) = {}
    BY <1>2, Zenon DEF Borrowers
  <2>2. leases[f].refs = 0 /\ Cardinality(Borrowers(f)) = 0
    BY <2>1, FS_EmptySet, Zenon DEF NoLease
  <2>3. QED
    BY <2>2 DEF Leased
<1>4. QED
  BY <1>1, <1>2, <1>3, Zenon DEF LeaseInv, Holds

LEMMA LeaseKept ==
  ASSUME LeaseInv, Types', UNCHANGED <<cfg, host, flag, leases>>,
         \A x \in Runs : run'[x].borrowed = run[x].borrowed,
         \A x \in Runs : Holds(run'[x], cfg[x])
  PROVE  LeaseInv'
<1>1. ASSUME NEW f \in Fds PROVE Leased(f)'
  <2>1. Borrowers(f)' = Borrowers(f)
    BY Zenon DEF Borrowers
  <2>2. QED
    BY <1>1, <2>1, Zenon DEF LeaseInv, Leased
<1>2. QED
  BY <1>1, Zenon DEF LeaseInv

LEMMA BorrowersFinite == \A f : IsFiniteSet(Borrowers(f)) /\ Cardinality(Borrowers(f)) \in Nat
<1> TAKE f
<1>1. IsFiniteSet(Runs) /\ Borrowers(f) \subseteq Runs
  BY DdAssumption, Zenon DEF Borrowers
<1>2. IsFiniteSet(Borrowers(f))
  BY <1>1, FS_Subset, Zenon
<1>3. QED
  BY <1>2, FS_CardinalityType, Zenon

LEMMA BorrowLease ==
  ASSUME LeaseInv, Types', NEW d \in Runs, NEW f \in Fds,
         f \notin run[d].borrowed, Borrow(d, f),
         run'[d].borrowed = run[d].borrowed \cup {f},
         \A x \in Runs \ {d} : run'[x].borrowed = run[x].borrowed,
         \A x \in Runs : Holds(run'[x], cfg[x]), UNCHANGED <<cfg, host>>
  PROVE  LeaseInv'
<1>0. /\ flag[Ofd[f]] \in BOOLEAN /\ host[Ofd[f]] \in BOOLEAN /\ Leased(f)
      /\ Ofd[f] \in DOMAIN flag /\ f \in DOMAIN leases
      /\ DOMAIN leases[f] = {"refs", "changed"} /\ leases[f].refs \in Int
  BY DEF LeaseInv, Types, Descriptions
<1>1. Leased(f)'
  <2>1. Borrowers(f)' = Borrowers(f) \cup {d} /\ d \notin Borrowers(f)
    BY Zenon DEF Borrowers
  <2>2. Cardinality(Borrowers(f)') = Cardinality(Borrowers(f)) + 1 /\ Cardinality(Borrowers(f)) \in Nat
    BY <2>1, BorrowersFinite, FS_AddElement, Zenon
  <2>3. CASE leases[f].refs > 0
    <3>1. /\ leases'[f].refs = leases[f].refs + 1 /\ leases'[f].changed = leases[f].changed
          /\ UNCHANGED flag
      BY <1>0, <2>3, Zenon DEF Borrow
    <3>2. QED
      BY <1>0, <2>2, <2>3, <3>1, SMTT(30) DEF Leased
  <2>4. CASE ~(leases[f].refs > 0)
    <3>1. /\ leases'[f].refs = 1 /\ leases'[f].changed = ~flag[Ofd[f]]
          /\ flag'[Ofd[f]] = TRUE
      BY <1>0, <2>4, SMTT(30) DEF Borrow
    <3>2. leases[f].refs = 0 /\ Cardinality(Borrowers(f)) = 0
      BY <1>0, <2>2, <2>4, SMTT(30) DEF Leased
    <3>3. OneDescriptorEach => (flag[Ofd[f]] <=> host[Ofd[f]])
      BY <1>0, <3>2, Zenon DEF Leased
    <3>4. OneDescriptorEach => (leases'[f].changed <=> ~host'[Ofd[f]])
      BY <3>1, <3>3, Zenon
    <3>5. leases'[f].refs = Cardinality(Borrowers(f)') /\ leases'[f].refs # 0 /\ flag'[Ofd[f]]
      BY <2>2, <3>1, <3>2, SMTT(30)
    <3>6. QED
      BY <3>4, <3>5, Zenon DEF Leased
  <2>5. QED
    BY <2>3, <2>4, Zenon
<1>2. ASSUME NEW g \in Fds \ {f} PROVE Leased(g)'
  <2>1. Borrowers(g)' = Borrowers(g)
    BY <1>2, Zenon DEF Borrowers
  <2>2. /\ OneDescriptorEach => Ofd[g] # Ofd[f]
        /\ Leased(g) /\ g \in DOMAIN leases /\ Ofd[g] \in DOMAIN flag
    BY <1>2 DEF OneDescriptorEach, LeaseInv, Types, Descriptions
  <2>3. leases'[g] = leases[g] /\ (OneDescriptorEach => flag'[Ofd[g]] = flag[Ofd[g]])
    BY <1>2, <2>2, Zenon DEF Borrow
  <2>4. QED
    BY <2>1, <2>2, <2>3, Zenon DEF Leased
<1>3. QED
  BY <1>1, <1>2, Zenon DEF LeaseInv

LEMMA RestoreLease ==
  ASSUME LeaseInv, Types', NEW d \in Runs, NEW f \in Fds,
         f \in run[d].borrowed, Restore(f),
         run'[d].borrowed = run[d].borrowed \ {f},
         \A x \in Runs \ {d} : run'[x].borrowed = run[x].borrowed,
         \A x \in Runs : Holds(run'[x], cfg[x]), UNCHANGED <<cfg, host>>
  PROVE  LeaseInv'
<1>0. /\ flag[Ofd[f]] \in BOOLEAN /\ host[Ofd[f]] \in BOOLEAN /\ Leased(f)
      /\ Ofd[f] \in DOMAIN flag /\ f \in DOMAIN leases
      /\ DOMAIN leases[f] = {"refs", "changed"} /\ leases[f].refs \in Int
      /\ leases[f].changed \in BOOLEAN
  BY Zenon DEF LeaseInv, Types, Descriptions
<1>1. Leased(f)'
  <2>1. Borrowers(f)' = Borrowers(f) \ {d} /\ d \in Borrowers(f)
    BY Zenon DEF Borrowers
  <2>2. Cardinality(Borrowers(f)') = Cardinality(Borrowers(f)) - 1 /\ Cardinality(Borrowers(f)) \in Nat
    BY <2>1, BorrowersFinite, FS_RemoveElement, ZenonT(30)
  <2>3. Cardinality(Borrowers(f)) > 0
    BY <2>1, <2>2, BorrowersFinite, FS_EmptySet, SMTT(30)
  <2>4. CASE leases[f].refs > 1
    <3>1. /\ leases'[f].refs = leases[f].refs - 1 /\ leases'[f].changed = leases[f].changed
          /\ UNCHANGED flag
      BY <1>0, <2>4, SMTT(30) DEF Restore
    <3>2. OneDescriptorEach => flag[Ofd[f]] /\ (leases[f].changed <=> ~host[Ofd[f]])
      BY <1>0, <2>4, SMTT(30) DEF Leased
    <3>3. leases'[f].refs = Cardinality(Borrowers(f)') /\ leases'[f].refs > 0
      BY <1>0, <2>2, <2>4, <3>1, SMTT(30) DEF Leased
    <3>4. QED
      BY <3>1, <3>2, <3>3, SMTT(30) DEF Leased
  <2>5. CASE ~(leases[f].refs > 1)
    <3>1. /\ leases'[f].refs = 0
          /\ flag'[Ofd[f]] = (flag[Ofd[f]] /\ ~leases[f].changed)
      BY <1>0, <2>5, SMTT(30) DEF Restore, NoLease
    <3>2. leases[f].refs = 1 /\ Cardinality(Borrowers(f)) = 1
      BY <1>0, <2>2, <2>3, <2>5, SMTT(30) DEF Leased
    <3>3. OneDescriptorEach => flag[Ofd[f]] /\ (leases[f].changed <=> ~host[Ofd[f]])
      BY <1>0, <3>2, SMTT(30) DEF Leased
    <3>4. QED
      BY <1>0, <2>2, <3>1, <3>2, <3>3, SMTT(30) DEF Leased
  <2>6. QED
    BY <2>4, <2>5, Zenon
<1>2. ASSUME NEW g \in Fds \ {f} PROVE Leased(g)'
  <2>1. Borrowers(g)' = Borrowers(g)
    BY <1>2, Zenon DEF Borrowers
  <2>2. /\ OneDescriptorEach => Ofd[g] # Ofd[f]
        /\ Leased(g) /\ g \in DOMAIN leases /\ Ofd[g] \in DOMAIN flag
    <3>1. OneDescriptorEach => Ofd[g] # Ofd[f]
      BY <1>2, Zenon DEF OneDescriptorEach
    <3>2. Leased(g)
      BY <1>2, Zenon DEF LeaseInv
    <3>3. g \in DOMAIN leases /\ Ofd[g] \in DOMAIN flag
      BY <1>2 DEF LeaseInv, Types, Descriptions
    <3>4. QED
      BY <3>1, <3>2, <3>3, Zenon
  <2>3. leases'[g] = leases[g] /\ (OneDescriptorEach => flag'[Ofd[g]] = flag[Ofd[g]])
    BY <1>2, <2>2, Zenon DEF Restore
  <2>4. QED
    BY <2>1, <2>2, <2>3, Zenon DEF Leased
<1>3. QED
  BY <1>1, <1>2, Zenon DEF LeaseInv

(* The descriptors a step of a run takes or gives back.                    *)
LEMMA LeaseRun ==
  ASSUME SignalInv, LeaseInv, Types', NEW d \in Runs, RunStep(d)
  PROVE  LeaseInv'
<1> DEFINE r == run[d]
           s == cfg[d]
<1>0. /\ Types /\ Holds(r, s) /\ IsRun(r) /\ Good(r, s) /\ r.borrowed \subseteq Fds
      /\ File \notin Fds /\ (s.in = s.out => s.in = File)
      /\ s.in \in Fds \cup {File} /\ s.out \in Fds \cup {File}
  <2>1. Types /\ Holds(r, s)
    BY Zenon DEF LeaseInv
  <2>2. IsRun(r) /\ (s.in = s.out => s.in = File)
    BY <2>1, Zenon DEF Types
  <2>3. /\ s.in \in Fds \cup {File} /\ s.out \in Fds \cup {File}
        /\ s.count \in Int /\ s.obs \in Nat \ {0}
    BY <2>1, OperandTypes, Zenon
  <2>4. Copied(r, s)
    BY Zenon DEF SignalInv
  <2>5. r.borrowed \subseteq Fds /\ File \notin Fds
    BY <2>2, DdAssumption, Zenon DEF IsRun
  <2>6. QED
    BY <2>1, <2>2, <2>3, <2>4, <2>5, Zenon DEF Good
<1>1. ASSUME UNCHANGED <<cfg, host, flag, leases>>,
             \A x \in Runs \ {d} : run'[x] = run[x],
             run'[d].borrowed = r.borrowed, Holds(run'[d], s)
      PROVE  LeaseInv'
  <2>1. \A x \in Runs : run'[x].borrowed = run[x].borrowed /\ Holds(run'[x], cfg[x])
    BY <1>1, Zenon DEF LeaseInv
  <2>2. QED
    BY <1>1, <2>1, LeaseKept, Zenon
<1>2. CASE Moves(d)
  <2>1. /\ After(run'[d], r, s) /\ UNCHANGED <<cfg, host, flag, leases>>
        /\ \A x \in Runs \ {d} : run'[x] = run[x]
    BY <1>0, <1>2, MovesAre, Zenon DEF Good
  <2>2. Holds(run'[d], s) /\ run'[d].borrowed = r.borrowed
    BY <1>0, <2>1, Zenon DEF After, Holds
  <2>3. QED
    BY <1>1, <2>1, <2>2, Zenon
<1>3. CASE NewContext(d)
  <2>1. PICK n \in {"openin", "borrowin"} : Goto(d, n)
    BY <1>3, Zenon DEF NewContext
  <2>2. /\ UNCHANGED <<cfg, host, flag, leases>> /\ r.pc = "context"
        /\ \A x \in Runs \ {d} : run'[x] = run[x]
        /\ run'[d] = [r EXCEPT !.pc = n]
    BY <1>0, <1>3, <2>1, Zenon DEF NewContext, Goto, Become, At, Types, hostVars
  <2>3. run'[d].borrowed = r.borrowed /\ r.borrowed = {}
    BY <1>0, <2>2, Zenon DEF IsRun, RunFields, Holds
  <2>4. QED
    BY <1>1, <2>2, <2>3, Zenon DEF Holds
<1>4. CASE StopNotify(d) \/ StopDone(d)
  BY <1>0, <1>1, <1>4, Zenon DEF StopNotify, StopDone, hostVars
<1>5. CASE StopWait(d)
  <2> DEFINE c == IF ctx[d].sig THEN 130 ELSE 0
  <2>1. PICK n \in {"unwind", "gone"} :
             run'[d] = [r EXCEPT !.pc = n] \/ run'[d] = [r EXCEPT !.pc = n, !.code = c]
    BY <1>0, <1>5, Zenon DEF StopWait, Settle, Leave, Goto, Become, Types, Interrupted
  <2>2. UNCHANGED <<cfg, host, flag, leases>> /\ \A x \in Runs \ {d} : run'[x] = run[x]
    BY <1>0, <1>5, Zenon DEF StopWait, Settle, Leave, Goto, Become, Types, hostVars
  <2>3. run'[d].borrowed = r.borrowed /\ run'[d].pc = n
    <3> HIDE DEF c
    <3>1. LET q == [r EXCEPT !.pc = n] IN q.borrowed = r.borrowed /\ q.pc = n
      BY <1>0 DEF IsRun, RunFields
    <3>2. LET q == [r EXCEPT !.pc = n, !.code = c] IN q.borrowed = r.borrowed /\ q.pc = n
      BY <1>0 DEF IsRun, RunFields
    <3>3. QED
      BY <2>1, <3>1, <3>2, Zenon
  <2>4. QED
    BY <1>0, <1>1, <2>2, <2>3, Zenon DEF Holds
<1>6. ASSUME NEW p, NEW f \in Fds \cup {File},
             NEW n \in {"openout", "borrowout", "loop", "read"},
             f \in {s.in, s.out}, f \notin r.borrowed, BorrowAt(d, p, f, n),
             n \in {"openout", "borrowout"} => f = s.in /\ r.borrowed = {}
      PROVE  LeaseInv'
  <2>1. UNCHANGED <<cfg, host>> /\ \A x \in Runs \ {d} : run'[x] = run[x]
    BY <1>0, <1>6 DEF BorrowAt, Goto, Become, Types, hostVars
  <2>2. CASE f = File
    <3>1. run'[d] = [r EXCEPT !.pc = n] /\ UNCHANGED <<flag, leases>>
      BY <1>0, <1>6, <2>2, Zenon DEF BorrowAt, Goto, Become, Types
    <3>2. run'[d].borrowed = r.borrowed /\ run'[d].pc = n
      BY <1>0, <3>1, Zenon DEF IsRun, RunFields
    <3>3. Holds(run'[d], s)
      BY <1>0, <1>6, <3>2, Zenon DEF Holds
    <3>4. QED
      BY <1>1, <2>1, <3>1, <3>2, <3>3, SMTT(30)
  <2>3. CASE f # File
    <3>1. run'[d] = [r EXCEPT !.pc = n, !.borrowed = r.borrowed \cup {f}] /\ Borrow(d, f)
      BY <1>0, <1>6, <2>3, SMTT(30) DEF BorrowAt, Become, Types
    <3>2. run'[d].borrowed = r.borrowed \cup {f} /\ run'[d].pc = n
      BY <1>0, <3>1, SMTT(30) DEF IsRun, RunFields
    <3>3. Holds(run'[d], s)
      BY <1>0, <1>6, <2>3, <3>2, SMTT(30) DEF Holds
    <3>4. \A x \in Runs : Holds(run'[x], cfg[x])
      BY <2>1, <3>3, Zenon DEF LeaseInv
    <3>5. QED
      BY <1>6, <2>1, <2>3, <3>1, <3>2, <3>4, BorrowLease, ZenonT(30)
  <2>4. QED
    BY <2>2, <2>3, SMTT(30)
<1>7. CASE BorrowIn(d)
  <2>1. r.borrowed = {}
    BY <1>0, <1>7, Zenon DEF BorrowIn, BorrowAt, At, Holds
  <2>2. QED
    BY <1>0, <1>6, <1>7, <2>1, Zenon DEF BorrowIn
<1>8. CASE BorrowOut(d)
  <2>1. s.out \notin r.borrowed
    BY <1>0, <1>8, Zenon DEF BorrowOut, BorrowAt, At, Holds
  <2>2. QED
    BY <1>0, <1>6, <1>8, <2>1, Zenon DEF BorrowOut
<1>9. ASSUME NEW f \in r.borrowed, Restore(f), UNCHANGED <<cfg, host>>,
             \A x \in Runs \ {d} : run'[x] = run[x],
             run'[d].borrowed = r.borrowed \ {f}, run'[d].pc \in {"unwind", "emit"}
      PROVE  LeaseInv'
  <2>1. Holds(run'[d], s)
    BY <1>0, <1>9, Zenon DEF Holds
  <2>2. \A x \in Runs : Holds(run'[x], cfg[x])
    BY <1>9, <2>1, Zenon DEF LeaseInv
  <2>3. f \in Fds
    BY <1>0, <1>9, Zenon
  <2>4. QED
    BY <1>9, <2>2, <2>3, RestoreLease, Zenon
<1>10. ASSUME NEW f \in r.borrowed, At(d, "unwind"), Restore(f),
              Become(d, [run[d] EXCEPT !.borrowed = @ \ {f}]),
              UNCHANGED <<hostVars, pipes, ctx, signals, delivered>>
       PROVE  LeaseInv'
  <2>1. /\ UNCHANGED <<cfg, host>> /\ \A x \in Runs \ {d} : run'[x] = run[x]
        /\ run'[d] = [r EXCEPT !.borrowed = r.borrowed \ {f}]
    BY <1>0, <1>10, Zenon DEF Become, Types, hostVars
  <2>2. run'[d].borrowed = r.borrowed \ {f} /\ run'[d].pc = "unwind"
    BY <1>0, <1>10, <2>1, Zenon DEF IsRun, RunFields, At
  <2>3. QED
    BY <1>9, <1>10, <2>1, <2>2, Zenon
<1>11. CASE UnwindOut(d)
  BY <1>10, <1>11, Zenon DEF UnwindOut
<1>12. CASE UnwindIn(d)
  BY <1>10, <1>12, Zenon DEF UnwindIn
<1>13. CASE CloseOut(d)
  <2> DEFINE own == {s.out} \cap r.borrowed
             b == IF s.fifoOut THEN r.borrowed \ own ELSE r.borrowed
  <2>1. /\ \A x \in Runs \ {d} : run'[x] = run[x]
        /\ UNCHANGED <<cfg, host>>
        /\ \/ run'[d] = [[r EXCEPT !.borrowed = b] EXCEPT !.pc = "emit"]
           \/ run'[d] = [[r EXCEPT !.borrowed = b] EXCEPT !.pc = "unwind", !.code = 1]
    BY <1>0, <1>13, Zenon DEF Types, CloseOut, Become, hostVars
  <2>2. run'[d].borrowed = b /\ run'[d].pc \in {"emit", "unwind"}
    <3> HIDE DEF b
    <3>1. LET q == [[r EXCEPT !.borrowed = b] EXCEPT !.pc = "emit"]
          IN  q.pc = "emit" /\ q.borrowed = b
      BY <1>0, SMTT(30) DEF IsRun, RunFields
    <3>2. LET q == [[r EXCEPT !.borrowed = b] EXCEPT !.pc = "unwind", !.code = 1]
          IN  q.pc = "unwind" /\ q.borrowed = b
      BY <1>0 DEF IsRun, RunFields
    <3>3. QED
      BY <2>1, <3>1, <3>2, Zenon
  <2>3. CASE s.fifoOut /\ own # {}
    <3>1. Restore(s.out) /\ s.out \in r.borrowed /\ run'[d].borrowed = r.borrowed \ {s.out}
      BY <1>13, <2>2, <2>3 DEF CloseOut
    <3>2. QED
      BY <1>9, <2>1, <2>2, <3>1, SMTT(30)
  <2>4. CASE ~(s.fifoOut /\ own # {})
    <3>1. UNCHANGED <<flag, leases>> /\ run'[d].borrowed = r.borrowed
      BY <1>13, <2>2, <2>4, Zenon DEF CloseOut
    <3>2. Holds(run'[d], s)
      BY <1>0, <2>2, <3>1, Zenon DEF Holds
    <3>3. QED
      BY <1>1, <2>1, <3>1, <3>2, Zenon
  <2>5. QED
    BY <2>3, <2>4, Zenon
<1>14. QED
  BY <1>2, <1>3, <1>4, <1>5, <1>7, <1>8, <1>11, <1>12, <1>13, Zenon DEF RunStep, Moves

LEMMA LeaseStep == SignalInv /\ LeaseInv /\ [Next]_vars => LeaseInv'
<1> SUFFICES ASSUME SignalInv, LeaseInv, [Next]_vars PROVE LeaseInv'
  BY Zenon
<1>1. Types'
  BY SignalStep, Zenon DEF SignalInv
<1>2. CASE \E d \in Runs : RunStep(d)
  BY <1>1, <1>2, LeaseRun, Zenon
<1>3. CASE \/ \E d \in Runs : Goroutine(d)
           \/ Signal \/ World \/ UNCHANGED vars
  <2>1. UNCHANGED <<cfg, host, flag, leases, run>>
    BY <1>3, Zenon DEF Goroutine, Notifier, StoreSignal, Wake, Signal, World, vars, hostVars
  <2>2. QED
    BY <1>1, <2>1, LeaseKept, Zenon DEF LeaseInv
<1>4. QED
  BY <1>2, <1>3, Zenon DEF Next

(* While a run reads or writes a descriptor it borrowed, the descriptor is *)
(* in non-blocking mode, so that a poll can be cancelled: restore by one   *)
(* run leaves the flag to the others (setNonblockSaving, restore).         *)
THEOREM BorrowedNonblockingHolds ==
  ASSUME OneDescriptorEach
  PROVE  Spec => []BorrowedNonblocking
<1>1. LeaseInv => BorrowedNonblocking
  <2> SUFFICES ASSUME LeaseInv, NEW d \in Runs, NEW f \in run[d].borrowed
               PROVE  flag[Ofd[f]]
    BY DEF BorrowedNonblocking
  <2>1. f \in Fds /\ d \in Borrowers(f)
    BY DEF LeaseInv, Types, IsRun, Borrowers
  <2>2. Cardinality(Borrowers(f)) \in Nat /\ Cardinality(Borrowers(f)) # 0
    BY <2>1, BorrowersFinite, FS_EmptySet, Zenon
  <2>3. QED
    BY <2>1, <2>2 DEF LeaseInv, Leased
<1>2. QED
  BY <1>1, SignalInit, SignalStep, LeaseInit, LeaseStep, PTL DEF Spec

(* When the last run that borrowed a description is gone its flag is what  *)
(* the host had set, whichever run borrowed first and however each ended.  *)
THEOREM FlagsRestoredHolds ==
  ASSUME OneDescriptorEach
  PROVE  Spec => []FlagsRestored
<1>1. LeaseInv => FlagsRestored
  <2> SUFFICES ASSUME LeaseInv, NEW o \in DOMAIN flag,
                      \A d \in Runs : \A f \in run[d].borrowed : Ofd[f] # o
               PROVE  flag[o] = host[o]
    BY Zenon DEF FlagsRestored
  <2>1. PICK f \in Fds : o = Ofd[f]
    BY Zenon DEF LeaseInv, Types, Descriptions
  <2>2. Borrowers(f) = {}
    BY <2>1, Zenon DEF Borrowers
  <2>3. leases[f].refs = 0
    BY <2>1, <2>2, FS_EmptySet, Zenon DEF LeaseInv, Leased
  <2>4. flag[o] <=> host[o]
    BY <2>1, <2>3, SMTT(30) DEF LeaseInv, Leased
  <2>5. flag[o] \in BOOLEAN /\ host[o] \in BOOLEAN
    BY <2>1, SMTT(30) DEF LeaseInv, Types, Descriptions
  <2>6. QED
    BY <2>4, <2>5, Zenon
<1>2. QED
  BY <1>1, SignalInit, SignalStep, LeaseInit, LeaseStep, PTL DEF Spec
-----------------------------------------------------------------------------
(* Pipes *)

PipeInv == data \in [Fds -> 0 .. Cap] /\ far \in [Fds -> {"never", "open", "gone"}]

(* What one pipe may do in a step: take or lose a unit, or change its far  *)
(* side.                                                                   *)
LEMMA PipeMoves ==
  ASSUME PipeInv, NEW f \in Fds,
         \/ /\ far' = far
            /\ \/ data[f] > 0 /\ data' = [data EXCEPT ![f] = @ - 1]
               \/ data[f] < Cap /\ data' = [data EXCEPT ![f] = @ + 1]
         \/ data' = data /\ \E x \in {"open", "gone"} : far' = [far EXCEPT ![f] = x]
  PROVE  PipeInv'
<1>1. Cap \in Nat /\ data[f] \in 0 .. Cap
  BY DdAssumption, Zenon DEF PipeInv
<1>2. CASE far' = far /\ data[f] > 0 /\ data' = [data EXCEPT ![f] = @ - 1]
  BY <1>1, <1>2, SMTT(30) DEF PipeInv
<1>3. CASE far' = far /\ data[f] < Cap /\ data' = [data EXCEPT ![f] = @ + 1]
  BY <1>1, <1>3 DEF PipeInv
<1>4. CASE data' = data /\ \E x \in {"open", "gone"} : far' = [far EXCEPT ![f] = x]
  BY <1>4, Zenon DEF PipeInv
<1>5. QED
  BY <1>2, <1>3, <1>4, SMTT(30)

(* No step overfills a pipe or reads from an empty one.                    *)
LEMMA PipeStep == SignalInv /\ PipeInv /\ [Next]_vars => PipeInv'
<1> SUFFICES ASSUME SignalInv, PipeInv, [Next]_vars PROVE PipeInv'
  OBVIOUS
<1>1. \A d \in Runs : cfg[d].in \in Fds \cup {File} /\ cfg[d].out \in Fds \cup {File}
  BY OperandTypes, Zenon DEF SignalInv
<1>2. CASE UNCHANGED <<data, far>>
  BY <1>2, Zenon DEF PipeInv
<1>3. ASSUME NEW d \in Runs, RunStep(d) PROVE PipeInv'
  <2>1. CASE ReadStream(d)
    <3>1. cfg[d].in \in Fds
      BY <1>1, <2>1, Zenon DEF ReadStream
    <3>2. far' = far
      BY <2>1, Zenon DEF ReadStream
    <3>3. \/ data' = data
          \/ data[cfg[d].in] > 0 /\ data' = [data EXCEPT ![cfg[d].in] = @ - 1]
      BY <2>1, Zenon DEF ReadStream
    <3>4. QED
      BY <1>2, <3>1, <3>2, <3>3, PipeMoves, Zenon
  <2>2. CASE WriteStream(d)
    <3>1. cfg[d].out \in Fds
      BY <1>1, <2>2, Zenon DEF WriteStream
    <3>2. far' = far
      BY <2>2, Zenon DEF WriteStream
    <3>3. \/ data' = data
          \/ data[cfg[d].out] < Cap /\ data' = [data EXCEPT ![cfg[d].out] = @ + 1]
      BY <2>2, Zenon DEF WriteStream
    <3>4. QED
      BY <1>2, <3>1, <3>2, <3>3, PipeMoves, Zenon
  <2>3. CASE ~ReadStream(d) /\ ~WriteStream(d)
    <3>1. UNCHANGED pipes
      BY <1>3, <2>3, Zenon
         DEF RunStep, NewContext, OpenIn, BorrowIn, OpenOut, BorrowOut, BorrowAt, Loop, ReadFile,
             PollIn, PollHup, ReadsEof, WriteFile, PollOut, Flush, CloseOut, EmitStatus,
             UnwindOut, UnwindIn, StopNotify, StopDone, StopWait
    <3>2. QED
      BY <1>2, <3>1, Zenon DEF pipes
  <2>4. QED
    BY <2>1, <2>2, <2>3, Zenon
<1>4. CASE Signal \/ (\E d \in Runs : Goroutine(d)) \/ UNCHANGED vars
  <2>1. UNCHANGED pipes
    BY <1>4, Zenon DEF Signal, Goroutine, Notifier, StoreSignal, Wake, vars
  <2>2. QED
    BY <1>2, <2>1, Zenon DEF pipes
<1>5. CASE World
  <2>1. PICK f \in (Inputs \cup Outputs) \ {File} :
               FarOpens(f) \/ FarCloses(f) \/ Feed(f) \/ Drain(f)
    BY <1>5, SMTT(30) DEF World
  <2>2. f \in Fds
    BY <1>1, <2>1 DEF Inputs, Outputs
  <2>3. QED
    BY <2>1, <2>2, PipeMoves, SMTT(30) DEF FarOpens, FarCloses, Feed, Drain
<1>6. QED
  BY <1>3, <1>4, <1>5, Zenon DEF Next

(* TypeOK for any number of runs: no lease counts more borrowers than      *)
(* there are runs, a run borrows only its own descriptors, a block is      *)
(* never overfull (Took, Wrote), and no pipe holds more than it can.       *)
THEOREM TypeCorrect == Spec => []TypeOK
<1>1. Init => PipeInv
  <2> SUFFICES ASSUME Init PROVE PipeInv
    OBVIOUS
  <2>1. PICK x \in Scenes : data = [f \in Fds |-> 0] /\ far = x.far
    BY Zenon DEF Init
  <2>2. QED
    BY <2>1, DdAssumption DEF PipeInv
<1>2. SignalInv /\ LeaseInv /\ PipeInv => TypeOK
  <2> SUFFICES ASSUME SignalInv, LeaseInv, PipeInv PROVE TypeOK
    BY Zenon
  <2>1. flag \in [Descriptions -> BOOLEAN]
    BY Zenon DEF SignalInv, Types
  <2>2. leases \in [Fds -> [refs : 0 .. Cardinality(Runs) * 2, changed : BOOLEAN]]
    <3>1. leases \in [Fds -> [refs : Int, changed : BOOLEAN]]
      BY Zenon DEF SignalInv, Types
    <3>2. ASSUME NEW f \in Fds PROVE leases[f].refs \in 0 .. Cardinality(Runs) * 2
      <4>1. Borrowers(f) \subseteq Runs /\ IsFiniteSet(Runs)
        BY DdAssumption, Zenon DEF Borrowers
      <4>2. /\ Cardinality(Borrowers(f)) <= Cardinality(Runs)
            /\ Cardinality(Borrowers(f)) \in Nat /\ Cardinality(Runs) \in Nat
        BY <4>1, BorrowersFinite, FS_Subset, FS_CardinalityType, Zenon
      <4>3. leases[f].refs = Cardinality(Borrowers(f))
        BY Zenon DEF LeaseInv, Leased
      <4>4. QED
        BY <4>2, <4>3
    <3>3. QED
      BY <3>1, <3>2, Zenon
  <2>3. ASSUME NEW d \in Runs
        PROVE  /\ run[d].borrowed \subseteq {cfg[d].in, cfg[d].out} \ {File}
               /\ run[d].code \in {-1, 0, 1, 130}
               /\ run[d].held \in 0 .. (cfg[d].obs - 1) /\ run[d].left \in 0 .. cfg[d].obs
               /\ ctx[d].notifier \in {"none", "waiting", "storing", "waking", "exited"}
               /\ ctx[d].pipe \in {"none", "open", "closed"}
    <3>1. IsRun(run[d]) /\ IsContext(ctx[d]) /\ Copied(run[d], cfg[d])
      BY Zenon DEF SignalInv, Types
    <3>2. run[d].borrowed \subseteq {cfg[d].in, cfg[d].out} \ {File}
      BY <3>1, DdAssumption DEF LeaseInv, Holds, IsRun
    <3>3. QED
      BY <3>1, <3>2, Zenon DEF IsRun, IsContext, Copied
  <2>4. QED
    BY <2>1, <2>2, <2>3, Zenon DEF TypeOK, PipeInv
<1>3. QED
  BY <1>1, <1>2, SignalInit, SignalStep, LeaseInit, LeaseStep, PipeStep, PTL DEF Spec
=============================================================================
