---------------------------- MODULE XargsProofs ----------------------------
(***************************************************************************)
(* What holds of run() and execBatches for every input, every options and  *)
(* every way the commands may end: no more batches run at once than -P     *)
(* allows, the captured output of a batch comes out in one piece, what is  *)
(* written after a batch that stops xargs comes from the batches that were *)
(* running with it, and the exit status is the worst of what was met.      *)
(***************************************************************************)
EXTENDS Xargs, FiniteSetTheorems, TLAPS

(* Max of a pair, the way note() takes the worse status.                   *)
LEMMA MaxOfTwo ==
  ASSUME NEW a \in Int, NEW b \in Int
  PROVE  Max({a, b}) = IF a >= b THEN a ELSE b
<1>1. CASE a >= b
  BY <1>1 DEF Max
<1>2. CASE ~(a >= b)
  BY <1>2 DEF Max
<1>3. QED
  BY <1>1, <1>2, Zenon

(* Appending adds one member.                                              *)
LEMMA RangeAppend ==
  ASSUME NEW S, NEW s \in Seq(S), NEW x \in S
  PROVE  Range(Append(s, x)) = Range(s) \cup {x}
<1>1. /\ Len(Append(s, x)) = Len(s) + 1 /\ Len(s) \in Nat
      /\ DOMAIN s = 1 .. Len(s) /\ DOMAIN Append(s, x) = 1 .. Len(s) + 1
      /\ Append(s, x)[Len(s) + 1] = x
      /\ \A k \in 1 .. Len(s) : Append(s, x)[k] = s[k]
  OBVIOUS
<1>2. \A k : k \in 1 .. Len(s) + 1 <=> k \in 1 .. Len(s) \/ k = Len(s) + 1
  BY <1>1
<1>3. QED
  BY <1>1, <1>2, Zenon DEF Range


(* Jobs are numbered from 1.                                               *)
LEMMA JobNumbers == NoJob \notin Jobs /\ \A j \in Jobs : j \in Nat /\ j >= 1
BY XargsAssumption DEF NoJob

Entries == Jobs \X {"out", "err"}

(* The section under mu: who is in it holds mu, and between its two writes *)
(* the last entry of the output is its own.                                *)
Flushing ==
  /\ \A j \in Jobs : wpc[j] \in {"out", "err"} => mu = j
  /\ \A j \in Jobs : wpc[j] = "err" => out # <<>> /\ out[Len(out)] = <<j, "out">>

OutInv ==
  /\ DOMAIN wpc = Jobs
  /\ out \in Seq(Entries)
  /\ Flushing
  /\ OutputWhole
-----------------------------------------------------------------------------
(* Output *)

LEMMA OutInit == Init => OutInv
BY DEF Init, OutInv, Flushing, OutputWhole

(* A step that writes nothing, keeps mu and takes nobody into the section. *)
LEMMA OutKept ==
  ASSUME OutInv, DOMAIN wpc' = Jobs, UNCHANGED <<mu, out>>,
         \A j \in Jobs : wpc'[j] \in {"out", "err"} => wpc'[j] = wpc[j]
  PROVE  OutInv'
BY Zenon DEF OutInv, Flushing, OutputWhole

LEMMA OutLock ==
  ASSUME OutInv, NEW i \in Jobs, WLock(i)
  PROVE  OutInv'
<1>1. /\ DOMAIN wpc' = Jobs /\ wpc'[i] = "out" /\ \A j \in Jobs \ {i} : wpc'[j] = wpc[j]
      /\ mu = NoJob /\ mu' = i /\ UNCHANGED out
  BY Zenon DEF OutInv, WLock, WGoto
<1>2. \A j \in Jobs : wpc[j] \notin {"out", "err"}
  BY <1>1, JobNumbers, Zenon DEF OutInv, Flushing
<1>3. QED
  BY <1>1, <1>2, Zenon DEF OutInv, Flushing, OutputWhole

(* An entry added at the end, the second of a pair or the first of one.    *)
LEMMA OutAppend ==
  ASSUME OutInv, NEW x \in Entries, out' = Append(out, x),
         x[2] = "err" => out # <<>> /\ out[Len(out)] = <<x[1], "out">>
  PROVE  out' \in Seq(Entries) /\ OutputWhole' /\ out' # <<>> /\ out'[Len(out')] = x
<1>1. out \in Seq(Entries)
  BY DEF OutInv
<1>2. /\ out' \in Seq(Entries) /\ Len(out') = Len(out) + 1 /\ Len(out) \in Nat
      /\ DOMAIN out' = 1 .. Len(out) + 1 /\ DOMAIN out = 1 .. Len(out)
      /\ out'[Len(out) + 1] = x
      /\ \A k \in 1 .. Len(out) : out'[k] = out[k]
  BY <1>1
<1>3. ASSUME NEW k \in DOMAIN out', out'[k][2] = "err"
      PROVE  k > 1 /\ out'[k - 1][1] = out'[k][1] /\ out'[k - 1][2] = "out"
  <2>1. CASE k \in 1 .. Len(out)
    <3>1. k > 1 /\ out[k - 1][1] = out[k][1] /\ out[k - 1][2] = "out"
      BY <1>2, <1>3, <2>1, Zenon DEF OutInv, OutputWhole
    <3>2. k - 1 \in 1 .. Len(out)
      BY <1>2, <2>1, <3>1
    <3>3. QED
      BY <1>2, <2>1, <3>1, <3>2, Zenon
  <2>2. CASE k = Len(out) + 1
    <3>1. out # <<>> /\ out[Len(out)] = <<x[1], "out">>
      BY <1>2, <1>3, <2>2, Zenon
    <3>2. Len(out) \in 1 .. Len(out)
      BY <1>1, <1>2, <3>1
    <3>3. QED
      BY <1>2, <2>2, <3>1, <3>2
  <2>3. QED
    BY <1>2, <2>1, <2>2
<1>4. QED
  BY <1>2, <1>3 DEF OutputWhole

LEMMA OutWrites ==
  ASSUME OutInv, NEW i \in Jobs, WOut(i) \/ WErr(i)
  PROVE  OutInv'
<1>1. wpc[i] \in {"out", "err"} /\ mu = i
  BY Zenon DEF OutInv, Flushing, WOut, WErr
<1>2. \A j \in Jobs \ {i} : wpc[j] \notin {"out", "err"}
  BY <1>1, Zenon DEF OutInv, Flushing
<1>3. CASE WOut(i)
  <2>1. /\ DOMAIN wpc' = Jobs /\ wpc'[i] = "err" /\ \A j \in Jobs \ {i} : wpc'[j] = wpc[j]
        /\ UNCHANGED mu /\ out' = Append(out, <<i, "out">>)
    BY <1>3, Zenon DEF OutInv, WOut, WGoto
  <2>2. out' \in Seq(Entries) /\ OutputWhole' /\ out' # <<>> /\ out'[Len(out')] = <<i, "out">>
    <3>1. <<i, "out">> \in Entries /\ <<i, "out">>[2] # "err"
      BY DEF Entries
    <3>2. QED
      BY <2>1, <3>1, OutAppend, Zenon
  <2>3. QED
    BY <1>1, <1>2, <2>1, <2>2, Zenon DEF OutInv, Flushing
<1>4. CASE WErr(i)
  <2>1. /\ DOMAIN wpc' = Jobs /\ wpc'[i] \in {"werr", "done"}
        /\ \A j \in Jobs \ {i} : wpc'[j] = wpc[j]
        /\ out' = Append(out, <<i, "err">>) /\ wpc[i] = "err"
    BY <1>4, Zenon DEF OutInv, WErr, WGoto
  <2>2. out' \in Seq(Entries) /\ OutputWhole'
    <3>1. /\ <<i, "err">> \in Entries /\ <<i, "err">>[1] = i
          /\ out # <<>> /\ out[Len(out)] = <<i, "out">>
      BY <2>1, Zenon DEF Entries, OutInv, Flushing
    <3>2. QED
      BY <2>1, <3>1, OutAppend, Zenon
  <2>3. QED
    BY <1>2, <2>1, <2>2, Zenon DEF OutInv, Flushing
<1>5. QED
  BY <1>3, <1>4, Zenon

LEMMA OutStep == OutInv /\ [Next]_vars => OutInv'
<1> SUFFICES ASSUME OutInv, [Next]_vars PROVE OutInv'
  BY Zenon
<1>1. CASE Loop
  BY <1>1, OutKept, Zenon DEF Loop, XRefuse, XPlan, SeqNext, SeqRan, DispatchTop, Dispatch,
       DispatchWait, WGoto, OutInv
<1>2. ASSUME NEW j \in Jobs, Worker(j) PROVE OutInv'
  <2>1. CASE WLock(j)
    BY <2>1, OutLock, Zenon
  <2>2. CASE WOut(j) \/ WErr(j)
    BY <2>2, OutWrites, Zenon
  <2>3. CASE WCheck(j) \/ WDecline(j)
    BY <2>3, OutKept, Zenon DEF WCheck, WDecline, Verdict, WGoto, OutInv
  <2>4. CASE WCannotRun(j) \/ WStart(j)
    BY <2>4, OutKept, SMTT(30) DEF WCannotRun, WStart, Verdict, WGoto, OutInv
  <2>5. CASE WWait(j)
    BY <2>5, OutKept DEF WWait, Verdict, WGoto, OutInv
  <2>6. CASE WNote(j) \/ WNoteWriteError(j)
    BY <2>6, OutKept, Zenon DEF WNote, WNoteWriteError, Verdict, WGoto, OutInv
  <2>7. QED
    BY <1>2, <2>1, <2>2, <2>3, <2>4, <2>5, <2>6, Zenon DEF Worker
<1>3. CASE (\E j \in Jobs : Child(j)) \/ UNCHANGED vars
  <2>1. UNCHANGED <<wpc, mu, out>>
    BY <1>3, Zenon DEF Child, vars, xvars
  <2>2. QED
    BY <2>1, OutKept, Zenon DEF OutInv
<1>4. QED
  BY <1>1, <1>2, <1>3, Zenon DEF Next

(* The two writes of a batch's captured output are never separated by      *)
(* another batch's: execBatches makes both while it holds mu.              *)
THEOREM OutputWholeHolds == Spec => []OutputWhole
<1>1. OutInv => OutputWhole
  BY Zenon DEF OutInv
<1>2. QED
  BY <1>1, OutInit, OutStep, PTL DEF Spec
-----------------------------------------------------------------------------
(* Options *)

(* runOne's verdict has been passed to note, or there was none to pass.    *)
Reported == {"ran", "out", "err", "werr", "done"}
Judged == Reported \cup {"note"}

(* The options, the input and what is planned have their types, whatever   *)
(* the case.                                                               *)
OptsInv ==
  /\ \E c \in Cases : input = c.input /\ opts = c.opts /\ posix = c.posix /\ topts = c.topts
  /\ batches \in Seq(Range(batches))
  /\ o.interactive \in BOOLEAN
  /\ o.maxProcs \in Nat

(* What a run is given, and what the options make of it.                   *)
LEMMA GivenTyped ==
  ASSUME OptsInv
  PROVE  /\ topts \in Options
         /\ LET parsed == Parse(opts, posix)
                planned == PlanFor(input, parsed).batches
            IN  Usable(opts, parsed) =>
                  /\ Limited(parsed).interactive \in BOOLEAN
                  /\ Limited(parsed).maxProcs \in Nat
                  /\ planned \in Seq(Range(planned))
                  /\ DOMAIN planned \subseteq Jobs
<1>1. PICK c \in Cases : input = c.input /\ opts = c.opts /\ posix = c.posix /\ topts = c.topts
  BY DEF OptsInv
<1>2. QED
  BY <1>1, XargsAssumption, Zenon

(* The options before run() has looked at them.                            *)
LEMMA OptsInit == Init => OptsInv
BY DEF Init, OptsInv, Defaults

(* Only run() sets the options, from the parsed ones.                      *)
LEMMA OptsStep == OptsInv /\ [Next]_vars => OptsInv'
<1> SUFFICES ASSUME OptsInv, [Next]_vars PROVE OptsInv'
  OBVIOUS
<1>1. UNCHANGED <<input, opts, posix, topts>>
  <2>1. CASE Loop
    BY <2>1, Zenon DEF Loop, XRefuse, XPlan, SeqNext, SeqRan, DispatchTop, Dispatch, DispatchWait,
         given, tvars
  <2>2. ASSUME NEW j \in Jobs, Worker(j) PROVE UNCHANGED <<input, opts, posix, topts>>
    BY <2>2, Zenon DEF Worker, WCheck, WDecline, WCannotRun, WStart, WWait, WNote, WLock, WOut, WErr,
         WNoteWriteError, given, tvars
  <2>3. ASSUME NEW j \in Jobs, Child(j) PROVE UNCHANGED <<input, opts, posix, topts>>
    BY <2>3, Zenon DEF Child, xvars, TimeoutStep, TimeoutEnvironment, TNotFound, TStart, TPrimary,
         TKillTimer, TDone, CommandExits, CommandForks, KidExits, TKilled
  <2>4. CASE UNCHANGED vars
    BY <2>4, Zenon DEF vars, xvars, tvars
  <2>5. QED
    BY <2>1, <2>2, <2>3, <2>4 DEF Next
<1>2. CASE XPlan
  <2> DEFINE parsed == Parse(opts, posix)
  <2>1. o' = Limited(parsed) /\ batches' = PlanFor(input, parsed).batches
        /\ Usable(opts, parsed)
    BY <1>2, Zenon DEF XPlan
  <2>2. /\ o'.interactive \in BOOLEAN /\ o'.maxProcs \in Nat
        /\ batches' \in Seq(Range(batches'))
    BY <2>1, GivenTyped, Zenon
  <2>3. QED
    BY <1>1, <2>2, Zenon DEF OptsInv
<1>3. CASE ~XPlan
  <2>1. UNCHANGED <<o, batches>>
    <3>1. CASE Loop
      BY <1>3, <3>1, Zenon
         DEF Loop, XRefuse, SeqNext, SeqRan, DispatchTop, Dispatch, DispatchWait, given
    <3>2. ASSUME NEW j \in Jobs, Worker(j) PROVE UNCHANGED <<o, batches>>
      BY <3>2, Zenon DEF Worker, WCheck, WDecline, WCannotRun, WStart, WWait, WNote, WLock, WOut, WErr,
           WNoteWriteError, given
    <3>3. CASE (\E j \in Jobs : Child(j)) \/ UNCHANGED vars
      BY <3>3, Zenon DEF Child, vars, xvars
    <3>4. QED
      BY <3>1, <3>2, <3>3, Zenon DEF Next
  <2>2. QED
    BY <1>1, <2>1, Zenon DEF OptsInv
<1>4. QED
  BY <1>2, <1>3

-----------------------------------------------------------------------------
(* Types and slots *)

(* Where the dispatching loop is, who has begun, and who holds a slot: the *)
(* loop of one process runs one batch at a time, the other one never has   *)
(* more batches active than there are slots.                               *)
LoopInv ==
  /\ xpc = "run" => batches = <<>> /\ next = 1
  /\ \A j \in Jobs : wpc[j] # "none" <=> j < next
  /\ xpc \notin {"run", "exit"} => batches # <<>>
  /\ xpc \in {"run", "seq", "seqrun"} => mu = NoJob /\ wfail = {}
  /\ xpc \in {"seq", "seqrun"} =>
       ~Parallel /\ \A j \in Jobs : wpc[j] \notin {"check", "out", "err", "werr"}
  /\ xpc \in {"top", "sem", "wait"} => Parallel /\ Cardinality(Active) <= Procs
  /\ xpc \in {"seq", "exit"} => Active = {}
  /\ xpc = "seqrun" => next > 1 /\ Active \subseteq {next - 1}
  /\ xpc = "sem" => next <= Len(batches)

(* The inductive invariant behind the types and the slots.                 *)
RunInv == OptsInv /\ TypeOK /\ LoopInv

(* There is a slot when there is a batch.                                  *)
LEMMA ProcsTyped ==
  ASSUME OptsInv
  PROVE  Procs \in Nat /\ (batches # <<>> => Procs >= 1)
<1>1. Len(batches) \in Nat /\ (batches # <<>> => Len(batches) >= 1)
  BY DEF OptsInv
<1>2. QED
  BY <1>1 DEF OptsInv, Procs

(* There are finitely many active batches.                                 *)
LEMMA ActiveFinite == IsFiniteSet(Active) /\ Cardinality(Active) \in Nat
<1>1. Active \in SUBSET Jobs /\ IsFiniteSet(Jobs)
  BY XargsAssumption, Zenon DEF Active
<1>2. QED
  BY <1>1, FS_Subset, FS_CardinalityType, Zenon

(* Nothing has begun at first.                                             *)
LEMMA RunInit == Init => RunInv
<1> SUFFICES ASSUME Init PROVE RunInv
  BY Zenon
<1>1. OptsInv
  BY OptsInit, Zenon
<1>2. topts \in Options
  BY <1>1, GivenTyped, Zenon
<1>3. TTypeOK
  BY <1>2 DEF Init, TInit, TTypeOK, TPcs
<1>4. XTypeOK
  <2>1. next \in 1 .. Len(batches) + 1 /\ DOMAIN batches \subseteq Jobs
    BY DEF Init
  <2>2. out \in Seq(Jobs \X {"out", "err"})
    BY DEF Init
  <2>3. code \in [Jobs -> {0, 1} \cup 123 .. 127] /\ worst \in {0, 1} \cup 123 .. 127
    BY Zenon DEF Init
  <2>4. QED
    BY <2>1, <2>2, <2>3, Zenon DEF Init, XTypeOK, NoJob, None
<1>5. LoopInv
  BY JobNumbers DEF Init, LoopInv, NoJob
<1>6. QED
  BY <1>1, <1>3, <1>4, <1>5, Zenon DEF RunInv, TypeOK

(* timeout's own types. *)
LEMMA ExitStatusTyped ==
  ASSUME TTypeOK, NEW w \in Codes \cup {0, Signalled}, NEW b \in BOOLEAN
  PROVE  ExitStatus(w, b) \in 0 .. 255
BY TimeoutAssumption DEF ExitStatus, Signalled

(* The timeout of a batch keeps its types.                                 *)
LEMMA ChildTypes ==
  ASSUME TTypeOK, NEW j \in Jobs, TimeoutStep(j) \/ TimeoutEnvironment(j)
  PROVE  TTypeOK'
<1>1. CASE TNotFound(j) \/ TStart(j) \/ TKilled(j)
  BY <1>1, SMTT(30) DEF TTypeOK, TNotFound, TStart, TKilled, TExit, TGoto, TPcs
<1>2. CASE TPrimary(j) \/ TKillTimer(j)
  BY <1>2, SMTT(30) DEF TTypeOK, TPrimary, TKillTimer, Send, TGoto, TPcs
<1>3. CASE TDone(j)
  <2>1. werr[j] \in Codes \cup {0, Signalled}
    BY Zenon DEF TTypeOK
  <2>2. \A w \in Codes \cup {0, Signalled}, b \in BOOLEAN : ExitStatus(w, b) \in 0 .. 255
    BY ExitStatusTyped, Zenon
  <2>3. 137 \in 0 .. 255 /\ 0 \in Codes \cup {0, Signalled}
    OBVIOUS
  <2>4. \E s \in 0 .. 255 : TExit(j, s)
    BY <1>3, <2>1, <2>2, <2>3, ZenonT(30) DEF TDone
  <2>5. QED
    BY <1>3, <2>4 DEF TTypeOK, TDone, TExit, TGoto, TPcs
<1>4. CASE CommandExits(j) \/ CommandForks(j) \/ KidExits(j)
  BY <1>4 DEF TTypeOK, CommandExits, CommandForks, KidExits
<1>5. QED
  BY <1>1, <1>2, <1>3, <1>4, Zenon DEF TimeoutStep, TimeoutEnvironment

(* Where a worker may be, and what it may report.                          *)
WPcs == {"none", "check", "start", "run", "note", "ran", "out", "err", "werr", "done"}
Statuses == {0, 1} \cup 123 .. 127

(* A worker that has begun and is not done takes a step: what run() and    *)
(* the loop rely on stays.                                                 *)
LEMMA LoopKept ==
  ASSUME RunInv, NEW j \in Jobs, NEW l, wpc[j] \notin {"none", "done"}, l \notin {"none", "check"},
         WGoto(j, l), UNCHANGED <<xpc, batches, next, o>>,
         xpc \in {"seq", "seqrun"} =>
           UNCHANGED <<mu, wfail>> /\ l \notin {"out", "err", "werr"}
  PROVE  LoopInv'
<1>1. DOMAIN wpc = Jobs
  BY Zenon DEF RunInv, TypeOK, XTypeOK
<1>2. wpc'[j] = l /\ \A i \in Jobs \ {j} : wpc'[i] = wpc[i]
  BY <1>1, Zenon DEF WGoto
<1>3. j \in Active /\ Active' \subseteq Active
  BY <1>2, Zenon DEF Active
<1>4. UNCHANGED <<Procs, Parallel>>
  BY Zenon DEF Procs, Parallel
<1>5. \A i \in Jobs : wpc'[i] # "none" <=> i < next'
  BY <1>2, Zenon DEF RunInv, LoopInv
<1>6. xpc \notin {"run", "seq", "exit"}
  <2>1. ~(j < 1)
    BY JobNumbers DEF NoJob
  <2>2. QED
    BY <1>3, <2>1, Zenon DEF RunInv, LoopInv
<1>7. xpc' = "seqrun" =>
        /\ ~Parallel' /\ mu' = NoJob /\ wfail' = {} /\ next' > 1 /\ Active' \subseteq {next' - 1}
        /\ \A i \in Jobs : wpc'[i] \notin {"check", "out", "err", "werr"}
  BY <1>2, <1>3, <1>4, Zenon DEF RunInv, LoopInv
<1>8. xpc' \in {"top", "sem", "wait"} => Parallel' /\ Cardinality(Active') <= Procs'
  <2>1. Cardinality(Active') <= Cardinality(Active) /\ Cardinality(Active') \in Nat
    BY <1>3, ActiveFinite, FS_Subset, FS_CardinalityType, Zenon
  <2>2. QED
    BY <1>4, <2>1, ActiveFinite, ProcsTyped DEF RunInv, LoopInv
<1>9. QED
  BY <1>5, <1>6, <1>7, <1>8, Zenon DEF RunInv, LoopInv

(* A worker's step keeps the types ...                                     *)
LEMMA WorkerTypes ==
  ASSUME RunInv, NEW j \in Jobs, Worker(j)
  PROVE  TypeOK'
<1>0. /\ wpc \in [Jobs -> WPcs] /\ code \in [Jobs -> Statuses] /\ worst \in Statuses
      /\ stop \subseteq Jobs /\ wfail \subseteq Jobs
      /\ out \in Seq(Jobs \X {"out", "err"})
      /\ mu \in Jobs \cup {NoJob} /\ stopped \in BOOLEAN /\ TTypeOK
  BY Zenon DEF RunInv, TypeOK, XTypeOK, WPcs, Statuses
<1>1. wpc' \in [Jobs -> WPcs] /\ UNCHANGED <<xpc, next, batches, exit>>
  <2>1. CASE WCheck(j) \/ WLock(j) \/ WStart(j)
    BY <1>0, <2>1, ZenonT(30) DEF WCheck, WLock, WStart, WGoto, WPcs
  <2>2. CASE WDecline(j) \/ WCannotRun(j)
    BY <1>0, <2>2, SMTT(30) DEF WDecline, WCannotRun, Verdict, WGoto, WPcs
  <2>3. CASE WWait(j)
    BY <1>0, <2>3 DEF WWait, Verdict, WGoto, WPcs
  <2>4. CASE WNote(j) \/ WNoteWriteError(j) \/ WOut(j) \/ WErr(j)
    BY <1>0, <2>4, Zenon DEF WNote, WNoteWriteError, WOut, WErr, WGoto, WPcs
  <2>5. QED
    BY <2>1, <2>2, <2>3, <2>4, Zenon DEF Worker
<1>2. code' \in [Jobs -> Statuses] /\ stop' \subseteq Jobs
  <2>1. CASE WDecline(j) \/ WCannotRun(j)
    BY <1>0, <2>1, SMTT(30) DEF WDecline, WCannotRun, Verdict, Statuses
  <2>2. CASE WWait(j)
    BY <1>0, <2>2, SMTT(30) DEF WWait, Verdict, Statuses
  <2>3. CASE UNCHANGED <<code, stop>>
    BY <1>0, <2>3, Zenon
  <2>4. QED
    BY <2>1, <2>2, <2>3, Zenon
       DEF Worker, WCheck, WStart, WNote, WLock, WOut, WErr, WNoteWriteError
<1>3. worst' \in Statuses
  <2>1. CASE WNote(j) \/ WNoteWriteError(j)
    <3>1. PICK c \in Statuses : worst' = Max({worst, c})
      BY <1>0, <2>1, Zenon DEF WNote, WNoteWriteError, Worse, Statuses
    <3>2. worst \in Int /\ c \in Int
      BY <1>0 DEF Statuses
    <3>3. QED
      BY <1>0, <3>1, <3>2, MaxOfTwo, Zenon
  <2>2. CASE UNCHANGED worst
    BY <1>0, <2>2, Zenon
  <2>3. QED
    BY <2>1, <2>2, Zenon
       DEF Worker, WCheck, WDecline, WCannotRun, WStart, WWait, WLock, WOut, WErr
<1>4. /\ out' \in Seq(Jobs \X {"out", "err"}) /\ wfail' \subseteq Jobs
      /\ mu' \in Jobs \cup {NoJob} /\ stopped' \in BOOLEAN
  <2>1. CASE WOut(j) \/ WErr(j)
    <3>1. PICK e \in {"out", "err"} : out' = Append(out, <<j, e>>)
      BY <2>1, Zenon DEF WOut, WErr
    <3>2. <<j, e>> \in Jobs \X {"out", "err"}
      BY Zenon
    <3>3. out' \in Seq(Jobs \X {"out", "err"})
      BY <1>0, <3>1, <3>2
    <3>4. QED
      BY <1>0, <2>1, <3>3, Zenon DEF WOut, WErr
  <2>2. CASE WLock(j)
    BY <1>0, <2>2, Zenon DEF WLock
  <2>3. CASE UNCHANGED <<out, wfail, mu, stopped>>
    BY <1>0, <2>3, Zenon
  <2>4. QED
    BY <2>1, <2>2, <2>3, Zenon
       DEF Worker, WCheck, WDecline, WCannotRun, WStart, WWait, WNote, WNoteWriteError
<1>5. XTypeOK'
  <2>1. XTypeOK
    BY Zenon DEF RunInv, TypeOK
  <2>2. QED
    BY <1>1, <1>2, <1>3, <1>4, <2>1, SMTT(30) DEF XTypeOK, WPcs, Statuses
<1>6. TTypeOK'
  <2>1. CASE WStart(j)
    BY <1>0, <2>1, Zenon DEF WStart, TTypeOK, TGoto, TPcs, given
  <2>2. CASE UNCHANGED tvars
    BY <1>0, <2>2, Zenon DEF TTypeOK, tvars
  <2>3. QED
    BY <2>1, <2>2, Zenon DEF Worker, WCheck, WDecline, WCannotRun, WWait, WNote, WLock, WOut, WErr,
         WNoteWriteError
<1>7. QED
  BY <1>5, <1>6, Zenon DEF TypeOK

(* ... and never takes a slot.                                             *)
LEMMA WorkerLoop ==
  ASSUME RunInv, NEW j \in Jobs, Worker(j)
  PROVE  LoopInv'
<1> USE DEF given
<1>1. CASE WCheck(j)
  BY <1>1, LoopKept, Zenon DEF WCheck
<1>2. CASE WStart(j)
  BY <1>2, LoopKept, Zenon DEF WStart
<1>3. CASE WLock(j)
  BY <1>3, LoopKept, Zenon DEF WLock, RunInv, LoopInv
<1>4. CASE WDecline(j) \/ WCannotRun(j)
  BY <1>4, LoopKept, SMTT(30) DEF WDecline, WCannotRun, Verdict
<1>5. CASE WWait(j)
  BY <1>5, LoopKept DEF WWait, Verdict
<1>6. CASE WNote(j) \/ WNoteWriteError(j)
  BY <1>6, LoopKept, Zenon DEF WNote, WNoteWriteError
<1>7. CASE WOut(j) \/ WErr(j)
  <2>1. xpc \notin {"seq", "seqrun"}
    BY <1>7, Zenon DEF WOut, WErr, RunInv, LoopInv
  <2>2. \E l \in {"err", "werr", "done"} : WGoto(j, l)
    BY <1>7, Zenon DEF WOut, WErr
  <2>3. QED
    BY <1>7, <2>1, <2>2, LoopKept, Zenon DEF WOut, WErr
<1>8. QED
  BY <1>1, <1>2, <1>3, <1>4, <1>5, <1>6, <1>7, SMTT(30) DEF Worker

(* Every planned batch has a worker.                                       *)
LEMMA BatchIsJob ==
  ASSUME RunInv, NEW k \in 1 .. Len(batches)
  PROVE  k \in Jobs
<1>1. batches \in Seq(Range(batches)) /\ DOMAIN batches \subseteq Jobs
  BY Zenon DEF RunInv, OptsInv, TypeOK, XTypeOK
<1>2. QED
  BY <1>1

(* The loop hands batch number next to a worker. *)
LEMMA LoopBegins ==
  ASSUME RunInv, NEW l \in {"start", "check"}, WGoto(next, l), next <= Len(batches),
         next' = next + 1
  PROVE  /\ next \in Jobs
         /\ wpc' \in [Jobs -> WPcs] /\ next' \in 1 .. Len(batches) + 1
         /\ wpc[next] = "none" /\ wpc'[next] = l
         /\ \A i \in Jobs \ {next} : wpc'[i] = wpc[i]
         /\ \A i \in Jobs : wpc'[i] # "none" <=> i < next'
         /\ Active' = Active \cup {next} /\ next \notin Active
<1>1. wpc \in [Jobs -> WPcs] /\ next \in 1 .. Len(batches) + 1 /\ Len(batches) \in Nat
  BY DEF RunInv, OptsInv, TypeOK, XTypeOK, WPcs
<1>2. next \in Jobs
  BY <1>1, BatchIsJob, SMTT(30)
<1>3. wpc[next] = "none"
  BY <1>1, <1>2 DEF RunInv, LoopInv
<1>4. wpc' \in [Jobs -> WPcs] /\ wpc'[next] = l /\ \A i \in Jobs \ {next} : wpc'[i] = wpc[i]
  BY <1>1, <1>2, Zenon DEF WGoto, WPcs
<1>5. \A i \in Jobs : wpc'[i] # "none" <=> i < next'
  <2>1. \A i \in Jobs : wpc[i] # "none" <=> i < next
    BY Zenon DEF RunInv, LoopInv
  <2>2. \A i \in Jobs : i \in Nat
    BY JobNumbers, Zenon
  <2>3. QED
    BY <1>1, <1>4, <2>1, <2>2, SMTT(30)
<1>6. Active' = Active \cup {next} /\ next \notin Active
  BY <1>2, <1>3, <1>4, Zenon DEF Active
<1>7. QED
  BY <1>1, <1>2, <1>3, <1>4, <1>5, <1>6, SMTT(30)

(* plan() leaves types and slots right.                                    *)
LEMMA LoopPlan ==
  ASSUME RunInv, XPlan
  PROVE  TypeOK' /\ LoopInv'
<1> DEFINE parsed == Parse(opts, posix)
<1>1. OptsInv /\ XTypeOK /\ TTypeOK /\ LoopInv
  BY Zenon DEF RunInv, TypeOK
<1>2. xpc = "run" /\ next = 1 /\ next' = 1 /\ \A j \in Jobs : wpc[j] = "none"
  <2>1. xpc = "run" /\ UNCHANGED next
    BY Zenon DEF XPlan
  <2>2. next = 1 /\ \A j \in Jobs : wpc[j] # "none" <=> j < next
    BY <1>1, <2>1, Zenon DEF LoopInv
  <2>3. QED
    BY <2>1, <2>2, JobNumbers, SMTT(30)
<1>3. /\ batches' = PlanFor(input, parsed).batches /\ Usable(opts, parsed)
      /\ DOMAIN batches' \subseteq Jobs
      /\ batches' \in Seq(Range(batches'))
  BY <1>1, GivenTyped, Zenon DEF XPlan
<1>4. next' \in 1 .. Len(batches') + 1
  BY <1>2, <1>3, SMTT(30)
<1>5. /\ xpc' \in {"seq", "top", "exit"} /\ exit' \in {exit, 0, 1, 2}
      /\ xpc' # "exit" => batches' # <<>>
      /\ xpc' = "seq" => ~Parallel'
      /\ xpc' = "top" => Parallel'
  BY Zenon DEF XPlan, Exit
<1>6. UNCHANGED <<wpc, code, stop, wfail, mu, stopped, worst, out, tvars>>
  BY Zenon DEF XPlan
<1>7. XTypeOK'
  BY <1>1, <1>3, <1>4, <1>5, <1>6, SMTT(30) DEF XTypeOK
<1>8. TTypeOK'
  BY <1>1, <1>6, Zenon DEF TTypeOK, tvars
<1>9. Active' = {}
  BY <1>2, <1>6, Zenon DEF Active
<1>10. Cardinality(Active') <= Procs'
  <2>1. OptsInv'
    BY <1>1, OptsStep, Zenon DEF Next, Loop
  <2>2. Procs' \in Nat
    <3>1. Len(batches') \in Nat
      BY <1>3
    <3>2. QED
      BY <2>1, <3>1, Zenon DEF OptsInv, Procs
  <2>3. QED
    BY <1>9, <2>2, FS_EmptySet
<1>11. mu = NoJob /\ wfail = {}
  BY <1>1, <1>2, Zenon DEF LoopInv
<1>12. LoopInv'
  BY <1>2, <1>3, <1>5, <1>6, <1>9, <1>10, <1>11, JobNumbers, SMTT(30) DEF LoopInv, NoJob
<1>13. QED
  BY <1>7, <1>8, <1>12, Zenon DEF TypeOK

(* So does every step of the dispatching loops: a batch begins only where  *)
(* a slot is free.                                                         *)
LEMMA LoopSteps ==
  ASSUME RunInv, Loop
  PROVE  TypeOK' /\ LoopInv'
<1>1. OptsInv /\ XTypeOK /\ TTypeOK /\ LoopInv
  BY DEF RunInv, TypeOK
<1>2. CASE XPlan
  BY <1>2, LoopPlan, Zenon
<1>3. CASE XRefuse
  <2>1. /\ xpc = "run" /\ xpc' = "exit" /\ exit' \in {1, 2}
        /\ UNCHANGED <<batches, next, wpc, code, stop, wfail, mu, stopped, worst, out, given, tvars>>
    BY <1>3, Zenon DEF XRefuse, Exit
  <2>2. \A j \in Jobs : wpc[j] = "none"
    BY <1>1, <2>1, JobNumbers, SMTT(30) DEF LoopInv, NoJob
  <2>3. XTypeOK' /\ TTypeOK'
    BY <1>1, <2>1, SMTT(30) DEF XTypeOK, TTypeOK, given, tvars
  <2>4. LoopInv'
    BY <1>1, <2>1, <2>2, Zenon DEF LoopInv, Active
  <2>5. QED
    BY <2>3, <2>4, Zenon DEF TypeOK
<1>4. CASE ~XRefuse /\ ~XPlan
  <2>0. UNCHANGED <<batches, code, stop, wfail, mu, stopped, worst, out, given, tvars>>
    BY <1>4, Zenon DEF Loop, SeqNext, SeqRan, DispatchTop, Dispatch, DispatchWait
  <2>1. UNCHANGED <<Procs, Parallel>>
    BY <2>0, Zenon DEF Procs, Parallel, given
  <2>2. TTypeOK'
    BY <1>1, <2>0, Zenon DEF TTypeOK, given, tvars
  <2>3. CASE SeqNext /\ next > Len(batches)
    <3>1. xpc = "seq" /\ xpc' = "exit" /\ exit' = worst /\ UNCHANGED <<next, wpc>>
      BY <2>3, Zenon DEF SeqNext, Exit
    <3>2. XTypeOK'
      BY <1>1, <2>0, <3>1, Zenon DEF XTypeOK
    <3>3. LoopInv'
      BY <1>1, <2>0, <3>1, Zenon DEF LoopInv, Active
    <3>4. QED
      BY <2>2, <3>2, <3>3, Zenon DEF TypeOK
  <2>4. CASE SeqNext /\ ~(next > Len(batches))
    <3>1. /\ xpc = "seq" /\ WGoto(next, "start") /\ next' = next + 1 /\ xpc' = "seqrun"
          /\ UNCHANGED exit
      BY <2>4, Zenon DEF SeqNext
    <3>2. next \in Nat \ {0} /\ Len(batches) \in Nat
      BY <1>1 DEF XTypeOK, OptsInv
    <3>3. next <= Len(batches)
      BY <2>4, <3>2
    <3>4. /\ wpc' \in [Jobs -> WPcs] /\ next' \in 1 .. Len(batches) + 1
          /\ wpc'[next] = "start"
          /\ \A i \in Jobs \ {next} : wpc'[i] = wpc[i]
          /\ \A i \in Jobs : wpc'[i] # "none" <=> i < next'
          /\ Active' = Active \cup {next}
      BY <3>1, <3>3, LoopBegins, Zenon
    <3>5. XTypeOK'
      BY <1>1, <2>0, <3>1, <3>4, ZenonT(30) DEF XTypeOK, WPcs
    <3>6. Active' \subseteq {next' - 1} /\ next' > 1
      BY <1>1, <3>1, <3>2, <3>4, SMTT(30) DEF LoopInv
    <3>7. LoopInv'
      BY <1>1, <2>0, <2>1, <3>1, <3>4, <3>6, Zenon DEF LoopInv
    <3>8. QED
      BY <2>2, <3>5, <3>7 DEF TypeOK
  <2>5. CASE SeqRan
    <3>1. /\ xpc = "seqrun" /\ WGoto(next - 1, "done") /\ xpc' \in {"seq", "exit"}
          /\ exit' \in {exit, worst} /\ UNCHANGED next /\ wpc[next - 1] = "ran"
      BY <2>5, Zenon DEF SeqRan, Exit
    <3>2. /\ wpc' \in [Jobs -> WPcs]
          /\ \A i \in Jobs : wpc'[i] = wpc[i] \/ (i = next - 1 /\ wpc'[i] = "done")
          /\ next - 1 \in Jobs => wpc'[next - 1] = "done"
      BY <1>1, <3>1, Zenon DEF XTypeOK, WGoto, WPcs
    <3>3. XTypeOK'
      BY <1>1, <2>0, <3>1, <3>2, SMTT(30) DEF XTypeOK, WPcs
    <3>4. Active' = {}
      BY <1>1, <3>1, <3>2, Zenon DEF LoopInv, Active
    <3>5. \A i \in Jobs : wpc'[i] # "none" <=> i < next'
      <4>1. \A i \in Jobs : wpc[i] # "none" <=> i < next
        BY <1>1, Zenon DEF LoopInv
      <4>2. \A i \in Jobs : i = next - 1 => wpc[i] # "none"
        BY <3>1, Zenon
      <4>3. QED
        BY <3>1, <3>2, <4>1, <4>2, Zenon
    <3>6. LoopInv'
      BY <1>1, <2>0, <2>1, <3>1, <3>2, <3>4, <3>5, Zenon DEF LoopInv
    <3>7. QED
      BY <2>2, <3>3, <3>6 DEF TypeOK
  <2>6. CASE DispatchTop
    <3>1. /\ xpc = "top" /\ xpc' \in {"wait", "sem"} /\ UNCHANGED <<next, wpc, exit>>
          /\ xpc' = "sem" => ~(next > Len(batches))
      BY <2>6, Zenon DEF DispatchTop
    <3>2. XTypeOK'
      BY <1>1, <2>0, <3>1, SMTT(30) DEF XTypeOK
    <3>3. next \in Nat /\ Len(batches) \in Nat /\ UNCHANGED Active
      BY <1>1, <3>1, SMTT(30) DEF XTypeOK, OptsInv, Active
    <3>4. LoopInv'
      BY <1>1, <2>0, <2>1, <3>1, <3>3, SMTT(30) DEF LoopInv
    <3>5. QED
      BY <2>2, <3>2, <3>4 DEF TypeOK
  <2>7. CASE Dispatch
    <3>1. /\ xpc = "sem" /\ WGoto(next, "check") /\ next' = next + 1 /\ xpc' = "top"
          /\ UNCHANGED exit /\ Cardinality(Active) < Procs
      BY <2>7, Zenon DEF Dispatch
    <3>2. next <= Len(batches)
      BY <1>1, <3>1, Zenon DEF LoopInv
    <3>3. /\ wpc' \in [Jobs -> WPcs] /\ next' \in 1 .. Len(batches) + 1
          /\ \A i \in Jobs : wpc'[i] # "none" <=> i < next'
          /\ Active' = Active \cup {next} /\ next \notin Active
      BY <3>1, <3>2, LoopBegins, Zenon
    <3>4. XTypeOK'
      BY <1>1, <2>0, <3>1, <3>3, SMTT(30) DEF XTypeOK, WPcs
    <3>5. Cardinality(Active') = Cardinality(Active) + 1
      BY <3>3, ActiveFinite, FS_AddElement, Zenon
    <3>6. Cardinality(Active') <= Procs'
      BY <1>1, <2>1, <3>1, <3>5, ActiveFinite, ProcsTyped, SMTT(30)
    <3>7. LoopInv'
      BY <1>1, <2>0, <2>1, <3>1, <3>3, <3>6, Zenon DEF LoopInv
    <3>8. QED
      BY <2>2, <3>4, <3>7 DEF TypeOK
  <2>8. CASE DispatchWait
    <3>1. xpc = "wait" /\ xpc' = "exit" /\ exit' = worst /\ UNCHANGED <<next, wpc>> /\ Active = {}
      BY <2>8, Zenon DEF DispatchWait, Exit
    <3>2. XTypeOK'
      BY <1>1, <2>0, <3>1, Zenon DEF XTypeOK
    <3>3. LoopInv'
      BY <1>1, <2>0, <3>1, Zenon DEF LoopInv, Active
    <3>4. QED
      BY <2>2, <3>2, <3>3 DEF TypeOK
  <2>9. QED
    BY <1>4, <2>3, <2>4, <2>5, <2>6, <2>7, <2>8, Zenon DEF Loop
<1>5. QED
  BY <1>2, <1>3, <1>4, Zenon

(* Every step keeps the invariant.                                         *)
LEMMA RunStep == RunInv /\ [Next]_vars => RunInv'
<1> SUFFICES ASSUME RunInv, [Next]_vars PROVE RunInv'
  OBVIOUS
<1>1. OptsInv'
  BY OptsStep, Zenon DEF RunInv
<1>2. CASE Loop
  BY <1>1, <1>2, LoopSteps, Zenon DEF RunInv
<1>3. ASSUME NEW j \in Jobs, Worker(j) PROVE RunInv'
  BY <1>1, <1>3, WorkerTypes, WorkerLoop, Zenon DEF RunInv
<1>4. ASSUME NEW j \in Jobs, Child(j) PROVE RunInv'
  <2>1. TTypeOK'
    BY <1>4, ChildTypes, Zenon DEF RunInv, TypeOK, Child
  <2>2. UNCHANGED xvars
    BY <1>4, Zenon DEF Child
  <2>3. XTypeOK'
    BY <2>2, SMTT(30) DEF RunInv, TypeOK, xvars, XTypeOK
  <2>4. LoopInv'
    BY <2>2, Zenon DEF RunInv, xvars, LoopInv, Active, Parallel, Procs
  <2>5. QED
    BY <1>1, <2>1, <2>3, <2>4, Zenon DEF RunInv, TypeOK
<1>5. CASE UNCHANGED vars
  <2>1. XTypeOK'
    BY <1>5, SMTT(30) DEF RunInv, TypeOK, XTypeOK, vars, xvars
  <2>2. TTypeOK'
    BY <1>5, Zenon DEF RunInv, TypeOK, TTypeOK, vars, tvars
  <2>3. LoopInv'
    BY <1>5, Zenon DEF RunInv, LoopInv, Active, Parallel, Procs, vars, xvars
  <2>4. QED
    BY <1>1, <2>1, <2>2, <2>3, Zenon DEF RunInv, TypeOK
<1>6. QED
  BY <1>2, <1>3, <1>4, <1>5, Zenon DEF Next

(* execBatches, runOne and the commands keep every variable in its range:  *)
(* every batch has a worker and every status is one xargs may report.      *)
THEOREM TypeCorrect == Spec => []TypeOK
<1>1. RunInv => TypeOK
  BY Zenon DEF RunInv
<1>2. QED
  BY <1>1, RunInit, RunStep, PTL DEF Spec

(* execBatches: never more commands at once than -P allows.                *)
THEOREM SlotsRespectedHolds == Spec => []SlotsRespected
<1>1. RunInv => SlotsRespected
  <2> SUFFICES ASSUME RunInv, NEW i \in Jobs, wpc[i] = "run"
               PROVE  Cardinality({j \in Jobs : wpc[j] = "run"}) <= Procs
    BY Zenon DEF SlotsRespected
  <2> DEFINE running == {j \in Jobs : wpc[j] = "run"}
  <2>1. running \in SUBSET Active /\ i \in Active
    BY Zenon DEF Active
  <2>2. Cardinality(running) <= Cardinality(Active) /\ Cardinality(running) \in Nat
    BY <2>1, ActiveFinite, FS_Subset, FS_CardinalityType, Zenon
  <2>3. OptsInv /\ XTypeOK /\ LoopInv
    BY Zenon DEF RunInv, TypeOK
  <2>4. CASE xpc \in {"top", "sem", "wait"}
    BY <2>2, <2>3, <2>4, ActiveFinite, ProcsTyped, SMTT(30) DEF LoopInv
  <2>5. CASE xpc = "seqrun"
    <3>1. Active = {next - 1}
      BY <2>1, <2>3, <2>5, Zenon DEF LoopInv
    <3>2. Cardinality(Active) = 1
      BY <3>1, FS_Singleton, Zenon
    <3>3. Procs \in Nat /\ Procs >= 1
      BY <2>3, <2>5, ProcsTyped, Zenon DEF LoopInv
    <3>4. QED
      BY <2>2, <3>2, <3>3
  <2>6. xpc \notin {"run", "seq", "exit"}
    BY <2>1, <2>3, JobNumbers, SMTT(30) DEF LoopInv, NoJob
  <2>7. QED
    BY <2>3, <2>4, <2>5, <2>6, Zenon DEF XTypeOK
<1>2. QED
  BY <1>1, RunInit, RunStep, PTL DEF Spec

-----------------------------------------------------------------------------
(* Stopping *)

(* One process: the loop goes on to the next batch only if no runOne has   *)
(* returned true, so the batch that did is the last one begun.             *)
SeqStopInv ==
  /\ xpc \in {"run", "seq"} => stop = {}
  /\ ~Parallel => stop \subseteq {next - 1}

(* Several processes: a batch with all its output written is over, and a   *)
(* batch that stops xargs has stopped set before its section is left, when *)
(* every other batch begun has one of the remaining slots.                 *)
HeedInv ==
  /\ xpc \in {"run", "seq", "seqrun"} => out = <<>>
  /\ \A k \in DOMAIN out : out[k][2] = "err" => wpc[out[k][1]] \in {"werr", "done"}
  /\ \A k \in DOMAIN out : StopsAt(k) => stopped /\ Cardinality(After(k)) < Procs

(* The number of slots is fixed once the options are.                      *)
LEMMA SameProcs == UNCHANGED <<o, batches>> => UNCHANGED <<Procs, Parallel>>
BY Zenon DEF Parallel, Procs

(* A worker takes its step in a run that has begun, and only a worker that *)
(* has not yet flushed can be the one that stops.                          *)
LEMMA WorkerEffect ==
  ASSUME RunInv, NEW j \in Jobs, Worker(j)
  PROVE  /\ UNCHANGED <<xpc, next, o, batches>>
         /\ j \in Active
         /\ DOMAIN wpc' = Jobs /\ \A i \in Jobs \ {j} : wpc'[i] = wpc[i]
         /\ stop' = stop \/ (stop' = stop \cup {j} /\ j \in Begun)
         /\ stopped => j \in Begun \/ wpc'[j] \in {"werr", "done"}
         /\ wpc[j] = "werr" => wpc'[j] = "done"
<1>1. DOMAIN wpc = Jobs
  BY Zenon DEF RunInv, TypeOK, XTypeOK
<1> USE DEF given
<1>2. CASE WCheck(j)
  BY <1>1, <1>2, Zenon DEF WCheck, WGoto, Active
<1>3. CASE WStart(j) \/ WNote(j) \/ WLock(j)
  BY <1>1, <1>3, ZenonT(30) DEF WStart, WNote, WLock, WGoto, Active, Begun
<1>4. CASE WDecline(j) \/ WCannotRun(j)
  <2>1. \E c, s : Verdict(j, c, s)
    BY <1>4, Zenon DEF WDecline, WCannotRun
  <2>2. QED
    BY <1>1, <1>4, <2>1, ZenonT(30) DEF WDecline, WCannotRun, Verdict, WGoto, Active, Begun
<1>5. CASE WWait(j)
  <2>1. \/ Verdict(j, 125, TRUE) \/ Verdict(j, 0, FALSE) \/ Verdict(j, 124, TRUE)
        \/ Verdict(j, 123, FALSE) \/ Verdict(j, 126, TRUE)
    BY <1>5, Zenon DEF WWait
  <2>2. QED
    BY <1>1, <1>5, <2>1, ZenonT(30) DEF WWait, Verdict, WGoto, Active, Begun
<1>6. CASE WOut(j) \/ WErr(j)
  BY <1>1, <1>6, ZenonT(30) DEF WOut, WErr, WGoto, Active, Begun
<1>7. CASE WNoteWriteError(j)
  BY <1>1, <1>7, Zenon DEF WNoteWriteError, WGoto, Active
<1>8. QED
  BY <1>2, <1>3, <1>4, <1>5, <1>6, <1>7, Zenon DEF Worker

LEMMA SeqStopInit == Init => SeqStopInv
BY Zenon DEF Init, SeqStopInv

LEMMA SeqStopStep == RunInv /\ SeqStopInv /\ [Next]_vars => SeqStopInv'
<1> SUFFICES ASSUME RunInv, SeqStopInv, [Next]_vars PROVE SeqStopInv'
  OBVIOUS
<1>1. CASE XPlan \/ XRefuse \/ SeqNext
  <2>1. stop' = {}
    BY <1>1, Zenon DEF XPlan, XRefuse, SeqNext, SeqStopInv
  <2>2. QED
    BY <2>1, Zenon DEF SeqStopInv
<1>2. CASE SeqRan
  <2>1. stop \subseteq {next - 1} /\ UNCHANGED <<stop, next>> /\ xpc' \in {"seq", "exit"}
        /\ (xpc' = "seq" => next - 1 \notin stop)
    BY <1>2, Zenon DEF SeqRan, Exit, SeqStopInv, RunInv, LoopInv
  <2>2. QED
    BY <2>1, Zenon DEF SeqStopInv
<1>3. CASE DispatchTop \/ Dispatch \/ DispatchWait
  <2>1. Parallel /\ UNCHANGED <<o, batches>> /\ xpc' \in {"top", "sem", "wait", "exit"}
    BY <1>3, Zenon DEF DispatchTop, Dispatch, DispatchWait, Exit, given, RunInv, LoopInv
  <2>2. QED
    BY <2>1, SameProcs, Zenon DEF SeqStopInv
<1>4. ASSUME NEW j \in Jobs, Worker(j) PROVE SeqStopInv'
  <2>1. /\ UNCHANGED <<xpc, next, o, batches>> /\ j \in Active
        /\ (stop' = stop \/ stop' = stop \cup {j})
    BY <1>4, WorkerEffect, Zenon
  <2>2. xpc \notin {"run", "seq", "exit"}
    BY <2>1, JobNumbers, SMTT(30) DEF RunInv, LoopInv, Active, NoJob
  <2>3. ~Parallel => j = next - 1
    BY <2>1, <2>2, Zenon DEF RunInv, TypeOK, XTypeOK, LoopInv
  <2>4. QED
    BY <2>1, <2>2, <2>3, SameProcs, Zenon DEF SeqStopInv
<1>5. CASE (\E j \in Jobs : Child(j)) \/ UNCHANGED vars
  <2>1. UNCHANGED <<xpc, next, stop, o, batches>>
    BY <1>5, Zenon DEF Child, vars, xvars
  <2>2. QED
    BY <2>1, SameProcs, Zenon DEF SeqStopInv
<1>6. QED
  BY <1>1, <1>2, <1>3, <1>4, <1>5, Zenon DEF Next, Loop

(* What may follow the k-th write is a set of batches.                     *)
LEMMA AfterFinite ==
  ASSUME RunInv, NEW k \in DOMAIN out
  PROVE  After(k) \in SUBSET Jobs /\ IsFiniteSet(After(k)) /\ Cardinality(After(k)) \in Nat
<1>1. out \in Seq(Jobs \X {"out", "err"})
  BY Zenon DEF RunInv, TypeOK, XTypeOK
<1>2. \A i \in k + 1 .. Len(out) : i \in DOMAIN out
  BY <1>1
<1>3. \A i \in DOMAIN out : out[i][1] \in Jobs
  BY <1>1
<1>4. After(k) \in SUBSET Jobs
  BY <1>2, <1>3, Zenon DEF After, Begun
<1>5. QED
  BY <1>4, XargsAssumption, FS_Subset, FS_CardinalityType, Zenon

(* Nothing more can follow a write than could before.                      *)
LEMMA FewerAfter ==
  ASSUME RunInv, NEW k \in DOMAIN out, Cardinality(After(k)) < Procs,
         UNCHANGED <<o, batches>>, After(k)' \subseteq After(k)
  PROVE  Cardinality(After(k)') < Procs'
<1>1. Cardinality(After(k)') <= Cardinality(After(k)) /\ Cardinality(After(k)') \in Nat
  BY AfterFinite, FS_Subset, FS_CardinalityType, Zenon
<1>2. \A x, y, z \in Nat : x <= y /\ y < z => x < z
  OBVIOUS
<1>3. Procs \in Nat /\ Procs' = Procs
  BY SameProcs, ProcsTyped, Zenon DEF RunInv
<1>4. QED
  BY <1>1, <1>2, <1>3, AfterFinite, Zenon

(* A step that writes nothing, or nothing more than a batch begun: what is *)
(* known of the writes already made stays.                                 *)
LEMMA HeedOld ==
  ASSUME RunInv, HeedInv, UNCHANGED <<o, batches>>, stopped => stopped',
         \A j \in Jobs : wpc[j] \in {"werr", "done"} => wpc'[j] \in {"werr", "done"},
         stop' \cup wfail' \subseteq stop \cup wfail \cup Begun,
         NEW k \in DOMAIN out, k \in DOMAIN out', out'[k] = out[k],
         stopped => After(k)' \subseteq After(k)
  PROVE  /\ out'[k][2] = "err" => wpc'[out'[k][1]] \in {"werr", "done"}
         /\ StopsAt(k)' => stopped' /\ Cardinality(After(k)') < Procs'
<1>1. out[k][1] \in Jobs
  BY DEF RunInv, TypeOK, XTypeOK
<1>2. out[k][2] = "err" => wpc[out[k][1]] \in {"werr", "done"}
  BY Zenon DEF HeedInv
<1>3. out'[k][2] = "err" => wpc'[out'[k][1]] \in {"werr", "done"}
  BY <1>1, <1>2, Zenon
<1>4. ASSUME StopsAt(k)' PROVE StopsAt(k)
  <2>1. out[k][2] = "err" /\ out[k][1] \in stop' \cup wfail'
    BY <1>4, Zenon DEF StopsAt
  <2>2. out[k][1] \notin Begun
    BY <1>2, <2>1, Zenon DEF Begun
  <2>3. QED
    BY <2>1, <2>2, Zenon DEF StopsAt
<1>5. StopsAt(k) => stopped /\ Cardinality(After(k)) < Procs
  BY Zenon DEF HeedInv
<1>6. QED
  BY <1>3, <1>4, <1>5, FewerAfter, Zenon

LEMMA HeedInit == Init => HeedInv
BY DEF Init, HeedInv

(* Only the workers write.                                                 *)
LEMMA HeedQuiet ==
  ASSUME RunInv, HeedInv, UNCHANGED <<o, batches, out>>, stopped => stopped',
         xpc' \in {"run", "seq", "seqrun"} => xpc \in {"run", "seq", "seqrun"},
         \A j \in Jobs : wpc[j] \in {"werr", "done"} => wpc'[j] \in {"werr", "done"},
         stop' \cup wfail' \subseteq stop \cup wfail \cup Begun,
         stopped => Begun' \subseteq Begun
  PROVE  HeedInv'
<1>1. \A k \in DOMAIN out : stopped => After(k)' \subseteq After(k)
  BY Zenon DEF After
<1>2. QED
  BY <1>1, HeedOld, Zenon DEF HeedInv

(* The dispatching loop begins no batch once stopped is set: what it gives *)
(* a slot has its own look at stopped before it.                           *)
LEMMA HeedLoop ==
  ASSUME RunInv, HeedInv, Loop
  PROVE  HeedInv'
<1>1. CASE XPlan \/ XRefuse \/ SeqNext \/ SeqRan
  <2>1. out = <<>> /\ UNCHANGED out
    BY <1>1, Zenon DEF XPlan, XRefuse, SeqNext, SeqRan, HeedInv
  <2>2. DOMAIN out' = {}
    BY <2>1
  <2>3. QED
    BY <2>1, <2>2, Zenon DEF HeedInv
<1>2. CASE DispatchTop \/ DispatchWait
  <2>1. UNCHANGED <<o, batches, out, wpc, stop, wfail, stopped>>
        /\ xpc' \in {"sem", "wait", "exit"}
    BY <1>2, Zenon DEF DispatchTop, DispatchWait, Exit, given
  <2>2. QED
    BY <2>1, HeedQuiet, Zenon DEF Begun
<1>3. CASE Dispatch
  <2>1. UNCHANGED <<o, batches, out, stop, wfail, stopped>> /\ xpc' = "top"
        /\ wpc' = [wpc EXCEPT ![next] = "check"] /\ xpc = "sem"
    BY <1>3, Zenon DEF Dispatch, WGoto, given
  <2>2. next \in Jobs /\ wpc[next] = "none"
    <3>0. next \in 1 .. Len(batches)
      <4>1. /\ next \in 1 .. Len(batches) + 1 /\ next <= Len(batches)
            /\ batches \in Seq(Range(batches))
        BY <2>1, Zenon DEF RunInv, OptsInv, TypeOK, XTypeOK, LoopInv
      <4>2. QED
        BY <4>1
    <3>1. next \in Jobs
      BY <3>0, BatchIsJob, Zenon
    <3>2. ~(next < next)
      BY <3>1, JobNumbers
    <3>3. QED
      BY <3>1, <3>2, Zenon DEF RunInv, LoopInv
  <2>3. DOMAIN wpc = Jobs
    BY Zenon DEF RunInv, TypeOK, XTypeOK
  <2>4. wpc'[next] = "check" /\ \A j \in Jobs \ {next} : wpc'[j] = wpc[j]
    BY <2>1, <2>2, <2>3, Zenon
  <2>5. Begun' \subseteq Begun
    BY <2>4, Zenon DEF Begun
  <2>6. QED
    BY <2>1, <2>2, <2>4, <2>5, HeedQuiet, Zenon
<1>4. QED
  BY <1>1, <1>2, <1>3, Zenon DEF Loop

(* The section under mu: its last write, and stopped with it.              *)
LEMMA HeedFlush ==
  ASSUME RunInv, HeedInv, NEW j \in Jobs, WOut(j) \/ WErr(j)
  PROVE  HeedInv'
<1>0. DOMAIN wpc = Jobs /\ out \in Seq(Jobs \X {"out", "err"})
  BY Zenon DEF RunInv, TypeOK, XTypeOK
<1> PICK n \in Nat : n = Len(out) + 1
  BY <1>0
<1>1. PICK x : out' = Append(out, <<j, x>>) /\ x \in {"out", "err"}
                /\ (x = "out" <=> WOut(j))
  BY Zenon DEF WOut, WErr
<1>2. /\ UNCHANGED <<xpc, o, batches, stop>> /\ j \in Begun /\ j \in Active
      /\ wfail' \subseteq wfail \cup {j} /\ (stopped => stopped')
      /\ \A i \in Jobs \ {j} : wpc'[i] = wpc[i]
      /\ wpc[j] \notin {"werr", "done"}
  <2>1. CASE WOut(j)
    BY <1>0, <2>1, ZenonT(30) DEF WOut, WGoto, Begun, Active, given
  <2>2. CASE WErr(j)
    BY <1>0, <2>2, ZenonT(30) DEF WErr, WGoto, Begun, Active, given
  <2>3. QED
    BY <2>1, <2>2, Zenon
<1>3. /\ Len(out') = n /\ Len(out) \in Nat
      /\ DOMAIN out' = 1 .. n /\ DOMAIN out = 1 .. Len(out)
      /\ out'[n] = <<j, x>>
      /\ \A k \in 1 .. Len(out) : out'[k] = out[k]
  BY <1>0, <1>1
<1>4. \A k : k \in 1 .. n <=> k \in 1 .. Len(out) \/ k = n
  BY <1>3
<1>5. Begun' \subseteq Begun
  BY <1>2, Zenon DEF Begun
<1>6. xpc \in {"top", "sem", "wait"}
  <2>1. xpc \notin {"seqrun", "seq", "exit"}
    BY <1>2, Zenon DEF RunInv, LoopInv, WOut, WErr
  <2>2. ~(j < 1)
    BY JobNumbers DEF NoJob
  <2>3. wpc[j] # "none"
    BY <1>2, Zenon DEF Active
  <2>4. xpc # "run"
    BY <2>2, <2>3, Zenon DEF RunInv, LoopInv
  <2>5. QED
    BY <2>1, <2>4, Zenon DEF RunInv, TypeOK, XTypeOK
<1>7. ASSUME NEW k \in 1 .. Len(out)
      PROVE  /\ out'[k][2] = "err" => wpc'[out'[k][1]] \in {"werr", "done"}
             /\ StopsAt(k)' => stopped' /\ Cardinality(After(k)') < Procs'
  <2>1. \A i \in k + 1 .. n : (i \in k + 1 .. Len(out) /\ i \in 1 .. Len(out)) \/ i = n
    BY <1>3
  <2>2. {out'[i][1] : i \in k + 1 .. n} \subseteq {out[i][1] : i \in k + 1 .. Len(out)} \cup {j}
    <3>1. ASSUME NEW i \in k + 1 .. n
          PROVE  out'[i][1] \in {out[m][1] : m \in k + 1 .. Len(out)} \cup {j}
      <4>1. CASE i = n
        BY <1>3, <4>1
      <4>2. CASE i \in k + 1 .. Len(out) /\ i \in 1 .. Len(out)
        BY <1>3, <4>2, Zenon
      <4>3. QED
        BY <2>1, <4>1, <4>2, Zenon
    <3>2. QED
      BY <3>1, Zenon
  <2>3. After(k)' = {out'[i][1] : i \in k + 1 .. n} \cup Begun'
    BY <1>3, Zenon DEF After
  <2>4. After(k)' \subseteq After(k)
    BY <1>2, <1>5, <2>2, <2>3, Zenon DEF After
  <2>5. k \in DOMAIN out /\ k \in DOMAIN out' /\ out'[k] = out[k]
    BY <1>3, <1>4, Zenon
  <2>6. \A i \in Jobs : wpc[i] \in {"werr", "done"} => wpc'[i] \in {"werr", "done"}
    BY <1>2, Zenon DEF Begun
  <2>7. stop' \cup wfail' \subseteq stop \cup wfail \cup Begun
    BY <1>2, Zenon
  <2>8. QED
    BY <1>2, <2>4, <2>5, <2>6, <2>7, HeedOld, Zenon
<1>8. x = "err" => wpc'[j] \in {"werr", "done"}
  BY <1>0, <1>1, Zenon DEF WErr, WGoto
<1>9. ASSUME StopsAt(n)' PROVE stopped' /\ Cardinality(After(n)') < Procs'
  <2>1. out'[n][2] = x /\ out'[n][1] = j
    BY <1>3
  <2>2. x = "err" /\ j \in stop' \cup wfail'
    BY <1>9, <2>1, Zenon DEF StopsAt
  <2>3. stopped'
    BY <1>1, <2>2, ZenonT(30) DEF WErr
  <2>4. {out'[i][1] : i \in n + 1 .. Len(out')} = {}
    BY <1>3
  <2>5. After(n)' \subseteq Active \ {j}
    BY <1>2, <1>5, <1>8, <2>2, <2>4, Zenon DEF After, Begun, Active
  <2>6. Cardinality(Active \ {j}) = Cardinality(Active) - 1 /\ IsFiniteSet(Active \ {j})
    BY <1>2, ActiveFinite, FS_RemoveElement, Zenon
  <2>7. /\ Cardinality(After(n)') \in Nat /\ Cardinality(Active \ {j}) \in Nat
        /\ Cardinality(After(n)') <= Cardinality(Active \ {j})
    BY <2>5, <2>6, FS_Subset, FS_CardinalityType, Zenon
  <2>8. Cardinality(Active) <= Procs /\ Procs \in Nat /\ Procs' = Procs
    BY <1>2, <1>6, SameProcs, ProcsTyped, Zenon DEF RunInv, LoopInv
  <2>9. \A a, b, c, d \in Nat : a <= b /\ b = c - 1 /\ c <= d => a < d
    OBVIOUS
  <2>10. QED
    BY <2>3, <2>6, <2>7, <2>8, <2>9, ActiveFinite, Zenon
<1>10. out'[n][2] = "err" => wpc'[out'[n][1]] \in {"werr", "done"}
  BY <1>3, <1>8
<1>11. QED
  BY <1>2, <1>3, <1>4, <1>6, <1>7, <1>9, <1>10, Zenon DEF HeedInv

LEMMA HeedStep == RunInv /\ HeedInv /\ [Next]_vars => HeedInv'
<1> SUFFICES ASSUME RunInv, HeedInv, [Next]_vars PROVE HeedInv'
  OBVIOUS
<1>1. ASSUME NEW j \in Jobs, Worker(j) PROVE HeedInv'
  <2>1. CASE WOut(j) \/ WErr(j)
    BY <2>1, HeedFlush, Zenon
  <2>2. CASE ~(WOut(j) \/ WErr(j))
    <3>1. UNCHANGED <<out, wfail, stopped>>
      BY <1>1, <2>2, Zenon DEF Worker, WCheck, WDecline, WCannotRun, WStart, WWait, WNote, WLock,
           WNoteWriteError
    <3>2. /\ UNCHANGED <<xpc, o, batches>>
          /\ \A i \in Jobs \ {j} : wpc'[i] = wpc[i]
          /\ stop' = stop \/ (stop' = stop \cup {j} /\ j \in Begun)
          /\ stopped => j \in Begun \/ wpc'[j] \in {"werr", "done"}
          /\ wpc[j] = "werr" => wpc'[j] = "done"
          /\ wpc[j] # "done"
      BY <1>1, WorkerEffect, Zenon DEF Active
    <3>3. stopped => Begun' \subseteq Begun
      BY <3>2, Zenon DEF Begun
    <3>4. stop' \cup wfail' \subseteq stop \cup wfail \cup Begun
      BY <3>1, <3>2, Zenon
    <3>5. QED
      BY <3>1, <3>2, <3>3, <3>4, HeedQuiet, Zenon
  <2>3. QED
    BY <2>1, <2>2, Zenon
<1>2. CASE (\E j \in Jobs : Child(j)) \/ UNCHANGED vars
  <2>1. UNCHANGED <<out, wfail, stopped, xpc, o, batches, wpc, stop>>
    BY <1>2, Zenon DEF Child, vars, xvars
  <2>2. QED
    BY <2>1, HeedQuiet, Zenon DEF Begun
<1>3. QED
  BY <1>1, <1>2, HeedLoop, Zenon DEF Next

(* execBatches: the output of a batch that stops xargs is followed by that *)
(* of the batches it shared the slots with and by no other, fewer than -P  *)
(* allows at once; with one process it is the last batch begun.            *)
THEOREM StopIsHeededHolds == Spec => []StopIsHeeded
<1> DEFINE I == RunInv /\ SeqStopInv /\ HeedInv
<1>1. Init => I
  BY RunInit, SeqStopInit, HeedInit, Zenon
<1>2. I /\ [Next]_vars => I'
  BY RunStep, SeqStopStep, HeedStep, Zenon
<1>3. I => StopIsHeeded
  <2> SUFFICES ASSUME I, ~Parallel, NEW j \in stop, NEW i \in Jobs, i > j
               PROVE  wpc[i] = "none"
    BY Zenon DEF StopIsHeeded, HeedInv
  <2>1. j = next - 1 /\ next \in Nat
    BY DEF SeqStopInv, RunInv, TypeOK, XTypeOK
  <2>2. ~(i < next)
    BY <2>1, JobNumbers
  <2>3. QED
    BY <2>2, Zenon DEF RunInv, LoopInv
<1>4. QED
  BY <1>1, <1>2, <1>3, PTL DEF Spec

-----------------------------------------------------------------------------
(* What every batch comes to *)

(* A batch whose goroutine found that xargs had stopped.                   *)
Skipped(j) == stopped /\ wpc[j] = "done"

(* Batch j was declined, or its command ended with status 0.               *)
Succeeded(j) ==
  \/ o.interactive /\ tpc[j] = "none"
  \/ tpc[j] = "exited" /\ tstatus[j] = 0

(* One batch: its child, the verdict on it and its output.                 *)
JobInv(j) ==
  /\ wpc[j] \in {"none", "check", "start"} => tpc[j] = "none"
  /\ wpc[j] = "run" => tpc[j] # "none"
  /\ wpc[j] \notin Judged => code[j] = 0 /\ j \notin stop
  /\ wpc[j] \in Judged => code[j] = Owed(j) /\ (tpc[j] = "none" \/ ChildOver(j))
  /\ j \in stop => code[j] # 0
  /\ wpc[j] \in Judged /\ code[j] = 0 => Skipped(j) \/ Succeeded(j)
  /\ Parallel /\ wpc[j] = "err" => <<j, "out">> \in Range(out)
  /\ Parallel /\ wpc[j] \in {"werr", "done"} =>
       Skipped(j) \/ {<<j, "out">>, <<j, "err">>} \subseteq Range(out)

(* ... of every batch.                                                     *)
JobsInv == \A j \in Jobs : JobInv(j)

(* A batch no step has touched.                                            *)
LEMMA JobKept ==
  ASSUME NEW j, JobInv(j), UNCHANGED <<wpc[j], tpc[j], tstatus[j], code[j], o, batches>>,
         j \in stop' <=> j \in stop, stopped => stopped', Range(out) \subseteq Range(out')
  PROVE  JobInv(j)'
<1>1. UNCHANGED <<Owed(j), ChildOver(j), Succeeded(j), Parallel>> /\ (Skipped(j) => Skipped(j)')
  <2>1. UNCHANGED Owed(j)
    BY SMTT(30) DEF Owed
  <2>2. UNCHANGED <<ChildOver(j), Succeeded(j)>>
    BY Zenon DEF ChildOver, Succeeded
  <2>3. UNCHANGED Parallel
    BY Zenon DEF Parallel, Procs
  <2>4. Skipped(j) => Skipped(j)'
    BY Zenon DEF Skipped
  <2>5. QED
    BY <2>1, <2>2, <2>3, <2>4, ZenonT(30)
<1>2. QED
  BY <1>1, Zenon DEF JobInv

(* At first no batch has a verdict.                                        *)
LEMMA JobsInit == Init => JobsInv
BY Zenon DEF Init, TInit, JobsInv, JobInv, Judged, Reported

(* A child that has not begun, or is over, stays as it is.                 *)
LEMMA ChildQuiet ==
  ASSUME TTypeOK, NEW j \in Jobs, Child(j), NEW i \in Jobs
  PROVE  /\ tpc[i] \in {"none", "exited", "killed"} =>
              tpc'[i] = tpc[i] /\ tstatus'[i] = tstatus[i]
         /\ tpc[i] # "none" => tpc'[i] # "none"
<1>0. DOMAIN tpc = Jobs /\ DOMAIN tstatus = Jobs
  BY Zenon DEF TTypeOK
<1>1. CASE TNotFound(j) \/ TStart(j) \/ TKilled(j)
  BY <1>0, <1>1, SMTT(30) DEF TNotFound, TStart, TKilled, TExit, TGoto
<1>2. CASE TPrimary(j) \/ TKillTimer(j)
  BY <1>0, <1>2, Zenon DEF TPrimary, TKillTimer, TGoto
<1>3. CASE TDone(j)
  BY <1>0, <1>3, Zenon DEF TDone, TExit, TGoto
<1>4. CASE CommandExits(j) \/ CommandForks(j) \/ KidExits(j)
  BY <1>4, Zenon DEF CommandExits, CommandForks, KidExits
<1>5. QED
  BY <1>1, <1>2, <1>3, <1>4, Zenon DEF Child, TimeoutStep, TimeoutEnvironment

(* The loops leave the verdicts alone.                                     *)
LEMMA JobsLoop ==
  ASSUME RunInv, JobsInv, Loop, NEW i \in Jobs
  PROVE  JobInv(i)'
<1>0. /\ wpc \in [Jobs -> WPcs] /\ JobInv(i) /\ LoopInv
  BY Zenon DEF RunInv, TypeOK, XTypeOK, WPcs, JobsInv
<1>1. UNCHANGED <<code, stop, stopped, out, tpc, tstatus>>
  BY Zenon DEF Loop, XRefuse, XPlan, SeqNext, SeqRan, DispatchTop, Dispatch, DispatchWait, tvars
<1>2. CASE XPlan
  <2>1. wpc[i] = "none" /\ UNCHANGED wpc
    <3>1. xpc = "run" /\ UNCHANGED wpc
      BY <1>2, Zenon DEF XPlan
    <3>2. next = 1 /\ (wpc[i] # "none" <=> i < next)
      BY <1>0, <3>1, Zenon DEF LoopInv
    <3>3. QED
      BY <3>1, <3>2, JobNumbers, SMTT(30)
  <2>2. QED
    BY <1>0, <1>1, <2>1, Zenon DEF JobInv, Judged, Reported
<1>3. CASE ~XPlan
  <2>1. UNCHANGED <<o, batches>>
    BY <1>3, ZenonT(30) DEF Loop, XRefuse, SeqNext, SeqRan, DispatchTop, Dispatch, DispatchWait, given
  <2>2. CASE wpc'[i] = wpc[i]
    BY <1>0, <1>1, <2>1, <2>2, JobKept, ZenonT(30)
  <2>3. CASE wpc'[i] # wpc[i]
    <3>1. CASE SeqNext \/ Dispatch
      <4>1. next \in Jobs /\ wpc[next] = "none" /\ wpc'[next] \in {"start", "check"}
            /\ \A k \in Jobs \ {next} : wpc'[k] = wpc[k]
        <5>1. PICK l \in {"start", "check"} : WGoto(next, l) /\ next' = next + 1
          BY <2>3, <3>1, Zenon DEF SeqNext, Dispatch
        <5>2. next <= Len(batches)
          <6>1. next \in Nat /\ Len(batches) \in Nat
            BY DEF RunInv, OptsInv, TypeOK, XTypeOK
          <6>2. CASE SeqNext
            BY <2>3, <6>1, <6>2, SMTT(30) DEF SeqNext
          <6>3. CASE Dispatch
            BY <1>0, <6>3, Zenon DEF Dispatch, LoopInv
          <6>4. QED
            BY <3>1, <6>2, <6>3, Zenon
        <5>3. QED
          BY <5>1, <5>2, LoopBegins, Zenon
      <4>2. wpc[i] = "none" /\ wpc'[i] \in {"start", "check"}
        BY <2>3, <4>1, Zenon
      <4>3. QED
        BY <1>0, <1>1, <4>2, Zenon DEF JobInv, Judged, Reported
    <3>2. CASE SeqRan
      <4>1. xpc = "seqrun" /\ wpc[i] = "ran" /\ wpc'[i] = "done"
        BY <1>0, <2>3, <3>2, Zenon DEF SeqRan, WGoto
      <4>2. UNCHANGED <<Owed(i), ChildOver(i), Succeeded(i), Parallel>>
        BY <1>1, <2>1, <4>1, ZenonT(30) DEF Owed, ChildOver, Succeeded, Parallel, Procs
      <4>3. ~Parallel
        BY <1>0, <4>1, Zenon DEF LoopInv
      <4>4. ~Skipped(i)
        BY <4>1, Zenon DEF Skipped
      <4>5. QED
        BY <1>0, <1>1, <4>1, <4>2, <4>3, <4>4, Zenon DEF JobInv, Judged, Reported
    <3>3. QED
      BY <1>3, <2>3, <3>1, <3>2, Zenon DEF Loop, XRefuse, DispatchTop, DispatchWait
  <2>4. QED
    BY <2>2, <2>3, Zenon
<1>4. QED
  BY <1>2, <1>3, Zenon

(* What runOne makes of the status of a child that ended by itself.        *)
Called(st) == IF st = 0 THEN 0 ELSE IF st = 255 THEN 124 ELSE 123

(* The verdict runOne passes on is the one the child's end calls for.      *)
LEMMA JobsVerdict ==
  ASSUME RunInv, JobsInv, NEW j \in Jobs, NEW c, NEW s \in BOOLEAN, Verdict(j, c, s),
         wpc[j] \in {"start", "run"}, UNCHANGED <<tpc, tstatus, o, batches>>,
         s => c # 0,
         \/ tpc[j] = "none" /\ (c = 0 => o.interactive)
         \/ tpc[j] = "killed" /\ c \in {125, 126}
         \/ tpc[j] = "exited" /\ (c = Called(tstatus[j]) \/ c = 126)
  PROVE  JobInv(j)'
<1>0. DOMAIN wpc = Jobs /\ DOMAIN code = Jobs /\ JobInv(j)
  BY Zenon DEF RunInv, TypeOK, XTypeOK, JobsInv
<1>1. /\ wpc'[j] \in {"ran", "note"} /\ code'[j] = c
      /\ j \in stop' => j \in stop \/ s
  BY <1>0, Zenon DEF Verdict, WGoto
<1>2. j \notin stop /\ code[j] = 0
  BY <1>0, ZenonT(30) DEF JobInv, Judged, Reported
<1>3. c = Owed(j)'
  BY <1>1 DEF Owed, Called
<1>4. tpc'[j] = "none" \/ ChildOver(j)'
  BY ZenonT(30) DEF ChildOver
<1>5. c = 0 => Succeeded(j)'
  <2>1. CASE tpc[j] = "none"
    BY <2>1, Zenon DEF Succeeded
  <2>2. CASE tpc[j] = "killed"
    BY <2>2, SMTT(30)
  <2>3. CASE tpc[j] = "exited"
    BY <2>3, SMTT(30) DEF Succeeded, Called
  <2>4. QED
    BY <2>1, <2>2, <2>3, Zenon
<1>6. QED
  BY <1>1, <1>2, <1>3, <1>4, <1>5, ZenonT(30) DEF JobInv, Judged, Reported

(* A worker keeps what holds of its own batch.                             *)
LEMMA JobsWorker ==
  ASSUME RunInv, JobsInv, NEW j \in Jobs, Worker(j)
  PROVE  JobInv(j)'
<1>0. /\ DOMAIN wpc = Jobs /\ JobInv(j) /\ LoopInv /\ DOMAIN tpc = Jobs
      /\ out \in Seq(Jobs \X {"out", "err"})
  BY Zenon DEF RunInv, TypeOK, XTypeOK, TTypeOK, JobsInv
<1>1. UNCHANGED <<o, batches, Parallel>>
  BY Zenon DEF Worker, WCheck, WDecline, WCannotRun, WStart, WWait, WNote, WLock, WOut, WErr,
       WNoteWriteError, given, Parallel, Procs
<1>2. CASE WDecline(j) \/ WCannotRun(j)
  <2>1. wpc[j] = "start" /\ tpc[j] = "none"
    BY <1>0, <1>2, Zenon DEF WDecline, WCannotRun, JobInv
  <2>2. UNCHANGED <<tpc, tstatus>>
    BY <1>2, Zenon DEF WDecline, WCannotRun, tvars
  <2>3. \/ o.interactive /\ Verdict(j, 0, FALSE)
        \/ \E c \in {1, 126, 127} : Verdict(j, c, TRUE)
    BY <1>2, ZenonT(30) DEF WDecline, WCannotRun
  <2>4. CASE o.interactive /\ Verdict(j, 0, FALSE)
    BY <1>1, <2>1, <2>2, <2>4, JobsVerdict, Zenon
  <2>5. ASSUME NEW c \in {1, 126, 127}, Verdict(j, c, TRUE) PROVE JobInv(j)'
    <3>1. c # 0
      OBVIOUS
    <3>2. QED
      BY <1>1, <2>1, <2>2, <2>5, <3>1, JobsVerdict, Zenon
  <2>6. QED
    BY <2>3, <2>4, <2>5, Zenon
<1>3. CASE WWait(j)
  <2>1. wpc[j] = "run" /\ UNCHANGED <<tpc, tstatus>> /\ tpc[j] \in {"exited", "killed"}
    BY <1>3, Zenon DEF WWait, tvars, ChildOver
  <2>2. CASE tpc[j] = "killed"
    <3>1. PICK c \in {125, 126} : Verdict(j, c, TRUE)
      BY <1>3, <2>2, Zenon DEF WWait
    <3>2. c # 0
      OBVIOUS
    <3>3. QED
      BY <1>1, <2>1, <2>2, <3>1, <3>2, JobsVerdict, Zenon
  <2>3. CASE tpc[j] = "exited"
    <3>1. \/ Called(tstatus[j]) = 0 /\ Verdict(j, Called(tstatus[j]), FALSE)
          \/ /\ Called(tstatus[j]) # 0
             /\ Verdict(j, Called(tstatus[j]), TRUE) \/ Verdict(j, Called(tstatus[j]), FALSE)
          \/ Verdict(j, 126, TRUE)
      <4>1. CASE tstatus[j] = 0
        <5>1. Called(tstatus[j]) = 0 /\ 0 # 255
          BY <4>1 DEF Called
        <5>2. Verdict(j, 0, FALSE) \/ Verdict(j, 126, TRUE)
          <6>1. \/ tpc[j] = "killed" \/ Verdict(j, 0, FALSE) \/ tstatus[j] = 255
                \/ tstatus[j] \notin {0, 255} \/ Verdict(j, 126, TRUE)
            BY <1>3, Zenon DEF WWait
          <6>2. tpc[j] # "killed" /\ tstatus[j] # 255 /\ tstatus[j] \in {0, 255}
            BY <2>3, <4>1
          <6>3. QED
            BY <6>1, <6>2, Zenon
        <5>3. QED
          BY <5>1, <5>2, Zenon
      <4>2. CASE tstatus[j] = 255
        <5>1. Called(tstatus[j]) = 124 /\ 124 # 0 /\ 255 # 0
          BY <4>2 DEF Called
        <5>2. Verdict(j, 124, TRUE) \/ Verdict(j, 126, TRUE)
          BY <1>3, <2>3, <4>2, <5>1, Zenon DEF WWait
        <5>3. Called(tstatus[j]) # 0
          BY <5>1
        <5>4. Verdict(j, Called(tstatus[j]), TRUE) \/ Verdict(j, 126, TRUE)
          BY <5>1, <5>2, SMTT(30) DEF Verdict
        <5>5. QED
          BY <5>3, <5>4, Zenon
      <4>3. CASE tstatus[j] \notin {0, 255}
        <5>1. Called(tstatus[j]) = 123 /\ 123 # 0
          BY <4>3 DEF Called
        <5>2. tstatus[j] # 0 /\ tstatus[j] # 255
          BY <4>3, Zenon
        <5>3. Verdict(j, 123, FALSE) \/ Verdict(j, 126, TRUE)
          BY <1>3, <2>3, <5>2, Zenon DEF WWait
        <5>4. QED
          BY <5>1, <5>3, Zenon
      <4>4. QED
        BY <4>1, <4>2, <4>3, Zenon
    <3>2. CASE Called(tstatus[j]) = 0 /\ Verdict(j, Called(tstatus[j]), FALSE)
      BY <1>1, <2>1, <2>3, <3>2, JobsVerdict, ZenonT(30)
    <3>3. ASSUME Called(tstatus[j]) # 0, NEW b \in BOOLEAN, Verdict(j, Called(tstatus[j]), b)
          PROVE  JobInv(j)'
      BY <1>1, <2>1, <2>3, <3>3, JobsVerdict, Zenon
    <3>4. CASE Verdict(j, 126, TRUE)
      <4>1. 126 # 0
        BY SMTT(30)
      <4>2. QED
        BY <1>1, <2>1, <2>3, <3>4, <4>1, JobsVerdict, Zenon
    <3>5. QED
      BY <3>1, <3>2, <3>3, <3>4, Zenon
  <2>4. QED
    BY <2>1, <2>2, <2>3, Zenon
<1>4. CASE WCheck(j)
  BY <1>0, <1>1, <1>4, ZenonT(30)
     DEF WCheck, WGoto, JobInv, Judged, Reported, Skipped, Owed, tvars
<1>5. CASE WStart(j)
  BY <1>0, <1>1, <1>5, Zenon DEF WStart, WGoto, TGoto, JobInv, Judged, Reported
<1>6. CASE WNote(j) \/ WLock(j)
  <2>1. /\ wpc[j] \in {"note", "ran"} /\ wpc'[j] \in {"ran", "out"}
        /\ UNCHANGED <<code, stop, tpc, tstatus>>
    BY <1>0, <1>6, ZenonT(30) DEF WNote, WLock, WGoto, tvars
  <2>2. UNCHANGED <<Owed(j), ChildOver(j), Succeeded(j)>> /\ ~Skipped(j)
    BY <1>1, <2>1, ZenonT(30) DEF Owed, ChildOver, Succeeded, Skipped
  <2>3. QED
    BY <1>0, <2>1, <2>2, Zenon DEF JobInv, Judged, Reported
<1>7. CASE WOut(j) \/ WErr(j) \/ WNoteWriteError(j)
  <2>1. /\ wpc[j] \in {"out", "err", "werr"} /\ wpc'[j] \in {"err", "werr", "done"}
        /\ UNCHANGED <<code, stop, tpc, tstatus>>
    BY <1>0, <1>7, Zenon DEF WOut, WErr, WNoteWriteError, WGoto, tvars
  <2>2. UNCHANGED <<Owed(j), ChildOver(j), Succeeded(j)>> /\ ~Skipped(j)
    BY <1>1, <2>1, ZenonT(30) DEF Owed, ChildOver, Succeeded, Skipped
  <2>3. CASE WOut(j)
    <3>1. <<j, "out">> \in Range(out')
      <4>1. out' = Append(out, <<j, "out">>) /\ <<j, "out">> \in Jobs \X {"out", "err"}
        BY <2>3 DEF WOut
      <4>2. QED
        BY <1>0, <4>1, RangeAppend
    <3>2. wpc'[j] = "err"
      BY <1>0, <2>3, Zenon DEF WOut, WGoto
    <3>3. QED
      BY <1>0, <2>1, <2>2, <3>1, <3>2, Zenon DEF JobInv, Judged, Reported
  <2>4. CASE WErr(j)
    <3>1. Range(out') = Range(out) \cup {<<j, "err">>}
      <4>1. out' = Append(out, <<j, "err">>) /\ <<j, "err">> \in Jobs \X {"out", "err"}
        BY <2>4, Zenon DEF WErr
      <4>2. QED
        BY <1>0, <4>1, RangeAppend, SMTT(30)
    <3>2. wpc[j] = "err" /\ wpc'[j] \in {"werr", "done"}
      BY <1>0, <2>4, Zenon DEF WErr, WGoto
    <3>3. QED
      BY <1>0, <1>1, <2>1, <2>2, <3>1, <3>2, Zenon DEF JobInv, Judged, Reported
  <2>5. CASE WNoteWriteError(j)
    <3>1. wpc[j] = "werr" /\ wpc'[j] = "done" /\ UNCHANGED out
      BY <1>0, <2>5, Zenon DEF WNoteWriteError, WGoto
    <3>2. QED
      BY <1>0, <1>1, <2>1, <2>2, <3>1, Zenon DEF JobInv, Judged, Reported
  <2>6. QED
    BY <1>7, <2>3, <2>4, <2>5
<1>8. QED
  BY <1>2, <1>3, <1>4, <1>5, <1>6, <1>7, Zenon DEF Worker

(* Every step keeps what holds of every batch.                             *)
LEMMA JobsStep == RunInv /\ JobsInv /\ [Next]_vars => JobsInv'
<1> SUFFICES ASSUME RunInv, JobsInv, [Next]_vars, NEW i \in Jobs PROVE JobInv(i)'
  BY Zenon DEF JobsInv
<1>0. JobInv(i) /\ TTypeOK
  BY Zenon DEF JobsInv, RunInv, TypeOK
<1>1. CASE Loop
  BY <1>1, JobsLoop, Zenon
<1>2. ASSUME NEW j \in Jobs, Worker(j) PROVE JobInv(i)'
  <2>1. CASE i = j
    BY <1>2, <2>1, JobsWorker, Zenon
  <2>2. CASE i # j
    <3>1. UNCHANGED <<wpc[i], code[i], tpc[i], tstatus[i]>> /\ (i \in stop' <=> i \in stop)
      <4>1. DOMAIN wpc = Jobs /\ DOMAIN code = Jobs /\ DOMAIN tpc = Jobs
        BY Zenon DEF RunInv, TypeOK, XTypeOK, TTypeOK
      <4>2. CASE WDecline(j) \/ WCannotRun(j)
        <5>1. UNCHANGED <<tpc, tstatus>>
          BY <4>2, Zenon DEF WDecline, WCannotRun, tvars
        <5>2. \/ Verdict(j, 0, FALSE) \/ Verdict(j, 1, TRUE)
              \/ Verdict(j, 126, TRUE) \/ Verdict(j, 127, TRUE)
          <6>1. CASE WDecline(j)
            BY <6>1, Zenon DEF WDecline
          <6>2. CASE WCannotRun(j)
            <7>1. PICK c \in {126, 127} : Verdict(j, c, TRUE)
              BY <6>2, Zenon DEF WCannotRun
            <7>2. CASE c = 126
              BY <7>1, <7>2, Zenon
            <7>3. CASE c = 127
              BY <7>1, <7>3, Zenon
            <7>4. QED
              BY <7>2, <7>3, Zenon
          <6>3. QED
            BY <4>2, <6>1, <6>2, Zenon
        <5>3. QED
          BY <2>2, <4>1, <5>1, <5>2, SMTT(30) DEF Verdict, WGoto
      <4>3. CASE WWait(j)
        <5>1. UNCHANGED <<tpc, tstatus>>
          BY <4>3, Zenon DEF WWait, tvars
        <5>2. \/ Verdict(j, 125, TRUE) \/ Verdict(j, 0, FALSE) \/ Verdict(j, 124, TRUE)
              \/ Verdict(j, 123, FALSE) \/ Verdict(j, 126, TRUE)
          BY <4>3, Zenon DEF WWait
        <5>3. QED
          BY <2>2, <4>1, <5>1, <5>2, SMTT(30) DEF Verdict, WGoto
      <4>4. CASE WCheck(j) \/ WStart(j) \/ WNote(j) \/ WLock(j)
        BY <2>2, <4>1, <4>4, ZenonT(30) DEF WCheck, WStart, WNote, WLock, WGoto, TGoto, tvars
      <4>5. CASE WOut(j) \/ WErr(j) \/ WNoteWriteError(j)
        BY <2>2, <4>1, <4>5, Zenon DEF WOut, WErr, WNoteWriteError, WGoto, tvars
      <4>6. QED
        BY <1>2, <4>2, <4>3, <4>4, <4>5, ZenonT(30) DEF Worker
    <3>2. UNCHANGED <<o, batches>> /\ (stopped => stopped')
      <4>1. UNCHANGED <<o, batches>>
        BY <1>2, Zenon DEF Worker, WCheck, WDecline, WCannotRun, WStart, WWait, WNote, WLock, WOut, WErr,
             WNoteWriteError, given
      <4>2. CASE WErr(j)
        BY <4>1, <4>2, Zenon DEF WErr
      <4>3. CASE UNCHANGED stopped
        BY <4>1, <4>3, Zenon
      <4>4. QED
        BY <1>2, <4>2, <4>3, Zenon DEF Worker, WCheck, WDecline, WCannotRun, WStart, WWait, WNote, WLock,
             WOut, WNoteWriteError
    <3>3. Range(out) \subseteq Range(out')
      <4>1. CASE WOut(j) \/ WErr(j)
        <5>1. out \in Seq(Jobs \X {"out", "err"})
          BY Zenon DEF RunInv, TypeOK, XTypeOK
        <5>2. PICK e \in {"out", "err"} : out' = Append(out, <<j, e>>)
          BY <4>1, Zenon DEF WOut, WErr
        <5>3. <<j, e>> \in Jobs \X {"out", "err"}
          BY Zenon
        <5>4. QED
          BY <5>1, <5>2, <5>3, RangeAppend, SMTT(30)
      <4>2. CASE UNCHANGED out
        BY <4>2, Zenon
      <4>3. QED
        BY <1>2, <4>1, <4>2, Zenon DEF Worker, WCheck, WDecline, WCannotRun, WStart, WWait, WNote,
             WLock, WNoteWriteError
    <3>4. QED
      BY <1>0, <3>1, <3>2, <3>3, JobKept, Zenon
  <2>3. QED
    BY <2>1, <2>2, Zenon
<1>3. ASSUME NEW j \in Jobs, Child(j) PROVE JobInv(i)'
  <2>1. UNCHANGED <<wpc, code, o, batches, stop, stopped, out>>
    BY <1>3, Zenon DEF Child, xvars
  <2>2. CASE tpc[i] \in {"none", "exited", "killed"}
    BY <1>0, <1>3, <2>1, <2>2, ChildQuiet, JobKept, Zenon
  <2>3. CASE tpc[i] \notin {"none", "exited", "killed"}
    <3>1. wpc[i] = "run" /\ tpc'[i] # "none"
      <4>1. wpc[i] \in WPcs
        BY Zenon DEF RunInv, TypeOK, XTypeOK, WPcs
      <4>2. tpc'[i] # "none"
        BY <1>0, <1>3, <2>3, ChildQuiet, Zenon
      <4>3. QED
        BY <1>0, <2>3, <4>1, <4>2, Zenon DEF JobInv, WPcs, Judged, Reported, ChildOver
    <3>2. QED
      BY <1>0, <2>1, <3>1, Zenon DEF JobInv, Judged, Reported
  <2>4. QED
    BY <2>2, <2>3, Zenon
<1>4. CASE UNCHANGED vars
  BY <1>0, <1>4, JobKept, Zenon DEF vars, xvars, tvars
<1>5. QED
  BY <1>1, <1>2, <1>3, <1>4, Zenon DEF Next

-----------------------------------------------------------------------------
(* The exit status *)

(* worst is the greatest of the verdicts passed on, or the 1 of a write    *)
(* error; when the loop stops early something was reported; the exit       *)
(* status is worst.                                                        *)
WorstInv ==
  /\ \A j \in Jobs : wpc[j] \in Reported => worst >= code[j]
  /\ \A j \in wfail : wpc[j] \in {"err", "werr", "done"} /\ (wpc[j] = "done" => worst >= 1)
  /\ \A j \in Jobs : wpc[j] = "werr" => j \in wfail
  /\ \/ worst = 0
     \/ \E j \in Jobs : wpc[j] \in Reported /\ worst = code[j]
     \/ worst = 1 /\ wfail # {}
  /\ stopped => \E j \in stop \cup wfail : wpc[j] \in {"werr", "done"}
  /\ xpc = "wait" => stopped \/ next > Len(batches)
  /\ xpc = "exit" /\ next > 1 => exit = worst /\ (next > Len(batches) \/ worst > 0)

(* The inductive invariant behind the exit status.                         *)
StatusInv == RunInv /\ JobsInv /\ WorstInv

(* What the invariant says of the variables the status comes from.         *)
LEMMA StatusFacts ==
  ASSUME StatusInv
  PROVE  /\ wpc \in [Jobs -> WPcs] /\ code \in [Jobs -> Nat] /\ worst \in Nat
         /\ stop \subseteq Jobs /\ wfail \subseteq Jobs
         /\ next \in Nat \ {0} /\ Len(batches) \in Nat
         /\ \A j \in Jobs : JobInv(j)
         /\ LoopInv /\ WorstInv
<1>1. XTypeOK /\ OptsInv /\ LoopInv /\ JobsInv /\ WorstInv
  BY Zenon DEF StatusInv, RunInv, TypeOK
<1>2. wpc \in [Jobs -> WPcs] /\ stop \subseteq Jobs /\ wfail \subseteq Jobs
  BY <1>1, Zenon DEF XTypeOK, WPcs
<1>3. code \in [Jobs -> Nat] /\ worst \in Nat
  BY <1>1, SMTT(30) DEF XTypeOK
<1>4. next \in Nat \ {0} /\ Len(batches) \in Nat
  BY <1>1 DEF XTypeOK, OptsInv
<1>5. QED
  BY <1>1, <1>2, <1>3, <1>4, Zenon DEF JobsInv

(* What the report rests on when nothing is reported and nobody fails a   *)
(* write: no batch that counts goes back.                                  *)
LEMMA WorstKept ==
  ASSUME StatusInv, UNCHANGED <<worst, wfail, stopped>>, stop \subseteq stop',
         \A j \in Jobs : /\ wpc'[j] \in Reported => \/ code'[j] = 0
                                                    \/ wpc[j] \in Reported /\ code'[j] = code[j]
                         /\ wpc[j] \in Reported => wpc'[j] \in Reported /\ code'[j] = code[j]
                         /\ wpc[j] \in {"err", "werr", "done"} => wpc'[j] = wpc[j]
                         /\ wpc'[j] = "werr" => wpc[j] = "werr",
         xpc' = "wait" => \/ xpc = "wait" /\ UNCHANGED <<next, batches>>
                          \/ stopped \/ next' > Len(batches'),
         xpc' = "exit" /\ next' > 1 => exit' = worst' /\ (next' > Len(batches') \/ worst' > 0)
  PROVE  WorstInv'
<1>1. /\ WorstInv /\ wfail \subseteq Jobs /\ stop \subseteq Jobs /\ worst \in Nat
  BY StatusFacts, Zenon
<1>2. \A j \in Jobs : wpc'[j] \in Reported => worst' >= code'[j]
  <2>1. \A j \in Jobs : wpc[j] \in Reported => worst >= code[j]
    BY <1>1, ZenonT(30) DEF WorstInv
  <2>2. ASSUME NEW j \in Jobs, wpc'[j] \in Reported PROVE worst >= code'[j]
    <3>1. code'[j] = 0 \/ (wpc[j] \in Reported /\ code'[j] = code[j])
      BY <2>2, Zenon
    <3>2. QED
      <4>1. CASE code'[j] = 0
        BY <1>1, <4>1, SMTT(30)
      <4>2. CASE wpc[j] \in Reported /\ code'[j] = code[j]
        BY <2>1, <4>2, Zenon
      <4>3. QED
        BY <3>1, <4>1, <4>2, ZenonT(30)
  <2>3. worst' = worst
    BY Zenon
  <2>4. QED
    BY <2>2, <2>3, Zenon
<1>3. \A j \in wfail' : wpc'[j] \in {"err", "werr", "done"} /\ (wpc'[j] = "done" => worst' >= 1)
  BY <1>1, Zenon DEF WorstInv
<1>4. \/ worst' = 0
      \/ \E j \in Jobs : wpc'[j] \in Reported /\ worst' = code'[j]
      \/ worst' = 1 /\ wfail' # {}
  BY <1>1, Zenon DEF WorstInv
<1>5. stopped' => \E j \in stop' \cup wfail' : wpc'[j] \in {"werr", "done"}
  BY <1>1, Zenon DEF WorstInv
<1>6. xpc' = "wait" => stopped' \/ next' > Len(batches')
  BY <1>1, Zenon DEF WorstInv
<1>7. \A j \in Jobs : wpc'[j] = "werr" => j \in wfail'
  BY <1>1, Zenon DEF WorstInv
<1>8. QED
  BY <1>2, <1>3, <1>4, <1>5, <1>6, <1>7, ZenonT(30) DEF WorstInv

(* Nobody who works finds xargs at its end.                                *)
LEMMA BusyFacts ==
  ASSUME StatusInv, NEW j \in Jobs, wpc[j] \notin {"none", "done"}
  PROVE  xpc \notin {"run", "exit"}
<1>1. j \in Active
  BY Zenon DEF Active
<1>2. LoopInv
  BY Zenon DEF StatusInv, RunInv
<1>3. ~(j < 1)
  BY JobNumbers, SMTT(30) DEF NoJob
<1>4. QED
  BY <1>1, <1>2, <1>3, Zenon DEF LoopInv

(* A worker's step keeps worst right.                                      *)
LEMMA WorstWorker ==
  ASSUME StatusInv, NEW j \in Jobs, Worker(j)
  PROVE  WorstInv'
<1>0. /\ wpc \in [Jobs -> WPcs] /\ code \in [Jobs -> Nat] /\ worst \in Nat
      /\ stop \subseteq Jobs /\ wfail \subseteq Jobs
      /\ JobInv(j) /\ WorstInv
  BY StatusFacts, Zenon
<1>1. UNCHANGED <<xpc, next, batches, exit>>
  BY Zenon DEF Worker, WCheck, WDecline, WCannotRun, WStart, WWait, WNote, WLock, WOut, WErr,
       WNoteWriteError
<1>2. wpc[j] \notin {"none", "done"}
  BY Zenon DEF Worker, WCheck, WDecline, WCannotRun, WStart, WWait, WNote, WLock, WOut, WErr,
       WNoteWriteError
<1>3. xpc \notin {"run", "exit"}
  BY <1>2, BusyFacts, Zenon
<1>4. CASE WCheck(j)
  <2>1. code[j] = 0 /\ wpc[j] = "check" /\ wpc' = [wpc EXCEPT ![j] = wpc'[j]]
        /\ wpc'[j] \in {"done", "start"} /\ UNCHANGED <<worst, wfail, stopped, stop, code>>
    BY <1>0, <1>4, Zenon DEF WCheck, WGoto, JobInv, Judged, Reported
  <2>2. QED
    BY <1>0, <1>1, <1>3, <2>1, WorstKept, Zenon DEF Reported
<1>5. CASE WStart(j) \/ WLock(j)
  <2>1. /\ \/ wpc[j] = "start" /\ wpc'[j] = "run"
           \/ wpc[j] = "ran" /\ wpc'[j] = "out"
        /\ \A i \in Jobs \ {j} : wpc'[i] = wpc[i]
        /\ UNCHANGED <<worst, wfail, stopped, stop, code>>
    BY <1>0, <1>5, Zenon DEF WStart, WLock, WGoto
  <2>2. QED
    BY <1>0, <1>1, <1>3, <2>1, WorstKept, Zenon DEF Reported
<1>6. CASE WDecline(j) \/ WCannotRun(j) \/ WWait(j)
  <2> DEFINE judged == /\ wpc'[j] \in {"ran", "note"} /\ (wpc'[j] = "ran" => code'[j] = 0)
                       /\ \A i \in Jobs \ {j} : wpc'[i] = wpc[i] /\ code'[i] = code[i]
                       /\ stop \subseteq stop'
  <2>1. \A c, s : Verdict(j, c, s) => judged
    BY <1>0, Zenon DEF Verdict, WGoto
  <2>2. judged
    <3> HIDE DEF judged
    <3>1. CASE WDecline(j)
      BY <2>1, <3>1, Zenon DEF WDecline
    <3>2. CASE WCannotRun(j)
      BY <2>1, <3>2, Zenon DEF WCannotRun
    <3>3. CASE WWait(j)
      <4>1. \E c \in {125, 0, 124, 123, 126}, s \in BOOLEAN : Verdict(j, c, s)
        BY <3>3, ZenonT(30) DEF WWait
      <4>2. QED
        BY <2>1, <4>1, Zenon
    <3>4. QED
      BY <1>6, <3>1, <3>2, <3>3, Zenon
  <2>3. wpc[j] \in {"start", "run"} /\ UNCHANGED <<worst, wfail, stopped>>
    BY <1>6, Zenon DEF WDecline, WCannotRun, WWait
  <2>4. QED
    BY <1>0, <1>1, <1>3, <2>2, <2>3, WorstKept, Zenon DEF Reported
<1>7. CASE WNote(j)
  <2>1. /\ wpc[j] = "note" /\ wpc'[j] = "ran" /\ \A i \in Jobs \ {j} : wpc'[i] = wpc[i]
        /\ worst' = Max({worst, code[j]}) /\ UNCHANGED <<code, stop, wfail, stopped>>
    BY <1>0, <1>7, Zenon DEF WNote, WGoto, Worse
  <2>2. worst' = IF worst >= code[j] THEN worst ELSE code[j]
    BY <1>0, <2>1, MaxOfTwo, SMTT(30)
  <2>3. worst' >= worst /\ worst' >= code[j] /\ worst' \in Nat
    BY <1>0, <2>2, SMTT(30)
  <2>4. \A i \in Jobs : wpc'[i] \in Reported => worst' >= code'[i]
    BY <1>0, <2>1, <2>3, SMTT(30) DEF WorstInv
  <2>5. \A i \in wfail' : wpc'[i] \in {"err", "werr", "done"} /\ (wpc'[i] = "done" => worst' >= 1)
    BY <1>0, <2>1, <2>3, SMTT(30) DEF WorstInv
  <2>6. \/ worst' = 0
        \/ \E i \in Jobs : wpc'[i] \in Reported /\ worst' = code'[i]
        \/ worst' = 1 /\ wfail' # {}
    BY <1>0, <2>1, <2>2, ZenonT(30) DEF WorstInv, Reported
  <2>7. stopped' => \E i \in stop' \cup wfail' : wpc'[i] \in {"werr", "done"}
    BY <1>0, <2>1, Zenon DEF WorstInv
  <2>8. QED
    BY <1>0, <1>1, <1>3, <2>1, <2>4, <2>5, <2>6, <2>7, Zenon DEF WorstInv
<1>8. CASE WNoteWriteError(j)
  <2>1. /\ wpc[j] = "werr" /\ wpc'[j] = "done" /\ \A i \in Jobs \ {j} : wpc'[i] = wpc[i]
        /\ worst' = Max({worst, 1}) /\ UNCHANGED <<code, stop, wfail, stopped>>
    BY <1>0, <1>8, Zenon DEF WNoteWriteError, WGoto, Worse
  <2>2. worst' = IF worst >= 1 THEN worst ELSE 1
    BY <1>0, <2>1, MaxOfTwo, SMTT(30)
  <2>3. worst' >= worst /\ worst' >= 1 /\ worst' \in Nat
    BY <1>0, <2>2, SMTT(30)
  <2>4. \A i \in Jobs : wpc'[i] \in Reported => worst' >= code'[i]
    BY <1>0, <2>1, <2>3, SMTT(30) DEF WorstInv, Reported
  <2>5. \A i \in wfail' : wpc'[i] \in {"err", "werr", "done"} /\ (wpc'[i] = "done" => worst' >= 1)
    BY <1>0, <2>1, <2>3, Zenon DEF WorstInv
  <2>6. \/ worst' = 0
        \/ \E i \in Jobs : wpc'[i] \in Reported /\ worst' = code'[i]
        \/ worst' = 1 /\ wfail' # {}
    BY <1>0, <2>1, <2>2, ZenonT(30) DEF WorstInv, Reported
  <2>7. stopped' => \E i \in stop' \cup wfail' : wpc'[i] \in {"werr", "done"}
    BY <1>0, <2>1, Zenon DEF WorstInv
  <2>8. QED
    BY <1>0, <1>1, <1>3, <2>1, <2>4, <2>5, <2>6, <2>7, ZenonT(30) DEF WorstInv
<1>9. CASE WOut(j) \/ WErr(j)
  <2>1. /\ \/ wpc[j] = "out" /\ wpc'[j] = "err"
           \/ wpc[j] = "err" /\ wpc'[j] \in {"werr", "done"}
        /\ \A i \in Jobs \ {j} : wpc'[i] = wpc[i]
        /\ wfail' = wfail \/ wfail' = wfail \cup {j}
        /\ UNCHANGED <<code, stop, worst>>
    BY <1>0, <1>9, Zenon DEF WOut, WErr, WGoto
  <2>2. wpc'[j] # "err" => (wpc'[j] = "werr" <=> j \in wfail')
    BY <1>0, <1>9, Zenon DEF WOut, WErr, WGoto
  <2>3. stopped' => stopped \/ (wpc'[j] # "err" /\ j \in stop' \cup wfail')
    <3>1. CASE WOut(j)
      BY <3>1, Zenon DEF WOut
    <3>2. CASE WErr(j)
      <4>1. wpc'[j] # "err"
        BY <1>0, <3>2, Zenon DEF WErr, WGoto
      <4>2. stopped' => stopped \/ j \in stop' \cup wfail'
        BY <3>2, ZenonT(30) DEF WErr
      <4>3. QED
        BY <4>1, <4>2, Zenon
    <3>3. QED
      BY <1>9, <3>1, <3>2, Zenon
  <2>4. \A i \in Jobs : wpc'[i] \in Reported => worst' >= code'[i]
    BY <1>0, <2>1, Zenon DEF WorstInv, Reported
  <2>5. \A i \in wfail' : wpc'[i] \in {"err", "werr", "done"} /\ (wpc'[i] = "done" => worst' >= 1)
    BY <1>0, <2>1, <2>2, Zenon DEF WorstInv
  <2>6. \/ worst' = 0
        \/ \E i \in Jobs : wpc'[i] \in Reported /\ worst' = code'[i]
        \/ worst' = 1 /\ wfail' # {}
    BY <1>0, <2>1, Zenon DEF WorstInv, Reported
  <2>7. stopped' => \E i \in stop' \cup wfail' : wpc'[i] \in {"werr", "done"}
    BY <1>0, <2>1, <2>3, Zenon DEF WorstInv
  <2>8. \A i \in Jobs : wpc'[i] = "werr" => i \in wfail'
    BY <1>0, <2>1, <2>2, Zenon DEF WorstInv
  <2>9. xpc' = "wait" => stopped' \/ next' > Len(batches')
    <3>1. stopped => stopped'
      <4>1. CASE WOut(j)
        BY <4>1, Zenon DEF WOut
      <4>2. CASE WErr(j)
        BY <4>2, Zenon DEF WErr
      <4>3. QED
        BY <1>9, <4>1, <4>2, Zenon
    <3>2. QED
      BY <1>0, <1>1, <3>1, Zenon DEF WorstInv
  <2>10. QED
    BY <1>1, <1>3, <2>4, <2>5, <2>6, <2>7, <2>8, <2>9, ZenonT(30) DEF WorstInv
<1>10. QED
  BY <1>4, <1>5, <1>6, <1>7, <1>8, <1>9, Zenon DEF Worker

(* The dispatching loops keep worst right, and exit with it.               *)
LEMMA WorstLoop ==
  ASSUME StatusInv, Loop
  PROVE  WorstInv'
<1>0. /\ wpc \in [Jobs -> WPcs] /\ code \in [Jobs -> Nat] /\ worst \in Nat
      /\ stop \subseteq Jobs /\ wfail \subseteq Jobs
      /\ next \in Nat \ {0} /\ Len(batches) \in Nat
      /\ LoopInv /\ WorstInv /\ \A j \in Jobs : JobInv(j)
  BY StatusFacts, Zenon
<1>1. UNCHANGED <<code, stop, wfail, stopped, worst>>
  BY Zenon DEF Loop, XRefuse, XPlan, SeqNext, SeqRan, DispatchTop, Dispatch, DispatchWait
<1>2. CASE XRefuse \/ XPlan
  <2>1. next' = 1 /\ UNCHANGED wpc /\ xpc' # "wait"
    BY <1>0, <1>2, ZenonT(30) DEF XRefuse, XPlan, Exit, LoopInv
  <2>2. QED
    BY <1>0, <1>1, <2>1, WorstKept, SMTT(30)
<1>3. CASE SeqNext /\ next > Len(batches)
  <2>1. exit' = worst /\ xpc' = "exit" /\ UNCHANGED <<wpc, next, batches>>
    BY <1>3, Zenon DEF SeqNext, Exit
  <2>2. QED
    BY <1>0, <1>1, <1>3, <2>1, WorstKept, Zenon
<1>4. CASE Dispatch \/ (SeqNext /\ ~(next > Len(batches)))
  <2>1. /\ xpc' \in {"top", "seqrun"}
        /\ \E l \in {"start", "check"} : WGoto(next, l) /\ next' = next + 1
    BY <1>4, Zenon DEF Dispatch, SeqNext
  <2>2. next <= Len(batches) /\ RunInv
    BY <1>0, <1>4, SMTT(30) DEF Dispatch, LoopInv, StatusInv
  <2>3. /\ wpc[next] = "none" /\ wpc'[next] \in {"start", "check"}
        /\ \A i \in Jobs \ {next} : wpc'[i] = wpc[i]
    BY <2>1, <2>2, LoopBegins, Zenon
  <2>4. QED
    BY <1>0, <1>1, <2>1, <2>3, WorstKept, Zenon DEF Reported
<1>5. CASE SeqRan
  <2>1. /\ xpc' \in {"seq", "exit"} /\ UNCHANGED <<next, batches>>
        /\ xpc' = "exit" => exit' = worst /\ next - 1 \in stop
        /\ wpc[next - 1] = "ran" /\ WGoto(next - 1, "done")
    BY <1>5, Zenon DEF SeqRan, Exit
  <2>2. \A i \in Jobs : wpc'[i] = wpc[i] \/ (i = next - 1 /\ wpc[i] = "ran" /\ wpc'[i] = "done")
    BY <1>0, <2>1, Zenon DEF WGoto
  <2>3. xpc' = "exit" => worst > 0
    <3>1. SUFFICES ASSUME next - 1 \in stop PROVE worst > 0
      BY <2>1, Zenon
    <3>2. next - 1 \in Jobs /\ code[next - 1] \in Nat /\ code[next - 1] # 0
      BY <1>0, <3>1, ZenonT(30) DEF JobInv
    <3>3. worst >= code[next - 1]
      BY <1>0, <2>1, <3>2, Zenon DEF WorstInv, Reported
    <3>4. QED
      BY <1>0, <3>2, <3>3, SMTT(30)
  <2>4. \A i \in Jobs : wpc[i] \in {"err", "werr", "done"} => wpc'[i] = wpc[i]
    BY <2>2, Zenon
  <2>5. \A i \in Jobs : wpc'[i] \in Reported <=> wpc[i] \in Reported
    BY <2>2, Zenon DEF Reported
  <2>6. \A i \in Jobs : wpc'[i] = "werr" => wpc[i] = "werr"
    BY <2>2, Zenon
  <2>7. QED
    BY <1>0, <1>1, <2>1, <2>3, <2>4, <2>5, <2>6, WorstKept, Zenon
<1>6. CASE DispatchTop
  <2>1. /\ UNCHANGED <<wpc, next, batches>> /\ xpc' \in {"wait", "sem"}
        /\ xpc' = "wait" => stopped \/ next > Len(batches)
    BY <1>6, Zenon DEF DispatchTop
  <2>2. QED
    BY <1>0, <1>1, <2>1, WorstKept, Zenon
<1>7. CASE DispatchWait
  <2>1. /\ xpc = "wait" /\ xpc' = "exit" /\ exit' = worst /\ UNCHANGED <<wpc, next, batches>>
        /\ \A j \in Jobs : wpc[j] \in {"none", "done"}
    BY <1>7, Zenon DEF DispatchWait, Exit, Active
  <2>2. stopped => worst > 0
    <3> SUFFICES ASSUME stopped PROVE worst > 0
      BY Zenon
    <3>1. PICK j \in stop \cup wfail : wpc[j] \in {"werr", "done"}
      BY <1>0, Zenon DEF WorstInv
    <3>2. j \in Jobs /\ wpc[j] = "done" /\ JobInv(j) /\ code[j] \in Nat
      BY <1>0, <2>1, <3>1, Zenon
    <3>3. CASE j \in stop
      <4>1. code[j] # 0 /\ worst >= code[j]
        BY <1>0, <3>2, <3>3, Zenon DEF JobInv, WorstInv, Reported
      <4>2. QED
        BY <1>0, <3>2, <4>1, SMTT(30)
    <3>4. CASE j \in wfail
      BY <1>0, <3>2, <3>4, SMTT(30) DEF WorstInv
    <3>5. QED
      BY <3>1, <3>3, <3>4, Zenon
  <2>3. next > Len(batches) \/ worst > 0
    BY <1>0, <2>1, <2>2, Zenon DEF WorstInv
  <2>4. QED
    BY <1>0, <1>1, <2>1, <2>3, WorstKept, Zenon
<1>8. QED
  BY <1>2, <1>3, <1>4, <1>5, <1>6, <1>7, Zenon DEF Loop

(* At first there is nothing to report.                                    *)
LEMMA StatusInit == Init => StatusInv
<1>1. Init => WorstInv
  BY Zenon DEF Init, WorstInv, Reported
<1>2. QED
  BY <1>1, RunInit, JobsInit, Zenon DEF StatusInv

(* Every step keeps the invariant.                                         *)
LEMMA StatusStep == StatusInv /\ [Next]_vars => StatusInv'
<1> SUFFICES ASSUME StatusInv, [Next]_vars PROVE WorstInv'
  BY RunStep, JobsStep, Zenon DEF StatusInv
<1>1. CASE Loop
  BY <1>1, WorstLoop, Zenon
<1>2. ASSUME NEW j \in Jobs, Worker(j) PROVE WorstInv'
  BY <1>2, WorstWorker, Zenon
<1>3. CASE (\E j \in Jobs : Child(j)) \/ UNCHANGED vars
  <2>1. UNCHANGED <<wpc, code, worst, wfail, stop, stopped, xpc, exit, next, batches>>
    BY <1>3, Zenon DEF Child, vars, xvars
  <2>2. QED
    BY <2>1, Zenon DEF StatusInv, WorstInv
<1>4. QED
  BY <1>1, <1>2, <1>3, Zenon DEF Next

(* At the end every batch has its verdict. *)
LEMMA AtExit ==
  ASSUME StatusInv, xpc = "exit", next > 1
  PROVE  /\ exit = worst /\ worst \in Nat
         /\ \A j \in Jobs : wpc[j] \in {"none", "done"} /\ Owed(j) = code[j] /\ code[j] \in Nat
                            /\ Owed(j) <= worst
         /\ wfail # {} => worst >= 1
         /\ worst = 0 \/ (\E j \in Jobs : worst = Owed(j)) \/ (worst = 1 /\ wfail # {})
<1>0. /\ code \in [Jobs -> Nat] /\ worst \in Nat /\ wfail \subseteq Jobs
      /\ LoopInv /\ WorstInv /\ \A j \in Jobs : JobInv(j)
  BY StatusFacts, Zenon
<1>1. \A j \in Jobs : wpc[j] \in {"none", "done"}
  BY <1>0, Zenon DEF LoopInv, Active
<1>2. \A j \in Jobs : Owed(j) = code[j]
  <2> TAKE j \in Jobs
  <2>1. CASE wpc[j] = "none"
    BY <1>0, <2>1, Zenon DEF Owed, JobInv, Judged, Reported
  <2>2. CASE wpc[j] = "done"
    BY <1>0, <2>2, Zenon DEF JobInv, Judged, Reported
  <2>3. QED
    BY <1>1, <2>1, <2>2, Zenon
<1>3. \A j \in Jobs : code[j] <= worst
  <2> TAKE j \in Jobs
  <2>1. CASE wpc[j] = "none"
    <3>1. code[j] = 0
      BY <1>0, <2>1, Zenon DEF JobInv, Judged, Reported
    <3>2. QED
      BY <1>0, <3>1, SMTT(30)
  <2>2. CASE wpc[j] = "done"
    BY <1>0, <2>2, Zenon DEF WorstInv, Reported
  <2>3. QED
    BY <1>1, <2>1, <2>2, Zenon
<1>4. wfail # {} => worst >= 1
  BY <1>0, <1>1, Zenon DEF WorstInv
<1>5. QED
  BY <1>0, <1>1, <1>2, <1>3, <1>4, Zenon DEF WorstInv

(* note: the exit status is the worst of what the batches owe, whatever    *)
(* the order they end in.                                                  *)
THEOREM ExitIsWorstHolds == Spec => []ExitIsWorst
<1>1. StatusInv => ExitIsWorst
  <2> SUFFICES ASSUME StatusInv, xpc = "exit", next > 1
               PROVE  exit = Max({Owed(j) : j \in Jobs} \cup {IF wfail = {} THEN 0 ELSE 1})
    BY Zenon DEF ExitIsWorst
  <2> DEFINE S == {Owed(j) : j \in Jobs} \cup {IF wfail = {} THEN 0 ELSE 1}
  <2>1. S \subseteq Nat /\ exit \in Nat /\ \A x \in S : x <= exit
    BY AtExit, SMTT(30)
  <2>2. exit \in S
    <3>1. CASE \E j \in Jobs : exit = Owed(j)
      BY <3>1, Zenon
    <3>2. CASE exit = 1 /\ wfail # {}
      BY <3>2, Zenon
    <3>3. CASE exit = 0
      <4>1. wfail = {}
        BY <3>3, AtExit, SMTT(30)
      <4>2. QED
        BY <3>3, <4>1, Zenon
    <3>4. QED
      BY <3>1, <3>2, <3>3, AtExit, Zenon
  <2>3. \A x \in S : (\A y \in S : x >= y) => x = exit
    BY <2>1, <2>2, SMTT(30)
  <2>4. QED
    BY <2>1, <2>2, <2>3, Zenon DEF Max
<1>2. QED
  BY <1>1, StatusInit, StatusStep, PTL DEF Spec

(* Exit status 0 means that every batch ran, or was declined, succeeded,   *)
(* and had its output written.                                             *)
THEOREM ZeroMeansDoneHolds == Spec => []ZeroMeansDone
<1>1. StatusInv => ZeroMeansDone
  <2> SUFFICES ASSUME StatusInv, xpc = "exit", exit = 0, next > 1, NEW j \in DOMAIN batches
               PROVE  /\ wpc[j] = "done"
                      /\ \/ o.interactive /\ tpc[j] = "none"
                         \/ tpc[j] = "exited" /\ tstatus[j] = 0
                      /\ Parallel => /\ wfail = {}
                                     /\ {<<j, "out">>, <<j, "err">>} \subseteq Range(out)
    BY Zenon DEF ZeroMeansDone
  <2>0. /\ next \in Nat /\ Len(batches) \in Nat /\ stop \subseteq Jobs /\ wfail \subseteq Jobs
        /\ LoopInv /\ WorstInv /\ (\A i \in Jobs : JobInv(i)) /\ batches \in Seq(Range(batches))
    BY StatusFacts, Zenon DEF StatusInv, RunInv, OptsInv
  <2>1. worst = 0 /\ wfail = {} /\ \A i \in Jobs : code[i] = 0 /\ wpc[i] \in {"none", "done"}
    <3>1. /\ worst = 0 /\ (wfail # {} => worst >= 1)
          /\ \A i \in Jobs : wpc[i] \in {"none", "done"} /\ code[i] \in Nat /\ code[i] <= worst
      BY AtExit, Zenon
    <3>2. QED
      BY <3>1
  <2>2. j \in Jobs /\ j \in 1 .. Len(batches)
    BY <2>0, BatchIsJob, SMTT(30) DEF StatusInv
  <2>3. wpc[j] = "done"
    <3>1. next > Len(batches)
      <4>1. next > Len(batches) \/ worst > 0
        BY <2>0, Zenon DEF WorstInv
      <4>2. \A w : w = 0 => ~(w > 0)
        OBVIOUS
      <4>3. QED
        BY <2>1, <4>1, <4>2, Zenon
    <3>2. j < next
      BY <2>0, <2>2, <3>1, SMTT(30)
    <3>3. wpc[j] # "none"
      BY <2>0, <2>2, <3>2, Zenon DEF LoopInv
    <3>4. QED
      BY <2>1, <2>2, <3>3, Zenon
  <2>4. ~stopped
    <3>1. \A i \in stop : FALSE
      BY <2>0, <2>1, Zenon DEF JobInv
    <3>2. QED
      BY <2>0, <2>1, <3>1, Zenon DEF WorstInv
  <2>5. JobInv(j) /\ ~Skipped(j) /\ code[j] = 0
    BY <2>0, <2>1, <2>2, <2>4, Zenon DEF Skipped
  <2>6. QED
    BY <2>1, <2>3, <2>5, Zenon DEF JobInv, Judged, Reported, Succeeded
<1>2. QED
  BY <1>1, StatusInit, StatusStep, PTL DEF Spec
=============================================================================
