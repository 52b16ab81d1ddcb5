--------------------------- MODULE SessionsProofs ---------------------------
(***************************************************************************)
(* Proofs about Sessions, for every set of sessions and callers and every  *)
(* bound.                                                                  *)
(***************************************************************************)
EXTENDS Sessions, FiniteSetTheorems, TLAPS

(* What a call carries at each of its awaits.                              *)
OpGood(o) ==
    /\ o.pc \in {"ensure", "start"} =>
          o.s \in Session /\ o.kind = "send" /\ o.arg \in 1..MaxMsg
    /\ o.pc \in {"record", "deliver"} =>
          /\ o.g \in Gen
          /\ \/ o.kind = "send" /\ o.arg \in 1..MaxMsg
             \/ o.kind = "answer" /\ o.arg \in 1..MaxApproval
    /\ o.pc \in {"interrupt", "write"} =>
          /\ o.g \in Gen
          /\ o.kind = "send" => o.arg \in 1..MaxMsg
          /\ o.kind = "end" => o.s \in Session
    /\ o.pc = "interrupt" => o.kind \in {"interrupt", "end"}
    /\ o.pc \in {"check", "release"} => o.s \in Session
    /\ o.pc \in {"shutdown", "wait"} => o.g \in Gen
OpOK == \A c \in Caller : OpGood(op[c])

(* A process that runs belongs to a session, has a native session, and has *)
(* been started.                                                           *)
RunOK ==
    \A g \in Gen : run[g].proc = "up" =>
        run[g].s \in Session /\ run[g].native \in Gen /\ g <= gen

(* A start keeps the registry lock, and its session has no entry.          *)
StartLocked ==
    \A c \in Caller : op[c].pc = "start" => lock = c /\ live[op[c].s] = 0

(* The inductive invariant.  NoOrphanRun alone is not inductive: StartOk   *)
(* overwrites an entry, which is harmless only by StartLocked.             *)
IInv == TypeOK /\ OpOK /\ RunOK /\ StartLocked /\ NoOrphanRun

(* A step that starts no process, and calls none back from its shutdown.   *)
RunMild ==
    \A g \in Gen : run'[g].proc = "up" =>
        /\ run[g].proc = "up" /\ run'[g].s = run[g].s
        /\ run'[g].native = run[g].native
        /\ run[g].shuttingDown => run'[g].shuttingDown
-----------------------------------------------------------------------------
(* Types of the values the actions build.                                  *)

LEMMA EventTypes ==
    /\ \A g \in Gen, n \in Gen :
          [kind |-> "NativeSession", gen |-> g, native |-> n] \in Event
    /\ \A g \in Gen, m \in 1..MaxMsg :
          [kind |-> "UserMessage", gen |-> g, msg |-> m] \in Event
    /\ \A g \in Gen, a \in 1..MaxApproval :
          [kind |-> "ApprovalRequested", gen |-> g, approval |-> a] \in Event
    /\ \A g \in Gen, a \in 1..MaxApproval :
          [kind |-> "ApprovalResolved", gen |-> g, approval |-> a] \in Event
    /\ \A g \in Gen, b \in BOOLEAN :
          [kind |-> "TurnEnded", gen |-> g, failed |-> b] \in Event
BY DEF Event

\* Putting an event into its channel changes nothing else of a run.
LEMMA EmitRun ==
    ASSUME NEW r \in Run, NEW e \in Event
    PROVE  /\ Emit(r, e) \in Run
           /\ Emit(r, e).s = r.s /\ Emit(r, e).proc = r.proc
           /\ Emit(r, e).native = r.native
           /\ Emit(r, e).shuttingDown = r.shuttingDown
<1>1. r.chan \in Seq(Event)
  BY DEF Run
<1>2. Append(r.chan, e) \in Seq(Event)
  BY <1>1
<1>3. Emit(r, e) = [r EXCEPT !.chan = Append(r.chan, e)]
  BY DEF Emit
<1>4. ASSUME NEW q \in Seq(Event)
      PROVE  [r EXCEPT !.chan = q] \in Run
  BY Zenon DEF Run
<1>5. Emit(r, e) \in Run
  BY <1>2, <1>3, <1>4
<1>6. /\ Emit(r, e).s = r.s /\ Emit(r, e).proc = r.proc
      /\ Emit(r, e).native = r.native
      /\ Emit(r, e).shuttingDown = r.shuttingDown
  BY <1>3 DEF Run
<1> QED BY <1>5, <1>6

\* What the next lemmas show of the run that a step leaves behind.
Continues(r, g) ==
    /\ r.proc = "up" => run[g].proc = "up"
    /\ r.s = run[g].s /\ r.native = run[g].native
    /\ r.shuttingDown = run[g].shuttingDown

LEMMA EmitContinues ==
    ASSUME NEW g, NEW q \in Run, NEW e \in Event, Continues(q, g)
    PROVE  Emit(q, e) \in Run /\ Continues(Emit(q, e), g)
BY EmitRun DEF Continues

LEMMA AfterType ==
    ASSUME NEW st \in Status, NEW e \in Event
    PROVE  After(st, e) \in Status
BY DEF After, Status, Event

\* The type of the store is kept by storing any event for any session.
LEMMA AppendType ==
    ASSUME status \in [Session -> Status], native \in [Session -> 0..MaxGen],
           log \in [Session -> Seq(Event)], quiet \subseteq Session,
           NEW s, NEW e \in Event, AppendEvent(s, e)
    PROVE  /\ status' \in [Session -> Status] /\ native' \in [Session -> 0..MaxGen]
           /\ log' \in [Session -> Seq(Event)] /\ quiet' \subseteq Session
<1>1. status' \in [Session -> Status]
  BY AfterType DEF AppendEvent
<1>2. e.kind = "NativeSession" => e.native \in 0..MaxGen
  BY BoundsAssumption DEF Event, Gen
<1>3. native' \in [Session -> 0..MaxGen]
  BY <1>2 DEF AppendEvent
<1>4. log' \in [Session -> Seq(Event)]
  <2>1. \A x \in Session : Append(log[x], e) \in Seq(Event)
    OBVIOUS
  <2> QED BY <2>1 DEF AppendEvent
<1>5. quiet' \subseteq Session
  BY DEF AppendEvent
<1> QED BY <1>1, <1>3, <1>4, <1>5

\* Fields of a run that single steps assign.
LEMMA RunFields ==
    ASSUME NEW r \in Run
    PROVE  /\ [r EXCEPT !.proc = "exited"] \in Run
           /\ [r EXCEPT !.pump = FALSE] \in Run
           /\ [r EXCEPT !.reader = FALSE] \in Run
           /\ [r EXCEPT !.working = FALSE] \in Run
           /\ [r EXCEPT !.shuttingDown = TRUE, !.stdin = FALSE] \in Run
           /\ \A q \in Seq(Event) : [r EXCEPT !.chan = q] \in Run
           /\ \A S \in SUBSET (1..MaxApproval) : [r EXCEPT !.pending = S] \in Run
           /\ \A n \in Nat : [r EXCEPT !.read = n] \in Run
           /\ \A n \in Nat : [r EXCEPT !.read = n, !.working = TRUE] \in Run
           /\ \A b \in BOOLEAN : [r EXCEPT !.interruptRequested = b] \in Run
           /\ [r EXCEPT !.turnActive = TRUE, !.interruptRequested = FALSE] \in Run
           /\ \A q \in Seq(1..MaxMsg) : [r EXCEPT !.wrote = q] \in Run
           /\ [r EXCEPT !.interruptRequested = FALSE, !.turnActive = FALSE,
                        !.pending = {}] \in Run
           /\ \A q \in Seq(Event) :
                 [r EXCEPT !.proc = "exited", !.stdin = FALSE, !.reader = FALSE,
                           !.pump = FALSE, !.chan = q] \in Run
<1>1. [r EXCEPT !.proc = "exited"] \in Run
  BY Zenon DEF Run
<1>2. [r EXCEPT !.pump = FALSE] \in Run
  BY Zenon DEF Run
<1>3. [r EXCEPT !.reader = FALSE] \in Run
  BY Zenon DEF Run
<1>4. [r EXCEPT !.working = FALSE] \in Run
  BY Zenon DEF Run
<1>5. [r EXCEPT !.shuttingDown = TRUE, !.stdin = FALSE] \in Run
  BY Zenon DEF Run
<1>6. \A q \in Seq(Event) : [r EXCEPT !.chan = q] \in Run
  BY Zenon DEF Run
<1>7. \A S \in SUBSET (1..MaxApproval) : [r EXCEPT !.pending = S] \in Run
  BY Zenon DEF Run
<1>8. \A n \in Nat : [r EXCEPT !.read = n] \in Run
  BY Zenon DEF Run
<1>9. \A n \in Nat : [r EXCEPT !.read = n, !.working = TRUE] \in Run
  BY Zenon DEF Run
<1>10. \A b \in BOOLEAN : [r EXCEPT !.interruptRequested = b] \in Run
  BY Zenon DEF Run
<1>11. [r EXCEPT !.turnActive = TRUE, !.interruptRequested = FALSE] \in Run
  BY Zenon DEF Run
<1>14. \A q \in Seq(1..MaxMsg) : [r EXCEPT !.wrote = q] \in Run
  BY Zenon DEF Run
<1>12. [r EXCEPT !.interruptRequested = FALSE, !.turnActive = FALSE,
        !.pending = {}] \in Run
  BY Zenon DEF Run
<1>13. \A q \in Seq(Event) :
         [r EXCEPT !.proc = "exited", !.stdin = FALSE, !.reader = FALSE,
                   !.pump = FALSE, !.chan = q] \in Run
  BY Zenon DEF Run
<1> QED BY <1>1, <1>2, <1>3, <1>4, <1>5, <1>6, <1>7, <1>8, <1>9,
           <1>10, <1>11, <1>12, <1>13, <1>14

LEMMA StartedRunType ==
    ASSUME NEW s \in Session, NEW g \in Gen, NEW n \in 0..MaxGen
    PROVE  /\ StartedRun(s, g, n) \in Run
           /\ StartedRun(s, g, n).s = s /\ StartedRun(s, g, n).native \in Gen
<1> DEFINE m == IF n = 0 THEN g ELSE n
<1>1. m \in Gen /\ m \in 0..MaxGen
  BY BoundsAssumption DEF Gen
<1>2. /\ {} \in SUBSET (1..MaxApproval) /\ <<>> \in Seq(Event)
      /\ <<>> \in Seq(1..MaxMsg) /\ 0 \in Nat /\ 0 \in 0..MaxGen
  BY BoundsAssumption
<1>3. NotStarted \in Run
  BY <1>2, Zenon DEF NotStarted, Run
<1>4. StartedRun(s, g, n) =
        [NotStarted EXCEPT !.s = s, !.proc = "up", !.stdin = TRUE, !.reader = TRUE,
                           !.pump = TRUE, !.native = m]
  BY DEF StartedRun
<1> HIDE DEF m
<1>5. StartedRun(s, g, n) \in Run
  BY <1>1, <1>3, <1>4, Zenon DEF Run
<1>6. StartedRun(s, g, n).s = s /\ StartedRun(s, g, n).native = m
  BY <1>4 DEF NotStarted
<1> QED BY <1>1, <1>5, <1>6

LEMMA NoOpType == NoOp \in Op /\ OpGood(NoOp) /\ NoOp.pc = "idle"
BY BoundsAssumption DEF NoOp, Op, OpGood
-----------------------------------------------------------------------------
(* Steps that leave the registry alone.                                    *)

\* No call moves.
LEMMA MildStep ==
    ASSUME IInv, RunMild, UNCHANGED <<live, lock, gen, op>>
    PROVE  OpOK' /\ RunOK' /\ StartLocked' /\ NoOrphanRun'
<1> USE DEF IInv, RunMild
<1>1. OpOK'
  BY DEF OpOK, OpGood
<1>2. RunOK'
  BY DEF RunOK
<1>3. StartLocked'
  BY DEF StartLocked
<1>4. NoOrphanRun'
  BY DEF NoOrphanRun
<1> QED BY <1>1, <1>2, <1>3, <1>4

\* The registry lock stays where it is, or c takes it or gives it back.
LockMoves(c) == lock' = lock \/ (lock \in {c, None} /\ lock' \in {c, None})

\* One call moves, neither into a start nor out of the way to a shutdown.
LEMMA CallStep ==
    ASSUME IInv, RunMild, UNCHANGED <<live, gen>>,
           NEW c \in Caller, NEW o \in Op, OpGood(o), o.pc # "start", LockMoves(c),
           op[c].pc # "shutdown", op' = [op EXCEPT ![c] = o]
    PROVE  /\ op' \in [Caller -> Op] /\ lock' \in Caller \cup {None}
           /\ OpOK' /\ RunOK' /\ StartLocked' /\ NoOrphanRun'
<1> USE DEF IInv, RunMild
<1>0. /\ op \in [Caller -> Op] /\ op' \in [Caller -> Op]
      /\ lock' \in Caller \cup {None}
  BY DEF TypeOK, LockMoves
<1>1. OpOK'
  BY <1>0 DEF OpOK, OpGood
<1>2. RunOK'
  BY DEF RunOK
<1>3. StartLocked'
  <2> SUFFICES ASSUME NEW d \in Caller, op'[d].pc = "start"
               PROVE  lock' = d /\ live'[op'[d].s] = 0
    BY DEF StartLocked
  <2>1. d # c /\ op'[d] = op[d]
    BY <1>0
  <2>2. lock = d /\ live[op[d].s] = 0
    BY <2>1 DEF StartLocked
  <2> QED BY <2>1, <2>2, NamesAssumption DEF LockMoves
<1>4. NoOrphanRun'
  BY <1>0 DEF NoOrphanRun
<1> QED BY <1>0, <1>1, <1>2, <1>3, <1>4

\* The record a new call starts with.
LEMMA NewCall ==
    ASSUME NEW pc \in {"ensure", "record", "interrupt", "check", "release"},
           NEW kind \in {"send", "answer", "interrupt", "reap", "end"}, NEW s \in Session,
           NEW g \in 0..MaxGen, NEW arg \in 0..(MaxMsg + MaxApproval)
    PROVE  LET o == Call(pc, kind, s, g, arg)
           IN /\ o \in Op
              /\ o.pc = pc /\ o.kind = kind /\ o.s = s /\ o.g = g /\ o.arg = arg
<1>1. 0 \in 0..MaxGen
  BY BoundsAssumption
<1>2. Call(pc, kind, s, g, arg) \in Op
  BY <1>1, Zenon DEF Op, Call
<1> QED BY <1>2 DEF Call

LEMMA OpFields ==
    ASSUME NEW o \in Op
    PROVE  /\ \A pc \in {"record", "deliver", "write", "release", "wait"} :
                 [o EXCEPT !.pc = pc] \in Op
           /\ \A g \in 0..MaxGen : [o EXCEPT !.pc = "record", !.g = g] \in Op
           /\ \A g \in 0..MaxGen : [o EXCEPT !.pc = "shutdown", !.g = g] \in Op
           /\ \A n \in 0..MaxGen : [o EXCEPT !.pc = "start", !.resume = n] \in Op
<1>1. \A pc \in {"record", "deliver", "write", "release", "wait"} : [o EXCEPT !.pc = pc] \in Op
  BY DEF Op
<1>2. \A g \in 0..MaxGen : [o EXCEPT !.pc = "record", !.g = g] \in Op
  BY DEF Op
<1>3. \A g \in 0..MaxGen : [o EXCEPT !.pc = "shutdown", !.g = g] \in Op
  BY DEF Op
<1>4. \A n \in 0..MaxGen : [o EXCEPT !.pc = "start", !.resume = n] \in Op
  BY DEF Op
<1> QED BY <1>1, <1>2, <1>3, <1>4

-----------------------------------------------------------------------------
(* The inductive step, one lemma for each group of actions.                *)

\* Steps of an agent process and its stdout reader.
LEMMA AgentStepInductive ==
    ASSUME IInv, NEW g \in Gen, AgentStep(g) \/ ReaderEof(g)
    PROVE  IInv'
<1> USE DEF IInv
<1>1. run \in [Gen -> Run] /\ run[g] \in Run
  BY DEF TypeOK
<1>2. run[g].proc = "up" => run[g].native \in Gen
  BY DEF RunOK
<1>3. PICK r \in Run : run' = [run EXCEPT ![g] = r] /\ Continues(r, g)
  <2>1. CASE CliRead(g)
    <3> DEFINE q == BeginTurn(run[g])
               e == [kind |-> "NativeSession", gen |-> g, native |-> run[g].native]
    <3>1. e \in Event
      BY <2>1, <1>2, EventTypes DEF CliRead, Talks
    <3>2. run[g].read + 1 \in Nat
      BY <1>1 DEF Run
    <3>3. q \in Run
      BY <1>1, <3>2, RunFields DEF BeginTurn
    <3>4. Continues(q, g)
      BY <1>1 DEF Run, Continues, BeginTurn
    <3>5. run' = [run EXCEPT ![g] = Emit(q, e)]
      BY <2>1, Zenon DEF CliRead
    <3> HIDE DEF q, e
    <3> QED BY <3>1, <3>3, <3>4, <3>5, EmitContinues
  <2>2. CASE CliFold(g)
    <3> DEFINE q == [run[g] EXCEPT !.read = @ + 1]
    <3>1. run[g].read + 1 \in Nat
      BY <1>1 DEF Run
    <3>2. q \in Run
      BY <1>1, <3>1, RunFields
    <3>3. Continues(q, g)
      BY <1>1 DEF Run, Continues
    <3>4. run' = [run EXCEPT ![g] = q]
      BY <2>2, Zenon DEF CliFold
    <3> HIDE DEF q
    <3> QED BY <3>2, <3>3, <3>4
  <2>3. CASE CliAsk(g)
    <3> DEFINE a == count.approval + 1
               q == Ask(run[g], a)
               e == [kind |-> "ApprovalRequested", gen |-> g, approval |-> a]
    <3>1. a \in 1..MaxApproval
      BY <2>3, BoundsAssumption DEF CliAsk, TypeOK
    <3>2. e \in Event
      BY <3>1, EventTypes
    <3>3. run[g].pending \cup {a} \in SUBSET (1..MaxApproval)
      BY <1>1, <3>1 DEF Run
    <3>4. q \in Run
      BY <1>1, <3>3, RunFields DEF Ask
    <3>5. Continues(q, g)
      BY <1>1 DEF Run, Continues, Ask
    <3>6. run' = [run EXCEPT ![g] = Emit(q, e)]
      BY <2>3, Zenon DEF CliAsk
    <3> HIDE DEF q, e
    <3> QED BY <3>2, <3>4, <3>5, <3>6, EmitContinues
  <2>4. CASE CliCancel(g)
    <3>1. PICK a \in run[g].pending : run' = [run EXCEPT ![g].pending = @ \ {a}]
      BY <2>4 DEF CliCancel
    <3> DEFINE q == [run[g] EXCEPT !.pending = @ \ {a}]
    <3>2. run[g].pending \ {a} \in SUBSET (1..MaxApproval)
      BY <1>1 DEF Run
    <3>3. q \in Run
      BY <1>1, <3>2, RunFields
    <3>4. Continues(q, g)
      BY <1>1 DEF Run, Continues
    <3>5. run' = [run EXCEPT ![g] = q]
      BY <3>1, Zenon
    <3> HIDE DEF q
    <3> QED BY <3>3, <3>4, <3>5
  <2>5. CASE CliResult(g)
    <3>1. PICK error \in BOOLEAN :
            run' = [run EXCEPT ![g] = TurnEnd([@ EXCEPT !.working = FALSE], g, error)]
      BY <2>5 DEF CliResult
    <3> DEFINE p == [run[g] EXCEPT !.working = FALSE]
               q == [p EXCEPT !.interruptRequested = FALSE, !.turnActive = FALSE,
                              !.pending = {}]
               f == error /\ ~p.interruptRequested
               e == [kind |-> "TurnEnded", gen |-> g, failed |-> f]
    <3>2. f \in BOOLEAN
      OBVIOUS
    <3>3. e \in Event
      BY <3>2, EventTypes
    <3>4. p \in Run
      BY <1>1, RunFields
    <3>5. q \in Run
      BY <3>4, RunFields
    <3>6. Continues(q, g)
      BY <1>1 DEF Run, Continues
    <3>7. run' = [run EXCEPT ![g] = Emit(q, e)]
      BY <3>1, Zenon DEF TurnEnd
    <3> HIDE DEF q, e
    <3> QED BY <3>3, <3>5, <3>6, <3>7, EmitContinues
  <2>6. CASE CliExit(g)
    <3> DEFINE q == [run[g] EXCEPT !.proc = "exited"]
    <3>1. q \in Run
      BY <1>1, RunFields
    <3>2. Continues(q, g)
      BY <1>1 DEF Run, Continues
    <3>3. run' = [run EXCEPT ![g] = q]
      BY <2>6, Zenon DEF CliExit
    <3> HIDE DEF q
    <3> QED BY <3>1, <3>2, <3>3
  <2>7. CASE ReaderEof(g)
    <3> DEFINE q == [run[g] EXCEPT !.reader = FALSE]
               f == ~q.interruptRequested
               e == [kind |-> "TurnEnded", gen |-> g, failed |-> f]
    <3>1. f \in BOOLEAN
      OBVIOUS
    <3>2. e \in Event
      BY <3>1, EventTypes
    <3>3. q \in Run
      BY <1>1, RunFields
    <3>4. Continues(q, g)
      BY <1>1 DEF Run, Continues
    <3>5. \/ run' = [run EXCEPT ![g] = Emit(q, e)]
          \/ run' = [run EXCEPT ![g] = q]
      BY <2>7, Zenon DEF ReaderEof
    <3> HIDE DEF q, e
    <3> QED BY <3>2, <3>3, <3>4, <3>5, EmitContinues
  <2> QED BY <2>1, <2>2, <2>3, <2>4, <2>5, <2>6, <2>7 DEF AgentStep
<1>4. /\ run' \in [Gen -> Run]
      /\ RunMild
  BY <1>1, <1>3 DEF RunMild, Continues
<1>5. /\ UNCHANGED <<status, native, log, live, lock, gen, op, quiet, leased>>
      /\ count' \in [msg : 0..MaxMsg, approval : 0..MaxApproval, answer : 0..MaxAnswer,
                 restart : 0..MaxRestart]
  <2>1. UNCHANGED <<status, native, log, live, lock, gen, op, quiet, leased>>
    BY DEF AgentStep, CliRead, CliFold, CliAsk, CliCancel, CliResult, CliExit,
           ReaderEof, store
  <2>2. \/ UNCHANGED count
        \/ /\ count.approval < MaxApproval
           /\ count' = [count EXCEPT !.approval = @ + 1]
    BY DEF AgentStep, CliRead, CliFold, CliAsk, CliCancel, CliResult, CliExit, ReaderEof
  <2>3. count \in [msg : 0..MaxMsg, approval : 0..MaxApproval, answer : 0..MaxAnswer,
                   restart : 0..MaxRestart]
    BY DEF TypeOK
  <2>4. count.approval < MaxApproval => count.approval + 1 \in 0..MaxApproval
    BY <2>3, BoundsAssumption
  <2> QED BY <2>1, <2>2, <2>3, <2>4
<1>6. TypeOK'
  BY <1>4, <1>5 DEF TypeOK
<1> QED BY <1>4, <1>5, <1>6, MildStep

\* Steps of a pump.
LEMMA PumpInductive ==
    ASSUME IInv, NEW g \in Gen, Pump(g) \/ PumpExit(g)
    PROVE  IInv'
<1> USE DEF IInv
<1>1. run \in [Gen -> Run] /\ run[g] \in Run
  BY DEF TypeOK
<1>2. CASE Pump(g)
  <2> DEFINE q == [run[g] EXCEPT !.chan = Tail(@)]
             e == Head(run[g].chan)
  <2>1. run[g].chan \in Seq(Event) /\ run[g].chan # <<>>
    BY <1>1, <1>2 DEF Run, Pump
  <2>2. e \in Event /\ Tail(run[g].chan) \in Seq(Event)
    BY <2>1
  <2>3. q \in Run
    BY <1>1, <2>2, RunFields
  <2>4. Continues(q, g)
    BY <1>1 DEF Run, Continues
  <2>5. run' = [run EXCEPT ![g] = q]
    BY <1>2, Zenon DEF Pump
  <2>6. \/ UNCHANGED <<status, native, log, quiet>>
        \/ AppendEvent(run[g].s, e)
    BY <1>2 DEF Pump, store
  <2>7. UNCHANGED <<live, lock, gen, op, leased, count>>
    BY <1>2 DEF Pump
  <2> HIDE DEF q, e
  <2>8. run' \in [Gen -> Run] /\ RunMild
    BY <1>1, <2>3, <2>4, <2>5 DEF RunMild, Continues
  <2>9. /\ status' \in [Session -> Status] /\ native' \in [Session -> 0..MaxGen]
        /\ log' \in [Session -> Seq(Event)] /\ quiet' \subseteq Session
    BY <2>2, <2>6, AppendType DEF TypeOK
  <2>10. TypeOK'
    BY <2>7, <2>8, <2>9 DEF TypeOK
  <2> QED BY <2>7, <2>8, <2>10, MildStep
<1>3. CASE PumpExit(g)
  <2> DEFINE q == [run[g] EXCEPT !.pump = FALSE]
  <2>1. q \in Run
    BY <1>1, RunFields
  <2>2. Continues(q, g)
    BY <1>1 DEF Run, Continues
  <2>3. run' = [run EXCEPT ![g] = q]
    BY <1>3, Zenon DEF PumpExit
  <2>4. UNCHANGED <<status, native, log, lock, gen, op, quiet, leased, count>>
    BY <1>3 DEF PumpExit, store
  \* The registry entry holds a sender, so the pump of a registered run goes on.
  <2>5. UNCHANGED live
    BY <1>3 DEF PumpExit, Senders, Unregister
  <2> HIDE DEF q
  <2>6. run' \in [Gen -> Run] /\ RunMild
    BY <1>1, <2>1, <2>2, <2>3 DEF RunMild, Continues
  <2>7. TypeOK'
    BY <2>4, <2>5, <2>6 DEF TypeOK
  <2> QED BY <2>4, <2>5, <2>6, <2>7, MildStep
<1> QED BY <1>2, <1>3

\* Steps of a call that leave the registry and its lock alone.
LEMMA CallInductive ==
    ASSUME IInv, NEW c \in Caller,
           \/ Record(c) \/ Deliver(c) \/ ReapCheck(c)
           \/ ShutdownKill(c) \/ ShutdownDone(c) \/ SweepAsk(c)
    PROVE  IInv'
<1> USE DEF IInv
<1>1. /\ run \in [Gen -> Run] /\ op \in [Caller -> Op]
      /\ op[c] \in Op /\ OpGood(op[c])
  BY DEF TypeOK, OpOK
<1>2. /\ UNCHANGED <<status, native, log, live, gen, quiet, leased, count>>
      /\ LockMoves(c) /\ (UNCHANGED lock \/ ShutdownDone(c))
  BY DEF Record, Deliver, ReapCheck, ShutdownKill, ShutdownDone, SweepAsk, store,
         LockMoves, GivenBack
<1>3. CASE Record(c)
  <2> DEFINE e == OpEvent(op[c])
             g == op[c].g
             q == Emit(run[g], e)
             o == [op[c] EXCEPT !.pc = "deliver"]
  <2>1. op[c].pc = "record" /\ g \in Gen
    BY <1>1, <1>3 DEF Record, OpGood
  <2>2. e \in Event
    BY <1>1, <2>1, EventTypes DEF OpEvent, OpGood
  <2>3. run[g] \in Run /\ Continues(run[g], g)
    BY <1>1, <2>1 DEF Continues
  <2>4. run' = [run EXCEPT ![g] = q] /\ op' = [op EXCEPT ![c] = o]
    BY <1>3, Zenon DEF Record
  <2>5. o \in Op /\ OpGood(o) /\ o.pc = "deliver"
    <3>1. o \in Op BY <1>1, OpFields
    <3>2. o.pc = "deliver" /\ o.g = op[c].g /\ o.kind = op[c].kind /\ o.arg = op[c].arg
      BY <1>1 DEF Op
    <3> QED BY <1>1, <2>1, <3>1, <3>2 DEF OpGood
  <2> HIDE DEF e, g, o
  <2>6. q \in Run /\ Continues(q, g)
    BY <2>2, <2>3, EmitContinues
  <2> HIDE DEF q
  <2>7. run' \in [Gen -> Run] /\ RunMild
    BY <1>1, <2>4, <2>6 DEF RunMild, Continues
  <2>8. op' \in [Caller -> Op] /\ OpOK' /\ RunOK' /\ StartLocked' /\ NoOrphanRun'
    BY <1>2, <2>1, <2>4, <2>5, <2>7, CallStep
  <2>9. TypeOK'
    BY <1>2, <1>3, <2>7, <2>8 DEF TypeOK, Record
  <2> QED BY <2>8, <2>9
<1>4. CASE Deliver(c)
  <2> DEFINE g == op[c].g
             q == IF op[c].kind = "send" THEN ClaudeSend(run[g])
                                         ELSE ClaudeAnswer(run[g], op[c].arg)
             w == [op[c] EXCEPT !.pc = "write"]
  <2>1. op[c].pc = "deliver" /\ g \in Gen
    BY <1>1, <1>4 DEF Deliver, OpGood
  <2>2. run[g] \in Run
    BY <1>1, <2>1
  <2>3. ASSUME op[c].kind = "send" PROVE q \in Run /\ Continues(q, g)
    <3>1. q = [run[g] EXCEPT !.turnActive = TRUE, !.interruptRequested = FALSE]
      BY <2>3 DEF ClaudeSend
    <3> HIDE DEF q
    <3>2. q \in Run
      BY <2>2, <3>1, RunFields
    <3>3. Continues(q, g)
      BY <2>2, <3>1 DEF Continues, Run
    <3> QED BY <3>2, <3>3
  <2>4. ASSUME op[c].kind # "send" PROVE q \in Run /\ Continues(q, g)
    <3>1. q = [run[g] EXCEPT !.pending = run[g].pending \ {op[c].arg}]
      BY <2>4 DEF ClaudeAnswer
    <3>2. run[g].pending \ {op[c].arg} \in SUBSET (1..MaxApproval)
      BY <2>2 DEF Run
    <3> HIDE DEF q
    <3>3. q \in Run
      BY <2>2, <3>1, <3>2, RunFields
    <3>4. Continues(q, g)
      BY <2>2, <3>1 DEF Continues, Run
    <3> QED BY <3>3, <3>4
  <2>5. q \in Run /\ Continues(q, g)
    BY <2>3, <2>4
  <2>6. run' = [run EXCEPT ![g] = q]
    BY <1>4, Zenon DEF Deliver
  <2>7. PICK o : o \in {NoOp, w} /\ op' = [op EXCEPT ![c] = o]
    BY <1>4 DEF Deliver
  <2>8. o \in Op /\ OpGood(o) /\ o.pc \in {"idle", "write"}
    <3>1. w \in Op
      BY <1>1, OpFields
    <3>2. /\ w.pc = "write" /\ w.g = op[c].g /\ w.kind = op[c].kind
          /\ w.arg = op[c].arg
      BY <1>1 DEF Op
    <3>3. OpGood(w)
      BY <1>1, <2>1, <3>2 DEF OpGood
    <3> QED BY <2>7, <3>1, <3>2, <3>3, NoOpType
  <2> HIDE DEF g, q, w
  <2>9. run' \in [Gen -> Run] /\ RunMild
    BY <1>1, <2>5, <2>6 DEF RunMild, Continues
  <2>10. /\ op' \in [Caller -> Op] /\ OpOK' /\ RunOK' /\ StartLocked' /\ NoOrphanRun'
         /\ lock' \in Caller \cup {None}
    BY <1>2, <2>1, <2>7, <2>8, <2>9, CallStep
  <2>11. TypeOK'
    BY <1>2, <2>9, <2>10 DEF TypeOK
  <2> QED BY <2>10, <2>11
<1>5. CASE ReapCheck(c) \/ ShutdownDone(c) \/ SweepAsk(c)
  <2>1. op[c].pc \in {"check", "wait", "ask"} /\ UNCHANGED run
    BY <1>5 DEF ReapCheck, ShutdownDone, SweepAsk
  <2>2. PICK o : /\ op' = [op EXCEPT ![c] = o]
                 /\ \/ o = NoOp
                    \/ op[c].pc = "check" /\ o = [op[c] EXCEPT !.pc = "release"]
    BY <1>5 DEF ReapCheck, ShutdownDone, SweepAsk
  <2>3. o \in Op /\ OpGood(o) /\ o.pc \in {"idle", "release"}
    <3>1. CASE o = NoOp
      BY <3>1, NoOpType
    <3>2. CASE op[c].pc = "check" /\ o = [op[c] EXCEPT !.pc = "release"]
      <4>1. o \in Op
        BY <1>1, <3>2, OpFields
      <4>2. o.pc = "release" /\ o.s = op[c].s
        BY <1>1, <3>2 DEF Op
      <4> QED BY <1>1, <3>2, <4>1, <4>2 DEF OpGood
    <3> QED BY <2>2, <3>1, <3>2
  <2>4. RunMild
    BY <2>1 DEF RunMild
  <2>5. /\ op' \in [Caller -> Op] /\ OpOK' /\ RunOK' /\ StartLocked' /\ NoOrphanRun'
        /\ lock' \in Caller \cup {None}
    BY <1>2, <2>1, <2>2, <2>3, <2>4, CallStep
  <2>6. TypeOK'
    BY <1>2, <2>1, <2>5 DEF TypeOK
  <2> QED BY <2>5, <2>6
<1>6. CASE ShutdownKill(c)
  <2> DEFINE g == op[c].g
             q == [run[g] EXCEPT !.proc = "exited"]
  <2>1. g \in Gen
    BY <1>1, <1>6 DEF ShutdownKill, OpGood
  <2>2. q \in Run /\ Continues(q, g)
    <3>1. run[g] \in Run /\ run[g].proc = "up"
      BY <1>1, <1>6, <2>1 DEF ShutdownKill
    <3>2. q \in Run
      BY <3>1, RunFields
    <3>3. Continues(q, g)
      BY <3>1 DEF Continues, Run
    <3> QED BY <3>2, <3>3
  <2>3. run' = [run EXCEPT ![g] = q]
    BY <1>6, Zenon DEF ShutdownKill
  <2>4. UNCHANGED <<op, lock>>
    BY <1>6 DEF ShutdownKill
  <2> HIDE DEF g, q
  <2>5. run' \in [Gen -> Run] /\ RunMild
    BY <1>1, <2>2, <2>3 DEF RunMild, Continues
  <2>6. TypeOK'
    BY <1>2, <2>4, <2>5 DEF TypeOK
  <2> QED BY <1>2, <2>4, <2>5, <2>6, MildStep
<1> QED BY <1>3, <1>4, <1>5, <1>6

\* What a call does after it has been inside the run.
LEMMA ReturnType ==
    ASSUME NEW o \in Op, OpGood(o), o.pc \in {"interrupt", "write"}
    PROVE  Return(o) \in Op /\ OpGood(Return(o)) /\ Return(o).pc \in {"idle", "release"}
<1>1. CASE o.kind = "end"
  <2>1. o.s \in Session
    BY <1>1 DEF OpGood
  <2>2. 0 \in 0..MaxGen /\ 0 \in 0..(MaxMsg + MaxApproval)
    BY BoundsAssumption
  <2>3. /\ Return(o) \in Op /\ Return(o).pc = "release" /\ Return(o).s = o.s
    BY <1>1, <2>1, <2>2, NewCall DEF Return
  <2> QED BY <2>1, <2>3 DEF OpGood
<1>2. CASE o.kind # "end"
  BY <1>2, NoOpType DEF Return
<1> QED BY <1>1, <1>2

\* Steps of a call inside the run: the write, and an interrupt.
LEMMA InsideInductive ==
    ASSUME IInv, NEW c \in Caller, Write(c) \/ InterruptRun(c)
    PROVE  IInv'
<1> USE DEF IInv
<1> DEFINE g == op[c].g
<1>1. /\ run \in [Gen -> Run] /\ op \in [Caller -> Op]
      /\ op[c] \in Op /\ OpGood(op[c])
  BY DEF TypeOK, OpOK
<1>2. /\ UNCHANGED <<status, native, log, live, gen, quiet, leased, count>>
      /\ LockMoves(c)
  BY DEF Write, InterruptRun, store, LockMoves, GivenBack
<1>3. op[c].pc \in {"interrupt", "write"} /\ g \in Gen
  BY <1>1 DEF Write, InterruptRun, OpGood
<1>4. run[g] \in Run
  BY <1>1, <1>3
<1>5. PICK q : run' = [run EXCEPT ![g] = q] /\ q \in Run /\ Continues(q, g)
  <2>1. CASE Write(c)
    <3> DEFINE w == IF op[c].kind = "send" /\ run[g].stdin /\ run[g].proc = "up"
                    THEN Append(run[g].wrote, op[c].arg) ELSE run[g].wrote
               p == [run[g] EXCEPT !.wrote = w]
    <3>1. run[g].wrote \in Seq(1..MaxMsg)
      BY <1>4 DEF Run
    <3>2. w \in Seq(1..MaxMsg)
      <4>1. CASE op[c].kind = "send"
        <5>1. op[c].arg \in 1..MaxMsg
          BY <1>1, <1>3, <4>1 DEF OpGood
        <5>2. Append(run[g].wrote, op[c].arg) \in Seq(1..MaxMsg)
          BY <3>1, <5>1
        <5> QED BY <3>1, <5>2, Zenon
      <4>2. CASE op[c].kind # "send"
        BY <3>1, <4>2
      <4> QED BY <4>1, <4>2
    <3>3. run' = [run EXCEPT ![g] = Piped(run[g], op[c])]
      BY <2>1, Zenon DEF Write
    <3>4. Piped(run[g], op[c]) = p
      BY DEF Piped
    <3> HIDE DEF w
    <3>5. p \in Run
      BY <1>4, <3>2, RunFields
    <3>6. Continues(p, g)
      BY <1>4 DEF Continues, Run
    <3> QED BY <3>3, <3>4, <3>5, <3>6
  <2>2. CASE InterruptRun(c)
    <3> DEFINE b == run[g].interruptRequested \/ run[g].turnActive
               p == [run[g] EXCEPT !.interruptRequested = b]
    <3>1. b \in BOOLEAN
      BY <1>4, Zenon
    <3>2. run' = [run EXCEPT ![g] = ClaudeInterrupt(run[g])]
      BY <2>2, Zenon DEF InterruptRun
    <3>3. ClaudeInterrupt(run[g]) = p
      BY Zenon DEF ClaudeInterrupt
    <3> HIDE DEF b
    <3>4. p \in Run
      BY <1>4, <3>1, RunFields
    <3>5. Continues(p, g)
      BY <1>4 DEF Continues, Run
    <3> QED BY <3>2, <3>3, <3>4, <3>5
  <2> QED BY <2>1, <2>2
<1>6. PICK o : /\ op' = [op EXCEPT ![c] = o]
               /\ o \in {Return(op[c]), [op[c] EXCEPT !.pc = "write"]}
  BY DEF Write, InterruptRun
<1>7. o \in Op /\ OpGood(o) /\ o.pc \in {"idle", "release", "write"}
  <2> DEFINE w == [op[c] EXCEPT !.pc = "write"]
  <2>1. w \in Op
    BY <1>1, OpFields
  <2>2. /\ w.pc = "write" /\ w.g = op[c].g /\ w.kind = op[c].kind
        /\ w.arg = op[c].arg /\ w.s = op[c].s
    BY <1>1 DEF Op
  <2>3. OpGood(w)
    BY <1>1, <1>3, <2>2 DEF OpGood
  <2>4. /\ Return(op[c]) \in Op /\ OpGood(Return(op[c]))
        /\ Return(op[c]).pc \in {"idle", "release"}
    BY <1>1, <1>3, ReturnType
  <2> HIDE DEF w
  <2>5. o = Return(op[c]) \/ o = w
    BY <1>6 DEF w
  <2> QED BY <2>1, <2>2, <2>3, <2>4, <2>5
<1> HIDE DEF g
<1>8. run' \in [Gen -> Run] /\ RunMild
  BY <1>1, <1>3, <1>5 DEF RunMild, Continues
<1>9. /\ op' \in [Caller -> Op] /\ OpOK' /\ RunOK' /\ StartLocked' /\ NoOrphanRun'
      /\ lock' \in Caller \cup {None}
  BY <1>2, <1>3, <1>6, <1>7, <1>8, CallStep
<1>10. TypeOK'
  BY <1>2, <1>8, <1>9 DEF TypeOK
<1> QED BY <1>9, <1>10

\* Steps of a call on the registry: look up or begin a start, end it, release.
LEMMA RegistryInductive ==
    ASSUME IInv, NEW c \in Caller,
           EnsureLive(c) \/ StartOk(c) \/ StartErr(c) \/ Release(c) \/ Shutdown(c)
    PROVE  IInv'
<1> USE DEF IInv
<1>1. /\ run \in [Gen -> Run] /\ op \in [Caller -> Op] /\ live \in [Session -> 0..MaxGen]
      /\ op[c] \in Op /\ OpGood(op[c]) /\ native \in [Session -> 0..MaxGen]
      /\ gen \in 0..MaxGen
  BY DEF TypeOK, OpOK
<1>2. UNCHANGED <<status, native, log, quiet, leased, count>>
  BY DEF EnsureLive, StartOk, StartErr, Release, Shutdown, store
<1>3. CASE EnsureLive(c)
  <2> DEFINE s == op[c].s
             o == [op[c] EXCEPT !.pc = "record", !.g = live[s]]
             b == [op[c] EXCEPT !.pc = "start", !.resume = native[s]]
  <2>1. /\ op[c].pc = "ensure" /\ lock = None /\ s \in Session
        /\ op[c].kind = "send" /\ op[c].arg \in 1..MaxMsg
        /\ UNCHANGED <<live, gen, run>>
    BY <1>1, <1>3 DEF EnsureLive, OpGood
  <2>2. live[s] \in 0..MaxGen /\ native[s] \in 0..MaxGen
    BY <1>1, <2>1
  <2>3. RunMild
    BY <2>1 DEF RunMild
  <2>4. CASE live[s] # 0
    <3>1. op' = [op EXCEPT ![c] = o] /\ UNCHANGED lock
      BY <1>3, <2>4 DEF EnsureLive
    <3>2. o \in Op
      BY <1>1, <2>2, OpFields
    <3>3. o.pc = "record" /\ o.g = live[s] /\ o.kind = "send" /\ o.arg = op[c].arg
      BY <1>1, <2>1 DEF Op
    <3>4. OpGood(o)
      BY <2>1, <2>2, <2>4, <3>3, BoundsAssumption DEF OpGood, Gen
    <3> HIDE DEF o
    <3>5. op' \in [Caller -> Op] /\ OpOK' /\ RunOK' /\ StartLocked' /\ NoOrphanRun'
      BY <2>1, <2>3, <3>1, <3>2, <3>3, <3>4, CallStep DEF LockMoves
    <3>6. TypeOK'
      BY <1>2, <2>1, <3>1, <3>5 DEF TypeOK
    <3> QED BY <3>5, <3>6
  <2>5. CASE live[s] = 0
    <3>1. op' = [op EXCEPT ![c] = b] /\ lock' = c
      BY <1>3, <2>5 DEF EnsureLive
    <3>2. b \in Op
      BY <1>1, <2>2, OpFields
    <3>3. b.pc = "start" /\ b.s = s /\ b.kind = "send" /\ b.arg = op[c].arg
      BY <1>1, <2>1 DEF Op
    <3>4. OpGood(b)
      BY <2>1, <3>3 DEF OpGood
    <3>5. \A d \in Caller : op[d].pc # "start"
      BY <2>1, NamesAssumption DEF StartLocked
    <3> HIDE DEF b, s
    <3>6. op' \in [Caller -> Op] /\ OpOK'
      BY <1>1, <3>1, <3>2, <3>4 DEF OpOK, OpGood
    <3>7. StartLocked'
      BY <1>1, <2>1, <2>5, <3>1, <3>3, <3>5 DEF StartLocked
    <3>8. RunOK'
      BY <2>1 DEF RunOK
    <3>9. NoOrphanRun'
      BY <1>1, <2>1, <3>1 DEF NoOrphanRun
    <3>10. TypeOK'
      BY <1>2, <2>1, <3>1, <3>6 DEF TypeOK
    <3> QED BY <3>6, <3>7, <3>8, <3>9, <3>10
  <2> QED BY <2>4, <2>5
<1>4. CASE StartOk(c)
  <2> DEFINE s == op[c].s
             g == gen + 1
             o == [op[c] EXCEPT !.pc = "record", !.g = g]
             r == StartedRun(s, g, op[c].resume)
  <2>1. /\ op[c].pc = "start" /\ s \in Session
        /\ op[c].kind = "send" /\ op[c].arg \in 1..MaxMsg
        /\ lock = c /\ live[s] = 0
    BY <1>1, <1>4 DEF StartOk, OpGood, StartLocked
  <2>2. g \in Gen /\ g \in 0..MaxGen /\ op[c].resume \in 0..MaxGen
    BY <1>1, <1>4, BoundsAssumption DEF StartOk, Gen, Op
  <2>3. /\ gen' = g /\ lock' = None
        /\ run' = [run EXCEPT ![g] = r]
        /\ live' = [live EXCEPT ![s] = g]
        /\ op' = [op EXCEPT ![c] = o]
    BY <1>4, Zenon DEF StartOk
  <2>4. r \in Run /\ r.s = s /\ r.native \in Gen
    BY <2>1, <2>2, StartedRunType
  <2>5. o \in Op
    BY <1>1, <2>2, OpFields
  <2>6. o.pc = "record" /\ o.g = g /\ o.kind = "send" /\ o.arg = op[c].arg
    BY <1>1, <2>1 DEF Op
  <2>7. OpGood(o)
    BY <2>1, <2>2, <2>6 DEF OpGood
  <2>8. \A d \in Caller : op[d].pc = "start" => d = c
    BY <2>1 DEF StartLocked
  <2>9. \A x \in Gen : run[x].proc = "up" => x # g
    BY <1>1 DEF RunOK, Gen
  <2>10. gen <= g
    BY <1>1
  <2> HIDE DEF s, g, o, r
  <2>11. op' \in [Caller -> Op] /\ OpOK'
    BY <1>1, <2>3, <2>5, <2>7 DEF OpOK, OpGood
  <2>12. run' \in [Gen -> Run] /\ live' \in [Session -> 0..MaxGen] /\ gen' \in 0..MaxGen
    BY <1>1, <2>2, <2>3, <2>4
  <2>13. StartLocked'
    BY <1>1, <2>3, <2>6, <2>8 DEF StartLocked
  <2>14. RunOK'
    <3> SUFFICES ASSUME NEW x \in Gen, run'[x].proc = "up"
                 PROVE  run'[x].s \in Session /\ run'[x].native \in Gen /\ x <= gen'
      BY DEF RunOK
    <3>1. CASE x = g
      BY <1>1, <2>1, <2>2, <2>3, <2>4, <3>1 DEF Gen
    <3>2. CASE x # g
      <4>1. run'[x] = run[x]
        BY <1>1, <2>3, <3>2
      <4>2. run[x].s \in Session /\ run[x].native \in Gen /\ x <= gen
        BY <4>1 DEF RunOK
      <4> QED BY <1>1, <2>2, <2>3, <2>10, <4>1, <4>2 DEF Gen
    <3> QED BY <3>1, <3>2
  <2>15. NoOrphanRun'
    <3> SUFFICES ASSUME NEW x \in Gen, run'[x].proc = "up", ~run'[x].shuttingDown
                 PROVE  \/ live'[run'[x].s] = x
                        \/ \E d \in Caller : op'[d].pc = "shutdown" /\ op'[d].g = x
      BY DEF NoOrphanRun
    <3>1. CASE x = g
      BY <1>1, <2>1, <2>2, <2>3, <2>4, <3>1
    <3>2. CASE x # g
      <4>1. run'[x] = run[x] /\ run[x].s \in Session
        BY <1>1, <2>3, <3>2 DEF RunOK
      <4>2. CASE live[run[x].s] = x
        <5>1. run[x].s # s
          BY <2>1, <4>2, BoundsAssumption DEF Gen
        <5> QED BY <1>1, <2>3, <4>1, <4>2, <5>1
      <4>3. CASE \E d \in Caller : op[d].pc = "shutdown" /\ op[d].g = x
        BY <1>1, <2>1, <2>3, <4>3
      <4> QED BY <4>1, <4>2, <4>3 DEF NoOrphanRun
    <3> QED BY <3>1, <3>2
  <2>16. TypeOK'
    BY <1>2, <2>3, <2>11, <2>12 DEF TypeOK
  <2> QED BY <2>11, <2>13, <2>14, <2>15, <2>16
<1>5. CASE StartErr(c)
  <2>1. /\ op[c].pc = "start" /\ lock' = None /\ UNCHANGED <<live, gen, run>>
        /\ op' = [op EXCEPT ![c] = NoOp]
    BY <1>5 DEF StartErr
  <2>2. \A d \in Caller : op[d].pc = "start" => d = c
    BY <2>1 DEF StartLocked
  <2>3. op' \in [Caller -> Op] /\ OpOK'
    BY <1>1, <2>1, NoOpType DEF OpOK, OpGood
  <2>4. StartLocked'
    BY <1>1, <2>1, <2>2, NoOpType DEF StartLocked
  <2>5. RunOK'
    BY <2>1 DEF RunOK
  <2>6. NoOrphanRun'
    BY <1>1, <2>1 DEF NoOrphanRun
  <2>7. TypeOK'
    BY <1>2, <2>1, <2>3 DEF TypeOK
  <2> QED BY <2>3, <2>4, <2>5, <2>6, <2>7
<1>6. CASE Release(c)
  <2> DEFINE s == op[c].s
             b == [op[c] EXCEPT !.pc = "shutdown", !.g = live[s]]
             o == IF live[s] = 0 THEN NoOp ELSE b
  <2>1. /\ op[c].pc = "release" /\ s \in Session /\ lock = None
        /\ lock' \in Caller \cup {None} /\ UNCHANGED <<gen, run>>
    BY <1>1, <1>6 DEF Release, OpGood
  <2>2. live' = [live EXCEPT ![s] = 0] /\ op' = [op EXCEPT ![c] = o]
    BY <1>6, Zenon DEF Release
  <2>3. live[s] \in 0..MaxGen
    BY <1>1, <2>1
  <2>4. b \in Op
    BY <1>1, <2>3, OpFields
  <2>5. b.pc = "shutdown" /\ b.g = live[s]
    BY <1>1 DEF Op
  <2>6. live[s] # 0 => OpGood(b)
    BY <2>3, <2>5, BoundsAssumption DEF OpGood, Gen
  <2>7. o \in Op /\ OpGood(o) /\ o.pc \in {"idle", "shutdown"}
    BY <2>4, <2>5, <2>6, NoOpType
  <2>8. live[s] # 0 => o.pc = "shutdown" /\ o.g = live[s]
    BY <2>5
  <2>9. \A d \in Caller : op[d].pc # "start"
    BY <2>1, NamesAssumption DEF StartLocked
  <2> HIDE DEF s, b, o
  <2>10. op' \in [Caller -> Op] /\ OpOK' /\ live' \in [Session -> 0..MaxGen]
    <3>1. op' \in [Caller -> Op] /\ OpOK'
      BY <1>1, <2>2, <2>7 DEF OpOK, OpGood
    <3>2. live \in [Session -> 0..MaxGen] /\ 0 \in 0..MaxGen
      BY BoundsAssumption DEF TypeOK
    <3>3. live' \in [Session -> 0..MaxGen]
      BY <2>2, <3>2
    <3> QED BY <3>1, <3>3
  <2>11. StartLocked'
    BY <1>1, <2>2, <2>7, <2>9 DEF StartLocked
  <2>12. RunOK'
    BY <2>1 DEF RunOK
  <2>13. NoOrphanRun'
    <3> SUFFICES ASSUME NEW x \in Gen, run[x].proc = "up", ~run[x].shuttingDown
                 PROVE  \/ live'[run[x].s] = x
                        \/ \E d \in Caller : op'[d].pc = "shutdown" /\ op'[d].g = x
      BY <2>1 DEF NoOrphanRun
    <3>1. CASE live[run[x].s] = x
      <4>1. run[x].s \in Session /\ x # 0
        BY BoundsAssumption DEF RunOK, Gen
      <4>2. CASE run[x].s = s
        <5>1. op'[c].pc = "shutdown" /\ op'[c].g = x
          BY <1>1, <2>2, <2>8, <3>1, <4>1, <4>2
        <5> QED BY <5>1
      <4>3. CASE run[x].s # s
        BY <1>1, <2>2, <3>1, <4>1, <4>3
      <4> QED BY <4>2, <4>3
    <3>2. CASE \E d \in Caller : op[d].pc = "shutdown" /\ op[d].g = x
      BY <1>1, <2>1, <2>2, <3>2
    <3> QED BY <3>1, <3>2 DEF NoOrphanRun
  <2>14. TypeOK'
    BY <1>2, <2>1, <2>10 DEF TypeOK
  <2> QED BY <2>10, <2>11, <2>12, <2>13, <2>14
<1>7. CASE Shutdown(c)
  <2> DEFINE g == op[c].g
             q == [run[g] EXCEPT !.shuttingDown = TRUE, !.stdin = FALSE]
             o == [op[c] EXCEPT !.pc = "wait"]
  <2>1. op[c].pc = "shutdown" /\ g \in Gen /\ UNCHANGED <<live, lock, gen>>
    BY <1>1, <1>7 DEF Shutdown, OpGood
  <2>2. run' = [run EXCEPT ![g] = q] /\ op' = [op EXCEPT ![c] = o]
    <3>1. op' = [op EXCEPT ![c] = o]
      BY <1>7 DEF Shutdown
    <3>2. run' = [run EXCEPT ![g] = q]
      BY <1>1, <1>7, <2>1 DEF Shutdown
    <3> QED BY <3>1, <3>2
  <2>3. run[g] \in Run
    BY <1>1, <2>1
  <2>4. q \in Run
    BY <2>3, RunFields
  <2>5. /\ q.proc = run[g].proc /\ q.s = run[g].s
        /\ q.native = run[g].native /\ q.shuttingDown
    BY <2>3 DEF Run
  <2>6. o \in Op
    BY <1>1, OpFields
  <2>7. o.pc = "wait" /\ o.g = g
    BY <1>1 DEF Op
  <2>8. OpGood(o)
    BY <2>1, <2>7 DEF OpGood
  <2> HIDE DEF g, q, o
  <2>9. op' \in [Caller -> Op] /\ OpOK' /\ run' \in [Gen -> Run]
    BY <1>1, <2>2, <2>4, <2>6, <2>8 DEF OpOK, OpGood
  <2>10. StartLocked'
    BY <1>1, <2>1, <2>2, <2>7 DEF StartLocked
  <2>11. RunOK'
    BY <1>1, <2>1, <2>2, <2>5 DEF RunOK
  <2>12. NoOrphanRun'
    <3> SUFFICES ASSUME NEW x \in Gen, run'[x].proc = "up", ~run'[x].shuttingDown
                 PROVE  \/ live'[run'[x].s] = x
                        \/ \E d \in Caller : op'[d].pc = "shutdown" /\ op'[d].g = x
      BY DEF NoOrphanRun
    <3>1. x # g
      BY <1>1, <2>1, <2>2, <2>5
    <3>2. run'[x] = run[x]
      BY <1>1, <2>2, <3>1
    <3>3. \/ live[run[x].s] = x
          \/ \E d \in Caller : op[d].pc = "shutdown" /\ op[d].g = x
      BY <3>2 DEF NoOrphanRun
    <3>4. op[c].g = g
      BY DEF g
    <3> QED BY <1>1, <2>1, <2>2, <3>1, <3>2, <3>3, <3>4
  <2>13. TypeOK'
    BY <1>2, <2>1, <2>9 DEF TypeOK
  <2> QED BY <2>9, <2>10, <2>11, <2>12, <2>13
<1> QED BY <1>3, <1>4, <1>5, <1>6, <1>7

\* The ways into the service, and the passing of time.
(* Leases and the passing of time touch no call and no entry.              *)
LEMMA TimeInductive ==
    ASSUME IInv, NEW s \in Session,
           Lease(s) \/ LeaseEnds(s) \/ IdlePasses(s)
    PROVE  IInv'
<1> USE DEF IInv
<1>1. /\ run \in [Gen -> Run] /\ op \in [Caller -> Op] /\ live \in [Session -> 0..MaxGen]
      /\ count \in [msg : 0..MaxMsg, approval : 0..MaxApproval, answer : 0..MaxAnswer,
                 restart : 0..MaxRestart]
      /\ quiet \subseteq Session /\ leased \subseteq Session
  BY DEF TypeOK
<1>2. UNCHANGED <<status, native, log, live, lock, gen>>
  BY DEF Lease, LeaseEnds, IdlePasses, store
<1>3. /\ quiet' \subseteq Session /\ leased' \subseteq Session
      /\ count' \in [msg : 0..MaxMsg, approval : 0..MaxApproval, answer : 0..MaxAnswer,
                 restart : 0..MaxRestart]
  <2>1. quiet' \in {quiet, quiet \ {s}, quiet \cup {s}}
    BY DEF Lease, LeaseEnds, IdlePasses
  <2>2. leased' \in {leased, leased \ {s}, leased \cup {s}}
    BY DEF Lease, LeaseEnds, IdlePasses
  <2>3. \/ UNCHANGED count
        \/ count.msg < MaxMsg /\ count' = [count EXCEPT !.msg = @ + 1]
        \/ count.answer < MaxAnswer /\ count' = [count EXCEPT !.answer = @ + 1]
    BY DEF Lease, LeaseEnds, IdlePasses
  <2>4. count' \in [msg : 0..MaxMsg, approval : 0..MaxApproval, answer : 0..MaxAnswer,
                 restart : 0..MaxRestart]
    BY <1>1, <2>3, BoundsAssumption
  <2> QED BY <1>1, <2>1, <2>2, <2>4
<1>4. run' \in [Gen -> Run] /\ RunMild
  <2>1. UNCHANGED run
    BY DEF Lease, LeaseEnds, IdlePasses
  <2> QED BY <1>1, <2>1 DEF RunMild
<1>5. UNCHANGED op
  BY DEF Lease, LeaseEnds, IdlePasses
<1>6. TypeOK'
  BY <1>2, <1>3, <1>4, <1>5 DEF TypeOK
<1> QED BY <1>2, <1>4, <1>5, <1>6, MildStep

LEMMA EntryInductive ==
    ASSUME IInv, NEW s \in Session, NEW c \in Caller, NEW a \in 1..MaxApproval \cup {0},
           \/ Send(c, s) \/ ReapScan(c, s) \/ EndMember(c, s) \/ Interrupt(c, s)
           \/ a # 0 /\ Answer(c, s, a)
    PROVE  IInv'
<1> USE DEF IInv
<1>1. /\ run \in [Gen -> Run] /\ op \in [Caller -> Op] /\ live \in [Session -> 0..MaxGen]
      /\ count \in [msg : 0..MaxMsg, approval : 0..MaxApproval, answer : 0..MaxAnswer,
                 restart : 0..MaxRestart]
      /\ quiet \subseteq Session /\ leased \subseteq Session
  BY DEF TypeOK
<1>2. UNCHANGED <<status, native, log, live, gen, run>> /\ LockMoves(c)
  BY DEF Send, ReapScan, EndMember, Answer, Interrupt, store, LockMoves
<1>3. /\ quiet' \subseteq Session /\ leased' \subseteq Session
      /\ count' \in [msg : 0..MaxMsg, approval : 0..MaxApproval, answer : 0..MaxAnswer,
                 restart : 0..MaxRestart]
  <2>1. quiet' \in {quiet, quiet \ {s}, quiet \cup {s}}
    BY DEF Send, ReapScan, EndMember, Answer, Interrupt
  <2>2. leased' \in {leased, leased \ {s}, leased \cup {s}}
    BY DEF Send, ReapScan, EndMember, Answer, Interrupt
  <2>3. \/ UNCHANGED count
        \/ count.msg < MaxMsg /\ count' = [count EXCEPT !.msg = @ + 1]
        \/ count.answer < MaxAnswer /\ count' = [count EXCEPT !.answer = @ + 1]
    BY DEF Send, ReapScan, EndMember, Answer, Interrupt
  <2>4. count' \in [msg : 0..MaxMsg, approval : 0..MaxApproval, answer : 0..MaxAnswer,
                 restart : 0..MaxRestart]
    BY <1>1, <2>3, BoundsAssumption
  <2> QED BY <1>1, <2>1, <2>2, <2>4
<1>4. run' \in [Gen -> Run] /\ RunMild
  BY <1>1, <1>2 DEF RunMild
<1>6. ASSUME NEW o \in Op, OpGood(o), o.pc # "start", op[c].pc = "idle",
             op' = [op EXCEPT ![c] = o]
      PROVE  IInv'
  <2>1. /\ op' \in [Caller -> Op] /\ OpOK' /\ RunOK' /\ StartLocked' /\ NoOrphanRun'
        /\ lock' \in Caller \cup {None}
    BY <1>2, <1>4, <1>6, CallStep
  <2>2. TypeOK'
    BY <1>2, <1>3, <1>4, <2>1 DEF TypeOK
  <2> QED BY <2>1, <2>2
<1>7. CASE Send(c, s)
  <2> DEFINE o == Call("ensure", "send", s, 0, count.msg + 1)
  <2>1. count.msg + 1 \in 1..MaxMsg /\ count.msg + 1 \in 0..(MaxMsg + MaxApproval)
    BY <1>1, <1>7, BoundsAssumption DEF Send
  <2>2. o \in Op /\ OpGood(o) /\ o.pc = "ensure"
    <3>1. 0 \in 0..MaxGen
      BY BoundsAssumption
    <3>2. /\ o \in Op /\ o.pc = "ensure" /\ o.kind = "send" /\ o.s = s
          /\ o.arg = count.msg + 1
      BY <2>1, <3>1, NewCall
    <3> QED BY <2>1, <3>2 DEF OpGood
  <2>3. op[c].pc = "idle" /\ op' = [op EXCEPT ![c] = o]
    BY <1>7, Zenon DEF Send
  <2> HIDE DEF o
  <2> QED BY <1>6, <2>2, <2>3
<1>8. CASE a # 0 /\ Answer(c, s, a)
  <2> DEFINE o == Call("record", "answer", s, live[s], a)
  <2>1. /\ a \in 1..MaxApproval /\ a \in 0..(MaxMsg + MaxApproval)
        /\ live[s] \in Gen /\ live[s] \in 0..MaxGen
    BY <1>1, <1>8, BoundsAssumption DEF Answer, Gen
  <2>2. o \in Op /\ OpGood(o) /\ o.pc = "record"
    <3>1. /\ o \in Op /\ o.pc = "record" /\ o.kind = "answer" /\ o.g = live[s]
          /\ o.arg = a
      BY <2>1, NewCall
    <3> QED BY <2>1, <3>1 DEF OpGood
  <2>3. op[c].pc = "idle" /\ op' = [op EXCEPT ![c] = o]
    BY <1>8, Zenon DEF Answer
  <2> HIDE DEF o
  <2> QED BY <1>6, <2>2, <2>3
<1>9. CASE ReapScan(c, s)
  <2> DEFINE o == Call("check", "reap", s, 0, 0)
  <2>1. o \in Op /\ OpGood(o) /\ o.pc = "check"
    <3>1. 0 \in 0..MaxGen /\ 0 \in 0..(MaxMsg + MaxApproval)
      BY BoundsAssumption
    <3>2. o \in Op /\ o.pc = "check" /\ o.s = s
      BY <3>1, NewCall
    <3> QED BY <3>2 DEF OpGood
  <2>2. op[c].pc = "idle" /\ op' = [op EXCEPT ![c] = o]
    BY <1>9, Zenon DEF ReapScan
  <2> HIDE DEF o
  <2> QED BY <1>6, <2>1, <2>2
<1>10. CASE EndMember(c, s) \/ Interrupt(c, s)
  <2>0. live[s] # 0 => live[s] \in Gen
    BY <1>1, BoundsAssumption DEF Gen
  <2>1. /\ 0 \in 0..MaxGen /\ 0 \in 0..(MaxMsg + MaxApproval) /\ live[s] \in 0..MaxGen
    BY <1>1, BoundsAssumption
  <2>2. PICK pc, kind, g :
           /\ op' = [op EXCEPT ![c] = Call(pc, kind, s, g, 0)]
           /\ \/ pc = "release" /\ kind = "end" /\ g = 0
              \/ /\ pc = "interrupt" /\ kind \in {"interrupt", "end"}
                 /\ g = live[s] /\ live[s] # 0
    BY <1>10 DEF EndMember, Interrupt
  <2> DEFINE o == Call(pc, kind, s, g, 0)
  <2>3. o \in Op /\ o.pc = pc /\ o.kind = kind /\ o.s = s /\ o.g = g
    BY <2>1, <2>2, NewCall
  <2>4. OpGood(o) /\ o.pc # "start"
    BY <2>0, <2>2, <2>3 DEF OpGood
  <2>5. op[c].pc = "idle" /\ op' = [op EXCEPT ![c] = o]
    BY <1>10, <2>2 DEF EndMember, Interrupt
  <2> HIDE DEF o
  <2> QED BY <1>6, <2>3, <2>4, <2>5
<1> QED BY <1>7, <1>8, <1>9, <1>10

LEMMA SweepInductive ==
    ASSUME IInv, NEW c \in Caller, Sweep(c)
    PROVE  IInv'
<1> USE DEF IInv
<1> DEFINE o == Call("ask", "sweep", None, 0, 0)
<1>1. /\ op' = [op EXCEPT ![c] = o] /\ op[c].pc = "idle"
      /\ UNCHANGED <<status, native, log, live, lock, gen, run, quiet, leased, count>>
  BY DEF Sweep, store
<1>2. 0 \in 0..MaxGen /\ 0 \in 0..(MaxMsg + MaxApproval)
  BY BoundsAssumption
<1>3. o = [pc |-> "ask", kind |-> "sweep", s |-> None, g |-> 0, arg |-> 0, resume |-> 0]
  BY DEF Call
<1>4. o \in Op /\ OpGood(o) /\ o.pc = "ask"
  BY <1>2, <1>3 DEF Op, OpGood
<1>5. RunMild /\ LockMoves(c)
  BY <1>1 DEF RunMild, LockMoves
<1> HIDE DEF o
<1>6. op' \in [Caller -> Op] /\ OpOK' /\ RunOK' /\ StartLocked' /\ NoOrphanRun'
  BY <1>1, <1>4, <1>5, CallStep
<1>7. TypeOK'
  BY <1>1, <1>6 DEF TypeOK
<1> QED BY <1>6, <1>7

LEMMA RestartInductive ==
    ASSUME IInv, Restart
    PROVE  IInv'
<1> USE DEF IInv
<1> DEFINE Dead(r) == [r EXCEPT !.proc = "exited", !.stdin = FALSE, !.reader = FALSE,
                                !.pump = FALSE, !.chan = <<>>]
<1>1. run \in [Gen -> Run] /\ <<>> \in Seq(Event)
  BY DEF TypeOK
<1>2. \A r \in Run : Dead(r) \in Run /\ Dead(r).proc = "exited"
  <2> TAKE r \in Run
  <2>1. Dead(r) \in Run
    BY <1>1, RunFields
  <2>2. Dead(r).proc = "exited"
    BY DEF Run
  <2> QED BY <2>1, <2>2
<1>3. run' = [g \in Gen |-> IF run[g].proc = "none" THEN run[g] ELSE Dead(run[g])]
  BY Zenon DEF Restart
<1>4. /\ op' = [c \in Caller |-> NoOp] /\ live' = [s \in Session |-> 0] /\ lock' = None
      /\ UNCHANGED <<native, log, gen>> /\ quiet' = Session /\ leased' = {}
      /\ status' = [s \in Session |-> IF status[s] \in Busy THEN "Idle" ELSE status[s]]
      /\ count.restart < MaxRestart /\ count' = [count EXCEPT !.restart = @ + 1]
  BY DEF Restart
<1> HIDE DEF Dead
<1>5. run' \in [Gen -> Run] /\ \A g \in Gen : run'[g].proc # "up"
  BY <1>1, <1>2, <1>3
<1>6. OpOK' /\ StartLocked' /\ op' \in [Caller -> Op]
  BY <1>4, NoOpType DEF OpOK, StartLocked, OpGood
<1>7. RunOK' /\ NoOrphanRun'
  BY <1>5 DEF RunOK, NoOrphanRun
<1>8. status' \in [Session -> Status] /\ live' \in [Session -> 0..MaxGen]
  BY <1>4, BoundsAssumption DEF TypeOK, Status
<1>9. count' \in [msg : 0..MaxMsg, approval : 0..MaxApproval, answer : 0..MaxAnswer,
                 restart : 0..MaxRestart]
  <2>1. count \in [msg : 0..MaxMsg, approval : 0..MaxApproval, answer : 0..MaxAnswer,
                 restart : 0..MaxRestart]
    BY DEF TypeOK
  <2> QED BY <1>4, <2>1, BoundsAssumption
<1>10. TypeOK'
  BY <1>4, <1>5, <1>6, <1>8, <1>9 DEF TypeOK
<1> QED BY <1>6, <1>7, <1>10
-----------------------------------------------------------------------------
LEMMA InitIInv == Init => IInv
<1> SUFFICES ASSUME Init PROVE IInv
  OBVIOUS
<1>1. /\ {} \in SUBSET (1..MaxApproval) /\ <<>> \in Seq(Event)
      /\ <<>> \in Seq(1..MaxMsg) /\ 0 \in Nat /\ 0 \in 0..MaxGen
  BY BoundsAssumption
<1>2. NotStarted \in Run
  BY <1>1, Zenon DEF NotStarted, Run
<1>3. NotStarted.proc = "none"
  BY DEF NotStarted
<1>4. TypeOK
  BY <1>1, <1>2, NoOpType, BoundsAssumption DEF Init, TypeOK, Status
<1>5. OpOK /\ StartLocked
  BY NoOpType DEF Init, OpOK, StartLocked
<1>6. RunOK /\ NoOrphanRun
  BY <1>3 DEF Init, RunOK, NoOrphanRun
<1> QED BY <1>4, <1>5, <1>6 DEF IInv

LEMMA NextIInv == IInv /\ [Next]_vars => IInv'
<1> SUFFICES ASSUME IInv, [Next]_vars PROVE IInv'
  OBVIOUS
<1>1. CASE UNCHANGED vars
  <2>1. RunMild
    BY <1>1 DEF RunMild, vars
  <2>2. TypeOK'
    BY <1>1 DEF IInv, TypeOK, vars
  <2> QED BY <1>1, <2>1, <2>2, MildStep DEF IInv, vars
<1>2. CASE \E c \in Caller, s \in Session :
             \/ Send(c, s) \/ Interrupt(c, s) \/ ReapScan(c, s) \/ EndMember(c, s)
             \/ \E a \in 1..MaxApproval : Answer(c, s, a)
  <2>1. 0 \in 1..MaxApproval \cup {0} /\ \A a \in 1..MaxApproval : a # 0
    BY BoundsAssumption
  <2>2. PICK c \in Caller, s \in Session :
             \/ Send(c, s) \/ Interrupt(c, s) \/ ReapScan(c, s) \/ EndMember(c, s)
             \/ \E a \in 1..MaxApproval : Answer(c, s, a)
    BY <1>2
  <2>3. CASE Send(c, s) \/ Interrupt(c, s) \/ ReapScan(c, s) \/ EndMember(c, s)
    BY <2>1, <2>3, EntryInductive
  <2>4. ASSUME NEW a \in 1..MaxApproval, Answer(c, s, a) PROVE IInv'
    <3>1. a \in 1..MaxApproval \cup {0} /\ a # 0
      BY <2>1
    <3> QED BY <2>4, <3>1, EntryInductive
  <2> QED BY <2>2, <2>3, <2>4
<1>3. CASE \E c \in Caller : Sweep(c) \/ CallerStep(c)
  <2>1. PICK c \in Caller : Sweep(c) \/ CallerStep(c)
    BY <1>3
  <2>2. CASE CallerStep(c)
    BY <2>2, CallInductive, InsideInductive, RegistryInductive DEF CallerStep
  <2>3. CASE Sweep(c)
    BY <2>3, SweepInductive
  <2> QED BY <2>1, <2>2, <2>3
<1>4. CASE \E s \in Session : Lease(s) \/ LeaseEnds(s) \/ IdlePasses(s)
  BY <1>4, TimeInductive
<1>5. CASE \E g \in Gen : Pump(g) \/ PumpExit(g) \/ AgentStep(g) \/ ReaderEof(g)
  BY <1>5, PumpInductive, AgentStepInductive
<1>6. CASE Restart
  BY <1>6, RestartInductive
<1> QED BY <1>1, <1>2, <1>3, <1>4, <1>5, <1>6 DEF Next

(* Every variable keeps its type, whatever the sessions, the callers and   *)
(* the bounds are (all of session.rs and claude_code.rs that is modelled). *)
THEOREM SessionsTypeOK == Spec => []TypeOK
<1>1. IInv => TypeOK
  BY DEF IInv
<1> QED BY <1>1, InitIInv, NextIInv, PTL DEF Spec

(* No running agent is ever lost from the registry (LiveRun.generation and *)
(* the registry lock of ensure_live and release).                          *)
THEOREM SessionsNoOrphanRun == Spec => []NoOrphanRun
<1>1. IInv => NoOrphanRun
  BY DEF IInv
<1> QED BY <1>1, InitIInv, NextIInv, PTL DEF Spec
-----------------------------------------------------------------------------
(* Approvals that are waited for.  What PendingIsShown takes besides the   *)
(* types: a run whose pump is there belongs to a session, so that what is  *)
(* taken out of its channel does get into a transcript.                    *)

PumpOK == \A g \in Gen : run[g].pump => run[g].s \in Session
ShownInv == IInv /\ PumpOK /\ PendingIsShown

\* The events a queue holds stay in it when one more is put in.
LEMMA EmitKeeps ==
    ASSUME NEW r \in Run, NEW e \in Event
    PROVE  /\ Emit(r, e).pump = r.pump /\ Emit(r, e).pending = r.pending
           /\ e \in Range(Emit(r, e).chan) /\ Range(r.chan) \subseteq Range(Emit(r, e).chan)
<1>1. r.chan \in Seq(Event) BY DEF Run
<1> DEFINE q == Append(r.chan, e)
<1>2. /\ q \in Seq(Event) /\ Len(q) = Len(r.chan) + 1 /\ q[Len(r.chan) + 1] = e
      /\ \A i \in 1..Len(r.chan) : q[i] = r.chan[i]
      /\ Len(r.chan) \in Nat
  BY <1>1
<1>3. Emit(r, e) = [r EXCEPT !.chan = q] BY DEF Emit
<1> HIDE DEF q
<1>4. /\ Emit(r, e).chan = q /\ Emit(r, e).pump = r.pump /\ Emit(r, e).pending = r.pending
  BY <1>3 DEF Run
<1>5. e \in Range(q)
  <2>1. Len(r.chan) + 1 \in DOMAIN q BY <1>2
  <2> QED BY <1>2, <2>1 DEF Range
<1>6. Range(r.chan) \subseteq Range(q)
  <2>1. \A i \in DOMAIN r.chan : i \in DOMAIN q /\ q[i] = r.chan[i] BY <1>1, <1>2
  <2> QED BY <2>1 DEF Range
<1> QED BY <1>4, <1>5, <1>6

\* A run that goes on with no more to ask, and what it said still said.
Goes(r, q) ==
    /\ q.pump => r.pump
    /\ q.s = r.s /\ q.pending \subseteq r.pending /\ Range(r.chan) \subseteq Range(q.chan)

LEMMA GoesOn ==
    ASSUME ShownInv, UNCHANGED log,
           \A g \in Gen : Goes(run[g], run'[g])
    PROVE  PumpOK' /\ PendingIsShown'
<1> USE DEF ShownInv
<1>1. PumpOK' BY DEF PumpOK, Goes
<1>2. PendingIsShown'
  <2> SUFFICES ASSUME NEW g \in Gen, NEW a \in run'[g].pending, run'[g].pump
               PROVE  \E e \in Range(run'[g].chan) \cup Range(log[run'[g].s]) :
                        e.kind = "ApprovalRequested" /\ e.approval = a
    BY DEF PendingIsShown
  <2>1. /\ run[g].pump /\ a \in run[g].pending /\ run'[g].s = run[g].s
        /\ Range(run[g].chan) \subseteq Range(run'[g].chan)
    BY DEF Goes
  <2>2. PICK e \in Range(run[g].chan) \cup Range(log[run[g].s]) :
               e.kind = "ApprovalRequested" /\ e.approval = a
    BY <2>1 DEF PendingIsShown
  <2> QED BY <2>1, <2>2
<1> QED BY <1>1, <1>2

LEMMA OneGoesOn ==
    ASSUME ShownInv, UNCHANGED log, NEW g, NEW q, run' = [run EXCEPT ![g] = q],
           g \in Gen => Goes(run[g], q)
    PROVE  PumpOK' /\ PendingIsShown'
<1>1. run \in [Gen -> Run] BY DEF ShownInv, IInv, TypeOK
<1>2. \A h \in Gen : Goes(run[h], run'[h])
  <2> TAKE h \in Gen
  <2>1. CASE h = g BY <1>1, <2>1
  <2>2. CASE h # g BY <1>1, <2>2 DEF Goes
  <2> QED BY <2>1, <2>2
<1> QED BY <1>2, GoesOn

\* Fields of a run that a step changes leave what it said, and whose it is.
LEMMA GoesFields ==
    ASSUME NEW r \in Run
    PROVE  /\ Goes(r, [r EXCEPT !.proc = "exited"])
           /\ Goes(r, [r EXCEPT !.pump = FALSE])
           /\ Goes(r, [r EXCEPT !.shuttingDown = TRUE, !.stdin = FALSE])
           /\ \A n : Goes(r, [r EXCEPT !.read = n])
           /\ \A b : Goes(r, [r EXCEPT !.interruptRequested = b])
           /\ \A x : Goes(r, [r EXCEPT !.pending = @ \ {x}])
           /\ Goes(r, [r EXCEPT !.turnActive = TRUE, !.interruptRequested = FALSE])
           /\ \A w : Goes(r, [r EXCEPT !.wrote = w])
           /\ Goes(r, [r EXCEPT !.reader = FALSE])
           /\ Goes(r, BeginTurn(r))
BY DEF Goes, Run, BeginTurn

\* A step that puts an event into the channel of a run.
LEMMA EmitGoes ==
    ASSUME NEW r \in Run, NEW q \in Run, Goes(r, q), NEW e \in Event PROVE Goes(r, Emit(q, e))
BY EmitKeeps, EmitRun DEF Goes

LEMMA AgentShows ==
    ASSUME ShownInv, NEW g \in Gen, AgentStep(g) \/ ReaderEof(g)
    PROVE  PumpOK' /\ PendingIsShown'
<1> USE DEF ShownInv, IInv
<1>1. run \in [Gen -> Run] /\ run[g] \in Run /\ UNCHANGED log
  BY DEF TypeOK, AgentStep, CliRead, CliFold, CliAsk, CliCancel, CliResult, CliExit, ReaderEof,
         store
<1>2. ASSUME NEW q \in Run, NEW e \in Event, Goes(run[g], q), run' = [run EXCEPT ![g] = Emit(q, e)]
      PROVE  PumpOK' /\ PendingIsShown'
  BY <1>1, <1>2, EmitGoes, OneGoesOn
<1>3. CASE CliRead(g)
  <2> DEFINE q == BeginTurn(run[g])
             e == [kind |-> "NativeSession", gen |-> g, native |-> run[g].native]
  <2>1. e \in Event BY <1>3, EventTypes DEF CliRead, Talks, RunOK
  <2>2. run[g].read + 1 \in Nat BY <1>1 DEF Run
  <2>3. q \in Run BY <1>1, <2>2, RunFields DEF BeginTurn
  <2>4. Goes(run[g], q) BY <1>1, GoesFields
  <2>5. run' = [run EXCEPT ![g] = Emit(q, e)] BY <1>3, Zenon DEF CliRead
  <2> HIDE DEF q, e
  <2> QED BY <1>2, <2>1, <2>3, <2>4, <2>5
<1>4. CASE CliFold(g)
  <2>1. run' = [run EXCEPT ![g] = [run[g] EXCEPT !.read = run[g].read + 1]]
    BY <1>4 DEF CliFold
  <2>2. Goes(run[g], [run[g] EXCEPT !.read = run[g].read + 1]) BY <1>1, GoesFields
  <2> QED BY <1>1, <2>1, <2>2, OneGoesOn
<1>5. CASE CliAsk(g)
  <2> DEFINE a == count.approval + 1
             q == Ask(run[g], a)
             e == [kind |-> "ApprovalRequested", gen |-> g, approval |-> a]
             r == Emit(q, e)
  <2>1. a \in 1..MaxApproval BY <1>5, BoundsAssumption DEF CliAsk, TypeOK
  <2>2. e \in Event /\ e.kind = "ApprovalRequested" /\ e.approval = a BY <2>1, EventTypes
  <2>3. run[g].pending \cup {a} \in SUBSET (1..MaxApproval) BY <1>1, <2>1 DEF Run
  <2>4. q \in Run BY <1>1, <2>3, RunFields DEF Ask
  <2>5. /\ q.pending = run[g].pending \cup {a} /\ q.pump = run[g].pump /\ q.s = run[g].s
        /\ q.chan = run[g].chan
    BY <1>1 DEF Run, Ask
  <2>6. run' = [run EXCEPT ![g] = r] BY <1>5, Zenon DEF CliAsk
  <2> HIDE DEF q, e, a
  <2>7. /\ r.pending = run[g].pending \cup {a} /\ r.pump = run[g].pump /\ r.s = run[g].s
        /\ e \in Range(r.chan) /\ Range(run[g].chan) \subseteq Range(r.chan)
    BY <2>2, <2>4, <2>5, EmitKeeps, EmitRun
  <2> HIDE DEF r
  <2>8. PumpOK' BY <1>1, <2>6, <2>7 DEF PumpOK
  <2>9. PendingIsShown'
    <3> SUFFICES ASSUME NEW h \in Gen, NEW b \in run'[h].pending, run'[h].pump
                 PROVE  \E f \in Range(run'[h].chan) \cup Range(log[run'[h].s]) :
                          f.kind = "ApprovalRequested" /\ f.approval = b
      BY <1>1 DEF PendingIsShown
    <3>1. CASE h = g /\ b = a BY <1>1, <2>2, <2>6, <2>7, <3>1
    <3>2. CASE ~(h = g /\ b = a)
      <4>1. /\ run[h].pump /\ b \in run[h].pending /\ run'[h].s = run[h].s
            /\ Range(run[h].chan) \subseteq Range(run'[h].chan)
        BY <1>1, <2>6, <2>7, <3>2
      <4>2. PICK f \in Range(run[h].chan) \cup Range(log[run[h].s]) :
                   f.kind = "ApprovalRequested" /\ f.approval = b
        BY <4>1 DEF PendingIsShown
      <4> QED BY <4>1, <4>2
    <3> QED BY <3>1, <3>2
  <2> QED BY <2>8, <2>9
<1>6. CASE CliCancel(g)
  <2>1. PICK a : run' = [run EXCEPT ![g] = [run[g] EXCEPT !.pending = run[g].pending \ {a}]]
    BY <1>6 DEF CliCancel
  <2>2. Goes(run[g], [run[g] EXCEPT !.pending = run[g].pending \ {a}]) BY <1>1, GoesFields
  <2> QED BY <1>1, <2>1, <2>2, OneGoesOn
<1>7. CASE CliResult(g)
  <2>1. PICK error \in BOOLEAN :
          run' = [run EXCEPT ![g] = TurnEnd([@ EXCEPT !.working = FALSE], g, error)]
    BY <1>7 DEF CliResult
  <2> DEFINE p == [run[g] EXCEPT !.working = FALSE]
             q == [p EXCEPT !.interruptRequested = FALSE, !.turnActive = FALSE, !.pending = {}]
             e == [kind |-> "TurnEnded", gen |-> g, failed |-> error /\ ~p.interruptRequested]
  <2>2. e \in Event BY EventTypes
  <2>3. p \in Run BY <1>1, RunFields
  <2>4. q \in Run BY <2>3, RunFields
  <2>5. Goes(run[g], q) BY <1>1 DEF Run, Goes
  <2>6. run' = [run EXCEPT ![g] = Emit(q, e)] BY <2>1, Zenon DEF TurnEnd
  <2> HIDE DEF q, e
  <2> QED BY <1>2, <2>2, <2>4, <2>5, <2>6
<1>8. CASE CliExit(g)
  <2>1. run' = [run EXCEPT ![g] = [run[g] EXCEPT !.proc = "exited"]] BY <1>8 DEF CliExit
  <2> QED BY <1>1, <2>1, GoesFields, OneGoesOn
<1>9. CASE ReaderEof(g)
  <2> DEFINE q == [run[g] EXCEPT !.reader = FALSE]
             e == [kind |-> "TurnEnded", gen |-> g, failed |-> ~q.interruptRequested]
  <2>1. e \in Event BY EventTypes
  <2>2. q \in Run BY <1>1, RunFields
  <2>3. Goes(run[g], q) BY <1>1, GoesFields
  <2>4. run' = [run EXCEPT ![g] = Emit(q, e)] \/ run' = [run EXCEPT ![g] = q]
    BY <1>9, Zenon DEF ReaderEof
  <2> HIDE DEF q, e
  <2> QED BY <1>1, <1>2, <2>1, <2>2, <2>3, <2>4, OneGoesOn
<1> QED BY <1>3, <1>4, <1>5, <1>6, <1>7, <1>8, <1>9 DEF AgentStep

\* The pump takes a request out of the channel only into the transcript.
LEMMA PumpShows ==
    ASSUME ShownInv, NEW g \in Gen, Pump(g) \/ PumpExit(g)
    PROVE  PumpOK' /\ PendingIsShown'
<1> USE DEF ShownInv, IInv
<1>1. run \in [Gen -> Run] /\ run[g] \in Run BY DEF TypeOK
<1>2. CASE PumpExit(g)
  <2>1. run' = [run EXCEPT ![g] = [run[g] EXCEPT !.pump = FALSE]] /\ UNCHANGED log
    BY <1>2 DEF PumpExit, store
  <2> QED BY <1>1, <2>1, GoesFields, OneGoesOn
<1>3. CASE Pump(g)
  <2>0. PICK q, e, s : q = Tail(run[g].chan) /\ e = Head(run[g].chan) /\ s = run[g].s OBVIOUS
  <2>1. /\ run[g].pump /\ run[g].chan # <<>> /\ s \in Session
        /\ run' = [run EXCEPT ![g] = [run[g] EXCEPT !.chan = q]]
        /\ \/ Duplicate(s, e) /\ UNCHANGED log
           \/ log' = [log EXCEPT ![s] = Append(log[s], e)]
    BY <1>3, <2>0 DEF Pump, PumpOK, AppendEvent, store
  <2>2. run[g].chan \in Seq(Event) /\ log \in [Session -> Seq(Event)] BY <1>1 DEF Run, TypeOK
  <2>3. \A f \in Range(run[g].chan) : f = e \/ f \in Range(q)
    <3> TAKE f \in Range(run[g].chan)
    <3> DEFINE c == run[g].chan
    <3>1. PICK i \in DOMAIN c : f = c[i] BY DEF Range
    <3>2. c \in Seq(Event) /\ c # <<>> /\ q = Tail(c) /\ e = Head(c) BY <2>0, <2>1, <2>2
    <3> HIDE DEF c
    <3>3. i = 1 => f = e BY <3>1, <3>2
    <3>4. i # 1 => i - 1 \in DOMAIN q /\ q[i - 1] = f BY <3>1, <3>2
    <3> QED BY <3>3, <3>4 DEF Range
  <2>4. \A t \in Session : Range(log[t]) \subseteq Range(log'[t])
    <3> TAKE t \in Session
    <3>1. CASE UNCHANGED log BY <3>1
    <3>2. CASE log' = [log EXCEPT ![s] = Append(log[s], e)]
      <4>1. CASE t # s BY <2>2, <3>2, <4>1
      <4>2. CASE t = s
        <5>1. log'[t] = Append(log[t], e) /\ log[t] \in Seq(Event) BY <2>2, <3>2, <4>2
        <5>2. \A i \in DOMAIN log[t] : i \in DOMAIN log'[t] /\ log'[t][i] = log[t][i] BY <5>1
        <5> QED BY <5>2 DEF Range
      <4> QED BY <4>1, <4>2
    <3> QED BY <2>1, <3>1, <3>2
  <2>5. e.kind = "ApprovalRequested" => e \in Range(log'[s])
    <3> SUFFICES ASSUME e.kind = "ApprovalRequested" PROVE e \in Range(log'[s]) OBVIOUS
    <3>1. log'[s] = Append(log[s], e) /\ log[s] \in Seq(Event) BY <2>1, <2>2 DEF Duplicate
    <3>2. Len(log[s]) + 1 \in DOMAIN log'[s] /\ log'[s][Len(log[s]) + 1] = e BY <3>1
    <3> QED BY <3>2 DEF Range
  <2>6. ASSUME NEW h \in Gen
        PROVE  /\ run'[h].pump = run[h].pump /\ run'[h].s = run[h].s
               /\ run'[h].pending = run[h].pending
               /\ run'[h].chan = IF h = g THEN q ELSE run[h].chan
    <3>1. CASE h = g BY <1>1, <2>1, <3>1 DEF Run
    <3>2. CASE h # g BY <1>1, <2>1, <3>2
    <3> QED BY <3>1, <3>2
  <2>7. PumpOK' BY <2>6 DEF PumpOK
  <2>8. PendingIsShown'
    <3> SUFFICES ASSUME NEW h \in Gen, NEW a \in run'[h].pending, run'[h].pump
                 PROVE  \E f \in Range(run'[h].chan) \cup Range(log'[run'[h].s]) :
                          f.kind = "ApprovalRequested" /\ f.approval = a
      BY DEF PendingIsShown
    <3>1. run[h].pump /\ a \in run[h].pending /\ run[h].s \in Session BY <2>6 DEF PumpOK
    <3>2. PICK f \in Range(run[h].chan) \cup Range(log[run[h].s]) :
                 f.kind = "ApprovalRequested" /\ f.approval = a
      BY <3>1 DEF PendingIsShown
    <3>3. CASE f \in Range(log[run[h].s]) BY <2>4, <2>6, <3>1, <3>2, <3>3
    <3>4. CASE f \in Range(run[h].chan)
      <4>1. CASE h = g BY <2>0, <2>3, <2>5, <2>6, <3>2, <3>4, <4>1
      <4>2. CASE h # g BY <2>6, <3>2, <3>4, <4>2
      <4> QED BY <4>1, <4>2
    <3> QED BY <3>2, <3>3, <3>4
  <2> QED BY <2>7, <2>8
<1> QED BY <1>2, <1>3

LEMMA CallShows ==
    ASSUME ShownInv, NEW c \in Caller, CallerStep(c)
    PROVE  PumpOK' /\ PendingIsShown'
<1> USE DEF ShownInv, IInv
<1>1. /\ run \in [Gen -> Run] /\ op[c] \in Op /\ OpGood(op[c]) /\ UNCHANGED log
  BY DEF TypeOK, OpOK, CallerStep, EnsureLive, StartOk, StartErr, Record, Deliver, Write,
         InterruptRun, ReapCheck, Release, Shutdown, ShutdownKill, ShutdownDone, SweepAsk, store
<1> DEFINE g == op[c].g
<1>2. CASE UNCHANGED run
  <2>1. \A h \in Gen : Goes(run[h], run'[h]) BY <1>2 DEF Goes
  <2> QED BY <1>1, <2>1, GoesOn
<1>3. CASE StartOk(c)
  <2> DEFINE r == StartedRun(op[c].s, gen + 1, op[c].resume)
  <2>1. run' = [run EXCEPT ![gen + 1] = r] /\ op[c].s \in Session
    BY <1>1, <1>3, Zenon DEF StartOk, OpGood
  <2>2. r.pending = {} /\ r.s = op[c].s BY DEF StartedRun, NotStarted
  <2> HIDE DEF r
  <2>3. PumpOK' BY <1>1, <2>1, <2>2 DEF PumpOK
  <2>4. PendingIsShown'
    <3> SUFFICES ASSUME NEW h \in Gen, NEW a \in run'[h].pending, run'[h].pump
                 PROVE  \E f \in Range(run'[h].chan) \cup Range(log[run'[h].s]) :
                          f.kind = "ApprovalRequested" /\ f.approval = a
      BY <1>1 DEF PendingIsShown
    <3>1. h # gen + 1 BY <1>1, <2>1, <2>2
    <3>2. run'[h] = run[h] BY <1>1, <2>1, <3>1
    <3> QED BY <3>2 DEF PendingIsShown
  <2> QED BY <2>3, <2>4
<1>4. CASE Record(c)
  <2> DEFINE e == OpEvent(op[c])
  <2>1. op[c].pc = "record" /\ g \in Gen BY <1>1, <1>4 DEF Record, OpGood
  <2>2. e \in Event BY <1>1, <2>1, EventTypes DEF OpEvent, OpGood
  <2>3. run' = [run EXCEPT ![g] = Emit(run[g], e)] BY <1>4, Zenon DEF Record
  <2>4. run[g] \in Run /\ Goes(run[g], run[g]) BY <1>1, <2>1 DEF Goes
  <2> HIDE DEF e, g
  <2>5. Goes(run[g], Emit(run[g], e)) BY <2>2, <2>4, EmitGoes
  <2> QED BY <1>1, <2>3, <2>5, OneGoesOn
<1>5. CASE Deliver(c)
  <2>1. g \in Gen /\ run[g] \in Run BY <1>1, <1>5 DEF Deliver, OpGood
  <2>2. \/ run' = [run EXCEPT ![g] = [run[g] EXCEPT !.turnActive = TRUE,
                                                    !.interruptRequested = FALSE]]
        \/ run' = [run EXCEPT ![g] = [run[g] EXCEPT !.pending = @ \ {op[c].arg}]]
    BY <1>5, Zenon DEF Deliver, ClaudeSend, ClaudeAnswer
  <2> HIDE DEF g
  <2> QED BY <1>1, <2>1, <2>2, GoesFields, OneGoesOn
<1>6. CASE Shutdown(c)
  <2>1. g \in Gen /\ run[g] \in Run BY <1>1, <1>6 DEF Shutdown, OpGood
  <2>2. run' = [run EXCEPT ![g] = [run[g] EXCEPT !.shuttingDown = TRUE, !.stdin = FALSE]]
    BY <1>6, Zenon DEF Shutdown
  <2> HIDE DEF g
  <2> QED BY <1>1, <2>1, <2>2, GoesFields, OneGoesOn
<1>7. CASE ShutdownKill(c)
  <2>1. g \in Gen /\ run[g] \in Run BY <1>1, <1>7 DEF ShutdownKill, OpGood
  <2>2. run' = [run EXCEPT ![g] = [run[g] EXCEPT !.proc = "exited"]]
    BY <1>7, Zenon DEF ShutdownKill
  <2> HIDE DEF g
  <2> QED BY <1>1, <2>1, <2>2, GoesFields, OneGoesOn
<1>8. CASE Write(c)
  <2>1. g \in Gen /\ run[g] \in Run BY <1>1, <1>8 DEF Write, OpGood
  <2>2. \E w : run' = [run EXCEPT ![g] = [run[g] EXCEPT !.wrote = w]]
    BY <1>8, Zenon DEF Write, Piped
  <2> HIDE DEF g
  <2> QED BY <1>1, <2>1, <2>2, GoesFields, OneGoesOn
<1>9. CASE InterruptRun(c)
  <2>1. g \in Gen /\ run[g] \in Run BY <1>1, <1>9 DEF InterruptRun, OpGood
  <2>2. \E b : run' = [run EXCEPT ![g] = [run[g] EXCEPT !.interruptRequested = b]]
    BY <1>9, Zenon DEF InterruptRun, ClaudeInterrupt
  <2> HIDE DEF g
  <2> QED BY <1>1, <2>1, <2>2, GoesFields, OneGoesOn
<1> QED BY <1>2, <1>3, <1>4, <1>5, <1>6, <1>7, <1>8, <1>9
        DEF CallerStep, EnsureLive, StartErr, ReapCheck, Release, ShutdownDone, SweepAsk

LEMMA EntryShows ==
    ASSUME ShownInv,
           \/ \E c \in Caller, s \in Session :
                 \/ Send(c, s) \/ Interrupt(c, s) \/ ReapScan(c, s) \/ EndMember(c, s)
                 \/ \E a \in 1..MaxApproval : Answer(c, s, a)
           \/ \E c \in Caller : Sweep(c)
           \/ \E s \in Session : Lease(s) \/ LeaseEnds(s) \/ IdlePasses(s)
    PROVE  PumpOK' /\ PendingIsShown'
<1>1. UNCHANGED <<run, log>>
  BY DEF Send, Interrupt, ReapScan, EndMember, Answer, Sweep, Lease, LeaseEnds, IdlePasses,
         store
<1>2. \A h \in Gen : Goes(run[h], run'[h]) BY <1>1 DEF Goes
<1> QED BY <1>1, <1>2, GoesOn

LEMMA RestartShows == ASSUME ShownInv, Restart PROVE PumpOK' /\ PendingIsShown'
<1> USE DEF ShownInv, IInv
<1>1. run \in [Gen -> Run] /\ UNCHANGED log BY DEF TypeOK, Restart
<1>2. \A g \in Gen : run'[g].pump => run'[g] = run[g]
  <2> SUFFICES ASSUME NEW g \in Gen, run[g].proc # "none" PROVE ~run'[g].pump BY DEF Restart
  <2>1. run'[g] = [run[g] EXCEPT !.proc = "exited", !.stdin = FALSE, !.reader = FALSE,
                                 !.pump = FALSE, !.chan = <<>>]
    BY DEF Restart
  <2> QED BY <1>1, <2>1 DEF Run
<1> QED BY <1>1, <1>2 DEF PumpOK, PendingIsShown

LEMMA ShownStep == ShownInv /\ [Next]_vars => ShownInv'
<1> SUFFICES ASSUME ShownInv, [Next]_vars PROVE ShownInv' OBVIOUS
<1>1. IInv' BY NextIInv DEF ShownInv
<1>2. PumpOK' /\ PendingIsShown'
  <2>1. CASE UNCHANGED vars BY <2>1 DEF vars, ShownInv, PumpOK, PendingIsShown
  <2>2. ASSUME NEW c \in Caller, NEW s \in Session,
               \/ Send(c, s) \/ Interrupt(c, s) \/ ReapScan(c, s) \/ EndMember(c, s)
               \/ \E a \in 1..MaxApproval : Answer(c, s, a)
        PROVE  PumpOK' /\ PendingIsShown'
    BY <2>2, EntryShows
  <2>3. ASSUME NEW c \in Caller, Sweep(c) \/ CallerStep(c) PROVE PumpOK' /\ PendingIsShown'
    BY <2>3, CallShows, EntryShows
  <2>4. ASSUME NEW s \in Session, Lease(s) \/ LeaseEnds(s) \/ IdlePasses(s)
        PROVE  PumpOK' /\ PendingIsShown'
    BY <2>4, EntryShows
  <2>5. ASSUME NEW g \in Gen, Pump(g) \/ PumpExit(g) \/ AgentStep(g) \/ ReaderEof(g)
        PROVE  PumpOK' /\ PendingIsShown'
    BY <2>5, PumpShows, AgentShows
  <2>6. CASE Restart BY <2>6, RestartShows
  <2> QED BY <2>1, <2>2, <2>3, <2>4, <2>5, <2>6 DEF Next
<1> QED BY <1>1, <1>2 DEF ShownInv

(* An approval that an agent waits for can always be seen: whatever the    *)
(* calls, interrupts, cancelled requests and restarts are (read_stdout     *)
(* emits the request with remembering it, and the pump loses nothing).     *)
THEOREM SessionsPendingIsShown == Spec => []PendingIsShown
<1>1. Init => PumpOK /\ PendingIsShown BY DEF Init, NotStarted, PumpOK, PendingIsShown
<1>2. Init => ShownInv BY <1>1, InitIInv DEF ShownInv
<1>3. ShownInv => PendingIsShown BY DEF ShownInv
<1> QED BY <1>2, <1>3, ShownStep, PTL DEF Spec
-----------------------------------------------------------------------------
(* Ends of turns.  Of the first n events in q, those of one kind that came *)
(* from process g; and what is stored of g's together with what is ahead   *)
(* of it in the channel.                                                   *)

Counted(q, n, kind, g) == Cardinality({j \in 1..n : q[j].kind = kind /\ q[j].gen = g})
Sum(l, q, n, kind, g) == Counted(l, Len(l), kind, g) + Counted(q, n, kind, g)

\* Calls that have recorded a message for g and not yet given it to the agent.
Owing(o) == o.pc \in {"deliver", "write"} /\ o.kind = "send"
Owed(g) == {c \in Caller : Owing(op[c]) /\ op[c].g = g}

\* What l and q hold of g is in order: no end of a turn before the message it answers.
InOrder(l, q, g) ==
    \A i \in 1..Len(q) :
       /\ q[i].gen = g
       /\ q[i].kind = "TurnEnded" => Sum(l, q, i, "TurnEnded", g) <= Sum(l, q, i, "UserMessage", g)

(* A process that d messages are owed to, with m messages recorded for it  *)
(* and t of its turns ended: it was written no more than was recorded, has *)
(* read no more than it was written, and ends a turn only for what it has  *)
(* read; a turn that is active has a message of its own.                   *)
Balanced(r, d, m, t) ==
    /\ r.read <= Len(r.wrote) /\ Len(r.wrote) + d <= m /\ t <= m
    /\ r.reader => /\ t <= r.read
                   /\ r.working => t + 1 <= r.read
                   /\ r.turnActive => t + 1 <= m

TurnsOK(r, l, d, g) ==
    /\ InOrder(l, r.chan, g)
    /\ Balanced(r, d, Sum(l, r.chan, Len(r.chan), "UserMessage", g),
                      Sum(l, r.chan, Len(r.chan), "TurnEnded", g))

Tally == \A g \in Gen : run[g].pump => TurnsOK(run[g], log[run[g].s], Cardinality(Owed(g)), g)
OwedFinite == \A g \in Gen : IsFiniteSet(Owed(g))

\* Processes that were not started are blank, and nothing names them.
Blank == \A g \in Gen : g > gen => run[g] = NotStarted
Inside == {"record", "deliver", "interrupt", "write", "shutdown", "wait"}
Named ==
    /\ \A s \in Session : live[s] <= gen /\ \A i \in 1..Len(log[s]) : log[s][i].gen <= gen
    /\ \A c \in Caller : op[c].pc \in Inside => op[c].g <= gen

EndsInv == ShownInv /\ Blank /\ Named /\ OwedFinite /\ Tally /\ EndsFollowMessages

LEMMA PartFinite ==
    ASSUME NEW n \in Nat, NEW S \in SUBSET (1..n)
    PROVE  IsFiniteSet(S) /\ Cardinality(S) \in Nat
<1>1. IsFiniteSet(1..n) BY FS_Interval
<1>2. IsFiniteSet(S) BY <1>1, FS_Subset
<1> QED BY <1>2, FS_CardinalityType

LEMMA CountedNat ==
    ASSUME NEW q, NEW n \in Nat, NEW kind, NEW g PROVE Counted(q, n, kind, g) \in Nat
<1> DEFINE S == {j \in 1..n : q[j].kind = kind /\ q[j].gen = g}
<1>1. S \in SUBSET (1..n) OBVIOUS
<1> HIDE DEF S
<1>2. Cardinality(S) \in Nat BY <1>1, PartFinite
<1> QED BY <1>2 DEF S, Counted

LEMMA CountedNone ==
    ASSUME NEW q, NEW n \in Nat, NEW kind, NEW g,
           \A j \in 1..n : ~(q[j].kind = kind /\ q[j].gen = g)
    PROVE  Counted(q, n, kind, g) = 0
<1>1. {j \in 1..n : q[j].kind = kind /\ q[j].gen = g} = {} OBVIOUS
<1> QED BY <1>1, FS_EmptySet DEF Counted

\* One event further.
LEMMA CountedNext ==
    ASSUME NEW q, NEW n \in Nat, NEW kind, NEW g
    PROVE  Counted(q, n + 1, kind, g) =
             Counted(q, n, kind, g)
               + (IF q[n + 1].kind = kind /\ q[n + 1].gen = g THEN 1 ELSE 0)
<1> DEFINE S == {j \in 1..n : q[j].kind = kind /\ q[j].gen = g}
           T == {j \in 1..(n + 1) : q[j].kind = kind /\ q[j].gen = g}
<1>1. IsFiniteSet(S) /\ Cardinality(S) \in Nat
  <2>1. S \in SUBSET (1..n) OBVIOUS
  <2> HIDE DEF S
  <2> QED BY <2>1, PartFinite
<1>2. n + 1 \notin S OBVIOUS
<1>3. CASE q[n + 1].kind = kind /\ q[n + 1].gen = g
  <2>1. T = S \cup {n + 1} BY <1>3
  <2>2. Cardinality(T) = Cardinality(S) + 1 BY <1>1, <1>2, <2>1, FS_AddElement
  <2> QED BY <1>3, <2>2 DEF Counted
<1>4. CASE ~(q[n + 1].kind = kind /\ q[n + 1].gen = g)
  <2>1. T = S BY <1>4
  <2> QED BY <1>1, <1>4, <2>1 DEF Counted
<1> QED BY <1>3, <1>4

LEMMA CountedSame ==
    ASSUME NEW p, NEW q, NEW n \in Nat, NEW kind, NEW g, \A j \in 1..n : p[j] = q[j]
    PROVE  Counted(p, n, kind, g) = Counted(q, n, kind, g)
<1>1. {j \in 1..n : p[j].kind = kind /\ p[j].gen = g}
        = {j \in 1..n : q[j].kind = kind /\ q[j].gen = g}
  OBVIOUS
<1> QED BY <1>1 DEF Counted

\* Without the first event.
LEMMA CountedTail ==
    ASSUME NEW q \in Seq(Event), q # <<>>, NEW n \in Nat, n < Len(q), NEW kind, NEW g
    PROVE  Counted(q, n + 1, kind, g) =
             Counted(Tail(q), n, kind, g)
               + (IF Head(q).kind = kind /\ Head(q).gen = g THEN 1 ELSE 0)
<1>0. PICK t : t = Tail(q) OBVIOUS
<1> DEFINE S == {j \in 1..n : t[j].kind = kind /\ t[j].gen = g}
           T == {j \in 1..(n + 1) : q[j].kind = kind /\ q[j].gen = g}
           U == T \ {1}
           f == [j \in S |-> j + 1]
<1>1. Len(q) \in Nat /\ Head(q) = q[1] /\ \A j \in 1..n : t[j] = q[j + 1] BY <1>0
<1>2. /\ IsFiniteSet(S) /\ Cardinality(S) \in Nat /\ IsFiniteSet(T) /\ Cardinality(T) \in Nat
  <2>1. S \in SUBSET (1..n) /\ T \in SUBSET (1..(n + 1)) /\ n + 1 \in Nat OBVIOUS
  <2> HIDE DEF S, T
  <2> QED BY <2>1, PartFinite
<1>3. f \in Bijection(S, U)
  <2>1. f \in [S -> U] BY <1>1
  <2>2. \A i, j \in S : f[i] = f[j] => i = j OBVIOUS
  <2>3. \A k \in U : \E j \in S : f[j] = k
    <3> TAKE k \in U
    <3>1. k - 1 \in 1..n /\ k = (k - 1) + 1 OBVIOUS
    <3>2. k - 1 \in S BY <1>1, <3>1
    <3> QED BY <3>1, <3>2
  <2> HIDE DEF f, S, U
  <2> QED BY <2>1, <2>2, <2>3 DEF Bijection, Injection, IsInjective, Surjection
<1>4. Cardinality(U) = Cardinality(S)
  <2>1. ExistsBijection(S, U) BY <1>3 DEF ExistsBijection
  <2> QED BY <1>2, <2>1, FS_Bijection
<1>5. Cardinality(U) = IF 1 \in T THEN Cardinality(T) - 1 ELSE Cardinality(T)
  BY <1>2, FS_RemoveElement
<1>6. 1 \in T <=> Head(q).kind = kind /\ Head(q).gen = g BY <1>1
<1>7. Counted(t, n, kind, g) = Cardinality(S) /\ Counted(q, n + 1, kind, g) = Cardinality(T)
  BY DEF Counted
<1> HIDE DEF S, T, U
<1> QED BY <1>0, <1>2, <1>4, <1>5, <1>6, <1>7

LEMMA SumAppend ==
    ASSUME NEW l \in Seq(Event), NEW q \in Seq(Event), NEW e \in Event, NEW kind, NEW g
    PROVE  /\ Sum(l, Append(q, e), Len(q) + 1, kind, g) =
                Sum(l, q, Len(q), kind, g) + (IF e.kind = kind /\ e.gen = g THEN 1 ELSE 0)
           /\ \A n \in 0..Len(q) : /\ Sum(l, Append(q, e), n, kind, g) = Sum(l, q, n, kind, g)
                                  /\ Sum(l, q, n, kind, g) \in Nat
<1>0. PICK p : p = Append(q, e) OBVIOUS
<1>1. /\ Len(q) \in Nat /\ Len(l) \in Nat /\ Len(p) = Len(q) + 1 /\ p[Len(q) + 1] = e
      /\ \A i \in 1..Len(q) : p[i] = q[i]
  BY <1>0
<1>2. ASSUME NEW n \in 0..Len(q)
      PROVE  Counted(p, n, kind, g) = Counted(q, n, kind, g) /\ Sum(l, q, n, kind, g) \in Nat
  <2>1. n \in Nat /\ \A j \in 1..n : p[j] = q[j] BY <1>1
  <2>2. Counted(p, n, kind, g) = Counted(q, n, kind, g) BY <2>1, CountedSame
  <2>3. Counted(q, n, kind, g) \in Nat /\ Counted(l, Len(l), kind, g) \in Nat
    BY <1>1, <2>1, CountedNat
  <2> QED BY <2>2, <2>3 DEF Sum
<1>3. Len(q) \in 0..Len(q) BY <1>1
<1>4. Counted(p, Len(q) + 1, kind, g) =
        Counted(q, Len(q), kind, g) + (IF e.kind = kind /\ e.gen = g THEN 1 ELSE 0)
  BY <1>1, <1>2, <1>3, CountedNext
<1>5. Counted(q, Len(q), kind, g) \in Nat /\ Counted(l, Len(l), kind, g) \in Nat
  BY <1>1, CountedNat
<1> QED BY <1>0, <1>2, <1>4, <1>5 DEF Sum

\* An event goes into the channel: what is recorded, and what has ended, goes up by it.
LEMMA EmitTurns ==
    ASSUME NEW r \in Run, NEW q \in Run, q.chan = r.chan, NEW l \in Seq(Event),
           NEW d \in Nat, NEW g, NEW e \in Event, e.gen = g, InOrder(l, r.chan, g),
           Balanced(q, d, Sum(l, r.chan, Len(r.chan), "UserMessage", g)
                            + (IF e.kind = "UserMessage" THEN 1 ELSE 0),
                          Sum(l, r.chan, Len(r.chan), "TurnEnded", g)
                            + (IF e.kind = "TurnEnded" THEN 1 ELSE 0))
    PROVE  TurnsOK(Emit(q, e), l, d, g)
<1>1. PICK c, p : c = r.chan /\ p = Append(c, e) OBVIOUS
<1>2. c \in Seq(Event) /\ Len(c) \in Nat BY <1>1 DEF Run
<1>3. /\ p \in Seq(Event) /\ Len(p) = Len(c) + 1 /\ p[Len(c) + 1] = e
      /\ \A i \in 1..Len(c) : p[i] = c[i]
  BY <1>1, <1>2
<1>4. PICK m, t : /\ m = Sum(l, c, Len(c), "UserMessage", g)
                  /\ t = Sum(l, c, Len(c), "TurnEnded", g)
  OBVIOUS
<1>5. PICK n, u : /\ n = m + (IF e.kind = "UserMessage" THEN 1 ELSE 0)
                  /\ u = t + (IF e.kind = "TurnEnded" THEN 1 ELSE 0)
  OBVIOUS
<1>6. /\ Sum(l, p, Len(p), "UserMessage", g) = n /\ Sum(l, p, Len(p), "TurnEnded", g) = u
      /\ \A k \in {"UserMessage", "TurnEnded"} : \A i \in 1..Len(c) :
            Sum(l, p, i, k, g) = Sum(l, c, i, k, g)
  BY <1>1, <1>2, <1>3, <1>4, <1>5, SumAppend
<1>7. n \in Nat /\ u \in Nat
  <2>1. Len(c) \in 0..Len(c) BY <1>2
  <2> QED BY <1>2, <1>4, <1>5, <2>1, SumAppend
<1>8. Balanced(q, d, n, u) BY <1>1, <1>4, <1>5
<1>9. /\ Emit(q, e).chan = p /\ Emit(q, e).read = q.read /\ Emit(q, e).wrote = q.wrote
      /\ Emit(q, e).reader = q.reader /\ Emit(q, e).working = q.working
      /\ Emit(q, e).turnActive = q.turnActive
  <2>1. Emit(q, e) = [q EXCEPT !.chan = p] BY <1>1 DEF Emit
  <2> QED BY <2>1 DEF Run
<1>10. Balanced(Emit(q, e), d, n, u) BY <1>8, <1>9 DEF Balanced
<1>11. InOrder(l, p, g)
  <2> SUFFICES ASSUME NEW i \in 1..Len(p)
               PROVE  /\ p[i].gen = g
                      /\ p[i].kind = "TurnEnded" =>
                            Sum(l, p, i, "TurnEnded", g) <= Sum(l, p, i, "UserMessage", g)
    BY DEF InOrder
  <2>1. CASE i = Len(c) + 1
    <3>1. u <= n BY <1>7, <1>8 DEF Balanced
    <3> QED BY <1>3, <1>6, <2>1, <3>1
  <2>2. CASE i # Len(c) + 1
    <3>1. i \in 1..Len(c) BY <1>2, <1>3, <2>2
    <3>2. /\ c[i].gen = g
          /\ c[i].kind = "TurnEnded" =>
                Sum(l, c, i, "TurnEnded", g) <= Sum(l, c, i, "UserMessage", g)
      BY <1>1, <3>1 DEF InOrder
    <3> QED BY <1>3, <1>6, <3>1, <3>2
  <2> QED BY <2>1, <2>2
<1> QED BY <1>6, <1>9, <1>10, <1>11 DEF TurnsOK

LEMMA MoveTurns ==
    ASSUME NEW r \in Run, NEW q \in Run, q.chan = r.chan, NEW l \in Seq(Event),
           NEW d, NEW d2, NEW g, TurnsOK(r, l, d, g),
           \A m, t \in Nat : Balanced(r, d, m, t) => Balanced(q, d2, m, t)
    PROVE  TurnsOK(q, l, d2, g)
<1>1. PICK c, m, t : /\ c = r.chan /\ m = Sum(l, c, Len(c), "UserMessage", g)
                     /\ t = Sum(l, c, Len(c), "TurnEnded", g)
  OBVIOUS
<1>2. m \in Nat /\ t \in Nat
  <2>1. c \in Seq(Event) /\ Len(c) \in Nat BY <1>1 DEF Run
  <2>2. \A kind : Sum(l, c, Len(c), kind, g) \in Nat
    <3>1. Len(l) \in Nat OBVIOUS
    <3> QED BY <2>1, <3>1, CountedNat DEF Sum
  <2> QED BY <1>1, <2>2
<1>3. InOrder(l, c, g) /\ Balanced(r, d, m, t) BY <1>1 DEF TurnsOK
<1> QED BY <1>1, <1>2, <1>3 DEF TurnsOK

LEMMA EmitMoves ==
    ASSUME NEW r \in Run, NEW q \in Run, q.chan = r.chan, NEW l \in Seq(Event),
           NEW d, NEW d2 \in Nat, NEW g, TurnsOK(r, l, d, g), NEW e \in Event, e.gen = g,
           \A m, t \in Nat : Balanced(r, d, m, t) =>
              Balanced(q, d2, m + (IF e.kind = "UserMessage" THEN 1 ELSE 0),
                              t + (IF e.kind = "TurnEnded" THEN 1 ELSE 0))
    PROVE  TurnsOK(Emit(q, e), l, d2, g)
<1>1. PICK c, m, t : /\ c = r.chan /\ m = Sum(l, c, Len(c), "UserMessage", g)
                     /\ t = Sum(l, c, Len(c), "TurnEnded", g)
  OBVIOUS
<1>2. m \in Nat /\ t \in Nat
  <2>1. c \in Seq(Event) /\ Len(c) \in Nat BY <1>1 DEF Run
  <2>2. \A kind : Sum(l, c, Len(c), kind, g) \in Nat
    <3>1. Len(l) \in Nat OBVIOUS
    <3> QED BY <2>1, <3>1, CountedNat DEF Sum
  <2> QED BY <1>1, <2>2
<1>3. InOrder(l, c, g) /\ Balanced(r, d, m, t) BY <1>1 DEF TurnsOK
<1>4. Balanced(q, d2, m + (IF e.kind = "UserMessage" THEN 1 ELSE 0),
                      t + (IF e.kind = "TurnEnded" THEN 1 ELSE 0))
  BY <1>2, <1>3
<1> QED BY <1>1, <1>3, <1>4, EmitTurns

\* A call that neither has recorded a message nor does so.
LEMMA OwedSame ==
    ASSUME op \in [Caller -> Op], NEW c \in Caller, NEW o, op' = [op EXCEPT ![c] = o],
           ~Owing(op[c]), ~Owing(o)
    PROVE  \A h \in Gen : Owed(h)' = Owed(h)
<1>1. \A b \in Caller : b # c => op'[b] = op[b] OBVIOUS
<1>2. op'[c] = o OBVIOUS
<1> QED BY <1>1, <1>2 DEF Owed

\* What the steps below keep besides IInv, PumpOK and PendingIsShown.
Kept == Blank' /\ Named' /\ OwedFinite' /\ Tally' /\ EndsFollowMessages'

LEMMA NamedKeeps ==
    ASSUME EndsInv, UNCHANGED <<log, gen>>, \A s \in Session : live'[s] \in {live[s], 0},
           \/ UNCHANGED op
           \/ \E c \in Caller : \E o :
                 /\ op' = [op EXCEPT ![c] = o]
                 /\ o.pc \in Inside => o.g <= gen
    PROVE  Named'
<1>1. /\ op \in [Caller -> Op] /\ gen \in Nat /\ Named
  BY BoundsAssumption DEF EndsInv, ShownInv, IInv, TypeOK
<1>2. \A c \in Caller :
        op'[c].pc \in Inside => op'[c].g <= gen
  BY <1>1 DEF Named
<1> QED BY <1>1, <1>2 DEF Named

LEMMA QuietEnds ==
    ASSUME EndsInv, UNCHANGED <<run, log, gen>>, \A h \in Gen : Owed(h)' = Owed(h), Named'
    PROVE  Kept
<1>1. Blank' BY DEF EndsInv, Blank
<1>2. OwedFinite' /\ Tally' BY DEF EndsInv, OwedFinite, Tally
<1>3. EndsFollowMessages' BY DEF EndsInv, EndsFollowMessages
<1> QED BY <1>1, <1>2, <1>3 DEF Kept

\* One run changes, and at most what is owed to it.
LEMMA OneEnds ==
    ASSUME EndsInv, UNCHANGED <<log, gen>>, Named', NEW g \in Gen, g <= gen,
           NEW q, run' = [run EXCEPT ![g] = q],
           \A h \in Gen : h # g => Owed(h)' = Owed(h), IsFiniteSet(Owed(g)'),
           q.pump => TurnsOK(q, log[q.s], Cardinality(Owed(g)'), g)
    PROVE  Kept
<1>1. run \in [Gen -> Run] BY DEF EndsInv, ShownInv, IInv, TypeOK
<1>2. run'[g] = q /\ \A h \in Gen : h # g => run'[h] = run[h] BY <1>1
<1>3. Blank' BY <1>2, BoundsAssumption DEF EndsInv, ShownInv, IInv, TypeOK, Blank, Gen
<1>4. OwedFinite'
  <2>1. \A h \in Gen : IsFiniteSet(Owed(h)') BY DEF EndsInv, OwedFinite
  <2> QED BY <2>1 DEF OwedFinite
<1>5. Tally'
  <2>1. ASSUME NEW h \in Gen, run'[h].pump
        PROVE  TurnsOK(run'[h], log[run'[h].s], Cardinality(Owed(h)'), h)
    BY <1>2, <2>1 DEF EndsInv, Tally
  <2> QED BY <2>1 DEF Tally
<1>6. EndsFollowMessages' BY DEF EndsInv, EndsFollowMessages
<1> QED BY <1>3, <1>4, <1>5, <1>6 DEF Kept

\* What is known of a run that was started and whose pump is there.
LEMMA RunKnown ==
    ASSUME EndsInv, NEW g \in Gen
    PROVE  /\ run[g] \in Run /\ run \in [Gen -> Run] /\ op \in [Caller -> Op] /\ gen \in Nat
           /\ IsFiniteSet(Owed(g)) /\ Cardinality(Owed(g)) \in Nat
           /\ run[g].pump => /\ run[g].s \in Session /\ log[run[g].s] \in Seq(Event)
                             /\ TurnsOK(run[g], log[run[g].s], Cardinality(Owed(g)), g)
           /\ run[g].proc # "none" \/ run[g].pump => g <= gen
<1>1. /\ run \in [Gen -> Run] /\ log \in [Session -> Seq(Event)] /\ gen \in Nat
      /\ op \in [Caller -> Op]
  BY BoundsAssumption DEF EndsInv, ShownInv, IInv, TypeOK
<1>2. IsFiniteSet(Owed(g)) BY DEF EndsInv, OwedFinite
<1>3. Cardinality(Owed(g)) \in Nat BY <1>2, FS_CardinalityType
<1>4. run[g].pump => run[g].s \in Session BY DEF EndsInv, ShownInv, PumpOK
<1>5. g > gen => run[g] = NotStarted BY DEF EndsInv, Blank
<1>6. ~NotStarted.pump /\ NotStarted.proc = "none" BY DEF NotStarted
<1>7. g \in Nat BY BoundsAssumption DEF Gen
<1> QED BY <1>1, <1>2, <1>3, <1>4, <1>5, <1>6, <1>7 DEF EndsInv, Tally

LEMMA AgentEnds ==
    ASSUME EndsInv, NEW g \in Gen, AgentStep(g) \/ ReaderEof(g)
    PROVE  Kept
<1>0. PICK d : d = Cardinality(Owed(g)) OBVIOUS
<1>1. UNCHANGED <<log, live, gen, op>>
  BY DEF AgentStep, CliRead, CliFold, CliAsk, CliCancel, CliResult, CliExit, ReaderEof, store
<1>2. Named' BY <1>1, NamedKeeps
<1>3. \A h \in Gen : Owed(h)' = Owed(h) BY <1>1 DEF Owed
<1>4. /\ run[g] \in Run /\ d \in Nat /\ IsFiniteSet(Owed(g))
      /\ run[g].pump => /\ run[g].s \in Session /\ log[run[g].s] \in Seq(Event)
                        /\ TurnsOK(run[g], log[run[g].s], d, g)
  BY <1>0, RunKnown
<1>5. g <= gen
  <2>1. run[g].proc # "none"
    BY DEF AgentStep, CliRead, CliFold, CliAsk, CliCancel, CliResult, CliExit, ReaderEof, Talks
  <2> QED BY <2>1, RunKnown
<1>6. ASSUME NEW q, run' = [run EXCEPT ![g] = q], q.pump = run[g].pump, q.s = run[g].s,
             run[g].pump => TurnsOK(q, log[run[g].s], d, g)
      PROVE  Kept
  BY <1>0, <1>1, <1>2, <1>3, <1>4, <1>5, <1>6, OneEnds
<1>7. ASSUME NEW q \in Run, run' = [run EXCEPT ![g] = q], q.pump = run[g].pump, q.s = run[g].s,
             q.chan = run[g].chan,
             \A m, t \in Nat : Balanced(run[g], d, m, t) => Balanced(q, d, m, t)
      PROVE  Kept
  <2>1. run[g].pump => TurnsOK(q, log[run[g].s], d, g) BY <1>4, <1>7, MoveTurns
  <2> QED BY <1>6, <1>7, <2>1
<1>8. ASSUME NEW q \in Run, NEW e \in Event, run' = [run EXCEPT ![g] = Emit(q, e)], e.gen = g,
             q.pump = run[g].pump, q.s = run[g].s, q.chan = run[g].chan,
             \A m, t \in Nat : Balanced(run[g], d, m, t) =>
                Balanced(q, d, m + (IF e.kind = "UserMessage" THEN 1 ELSE 0),
                               t + (IF e.kind = "TurnEnded" THEN 1 ELSE 0))
      PROVE  Kept
  <2>1. run[g].pump => TurnsOK(Emit(q, e), log[run[g].s], d, g) BY <1>4, <1>8, EmitMoves
  <2>2. Emit(q, e).pump = run[g].pump /\ Emit(q, e).s = run[g].s
    BY <1>8, EmitKeeps, EmitRun
  <2> QED BY <1>6, <1>8, <2>1, <2>2
<1>9. CASE CliRead(g)
  <2> DEFINE q == BeginTurn(run[g])
             e == [kind |-> "NativeSession", gen |-> g, native |-> run[g].native]
  <2>1. e \in Event BY <1>9, EventTypes DEF CliRead, Talks, EndsInv, ShownInv, IInv, RunOK
  <2>2. run[g].read \in Nat /\ run[g].read < Len(run[g].wrote) /\ Len(run[g].wrote) \in Nat
    BY <1>4, <1>9 DEF Run, CliRead
  <2>3. q \in Run
    <3>1. run[g].read + 1 \in Nat BY <2>2
    <3> QED BY <1>4, <3>1, RunFields DEF BeginTurn
  <2>4. run' = [run EXCEPT ![g] = Emit(q, e)] BY <1>9, Zenon DEF CliRead
  <2>5. /\ q.read = run[g].read + 1 /\ q.wrote = run[g].wrote /\ q.reader = run[g].reader
        /\ q.turnActive = run[g].turnActive /\ q.pump = run[g].pump /\ q.s = run[g].s
        /\ q.chan = run[g].chan
    BY <1>4 DEF Run, BeginTurn
  <2>6. e.gen = g /\ e.kind = "NativeSession" OBVIOUS
  <2> HIDE DEF q, e
  <2>7. \A m, t \in Nat : Balanced(run[g], d, m, t) => Balanced(q, d, m + 0, t + 0)
    BY <1>4, <2>2, <2>5 DEF Balanced
  <2> QED BY <1>8, <2>1, <2>3, <2>4, <2>5, <2>6, <2>7
<1>10. CASE CliFold(g)
  <2> DEFINE q == [run[g] EXCEPT !.read = @ + 1]
  <2>1. run[g].read \in Nat /\ run[g].read < Len(run[g].wrote) /\ Len(run[g].wrote) \in Nat
    BY <1>4, <1>10 DEF Run, CliFold
  <2>2. q \in Run
    <3>1. run[g].read + 1 \in Nat BY <2>1
    <3> QED BY <1>4, <3>1, RunFields
  <2>3. run' = [run EXCEPT ![g] = q] BY <1>10, Zenon DEF CliFold
  <2>4. /\ q.read = run[g].read + 1 /\ q.wrote = run[g].wrote /\ q.reader = run[g].reader
        /\ q.turnActive = run[g].turnActive /\ q.pump = run[g].pump /\ q.s = run[g].s
        /\ q.chan = run[g].chan /\ q.working = run[g].working
    BY <1>4 DEF Run
  <2> HIDE DEF q
  <2>5. \A m, t \in Nat : Balanced(run[g], d, m, t) => Balanced(q, d, m, t)
    BY <1>4, <2>1, <2>4 DEF Balanced
  <2> QED BY <1>7, <2>2, <2>3, <2>4, <2>5
<1>11. CASE CliAsk(g)
  <2> DEFINE a == count.approval + 1
             q == Ask(run[g], a)
             e == [kind |-> "ApprovalRequested", gen |-> g, approval |-> a]
  <2>1. a \in 1..MaxApproval
    BY <1>11, BoundsAssumption DEF CliAsk, TypeOK, EndsInv, ShownInv, IInv
  <2>2. e \in Event /\ e.gen = g /\ e.kind = "ApprovalRequested" BY <2>1, EventTypes
  <2>3. run[g].pending \cup {a} \in SUBSET (1..MaxApproval) BY <1>4, <2>1 DEF Run
  <2>4. q \in Run BY <1>4, <2>3, RunFields DEF Ask
  <2>5. /\ q.read = run[g].read /\ q.wrote = run[g].wrote /\ q.reader = run[g].reader
        /\ q.turnActive = run[g].turnActive /\ q.pump = run[g].pump /\ q.s = run[g].s
        /\ q.chan = run[g].chan /\ q.working = run[g].working
    BY <1>4 DEF Run, Ask
  <2>6. run' = [run EXCEPT ![g] = Emit(q, e)] BY <1>11, Zenon DEF CliAsk
  <2> HIDE DEF q, e, a
  <2>7. \A m, t \in Nat : Balanced(run[g], d, m, t) => Balanced(q, d, m + 0, t + 0)
    BY <1>4, <2>5 DEF Balanced
  <2> QED BY <1>8, <2>2, <2>4, <2>5, <2>6, <2>7
<1>12. CASE CliCancel(g)
  <2>1. PICK a : run' = [run EXCEPT ![g] = [run[g] EXCEPT !.pending = run[g].pending \ {a}]]
    BY <1>12 DEF CliCancel
  <2> DEFINE q == [run[g] EXCEPT !.pending = run[g].pending \ {a}]
  <2>2. run[g].pending \ {a} \in SUBSET (1..MaxApproval) BY <1>4 DEF Run
  <2>3. q \in Run BY <1>4, <2>2, RunFields
  <2>4. /\ q.read = run[g].read /\ q.wrote = run[g].wrote /\ q.reader = run[g].reader
        /\ q.turnActive = run[g].turnActive /\ q.pump = run[g].pump /\ q.s = run[g].s
        /\ q.chan = run[g].chan /\ q.working = run[g].working
    BY <1>4 DEF Run
  <2>5. run' = [run EXCEPT ![g] = q] BY <2>1
  <2> HIDE DEF q
  <2>6. \A m, t \in Nat : Balanced(run[g], d, m, t) => Balanced(q, d, m, t)
    BY <1>4, <2>4 DEF Balanced
  <2> QED BY <1>7, <2>3, <2>4, <2>5, <2>6
<1>13. CASE CliResult(g)
  <2>1. PICK error \in BOOLEAN :
          run' = [run EXCEPT ![g] = TurnEnd([@ EXCEPT !.working = FALSE], g, error)]
    BY <1>13 DEF CliResult
  <2> DEFINE p == [run[g] EXCEPT !.working = FALSE]
             q == [p EXCEPT !.interruptRequested = FALSE, !.turnActive = FALSE, !.pending = {}]
             e == [kind |-> "TurnEnded", gen |-> g, failed |-> error /\ ~p.interruptRequested]
  <2>2. e \in Event /\ e.gen = g /\ e.kind = "TurnEnded" BY EventTypes
  <2>3. p \in Run BY <1>4, RunFields
  <2>4. q \in Run BY <2>3, RunFields
  <2>5. /\ q.read = run[g].read /\ q.wrote = run[g].wrote /\ q.reader = run[g].reader
        /\ ~q.turnActive /\ ~q.working /\ q.pump = run[g].pump /\ q.s = run[g].s
        /\ q.chan = run[g].chan
    BY <1>4 DEF Run
  <2>6. run' = [run EXCEPT ![g] = Emit(q, e)] BY <2>1, Zenon DEF TurnEnd
  <2>7. run[g].working /\ run[g].reader /\ run[g].read \in Nat /\ Len(run[g].wrote) \in Nat
    BY <1>4, <1>13 DEF CliResult, Talks, Run
  <2> HIDE DEF q, e
  <2>8. \A m, t \in Nat : Balanced(run[g], d, m, t) => Balanced(q, d, m + 0, t + 1)
    BY <1>4, <2>5, <2>7 DEF Balanced
  <2> QED BY <1>8, <2>2, <2>4, <2>5, <2>6, <2>8
<1>14. CASE CliExit(g)
  <2> DEFINE q == [run[g] EXCEPT !.proc = "exited"]
  <2>1. run' = [run EXCEPT ![g] = q] BY <1>14 DEF CliExit
  <2>2. q \in Run BY <1>4, RunFields
  <2>3. /\ q.read = run[g].read /\ q.wrote = run[g].wrote /\ q.reader = run[g].reader
        /\ q.turnActive = run[g].turnActive /\ q.pump = run[g].pump /\ q.s = run[g].s
        /\ q.chan = run[g].chan /\ q.working = run[g].working
    BY <1>4 DEF Run
  <2> HIDE DEF q
  <2>4. \A m, t \in Nat : Balanced(run[g], d, m, t) => Balanced(q, d, m, t)
    BY <1>4, <2>3 DEF Balanced
  <2> QED BY <1>7, <2>1, <2>2, <2>3, <2>4
<1>15. CASE ReaderEof(g)
  <2> DEFINE q == [run[g] EXCEPT !.reader = FALSE]
             e == [kind |-> "TurnEnded", gen |-> g, failed |-> ~q.interruptRequested]
  <2>1. e \in Event /\ e.gen = g /\ e.kind = "TurnEnded" BY EventTypes
  <2>2. q \in Run BY <1>4, RunFields
  <2>3. /\ q.read = run[g].read /\ q.wrote = run[g].wrote /\ ~q.reader
        /\ q.turnActive = run[g].turnActive /\ q.pump = run[g].pump /\ q.s = run[g].s
        /\ q.chan = run[g].chan
    BY <1>4 DEF Run
  <2>4. /\ run[g].reader
        /\ \/ run' = [run EXCEPT ![g] = Emit(q, e)] /\ q.turnActive
           \/ run' = [run EXCEPT ![g] = q]
    BY <1>15, Zenon DEF ReaderEof
  <2> HIDE DEF q, e
  <2>5. \A m, t \in Nat : Balanced(run[g], d, m, t) => Balanced(q, d, m, t)
    BY <1>4, <2>3 DEF Balanced
  <2>6. q.turnActive =>
          \A m, t \in Nat : Balanced(run[g], d, m, t) => Balanced(q, d, m + 0, t + 1)
    BY <1>4, <2>3, <2>4 DEF Balanced
  <2> QED BY <1>7, <1>8, <2>1, <2>2, <2>3, <2>4, <2>5, <2>6
<1> QED BY <1>9, <1>10, <1>11, <1>12, <1>13, <1>14, <1>15 DEF AgentStep

\* The pump stores an event of the run: what is stored and what is ahead of it stay in order.
LEMMA PumpEnds == ASSUME EndsInv, NEW g \in Gen, Pump(g) PROVE Kept
<1>0. PICK c, q, e, s, l : /\ c = run[g].chan /\ q = Tail(c) /\ e = Head(c)
                           /\ s = run[g].s /\ l = log[s]
  OBVIOUS
<1>1. /\ run[g] \in Run /\ run \in [Gen -> Run] /\ gen \in Nat
      /\ run[g].pump /\ s \in Session /\ l \in Seq(Event) /\ c # <<>> /\ c \in Seq(Event)
      /\ g <= gen /\ TurnsOK(run[g], l, Cardinality(Owed(g)), g)
  <2>1. run[g].pump /\ c # <<>> BY <1>0 DEF Pump
  <2>2. run[g] \in Run BY RunKnown
  <2>3. c \in Seq(Event) BY <1>0, <2>2 DEF Run
  <2> QED BY <1>0, <2>1, <2>2, <2>3, RunKnown
<1>2. /\ run' = [run EXCEPT ![g] = [run[g] EXCEPT !.chan = q]]
      /\ UNCHANGED <<live, lock, gen, op, leased, count>>
      /\ \/ Duplicate(s, e) /\ UNCHANGED log
         \/ log' = [log EXCEPT ![s] = Append(l, e)]
  BY <1>0 DEF Pump, AppendEvent, store
<1>3. log \in [Session -> Seq(Event)] BY DEF EndsInv, ShownInv, IInv, TypeOK
<1>4. /\ Len(c) \in Nat /\ Len(c) >= 1 /\ e = c[1] /\ e \in Event /\ q \in Seq(Event)
      /\ Len(q) = Len(c) - 1 /\ \A i \in 1..Len(q) : q[i] = c[i + 1]
  BY <1>0, <1>1
<1>5. e.gen = g /\ InOrder(l, c, g) BY <1>0, <1>1, <1>4 DEF TurnsOK, InOrder
<1>6. \A h \in Gen : Owed(h)' = Owed(h) BY <1>2 DEF Owed
<1>7. ASSUME NEW h \in Gen
      PROVE  /\ h # g => run'[h] = run[h]
             /\ h = g => run'[h] = [run[g] EXCEPT !.chan = q]
  BY <1>1, <1>2
<1>8. [run[g] EXCEPT !.chan = q].s = s /\ [run[g] EXCEPT !.chan = q].chan = q
  BY <1>0, <1>1 DEF Run
<1>9. Blank'
  <2> SUFFICES ASSUME NEW h \in Gen, h > gen PROVE run'[h] = NotStarted BY <1>2 DEF Blank
  <2>1. h # g BY <1>1, BoundsAssumption DEF Gen
  <2> QED BY <1>7, <2>1 DEF EndsInv, Blank
<1>10. \A i \in 1..Len(c) : c[i].gen = g BY <1>5 DEF InOrder
\* The transcript: what it gets, and what it has of each process.
<1>11. ASSUME NEW t \in Session
       PROVE  \/ log'[t] = log[t]
              \/ t = s /\ log'[t] = Append(l, e)
  BY <1>2, <1>3
<1>12. Len(l) \in Nat /\ Append(l, e) \in Seq(Event) /\ Len(Append(l, e)) = Len(l) + 1
       /\ Append(l, e)[Len(l) + 1] = e /\ \A i \in 1..Len(l) : Append(l, e)[i] = l[i]
  BY <1>1, <1>4
<1>13. Named'
  <2>1. \A t \in Session : \A i \in 1..Len(log'[t]) : log'[t][i].gen <= gen
    <3> TAKE t \in Session
    <3>1. CASE log'[t] = log[t] BY <3>1 DEF EndsInv, Named
    <3>2. CASE t = s /\ log'[t] = Append(l, e)
      <4>1. \A i \in 1..Len(l) : l[i].gen <= gen BY <1>0, <1>1 DEF EndsInv, Named
      <4> QED BY <1>1, <1>5, <1>12, <3>2, <4>1
    <3> QED BY <1>11, <3>1, <3>2
  <2> QED BY <1>2, <2>1 DEF EndsInv, Named
<1>14. PICK a : a = Append(l, e) OBVIOUS
<1>15. ASSUME NEW kind, NEW h
       PROVE  /\ Counted(a, Len(l) + 1, kind, h) =
                   Counted(l, Len(l), kind, h) + (IF e.kind = kind /\ g = h THEN 1 ELSE 0)
              /\ \A n \in 0..Len(l) : Counted(a, n, kind, h) = Counted(l, n, kind, h)
              /\ Counted(l, Len(l), kind, h) \in Nat
  <2>1. \A n \in 0..Len(l) : Counted(a, n, kind, h) = Counted(l, n, kind, h)
    <3> TAKE n \in 0..Len(l)
    <3>1. n \in Nat /\ \A j \in 1..n : a[j] = l[j] BY <1>12, <1>14
    <3> QED BY <3>1, CountedSame
  <2>2. Counted(a, Len(l) + 1, kind, h) =
          Counted(a, Len(l), kind, h) + (IF e.kind = kind /\ g = h THEN 1 ELSE 0)
    <3>1. Len(l) \in Nat /\ a[Len(l) + 1] = e /\ e.gen = g BY <1>5, <1>12, <1>14
    <3>2. Counted(a, Len(l) + 1, kind, h) = Counted(a, Len(l), kind, h)
            + (IF a[Len(l) + 1].kind = kind /\ a[Len(l) + 1].gen = h THEN 1 ELSE 0)
      BY <3>1, CountedNext
    <3> QED BY <3>1, <3>2
  <2>3. Len(l) \in 0..Len(l) BY <1>12
  <2> QED BY <1>12, <2>1, <2>2, <2>3, CountedNat
<1>16. ASSUME NEW kind, NEW n \in 0..Len(q)
       PROVE  /\ Counted(c, n + 1, kind, g) =
                   Counted(q, n, kind, g) + (IF e.kind = kind THEN 1 ELSE 0)
              /\ Counted(q, n, kind, g) \in Nat
  <2>1. n \in Nat /\ n < Len(c) BY <1>4
  <2> QED BY <1>0, <1>1, <1>5, <2>1, CountedTail, CountedNat
\* What is stored and ahead together is what it was.
<1>17. ASSUME log'[s] = a, NEW kind, NEW n \in 0..Len(q)
       PROVE  Sum(a, q, n, kind, g) = Sum(l, c, n + 1, kind, g)
  <2>1. Len(a) = Len(l) + 1 BY <1>12, <1>14
  <2> QED BY <1>15, <1>16, <2>1 DEF Sum
<1>18. ASSUME UNCHANGED log, NEW kind \in {"UserMessage", "TurnEnded"}, NEW n \in 0..Len(q)
       PROVE  Sum(l, q, n, kind, g) = Sum(l, c, n + 1, kind, g)
  <2>1. e.kind = "NativeSession"
    <3>1. CASE Duplicate(s, e) BY <3>1 DEF Duplicate
    <3>2. CASE log' = [log EXCEPT ![s] = Append(l, e)]
      <4>1. log'[s] = Append(l, e) /\ log'[s] = l BY <1>0, <1>1, <1>3, <1>18, <3>2
      <4> QED BY <1>12, <4>1
    <3> QED BY <1>2, <3>1, <3>2
  <2>2. Counted(c, n + 1, kind, g) = Counted(q, n, kind, g) + 0 BY <1>16, <2>1
  <2> QED BY <1>16, <2>2 DEF Sum
<1>19. \/ log'[s] = l /\ UNCHANGED log
      \/ log'[s] = a
  BY <1>0, <1>1, <1>2, <1>3, <1>14
<1>20. ASSUME NEW kind \in {"UserMessage", "TurnEnded"}, NEW n \in 0..Len(q)
       PROVE  Sum(log'[s], q, n, kind, g) = Sum(l, c, n + 1, kind, g)
  BY <1>17, <1>18, <1>19
<1>21. InOrder(log'[s], q, g)
  <2> SUFFICES ASSUME NEW i \in 1..Len(q)
               PROVE  /\ q[i].gen = g
                      /\ q[i].kind = "TurnEnded" => Sum(log'[s], q, i, "TurnEnded", g)
                                                      <= Sum(log'[s], q, i, "UserMessage", g)
    BY DEF InOrder
  <2>1. i \in 0..Len(q) /\ i + 1 \in 1..Len(c) /\ q[i] = c[i + 1] BY <1>4
  <2>2. /\ c[i + 1].gen = g
        /\ c[i + 1].kind = "TurnEnded" =>
              Sum(l, c, i + 1, "TurnEnded", g) <= Sum(l, c, i + 1, "UserMessage", g)
    BY <1>5, <2>1 DEF InOrder
  <2> QED BY <1>20, <2>1, <2>2
<1>22. TurnsOK([run[g] EXCEPT !.chan = q], log'[s], Cardinality(Owed(g)), g)
  <2> DEFINE r == [run[g] EXCEPT !.chan = q]
  <2>1. /\ r.chan = q /\ r.read = run[g].read /\ r.wrote = run[g].wrote
        /\ r.reader = run[g].reader /\ r.working = run[g].working
        /\ r.turnActive = run[g].turnActive
    BY <1>1 DEF Run
  <2> HIDE DEF r
  <2>2. PICK m, t : /\ m = Sum(l, c, Len(c), "UserMessage", g)
                    /\ t = Sum(l, c, Len(c), "TurnEnded", g)
    OBVIOUS
  <2>3. Balanced(run[g], Cardinality(Owed(g)), m, t) BY <1>0, <1>1, <2>2 DEF TurnsOK
  <2>4. Len(q) \in 0..Len(q) /\ Len(q) + 1 = Len(c) BY <1>4
  <2>5. Sum(log'[s], q, Len(q), "UserMessage", g) = m /\ Sum(log'[s], q, Len(q), "TurnEnded", g) = t
    BY <1>20, <2>2, <2>4
  <2>6. Balanced(r, Cardinality(Owed(g)), m, t) BY <2>1, <2>3 DEF Balanced
  <2> QED BY <1>21, <2>1, <2>5, <2>6 DEF TurnsOK, r
\* For another process of the session nothing is counted.
<1>23. ASSUME NEW h \in Gen, h # g, run[h].pump
       PROVE  TurnsOK(run[h], log'[run[h].s], Cardinality(Owed(h)), h)
  <2>1. TurnsOK(run[h], log[run[h].s], Cardinality(Owed(h)), h) /\ run[h].s \in Session
    BY <1>23, RunKnown
  <2>2. CASE log'[run[h].s] = log[run[h].s] BY <2>1, <2>2
  <2>3. CASE run[h].s = s /\ log'[run[h].s] = a
    <3>1. Len(a) = Len(l) + 1 BY <1>12, <1>14
    <3>2. \A kind, n : Sum(a, run[h].chan, n, kind, h) = Sum(l, run[h].chan, n, kind, h)
      <4>1. \A kind : Counted(a, Len(a), kind, h) = Counted(l, Len(l), kind, h)
        BY <1>15, <1>23, <3>1
      <4> QED BY <4>1 DEF Sum
    <3>3. TurnsOK(run[h], l, Cardinality(Owed(h)), h) BY <1>0, <2>1, <2>3
    <3>4. TurnsOK(run[h], a, Cardinality(Owed(h)), h)
      BY <3>2, <3>3 DEF TurnsOK, InOrder
    <3> QED BY <2>3, <3>4
  <2> QED BY <1>11, <1>14, <2>1, <2>2, <2>3
<1>24. Tally'
  <2> SUFFICES ASSUME NEW h \in Gen, run'[h].pump
               PROVE  TurnsOK(run'[h], log'[run'[h].s], Cardinality(Owed(h)), h)
    BY <1>6 DEF Tally
  <2> QED BY <1>7, <1>8, <1>22, <1>23
<1>25. OwedFinite' BY <1>6 DEF EndsInv, OwedFinite
<1>26. EndsFollowMessages'
  <2> SUFFICES ASSUME NEW t \in Session, NEW i \in 1..Len(log'[t]), log'[t][i].kind = "TurnEnded"
               PROVE  Counted(log'[t], i, "TurnEnded", log'[t][i].gen)
                        <= Counted(log'[t], i, "UserMessage", log'[t][i].gen)
    BY DEF EndsFollowMessages, Counted
  <2>0. \A u \in Session : \A j \in 1..Len(log[u]) : log[u][j].kind = "TurnEnded" =>
          Counted(log[u], j, "TurnEnded", log[u][j].gen)
            <= Counted(log[u], j, "UserMessage", log[u][j].gen)
    BY DEF EndsInv, EndsFollowMessages, Counted
  <2>1. CASE log'[t] = log[t] BY <2>0, <2>1
  <2>2. CASE t = s /\ log'[t] = a /\ i \in 1..Len(l)
    <3>1. a[i] = l[i] /\ i \in 0..Len(l) BY <1>12, <1>14, <2>2
    <3> QED BY <1>0, <1>15, <2>0, <2>2, <3>1
  <2>3. CASE t = s /\ log'[t] = a /\ i = Len(l) + 1
    <3>1. a[i] = e BY <1>12, <1>14, <2>3
    <3>2. 1 \in 1..Len(c) /\ 0 \in 0..Len(q) BY <1>4
    <3>3. Sum(l, c, 1, "TurnEnded", g) <= Sum(l, c, 1, "UserMessage", g)
      BY <1>4, <1>5, <2>3, <3>1, <3>2 DEF InOrder
    <3>4. \A kind \in {"UserMessage", "TurnEnded"} :
            Sum(a, q, 0, kind, g) = Sum(l, c, 1, kind, g)
      BY <1>17, <2>3, <3>2
    <3>5. \A kind : Counted(q, 0, kind, g) = 0
      <4>1. 0 \in Nat /\ \A j \in 1..0 : FALSE OBVIOUS
      <4> QED BY <4>1, CountedNone
    <3>6. \A kind : Counted(a, Len(a), kind, g) \in Nat /\ Len(a) = i
      BY <1>12, <1>14, <2>3, CountedNat
    <3>7. \A kind : Sum(a, q, 0, kind, g) = Counted(a, i, kind, g)
      BY <3>5, <3>6 DEF Sum
    <3> QED BY <1>5, <2>3, <3>1, <3>3, <3>4, <3>7
  <2> QED BY <1>11, <1>12, <1>14, <2>1, <2>2, <2>3
<1> QED BY <1>9, <1>13, <1>24, <1>25, <1>26 DEF Kept

\* A process that starts has nothing recorded and is owed nothing.
LEMMA StartEnds == ASSUME EndsInv, NEW c \in Caller, StartOk(c) PROVE Kept
<1> USE DEF EndsInv, ShownInv, IInv
<1>0. PICK r, s, n, o : /\ s = op[c].s /\ n = gen + 1 /\ r = StartedRun(s, n, op[c].resume)
                        /\ o = [op[c] EXCEPT !.pc = "record", !.g = n]
  OBVIOUS
<1>1. /\ run \in [Gen -> Run] /\ op \in [Caller -> Op] /\ op[c] \in Op /\ OpGood(op[c])
      /\ log \in [Session -> Seq(Event)] /\ gen \in Nat /\ live \in [Session -> 0..MaxGen]
  BY BoundsAssumption DEF TypeOK, OpOK
<1>2. /\ op[c].pc = "start" /\ n \in Gen /\ gen' = n /\ run' = [run EXCEPT ![n] = r]
      /\ live' = [live EXCEPT ![s] = n] /\ op' = [op EXCEPT ![c] = o] /\ UNCHANGED log
  <2>1. /\ op[c].pc = "start" /\ gen < MaxGen /\ gen' = gen + 1 /\ UNCHANGED log
        /\ run' = [run EXCEPT ![gen + 1] = StartedRun(op[c].s, gen + 1, op[c].resume)]
        /\ live' = [live EXCEPT ![op[c].s] = gen + 1]
    BY Zenon DEF StartOk, store
  <2>2. op' = [op EXCEPT ![c] = [op[c] EXCEPT !.pc = "record", !.g = gen + 1]]
    BY <1>1 DEF StartOk
  <2>3. n \in Gen BY <1>0, <1>1, <2>1, BoundsAssumption DEF Gen
  <2> QED BY <1>0, <2>1, <2>2, <2>3, Zenon
<1>3. s \in Session BY <1>0, <1>1, <1>2 DEF OpGood
<1>4. o.pc = "record" /\ o.g = n BY <1>0, <1>1 DEF Op
<1>5. /\ r.s = s /\ r.chan = <<>> /\ r.wrote = <<>> /\ r.read = 0 /\ ~r.working /\ ~r.turnActive
  BY <1>0 DEF StartedRun, NotStarted
<1>6. \A h \in Gen : Owed(h)' = Owed(h) 
  <2>1. ~Owing(op[c]) /\ ~Owing(o) BY <1>2, <1>4 DEF Owing
  <2> QED BY <1>1, <1>2, <2>1, OwedSame
<1>7. Owed(n) = {} BY <1>0, <1>1 DEF Owed, Owing, Named, Inside, Op
<1>8. Blank'
  <2>1. \A h \in Gen : h > n => h > gen /\ h # n BY <1>0, <1>1, BoundsAssumption DEF Gen
  <2> QED BY <1>1, <1>2, <2>1 DEF Blank
<1>9. Named'
  <2>1. \A t \in Session : live'[t] <= n
    <3> TAKE t \in Session
    <3>1. live[t] <= gen /\ live[t] \in 0..MaxGen BY <1>1 DEF Named
    <3>2. CASE t = s BY <1>0, <1>1, <1>2, <3>2
    <3>3. CASE t # s BY <1>0, <1>1, <1>2, <3>1, <3>3, BoundsAssumption
    <3> QED BY <3>2, <3>3
  <2>2. \A t \in Session : \A i \in 1..Len(log[t]) : log[t][i].gen <= n
    <3> TAKE t \in Session
    <3> TAKE i \in 1..Len(log[t])
    <3>1. log[t][i].gen <= gen BY DEF Named
    <3>2. log[t][i].gen \in Gen
      <4>1. log[t][i] \in Event BY <1>1
      <4> QED BY <4>1 DEF Event
    <3> QED BY <1>0, <1>1, <3>1, <3>2, BoundsAssumption DEF Gen
  <2>3. \A b \in Caller : op'[b].pc \in Inside => op'[b].g <= n
    <3> TAKE b \in Caller
    <3>1. CASE b = c BY <1>0, <1>1, <1>2, <1>4, <3>1 DEF Inside
    <3>2. CASE b # c
      <4>1. op'[b] = op[b] /\ op[b].g \in 0..MaxGen BY <1>1, <1>2, <3>2 DEF Op
      <4> QED BY <1>0, <1>1, <4>1, BoundsAssumption DEF Named
    <3> QED BY <3>1, <3>2
  <2> QED BY <1>2, <2>1, <2>2, <2>3 DEF Named
<1>10. TurnsOK(r, log[s], 0, n)
  <2>1. Len(log[s]) \in Nat /\ \A i \in 1..Len(log[s]) : log[s][i].gen # n
    <3>1. \A i \in 1..Len(log[s]) : log[s][i].gen <= gen BY <1>3 DEF Named
    <3> QED BY <1>0, <1>1, <1>3, <3>1
  <2>2. \A kind : Counted(log[s], Len(log[s]), kind, n) = 0 BY <2>1, CountedNone
  <2>3. \A kind : Counted(<<>>, 0, kind, n) = 0
    <3>1. 0 \in Nat /\ \A j \in 1..0 : FALSE OBVIOUS
    <3> QED BY <3>1, CountedNone
  <2>4. \A kind : Sum(log[s], <<>>, 0, kind, n) = 0 BY <2>2, <2>3 DEF Sum
  <2>5. Len(<<>>) = 0 OBVIOUS
  <2>6. InOrder(log[s], <<>>, n) BY <2>5 DEF InOrder
  <2>7. Balanced(r, 0, 0, 0) BY <1>5, <2>5 DEF Balanced
  <2> QED BY <1>5, <2>4, <2>5, <2>6, <2>7 DEF TurnsOK
<1>11. Tally'
  <2> SUFFICES ASSUME NEW h \in Gen, run'[h].pump
               PROVE  TurnsOK(run'[h], log[run'[h].s], Cardinality(Owed(h)), h)
    BY <1>2, <1>6 DEF Tally
  <2>1. CASE h = n BY <1>1, <1>2, <1>5, <1>7, <1>10, <2>1, FS_EmptySet
  <2>2. CASE h # n BY <1>1, <1>2, <2>2 DEF Tally
  <2> QED BY <2>1, <2>2
<1>12. OwedFinite' BY <1>6 DEF OwedFinite
<1>13. EndsFollowMessages' BY <1>2 DEF EndsFollowMessages
<1> QED BY <1>8, <1>9, <1>11, <1>12, <1>13 DEF Kept

LEMMA CallEnds == ASSUME EndsInv, NEW c \in Caller, CallerStep(c) PROVE Kept
<1> USE DEF EndsInv, ShownInv, IInv
<1>1. /\ run \in [Gen -> Run] /\ op \in [Caller -> Op] /\ op[c] \in Op /\ OpGood(op[c])
      /\ UNCHANGED log /\ gen \in 0..MaxGen /\ live \in [Session -> 0..MaxGen]
      /\ log \in [Session -> Seq(Event)]
  BY DEF TypeOK, OpOK, CallerStep, EnsureLive, StartOk, StartErr, Record, Deliver, Write,
         InterruptRun, ReapCheck, Release, Shutdown, ShutdownKill, ShutdownDone, SweepAsk, store
<1>2. NoOp.pc = "idle" BY NoOpType
\* A call that moves on, without a message recorded or given to the agent.
<1>3. ASSUME NEW o, op' = [op EXCEPT ![c] = o], UNCHANGED <<run, gen>>,
             \A s \in Session : live'[s] \in {live[s], 0},
             ~Owing(op[c]), ~Owing(o), o.pc \in Inside => o.g <= gen
      PROVE  Kept
  <2>1. Named' BY <1>1, <1>3, NamedKeeps
  <2>2. \A h \in Gen : Owed(h)' = Owed(h) BY <1>1, <1>3, OwedSame
  <2> QED BY <1>1, <1>3, <2>1, <2>2, QuietEnds
<1>4. CASE EnsureLive(c)
  <2> DEFINE s == op[c].s
             o == IF live[s] # 0 THEN [op[c] EXCEPT !.pc = "record", !.g = live[s]]
                  ELSE [op[c] EXCEPT !.pc = "start", !.resume = native[s]]
  <2>1. /\ op' = [op EXCEPT ![c] = o] /\ UNCHANGED <<run, gen, live>> /\ op[c].pc = "ensure"
    BY <1>1, <1>4 DEF EnsureLive
  <2>2. s \in Session BY <1>1, <2>1 DEF OpGood
  <2>3. o.pc \in {"record", "start"} /\ (o.pc \in Inside => o.g <= gen)
    BY <1>1, <2>2 DEF Op, Named, Inside
  <2> HIDE DEF o
  <2>4. ~Owing(op[c]) /\ ~Owing(o) BY <2>1, <2>3 DEF Owing
  <2> QED BY <1>3, <2>1, <2>3, <2>4
<1>5. CASE StartErr(c) \/ ReapCheck(c) \/ ShutdownDone(c) \/ SweepAsk(c)
  <2>1. PICK o : /\ op' = [op EXCEPT ![c] = o]
                 /\ \/ o = NoOp
                    \/ o = [op[c] EXCEPT !.pc = "release"]
    BY <1>5 DEF StartErr, ReapCheck, ShutdownDone, SweepAsk
  <2>2. o.pc \in {"idle", "release"} BY <1>1, <1>2, <2>1 DEF Op
  <2>3. UNCHANGED <<run, gen, live>> /\ op[c].pc \in {"start", "check", "wait", "ask"}
    BY <1>5 DEF StartErr, ReapCheck, ShutdownDone, SweepAsk
  <2>4. ~Owing(op[c]) /\ ~Owing(o) /\ o.pc \notin Inside BY <2>2, <2>3 DEF Owing, Inside
  <2> QED BY <1>3, <2>1, <2>3, <2>4
<1>6. CASE Release(c)
  <2> DEFINE s == op[c].s
             o == IF live[s] = 0 THEN NoOp ELSE [op[c] EXCEPT !.pc = "shutdown", !.g = live[s]]
  <2>1. /\ op' = [op EXCEPT ![c] = o] /\ UNCHANGED <<run, gen>> /\ op[c].pc = "release"
        /\ live' = [live EXCEPT ![s] = 0]
    BY <1>1, <1>6 DEF Release
  <2>2. s \in Session BY <1>1, <2>1 DEF OpGood
  <2>3. o.pc \in {"idle", "shutdown"} /\ (o.pc \in Inside => o.g <= gen)
    BY <1>1, <1>2, <2>2 DEF Op, Named, Inside
  <2>4. \A t \in Session : live'[t] \in {live[t], 0} BY <1>1, <2>1
  <2> HIDE DEF o
  <2>5. ~Owing(op[c]) /\ ~Owing(o) BY <2>1, <2>3 DEF Owing
  <2> QED BY <1>3, <2>1, <2>3, <2>4, <2>5
<1>0. PICK g, d : g = op[c].g /\ d = Cardinality(Owed(g)) OBVIOUS
\* A call that changes the run it is for.
<1>7. ASSUME op[c].pc \in Inside
      PROVE  /\ g \in Gen /\ run[g] \in Run /\ g <= gen /\ IsFiniteSet(Owed(g)) /\ d \in Nat
             /\ run[g].pump => /\ run[g].s \in Session /\ log[run[g].s] \in Seq(Event)
                               /\ TurnsOK(run[g], log[run[g].s], d, g)
  <2>1. g \in Gen BY <1>0, <1>1, <1>7 DEF OpGood, Inside
  <2>2. g <= gen BY <1>0, <1>7 DEF Named
  <2> QED BY <1>0, <2>1, <2>2, RunKnown
<1>8. CASE Shutdown(c) \/ ShutdownKill(c)
  <2>1. PICK q : /\ run' = [run EXCEPT ![g] = q]
                 /\ \/ Shutdown(c) /\ q = [run[g] EXCEPT !.shuttingDown = TRUE, !.stdin = FALSE]
                    \/ ShutdownKill(c) /\ q = [run[g] EXCEPT !.proc = "exited"]
    <3>1. Shutdown(c) =>
            run' = [run EXCEPT ![g] = [run[g] EXCEPT !.shuttingDown = TRUE, !.stdin = FALSE]]
      BY <1>0, Zenon DEF Shutdown
    <3>2. ShutdownKill(c) => run' = [run EXCEPT ![g] = [run[g] EXCEPT !.proc = "exited"]]
      BY <1>0, Zenon DEF ShutdownKill
    <3> QED BY <1>8, <3>1, <3>2
  <2>2. /\ op[c].pc \in {"shutdown", "wait"} /\ UNCHANGED <<live, gen>>
        /\ UNCHANGED op \/ op' = [op EXCEPT ![c] = [op[c] EXCEPT !.pc = "wait"]]
    BY <1>8 DEF Shutdown, ShutdownKill
  <2>3. [op[c] EXCEPT !.pc = "wait"].pc = "wait" /\ [op[c] EXCEPT !.pc = "wait"].g = g
    BY <1>0, <1>1 DEF Op
  <2>4. /\ g \in Gen /\ run[g] \in Run /\ g <= gen /\ IsFiniteSet(Owed(g))
        /\ run[g].pump => /\ run[g].s \in Session /\ log[run[g].s] \in Seq(Event)
                          /\ TurnsOK(run[g], log[run[g].s], d, g)
    BY <1>7, <2>2 DEF Inside
  <2>5. Named'
    <3>1. op' = [op EXCEPT ![c] = [op[c] EXCEPT !.pc = "wait"]] => Named'
      BY <1>1, <2>2, <2>3, <2>4, NamedKeeps
    <3> QED BY <1>1, <2>2, <3>1, NamedKeeps
  <2>6. \A h \in Gen : Owed(h)' = Owed(h)
    <3>1. CASE UNCHANGED op BY <3>1 DEF Owed, Owing
    <3>2. CASE op' = [op EXCEPT ![c] = [op[c] EXCEPT !.pc = "wait"]]
      <4>1. ~Owing(op[c]) /\ ~Owing([op[c] EXCEPT !.pc = "wait"]) BY <2>2, <2>3 DEF Owing
      <4> QED BY <1>1, <2>2, <3>2, <4>1, OwedSame
    <3> QED BY <2>2, <3>1, <3>2
  <2>7. q \in Run BY <2>1, <2>4, RunFields
  <2>8. /\ q.read = run[g].read /\ q.wrote = run[g].wrote /\ q.reader = run[g].reader
        /\ q.turnActive = run[g].turnActive /\ q.pump = run[g].pump /\ q.s = run[g].s
        /\ q.chan = run[g].chan /\ q.working = run[g].working
    BY <2>1, <2>4 DEF Run
  <2>9. \A m, t \in Nat : Balanced(run[g], d, m, t) => Balanced(q, d, m, t)
    BY <2>8 DEF Balanced
  <2>10. q.pump => TurnsOK(q, log[q.s], Cardinality(Owed(g)'), g)
    BY <1>0, <2>4, <2>6, <2>7, <2>8, <2>9, MoveTurns
  <2> QED BY <1>1, <2>1, <2>2, <2>4, <2>5, <2>6, <2>10, OneEnds
<1>9. CASE Record(c)
  <2> DEFINE e == OpEvent(op[c])
             o == [op[c] EXCEPT !.pc = "deliver"]
             d2 == d + (IF op[c].kind = "send" THEN 1 ELSE 0)
  <2>1. /\ op[c].pc = "record" /\ UNCHANGED <<live, gen>>
        /\ run' = [run EXCEPT ![g] = Emit(run[g], e)] /\ op' = [op EXCEPT ![c] = o]
    BY <1>0, <1>9, Zenon DEF Record
  <2>2. /\ g \in Gen /\ run[g] \in Run /\ g <= gen /\ IsFiniteSet(Owed(g)) /\ d \in Nat
        /\ run[g].pump => /\ run[g].s \in Session /\ log[run[g].s] \in Seq(Event)
                          /\ TurnsOK(run[g], log[run[g].s], d, g)
    BY <1>7, <2>1 DEF Inside
  <2>3. o.pc = "deliver" /\ o.g = g /\ o.kind = op[c].kind BY <1>0, <1>1 DEF Op
  <2>4. e \in Event BY <1>0, <1>1, <2>1, <2>2, EventTypes DEF OpEvent, OpGood
  <2>5. e.gen = g /\ (e.kind = "UserMessage" <=> op[c].kind = "send") /\ e.kind # "TurnEnded"
    BY <1>0 DEF OpEvent
  <2> HIDE DEF e, o
  <2>6. Named' BY <1>1, <2>1, <2>2, <2>3, NamedKeeps
  <2>7. \A h \in Gen : h # g => Owed(h)' = Owed(h)
    BY <1>0, <1>1, <2>1, <2>3 DEF Owed, Owing
  <2>8. Owed(g)' = IF op[c].kind = "send" THEN Owed(g) \cup {c} ELSE Owed(g)
    BY <1>1, <2>1, <2>3 DEF Owed, Owing
  <2>9. c \notin Owed(g) BY <2>1 DEF Owed, Owing
  <2>10. IsFiniteSet(Owed(g)') /\ Cardinality(Owed(g)') = d2
    <3>1. IsFiniteSet(Owed(g) \cup {c}) /\ Cardinality(Owed(g) \cup {c}) = d + 1
      BY <1>0, <2>2, <2>9, FS_AddElement
    <3> QED BY <1>0, <2>2, <2>8, <3>1
  <2>11. \A m, t \in Nat : Balanced(run[g], d, m, t) =>
           Balanced(run[g], d2, m + (IF e.kind = "UserMessage" THEN 1 ELSE 0),
                                t + (IF e.kind = "TurnEnded" THEN 1 ELSE 0))
    <3>1. Len(run[g].wrote) \in Nat /\ run[g].read \in Nat BY <2>2 DEF Run
    <3>2. CASE op[c].kind = "send"
      <4>1. d2 = d + 1 /\ e.kind = "UserMessage" BY <2>5, <3>2
      <4> QED BY <2>2, <3>1, <4>1 DEF Balanced
    <3>3. CASE op[c].kind # "send"
      <4>1. d2 = d /\ e.kind # "UserMessage" /\ e.kind # "TurnEnded" BY <2>2, <2>5, <3>3
      <4> HIDE DEF d2
      <4>2. \A m \in Nat : /\ m + (IF e.kind = "UserMessage" THEN 1 ELSE 0) = m
                          /\ m + (IF e.kind = "TurnEnded" THEN 1 ELSE 0) = m
        BY <4>1
      <4> QED BY <4>1, <4>2
    <3> QED BY <3>2, <3>3
  <2>12. d2 \in Nat BY <2>2
  <2>13. Emit(run[g], e).pump = run[g].pump /\ Emit(run[g], e).s = run[g].s
    BY <2>2, <2>4, EmitKeeps, EmitRun
  <2> HIDE DEF d2
  <2>14. run[g].pump => TurnsOK(Emit(run[g], e), log[run[g].s], d2, g)
    BY <2>2, <2>4, <2>5, <2>11, <2>12, EmitMoves
  <2>15. PICK q : q = Emit(run[g], e) OBVIOUS
  <2>16. q.pump => TurnsOK(q, log[q.s], Cardinality(Owed(g)'), g) BY <2>10, <2>13, <2>14, <2>15
  <2>17. run' = [run EXCEPT ![g] = q] BY <2>1, <2>15
  <2> QED BY <1>1, <2>1, <2>2, <2>6, <2>7, <2>10, <2>16, <2>17, OneEnds
<1>10. CASE Deliver(c)
  <2>1. op[c].pc = "deliver" /\ UNCHANGED <<live, gen>> BY <1>10 DEF Deliver
  <2>2. /\ g \in Gen /\ run[g] \in Run /\ g <= gen /\ IsFiniteSet(Owed(g)) /\ d \in Nat
        /\ run[g].pump => /\ run[g].s \in Session /\ log[run[g].s] \in Seq(Event)
                          /\ TurnsOK(run[g], log[run[g].s], d, g)
    BY <1>7, <2>1 DEF Inside
  <2>3. PICK o : /\ op' = [op EXCEPT ![c] = o]
                 /\ \/ o = [op[c] EXCEPT !.pc = "write"]
                    \/ o = NoOp /\ op[c].kind # "send"
    BY <1>10 DEF Deliver
  <2>4. /\ o.pc \in {"write", "idle"} /\ (o.pc = "write" => o.g = g)
        /\ Owing(o) <=> Owing(op[c])
        /\ Owing(o) => o.g = g
    BY <1>0, <1>1, <1>2, <2>1, <2>3 DEF Op, Owing
  <2>5. Named'
    <3>1. o.pc \in Inside => o.g <= gen BY <2>2, <2>4 DEF Inside
    <3> QED BY <1>1, <2>1, <2>3, <3>1, NamedKeeps
  <2>6. \A h \in Gen : Owed(h)' = Owed(h) BY <1>0, <1>1, <2>3, <2>4 DEF Owed
  <2>7. PICK x : /\ x = run[g].pending \ {op[c].arg}
                 /\ run' = [run EXCEPT ![g] =
                       IF op[c].kind = "send"
                       THEN [run[g] EXCEPT !.turnActive = TRUE, !.interruptRequested = FALSE]
                       ELSE [run[g] EXCEPT !.pending = x]]
    BY <1>0, <1>10, Zenon DEF Deliver, ClaudeSend, ClaudeAnswer
  <2> DEFINE q == IF op[c].kind = "send"
                  THEN [run[g] EXCEPT !.turnActive = TRUE, !.interruptRequested = FALSE]
                  ELSE [run[g] EXCEPT !.pending = x]
  <2>8. x \in SUBSET (1..MaxApproval) BY <2>2, <2>7 DEF Run
  <2>9. q \in Run BY <2>2, <2>8, RunFields
  <2>10. /\ q.pump = run[g].pump /\ q.s = run[g].s /\ q.chan = run[g].chan
         /\ q.read = run[g].read /\ q.reader = run[g].reader
         /\ q.working = run[g].working /\ q.wrote = run[g].wrote
         /\ op[c].kind # "send" => q.turnActive = run[g].turnActive
    BY <2>2 DEF Run
  <2>11. run' = [run EXCEPT ![g] = q] BY <2>7
  <2> HIDE DEF q
  <2>12. op[c].kind = "send" => d >= 1
    <3> SUFFICES ASSUME op[c].kind = "send" PROVE d >= 1 OBVIOUS
    <3>1. c \in Owed(g) BY <1>0, <2>1 DEF Owed, Owing
    <3>2. Owed(g) # {} BY <3>1
    <3> QED BY <1>0, <2>2, <3>2, FS_EmptySet
  <2>13. \A m, t \in Nat : Balanced(run[g], d, m, t) => Balanced(q, d, m, t)
    <3>1. Len(run[g].wrote) \in Nat /\ run[g].read \in Nat BY <2>2 DEF Run
    <3>2. CASE op[c].kind = "send" BY <2>2, <2>10, <2>12, <3>1, <3>2 DEF Balanced
    <3>3. CASE op[c].kind # "send" BY <2>2, <2>10, <3>1, <3>3 DEF Balanced
    <3> QED BY <3>2, <3>3
  <2>14. q.pump => TurnsOK(q, log[q.s], Cardinality(Owed(g)'), g)
    BY <1>0, <2>2, <2>6, <2>9, <2>10, <2>13, MoveTurns
  <2> QED BY <1>1, <2>1, <2>2, <2>5, <2>6, <2>11, <2>14, OneEnds
<1>11. CASE StartOk(c) BY <1>11, StartEnds
<1>12. CASE Write(c)
  <2> DEFINE d2 == d - (IF op[c].kind = "send" THEN 1 ELSE 0)
             o == Return(op[c])
  <2>1. /\ op[c].pc = "write" /\ UNCHANGED <<live, gen>> /\ op' = [op EXCEPT ![c] = o]
    BY <1>12 DEF Write
  <2>2. /\ g \in Gen /\ run[g] \in Run /\ g <= gen /\ IsFiniteSet(Owed(g)) /\ d \in Nat
        /\ run[g].pump => /\ run[g].s \in Session /\ log[run[g].s] \in Seq(Event)
                          /\ TurnsOK(run[g], log[run[g].s], d, g)
    BY <1>7, <2>1 DEF Inside
  <2>3. o.pc \in {"idle", "release"} BY <1>1, <2>1, ReturnType
  <2>4. PICK w : /\ run' = [run EXCEPT ![g] = [run[g] EXCEPT !.wrote = w]]
                 /\ w = IF op[c].kind = "send" /\ run[g].stdin /\ run[g].proc = "up"
                        THEN Append(run[g].wrote, op[c].arg) ELSE run[g].wrote
    BY <1>0, <1>12, Zenon DEF Write, Piped
  <2> DEFINE q == [run[g] EXCEPT !.wrote = w]
  <2>5. run[g].wrote \in Seq(1..MaxMsg) /\ Len(run[g].wrote) \in Nat /\ run[g].read \in Nat
    BY <2>2 DEF Run
  <2>6. /\ w \in Seq(1..MaxMsg)
        /\ IF op[c].kind = "send" THEN Len(w) \in {Len(run[g].wrote), Len(run[g].wrote) + 1}
           ELSE w = run[g].wrote
    <3>1. CASE op[c].kind = "send"
      <4>1. op[c].arg \in 1..MaxMsg BY <1>1, <2>1, <3>1 DEF OpGood
      <4>2. PICK v, y : v = run[g].wrote /\ y = op[c].arg OBVIOUS
      <4>3. Append(v, y) \in Seq(1..MaxMsg) /\ Len(Append(v, y)) = Len(v) + 1
        BY <2>5, <4>1, <4>2
      <4> QED BY <2>4, <2>5, <3>1, <4>2, <4>3
    <3>2. CASE op[c].kind # "send" BY <2>4, <2>5, <3>2
    <3> QED BY <3>1, <3>2
  <2>7. q \in Run BY <2>2, <2>6, RunFields
  <2>8. /\ q.pump = run[g].pump /\ q.s = run[g].s /\ q.chan = run[g].chan
        /\ q.read = run[g].read /\ q.reader = run[g].reader /\ q.working = run[g].working
        /\ q.wrote = w /\ q.turnActive = run[g].turnActive
    BY <2>2 DEF Run
  <2>9. run' = [run EXCEPT ![g] = q] BY <2>4
  <2> HIDE DEF q, o
  <2>10. Named'
    <3>1. o.pc \notin Inside BY <2>3 DEF Inside
    <3> QED BY <1>1, <2>1, <3>1, NamedKeeps
  <2>11. ~Owing(o) BY <2>3 DEF Owing
  <2>12. \A h \in Gen : h # g => Owed(h)' = Owed(h) BY <1>0, <1>1, <2>1, <2>11 DEF Owed
  <2>13. Owed(g)' = IF op[c].kind = "send" THEN Owed(g) \ {c} ELSE Owed(g)
    BY <1>1, <2>1, <2>11 DEF Owed, Owing
  <2>14. op[c].kind = "send" => c \in Owed(g) BY <1>0, <2>1 DEF Owed, Owing
  <2>15. IsFiniteSet(Owed(g)') /\ Cardinality(Owed(g)') = d2
    <3>1. op[c].kind = "send" => /\ IsFiniteSet(Owed(g) \ {c})
                                 /\ Cardinality(Owed(g) \ {c}) = d - 1
      BY <1>0, <2>2, <2>14, FS_RemoveElement
    <3> QED BY <1>0, <2>2, <2>13, <3>1
  <2>16. \A m, t \in Nat : Balanced(run[g], d, m, t) => Balanced(q, d2, m, t)
    <3>1. CASE op[c].kind = "send"
      <4>1. Len(w) <= Len(run[g].wrote) + 1 /\ Len(w) >= Len(run[g].wrote) /\ Len(w) \in Nat
        BY <2>5, <2>6, <3>1
      <4>2. d2 = d - 1 /\ q.wrote = w BY <2>8, <3>1
      <4> QED BY <2>2, <2>5, <2>8, <4>1, <4>2 DEF Balanced
    <3>2. CASE op[c].kind # "send"
      <4>1. w = run[g].wrote BY <2>6, <3>2
      <4> QED BY <2>2, <2>5, <2>8, <3>2, <4>1 DEF Balanced
    <3> QED BY <3>1, <3>2
  <2> HIDE DEF d2
  <2>17. q.pump => TurnsOK(q, log[q.s], Cardinality(Owed(g)'), g)
    BY <2>2, <2>7, <2>8, <2>15, <2>16, MoveTurns
  <2> QED BY <1>1, <2>1, <2>2, <2>9, <2>10, <2>12, <2>15, <2>17, OneEnds
<1>13. CASE InterruptRun(c)
  <2>1. op[c].pc = "interrupt" /\ UNCHANGED <<live, gen>> BY <1>13 DEF InterruptRun
  <2>2. /\ g \in Gen /\ run[g] \in Run /\ g <= gen /\ IsFiniteSet(Owed(g)) /\ d \in Nat
        /\ run[g].pump => /\ run[g].s \in Session /\ log[run[g].s] \in Seq(Event)
                          /\ TurnsOK(run[g], log[run[g].s], d, g)
    BY <1>7, <2>1 DEF Inside
  <2>3. PICK o : /\ op' = [op EXCEPT ![c] = o]
                 /\ o \in {Return(op[c]), [op[c] EXCEPT !.pc = "write"]}
    BY <1>13 DEF InterruptRun
  <2>4. /\ ~Owing(op[c]) /\ ~Owing(o) /\ (o.pc \in Inside => o.g <= gen)
    <3>1. op[c].kind \in {"interrupt", "end"} BY <1>1, <2>1 DEF OpGood
    <3>2. CASE o = Return(op[c])
      <4>1. o.pc \in {"idle", "release"} BY <1>1, <2>1, <3>2, ReturnType
      <4> QED BY <2>1, <4>1 DEF Owing, Inside
    <3>3. CASE o = [op[c] EXCEPT !.pc = "write"]
      <4>1. o.kind = op[c].kind /\ o.g = g BY <1>0, <1>1, <3>3 DEF Op
      <4> QED BY <2>1, <2>2, <3>1, <4>1 DEF Owing
    <3> QED BY <2>3, <3>2, <3>3
  <2>5. Named' BY <1>1, <2>1, <2>3, <2>4, NamedKeeps
  <2>6. \A h \in Gen : Owed(h)' = Owed(h) BY <1>1, <2>3, <2>4, OwedSame
  <2>7. PICK q : run' = [run EXCEPT ![g] = q] /\ q = ClaudeInterrupt(run[g])
    BY <1>0, <1>13, Zenon DEF InterruptRun
  <2>8. /\ q \in Run
        /\ q.read = run[g].read /\ q.wrote = run[g].wrote /\ q.reader = run[g].reader
        /\ q.turnActive = run[g].turnActive /\ q.pump = run[g].pump /\ q.s = run[g].s
        /\ q.chan = run[g].chan /\ q.working = run[g].working
    <3>1. PICK b \in BOOLEAN : q = [run[g] EXCEPT !.interruptRequested = b]
      BY <2>2, <2>7 DEF ClaudeInterrupt, Run
    <3>2. q \in Run BY <2>2, <3>1, RunFields
    <3> QED BY <2>2, <3>1, <3>2 DEF Run
  <2>9. \A m, t \in Nat : Balanced(run[g], d, m, t) => Balanced(q, d, m, t)
    BY <2>8 DEF Balanced
  <2>10. q.pump => TurnsOK(q, log[q.s], Cardinality(Owed(g)'), g)
    BY <1>0, <2>2, <2>6, <2>8, <2>9, MoveTurns
  <2> QED BY <1>1, <2>1, <2>2, <2>5, <2>6, <2>7, <2>10, OneEnds
<1> QED BY <1>4, <1>5, <1>6, <1>8, <1>9, <1>10, <1>11, <1>12, <1>13 DEF CallerStep

\* A pump that ends, and what calls, timers and clients do to a run and the registry.
LEMMA PumpExitEnds == ASSUME EndsInv, NEW g \in Gen, PumpExit(g) PROVE Kept
<1> USE DEF EndsInv, ShownInv, IInv
<1>1. PICK q : q = [run[g] EXCEPT !.pump = FALSE] OBVIOUS
<1>2. run[g] \in Run /\ IsFiniteSet(Owed(g)) /\ run[g].pump /\ g <= gen
  <2>1. run[g].pump BY DEF PumpExit
  <2> QED BY <2>1, RunKnown
<1>3. run' = [run EXCEPT ![g] = q] /\ UNCHANGED <<log, gen, op>> /\ ~q.pump
  BY <1>1, <1>2 DEF PumpExit, store, Run
<1>4. \A s \in Session : live'[s] \in {live[s], 0} BY DEF PumpExit, Unregister, TypeOK
<1>5. Named' BY <1>3, <1>4, NamedKeeps
<1>6. \A h \in Gen : Owed(h)' = Owed(h) BY <1>3 DEF Owed
<1> QED BY <1>2, <1>3, <1>5, <1>6, OneEnds

LEMMA EntryEnds ==
    ASSUME EndsInv,
           \/ \E c \in Caller, s \in Session :
                 \/ Send(c, s) \/ Interrupt(c, s) \/ ReapScan(c, s) \/ EndMember(c, s)
                 \/ \E a \in 1..MaxApproval : Answer(c, s, a)
           \/ \E c \in Caller : Sweep(c)
           \/ \E s \in Session : Lease(s) \/ LeaseEnds(s) \/ IdlePasses(s)
    PROVE  Kept
<1> USE DEF EndsInv, ShownInv, IInv
<1>1. /\ op \in [Caller -> Op] /\ UNCHANGED <<run, log, live, gen>> /\ gen \in 0..MaxGen
  BY DEF TypeOK, Send, Interrupt, ReapScan, EndMember, Answer, Sweep, Lease, LeaseEnds,
         IdlePasses, store
<1>2. \/ UNCHANGED op
      \/ \E c \in Caller : \E o :
            /\ op' = [op EXCEPT ![c] = o] /\ op[c].pc = "idle"
            /\ o.pc \notin {"deliver", "write"} /\ o.g <= gen
  <2>1. ASSUME NEW c \in Caller, NEW s \in Session,
               \/ Send(c, s) \/ Interrupt(c, s) \/ ReapScan(c, s) \/ EndMember(c, s)
               \/ \E a \in 1..MaxApproval : Answer(c, s, a)
        PROVE  \E o : /\ op' = [op EXCEPT ![c] = o] /\ op[c].pc = "idle"
                      /\ o.pc \notin {"deliver", "write"} /\ o.g <= gen
    <3>1. op[c].pc = "idle" BY <2>1 DEF Send, Interrupt, ReapScan, EndMember, Answer
    <3>2. live[s] <= gen /\ 0 <= gen BY <1>1, BoundsAssumption DEF Named
    <3>3. \A pc, kind, g, arg : Call(pc, kind, s, g, arg).pc = pc /\ Call(pc, kind, s, g, arg).g = g
      BY DEF Call
    <3>4. Send(c, s) => op' = [op EXCEPT ![c] = Call("ensure", "send", s, 0, count.msg + 1)]
      BY DEF Send
    <3>5. ReapScan(c, s) => op' = [op EXCEPT ![c] = Call("check", "reap", s, 0, 0)]
      BY DEF ReapScan
    <3>6. EndMember(c, s) =>
            \/ op' = [op EXCEPT ![c] = Call("release", "end", s, 0, 0)]
            \/ op' = [op EXCEPT ![c] = Call("interrupt", "end", s, live[s], 0)]
      BY DEF EndMember
    <3>7. Interrupt(c, s) =>
            op' = [op EXCEPT ![c] = Call("interrupt", "interrupt", s, live[s], 0)]
      BY DEF Interrupt
    <3>8. ASSUME NEW a \in 1..MaxApproval, Answer(c, s, a)
          PROVE  op' = [op EXCEPT ![c] = Call("record", "answer", s, live[s], a)]
      BY <3>8 DEF Answer
    <3>9. PICK o : /\ op' = [op EXCEPT ![c] = o] /\ o.g \in {0, live[s]}
                   /\ o.pc \notin {"deliver", "write"}
      BY <2>1, <3>3, <3>4, <3>5, <3>6, <3>7, <3>8
    <3>10. o.g <= gen BY <3>2, <3>9
    <3> QED BY <3>1, <3>9, <3>10
  <2>2. ASSUME NEW c \in Caller, Sweep(c)
        PROVE  \E o : /\ op' = [op EXCEPT ![c] = o] /\ op[c].pc = "idle"
                      /\ o.pc \notin {"deliver", "write"} /\ o.g <= gen
    <3>1. PICK o : /\ op' = [op EXCEPT ![c] = o] /\ op[c].pc = "idle"
                   /\ o = Call("ask", "sweep", None, 0, 0)
      BY <2>2 DEF Sweep
    <3>2. o.pc = "ask" /\ o.g = 0 BY <3>1 DEF Call
    <3>3. o.g <= gen BY <1>1, <3>2, BoundsAssumption
    <3> QED BY <3>1, <3>2, <3>3
  <2> QED BY <2>1, <2>2 DEF Lease, LeaseEnds, IdlePasses
<1>3. Named' BY <1>1, <1>2, NamedKeeps
<1>4. \A h \in Gen : Owed(h)' = Owed(h)
  <2>1. CASE UNCHANGED op BY <2>1 DEF Owed
  <2>2. ASSUME NEW c \in Caller, NEW o, op' = [op EXCEPT ![c] = o], op[c].pc = "idle",
               o.pc \notin {"deliver", "write"}
        PROVE  \A h \in Gen : Owed(h)' = Owed(h)
    <3>1. ~Owing(op[c]) /\ ~Owing(o) BY <2>2 DEF Owing
    <3> QED BY <1>1, <2>2, <3>1, OwedSame
  <2> QED BY <1>2, <2>1, <2>2
<1> QED BY <1>1, <1>3, <1>4, QuietEnds

\* Nothing is owed by a server that has just started.
LEMMA RestartEnds == ASSUME EndsInv, Restart PROVE Kept
<1> USE DEF EndsInv, ShownInv, IInv
<1>1. /\ run \in [Gen -> Run] /\ log \in [Session -> Seq(Event)] /\ UNCHANGED <<log, gen>>
      /\ live' = [s \in Session |-> 0] /\ op' = [c \in Caller |-> NoOp] /\ gen \in 0..MaxGen
  BY DEF TypeOK, Restart
<1>2. NoOp.pc = "idle" BY NoOpType
<1>3. ASSUME NEW g \in Gen
      PROVE  /\ run[g].proc = "none" => run'[g] = run[g]
             /\ run'[g].pump => run'[g] = run[g]
  <2>1. run[g].proc = "none" => run'[g] = run[g] BY DEF Restart
  <2>2. ASSUME run[g].proc # "none" PROVE ~run'[g].pump
    <3>1. run'[g] = [run[g] EXCEPT !.proc = "exited", !.stdin = FALSE, !.reader = FALSE,
                                   !.pump = FALSE, !.chan = <<>>]
      BY <2>2 DEF Restart
    <3> QED BY <1>1, <3>1 DEF Run
  <2> QED BY <2>1, <2>2
<1>4. \A g \in Gen : Owed(g)' = {} BY <1>1, <1>2 DEF Owed, Owing
<1>5. Blank'
  <2>1. \A g \in Gen : run[g] = NotStarted => run'[g] = NotStarted BY <1>3 DEF NotStarted
  <2> QED BY <1>1, <2>1 DEF Blank
<1>6. Named'
  <2>1. 0 <= gen BY <1>1, BoundsAssumption
  <2> QED BY <1>1, <1>2, <2>1 DEF Named, Inside
<1>7. OwedFinite' BY <1>4, FS_EmptySet DEF OwedFinite
<1>8. Tally'
  <2> SUFFICES ASSUME NEW g \in Gen, run'[g].pump
               PROVE  TurnsOK(run'[g], log[run'[g].s], 0, g)
    BY <1>1, <1>4, FS_EmptySet DEF Tally
  <2>1. PICK d : d = Cardinality(Owed(g)) OBVIOUS
  <2>2. /\ run'[g] = run[g] /\ run[g] \in Run /\ d \in Nat /\ log[run[g].s] \in Seq(Event)
        /\ TurnsOK(run[g], log[run[g].s], d, g)
    BY <1>3, <2>1, RunKnown
  <2>3. Len(run[g].wrote) \in Nat BY <2>2 DEF Run
  <2>4. \A m, t \in Nat : Balanced(run[g], d, m, t) => Balanced(run[g], 0, m, t)
    BY <2>2, <2>3 DEF Balanced
  <2>5. TurnsOK(run[g], log[run[g].s], 0, g) BY <2>2, <2>4, MoveTurns
  <2> QED BY <2>2, <2>5
<1>9. EndsFollowMessages' BY <1>1 DEF EndsFollowMessages
<1> QED BY <1>5, <1>6, <1>7, <1>8, <1>9 DEF Kept

LEMMA EndsStep == EndsInv /\ [Next]_vars => EndsInv'
<1> SUFFICES ASSUME EndsInv, [Next]_vars PROVE EndsInv' OBVIOUS
<1>1. ShownInv' BY ShownStep DEF EndsInv
<1>2. Kept
  <2>1. CASE UNCHANGED vars
    <3>1. UNCHANGED <<run, log, gen, op, live>> BY <2>1 DEF vars
    <3>2. \A h \in Gen : Owed(h)' = Owed(h) BY <3>1 DEF Owed
    <3>3. Named' BY <3>1, NamedKeeps
    <3> QED BY <3>1, <3>2, <3>3, QuietEnds
  <2>2. ASSUME NEW c \in Caller, NEW s \in Session,
               \/ Send(c, s) \/ Interrupt(c, s) \/ ReapScan(c, s) \/ EndMember(c, s)
               \/ \E a \in 1..MaxApproval : Answer(c, s, a)
        PROVE  Kept
    BY <2>2, EntryEnds
  <2>3. ASSUME NEW c \in Caller, Sweep(c) \/ CallerStep(c) PROVE Kept
    BY <2>3, CallEnds, EntryEnds
  <2>4. ASSUME NEW s \in Session, Lease(s) \/ LeaseEnds(s) \/ IdlePasses(s) PROVE Kept
    BY <2>4, EntryEnds
  <2>5. ASSUME NEW g \in Gen, Pump(g) \/ PumpExit(g) \/ AgentStep(g) \/ ReaderEof(g)
        PROVE  Kept
    BY <2>5, PumpEnds, PumpExitEnds, AgentEnds
  <2>6. CASE Restart BY <2>6, RestartEnds
  <2> QED BY <2>1, <2>2, <2>3, <2>4, <2>5, <2>6 DEF Next
<1> QED BY <1>1, <1>2 DEF EndsInv, Kept

LEMMA EndsInit == Init => EndsInv
<1> SUFFICES ASSUME Init PROVE EndsInv OBVIOUS
<1>1. ShownInv
  <2>1. PumpOK /\ PendingIsShown BY DEF Init, NotStarted, PumpOK, PendingIsShown
  <2> QED BY <2>1, InitIInv DEF ShownInv
<1>2. Blank BY DEF Init, Blank
<1>3. Named
  <2>1. \A s \in Session : live[s] = 0 /\ Len(log[s]) = 0 BY DEF Init
  <2>2. \A c \in Caller : op[c].pc = "idle" BY NoOpType DEF Init
  <2>3. gen = 0 BY DEF Init
  <2> QED BY <2>1, <2>2, <2>3 DEF Named, Inside
<1>4. \A g \in Gen : Owed(g) = {} BY NoOpType DEF Init, Owed, Owing
<1>5. OwedFinite BY <1>4, FS_EmptySet DEF OwedFinite
<1>6. Tally BY DEF Init, NotStarted, Tally
<1>7. EndsFollowMessages
  <2>1. \A s \in Session : Len(log[s]) = 0 BY DEF Init
  <2> QED BY <2>1 DEF EndsFollowMessages
<1> QED BY <1>1, <1>2, <1>3, <1>5, <1>6, <1>7 DEF EndsInv

(* The transcript never shows the end of a turn before the message that    *)
(* began it, however calls, restarts, exits and cancelled requests mix:    *)
(* a process ends a turn only for a message it was given, and             *)
(* Sessions::send has put that message into the channel before.            *)
THEOREM SessionsEndsFollow == Spec => []EndsFollowMessages
<1>1. EndsInv => EndsFollowMessages BY DEF EndsInv
<1> QED BY <1>1, EndsInit, EndsStep, PTL DEF Spec
-----------------------------------------------------------------------------
(* The conversation is kept.  A run talks while its pump is there and it   *)
(* may yet say something that ends a turn or names a native session.       *)

Holds(q, kinds) == \E i \in 1..Len(q) : q[i].kind \in kinds
Talking(g) ==
    run[g].pump /\ (run[g].reader \/ Holds(run[g].chan, {"TurnEnded", "NativeSession"}))

\* Its session cannot be found idle: a message to it is stored, ahead, or about to be sent.
Begun(g) ==
    \/ status[run[g].s] \in Busy
    \/ Holds(run[g].chan, {"UserMessage"})
    \/ \E c \in Caller : /\ op[c].pc = "record" /\ op[c].kind = "send"
                         /\ op[c].g = g /\ op[c].s = run[g].s

\* Runs, the registry and calls name each other's sessions.
Matched ==
    /\ \A g \in Gen : run[g].pump => run[g].proc # "none"
    /\ \A s \in Session : live[s] # 0 => run[live[s]].s = s
    /\ \A c \in Caller : op[c].pc = "record" => run[op[c].g].s = op[c].s

\* There is one reaper, and nobody else releases: what it looks at stays registered.
OneReaper ==
    /\ \A c, d \in Caller : op[c].kind = "reap" /\ op[d].kind = "reap" => c = d
    /\ \A c \in Caller : op[c].pc \in {"check", "release"} =>
          op[c].kind = "reap" /\ live[op[c].s] # 0
    /\ \A c \in Caller : op[c].kind # "end"

\* A session with a message on its way is not quiet.
NotQuiet ==
    /\ \A c \in Caller : op[c].kind = "send" /\ op[c].pc \in {"ensure", "start", "record"} =>
          op[c].s \notin quiet
    /\ \A g \in Gen : run[g].pump /\ Holds(run[g].chan, {"UserMessage"}) => run[g].s \notin quiet

\* What a run names is its own native session, and it does so before it ends a turn, unless it
\* is the reader that reports the end, which is the last it does.
NamesOwn(r) ==
    \A i \in 1..Len(r.chan) : r.chan[i].kind = "NativeSession" => r.chan[i].native = r.native
NamesFirst(r) ==
    /\ r.working => Holds(r.chan, {"NativeSession"})
    /\ \A i \in 1..Len(r.chan) : r.chan[i].kind = "TurnEnded" =>
          \/ \E j \in 1..(i - 1) : r.chan[j].kind = "NativeSession"
          \/ /\ ~r.reader
             /\ \A k \in (i + 1)..Len(r.chan) : r.chan[k].kind \notin {"TurnEnded", "NativeSession"}
Announced ==
    \A g \in Gen : run[g].pump =>
        NamesOwn(run[g]) /\ (native[run[g].s] = 0 => NamesFirst(run[g]))

\* All that talk for a session know its native session; while it is unknown, only one talks.
Agreed ==
    \A g \in Gen : Talking(g) => IF native[run[g].s] = 0 THEN live[run[g].s] = g /\ Begun(g)
                                 ELSE run[g].native = native[run[g].s]
Resumes == \A c \in Caller : op[c].pc = "start" => op[c].resume = native[op[c].s]
Spared ==
    \A c \in Caller : op[c].pc = "release" /\ native[op[c].s] = 0 => ~Talking(live[op[c].s])

ConvInv ==
    /\ EndsInv
    /\ Matched /\ OneReaper /\ NotQuiet /\ Announced /\ Agreed /\ Resumes /\ Spared

\* What the steps below keep of it.
Conversing == Matched' /\ OneReaper' /\ NotQuiet' /\ Announced' /\ Agreed' /\ Resumes' /\ Spared'

\* A run that goes on, with the same events ahead and no more to say.
Milder(r, q) ==
    /\ q.s = r.s /\ q.native = r.native /\ q.chan = r.chan
    /\ (q.pump => r.pump) /\ (q.pump => q.proc # "none")
    /\ (q.reader => r.reader) /\ (q.working => r.working)

\* A call that goes on, from elsewhere than a message to be recorded.
Moves(c, o) ==
    /\ op' = [op EXCEPT ![c] = o] /\ op[c].pc # "record" /\ o.kind # "end"
    /\ o.pc = "record" => o.g \in Gen /\ run[o.g].s = o.s
    /\ o.kind = "reap" => op[c].kind = "reap" \/ \A d \in Caller : op[d].kind # "reap"
    /\ o.pc \in {"check", "release"} => o.kind = "reap" /\ o.s \in Session /\ live[o.s] # 0
    /\ o.kind = "send" /\ o.pc \in {"ensure", "start", "record"} => o.s \notin quiet'
    /\ o.pc = "start" => o.resume = native[o.s]
    /\ o.pc = "release" /\ native[o.s] = 0 => ~Talking(live[o.s])

\* What is known of a call, a run and the registry.
LEMMA ConvTypes ==
    ASSUME EndsInv
    PROVE  /\ run \in [Gen -> Run] /\ op \in [Caller -> Op] /\ live \in [Session -> 0..MaxGen]
           /\ native \in [Session -> 0..MaxGen] /\ status \in [Session -> Status]
           /\ log \in [Session -> Seq(Event)] /\ quiet \subseteq Session /\ gen \in Nat
           /\ \A g \in Gen : g \in Nat \ {0}
           /\ \A n \in 0..MaxGen : n # 0 => n \in Gen
           /\ \A c \in Caller : op[c] \in Op /\ OpGood(op[c])
           /\ \A g \in Gen : run[g] \in Run /\ run[g].chan \in Seq(Event)
           /\ \A g \in Gen : run[g].pump => run[g].s \in Session
           /\ \A c \in Caller : op[c].pc = "start" => live[op[c].s] = 0 /\ op[c].s \in Session
<1> USE DEF EndsInv, ShownInv, IInv
<1>1. /\ run \in [Gen -> Run] /\ op \in [Caller -> Op] /\ live \in [Session -> 0..MaxGen]
      /\ native \in [Session -> 0..MaxGen] /\ status \in [Session -> Status]
      /\ log \in [Session -> Seq(Event)] /\ quiet \subseteq Session /\ gen \in Nat
  BY BoundsAssumption DEF TypeOK
<1>2. \A c \in Caller : op[c] \in Op /\ OpGood(op[c]) BY <1>1 DEF OpOK
<1>3. \A g \in Gen : run[g] \in Run /\ run[g].chan \in Seq(Event) BY <1>1 DEF Run
<1>4. /\ \A g \in Gen : g \in Nat \ {0}
      /\ \A n \in 0..MaxGen : n # 0 => n \in Gen
  BY BoundsAssumption DEF Gen
<1>5. \A g \in Gen : run[g].pump => run[g].s \in Session BY DEF PumpOK
<1>6. \A c \in Caller : op[c].pc = "start" => live[op[c].s] = 0 /\ op[c].s \in Session
  BY <1>2 DEF StartLocked, OpGood
<1> QED BY <1>1, <1>2, <1>3, <1>4, <1>5, <1>6

\* Runs that go on and a call that goes on.
LEMMA MoveTalks ==
    ASSUME ConvInv, UNCHANGED <<status, native, live>>, quiet' \subseteq quiet,
           \A h \in Gen : Milder(run[h], run'[h]),
           UNCHANGED op \/ \E c \in Caller : \E o : Moves(c, o)
    PROVE  Conversing
<1>1. EndsInv BY DEF ConvInv
<1>2. /\ op \in [Caller -> Op] /\ live \in [Session -> 0..MaxGen]
      /\ \A n \in 0..MaxGen : n # 0 => n \in Gen
      /\ \A c \in Caller : op[c] \in Op /\ OpGood(op[c])
  BY <1>1, ConvTypes
<1>3. \A h \in Gen : Talking(h)' => Talking(h) BY DEF Talking, Milder
<1>4. \A s \in Session : live[s] # 0 => live[s] \in Gen /\ run'[live[s]].s = run[live[s]].s
  BY <1>2 DEF Milder
<1>5. \/ UNCHANGED op
      \/ \E c \in Caller : \E o : /\ Moves(c, o) /\ op'[c] = o
                                  /\ \A d \in Caller : d # c => op'[d] = op[d]
  BY <1>2 DEF Moves
<1>6. Matched'
  <2>1. \A g \in Gen : run'[g].pump => run'[g].proc # "none" BY DEF Milder
  <2>2. \A s \in Session : live'[s] # 0 => run'[live'[s]].s = s
    BY <1>4 DEF ConvInv, Matched
  <2>3. \A c \in Caller : op[c].pc = "record" => op[c].g \in Gen BY <1>2 DEF OpGood
  <2>4. \A c \in Caller : op'[c].pc = "record" =>
           op'[c].g \in Gen /\ run[op'[c].g].s = op'[c].s
    BY <1>5, <2>3 DEF ConvInv, Matched, Moves
  <2>5. \A c \in Caller : op'[c].pc = "record" => run'[op'[c].g].s = op'[c].s
    BY <2>4 DEF Milder
  <2> QED BY <2>1, <2>2, <2>5 DEF Matched
<1>7. OneReaper'
  <2>1. \A c, d \in Caller : op'[c].kind = "reap" /\ op'[d].kind = "reap" => c = d
    BY <1>5 DEF ConvInv, OneReaper, Moves
  <2>2. \A c \in Caller : op'[c].pc \in {"check", "release"} =>
           op'[c].kind = "reap" /\ live[op'[c].s] # 0
    BY <1>5 DEF ConvInv, OneReaper, Moves
  <2>3. \A c \in Caller : op'[c].kind # "end" BY <1>5 DEF ConvInv, OneReaper, Moves
  <2> QED BY <2>1, <2>2, <2>3 DEF OneReaper
<1>8. NotQuiet'
  <2>1. \A c \in Caller : op'[c].kind = "send" /\ op'[c].pc \in {"ensure", "start", "record"} =>
           op'[c].s \notin quiet'
    BY <1>5 DEF ConvInv, NotQuiet, Moves
  <2>2. \A g \in Gen : run'[g].pump /\ Holds(run'[g].chan, {"UserMessage"}) =>
           run'[g].s \notin quiet'
    BY DEF ConvInv, NotQuiet, Milder
  <2> QED BY <2>1, <2>2 DEF NotQuiet
<1>9. Announced'
  <2> SUFFICES ASSUME NEW g \in Gen, run'[g].pump
               PROVE  NamesOwn(run'[g]) /\ (native[run'[g].s] = 0 => NamesFirst(run'[g]))
    BY DEF Announced
  <2>1. NamesOwn(run[g]) /\ (native[run[g].s] = 0 => NamesFirst(run[g]))
    BY DEF Milder, ConvInv, Announced
  <2> QED BY <2>1 DEF Milder, NamesOwn, NamesFirst
<1>10. Agreed'
  <2> SUFFICES ASSUME NEW g \in Gen, Talking(g)'
               PROVE  IF native[run'[g].s] = 0 THEN live[run'[g].s] = g /\ Begun(g)'
                      ELSE run'[g].native = native[run'[g].s]
    BY DEF Agreed
  <2>1. /\ run'[g].s = run[g].s /\ run'[g].native = run[g].native /\ run'[g].chan = run[g].chan
    BY DEF Milder
  <2>2. IF native[run[g].s] = 0 THEN live[run[g].s] = g /\ Begun(g)
        ELSE run[g].native = native[run[g].s]
    BY <1>3 DEF ConvInv, Agreed
  <2>3. Begun(g) => Begun(g)' BY <1>5, <2>1 DEF Begun, Moves
  <2> QED BY <2>1, <2>2, <2>3
<1>11. Resumes' BY <1>5 DEF ConvInv, Resumes, Moves
<1>12. Spared'
  <2>1. \A c \in Caller : op'[c].pc = "release" /\ native[op'[c].s] = 0 => ~Talking(live[op'[c].s])
    BY <1>5 DEF ConvInv, Spared, Moves
  <2>2. \A c \in Caller : op'[c].pc = "release" => op'[c].s \in Session /\ live[op'[c].s] # 0
    BY <1>2, <1>5 DEF ConvInv, OneReaper, Moves, OpGood
  <2>3. ASSUME NEW c \in Caller, NEW s, s = op'[c].s, op'[c].pc = "release", native[s] = 0
        PROVE  ~Talking(live[s])'
    <3>1. PICK h \in Gen : h = live[s] BY <1>4, <2>2, <2>3
    <3>2. ~Talking(h) BY <2>1, <2>3, <3>1
    <3>3. ~Talking(h)' BY <1>3, <3>2
    <3> QED BY <3>1, <3>3
  <2> QED BY <2>3 DEF Spared
<1> QED BY <1>6, <1>7, <1>8, <1>9, <1>10, <1>11, <1>12 DEF Conversing

LEMMA HoldsAppend ==
    ASSUME NEW q \in Seq(Event), NEW e \in Event, NEW kinds
    PROVE  Holds(Append(q, e), kinds) <=> Holds(q, kinds) \/ e.kind \in kinds
<1>1. PICK p : p = Append(q, e) OBVIOUS
<1>2. /\ Len(q) \in Nat /\ Len(p) = Len(q) + 1 /\ p[Len(q) + 1] = e
      /\ \A i \in 1..Len(q) : p[i] = q[i]
  BY <1>1
<1>3. \A i \in 1..Len(p) : i \in 1..Len(q) \/ i = Len(q) + 1 BY <1>2
<1>4. Len(q) + 1 \in 1..Len(p) /\ \A i \in 1..Len(q) : i \in 1..Len(p) BY <1>2
<1>5. Holds(p, kinds) <=> Holds(q, kinds) \/ e.kind \in kinds BY <1>2, <1>3, <1>4 DEF Holds
<1> QED BY <1>1, <1>5

LEMMA EmitFields ==
    ASSUME NEW q \in Run, NEW e
    PROVE  /\ Emit(q, e).chan = Append(q.chan, e)
           /\ Emit(q, e).s = q.s /\ Emit(q, e).native = q.native /\ Emit(q, e).pump = q.pump
           /\ Emit(q, e).proc = q.proc /\ Emit(q, e).reader = q.reader
           /\ Emit(q, e).working = q.working
<1>1. PICK c : c = Append(q.chan, e) OBVIOUS
<1>2. Emit(q, e) = [q EXCEPT !.chan = c] BY <1>1 DEF Emit
<1> QED BY <1>1, <1>2 DEF Run

\* A run that emits an event still names what it should first.
LEMMA NamesEmit ==
    ASSUME NEW r, r.chan \in Seq(Event), NEW q \in Run, q.chan = r.chan, q.native = r.native,
           NEW e \in Event
    PROVE  /\ /\ NamesOwn(r)
              /\ e.kind = "NativeSession" => e.native = r.native
              => NamesOwn(Emit(q, e))
           /\ /\ NamesFirst(r) /\ (q.reader => r.reader)
              /\ q.working => r.working \/ e.kind = "NativeSession"
              /\ e.kind \in {"TurnEnded", "NativeSession"} => r.reader
              /\ e.kind = "TurnEnded" => r.working \/ ~q.reader
              => NamesFirst(Emit(q, e))
<1>1. PICK c, p, x : c = r.chan /\ p = Append(c, e) /\ x = Emit(q, e) OBVIOUS
<1>2. c \in Seq(Event) /\ Len(c) \in Nat BY <1>1
<1>3. /\ Len(p) = Len(c) + 1 /\ p[Len(c) + 1] = e
      /\ \A i \in 1..Len(c) : p[i] = c[i] /\ i \in 1..Len(p)
      /\ \A i \in 1..Len(p) : i \in 1..Len(c) \/ i = Len(c) + 1
  BY <1>1, <1>2
<1>4. x.chan = p /\ x.native = r.native /\ x.reader = q.reader /\ x.working = q.working
  BY <1>1, EmitFields
<1>5. ASSUME NamesOwn(r), e.kind = "NativeSession" => e.native = r.native
      PROVE  NamesOwn(x)
  BY <1>1, <1>3, <1>4, <1>5 DEF NamesOwn
<1>6. ASSUME NamesFirst(r), q.reader => r.reader,
             q.working => r.working \/ e.kind = "NativeSession",
             e.kind \in {"TurnEnded", "NativeSession"} => r.reader,
             e.kind = "TurnEnded" => r.working \/ ~q.reader
      PROVE  NamesFirst(x)
  <2>1. r.working => \E j \in 1..Len(c) : c[j].kind = "NativeSession"
    BY <1>1, <1>6 DEF NamesFirst, Holds
  <2>2. x.working => Holds(p, {"NativeSession"})
    BY <1>1, <1>2, <1>4, <1>6, <2>1, HoldsAppend DEF Holds
  <2>3. ASSUME NEW i \in 1..Len(p), p[i].kind = "TurnEnded"
        PROVE  \/ \E j \in 1..(i - 1) : p[j].kind = "NativeSession"
               \/ /\ ~x.reader
                  /\ \A k \in (i + 1)..Len(p) : p[k].kind \notin {"TurnEnded", "NativeSession"}
    <3>1. CASE i = Len(c) + 1
      <4>1. e.kind = "TurnEnded" BY <1>3, <2>3, <3>1
      <4>2. CASE r.working
        <5>1. PICK j \in 1..Len(c) : c[j].kind = "NativeSession" BY <2>1, <4>2
        <5>2. j \in 1..(i - 1) /\ p[j].kind = "NativeSession" BY <1>2, <1>3, <3>1, <5>1
        <5> QED BY <5>2
      <4>3. CASE ~q.reader
        <5>1. \A k \in (i + 1)..Len(p) : FALSE BY <1>2, <1>3, <3>1
        <5> QED BY <1>4, <4>3, <5>1
      <4> QED BY <1>6, <4>1, <4>2, <4>3
    <3>2. CASE i \in 1..Len(c)
      <4>1. c[i].kind = "TurnEnded" BY <1>3, <2>3, <3>2
      <4>2. \/ \E j \in 1..(i - 1) : c[j].kind = "NativeSession"
            \/ /\ ~r.reader
               /\ \A k \in (i + 1)..Len(c) : c[k].kind \notin {"TurnEnded", "NativeSession"}
        BY <1>1, <1>6, <3>2, <4>1 DEF NamesFirst
      <4>3. CASE \E j \in 1..(i - 1) : c[j].kind = "NativeSession"
        <5>1. PICK j \in 1..(i - 1) : c[j].kind = "NativeSession" BY <4>3
        <5>2. p[j].kind = "NativeSession" BY <1>2, <1>3, <3>2, <5>1
        <5> QED BY <5>2
      <4>4. CASE /\ ~r.reader
                 /\ \A k \in (i + 1)..Len(c) : c[k].kind \notin {"TurnEnded", "NativeSession"}
        <5>1. ~x.reader /\ e.kind \notin {"TurnEnded", "NativeSession"} BY <1>4, <1>6, <4>4
        <5>2. ASSUME NEW k \in (i + 1)..Len(p)
              PROVE  p[k].kind \notin {"TurnEnded", "NativeSession"}
          <6>1. k = Len(c) + 1 \/ (k \in (i + 1)..Len(c) /\ k \in 1..Len(c)) BY <1>2, <1>3, <3>2
          <6> QED BY <1>3, <4>4, <5>1, <6>1
        <5> QED BY <5>1, <5>2
      <4> QED BY <4>2, <4>3, <4>4
    <3> QED BY <1>3, <3>1, <3>2
  <2> QED BY <1>4, <2>2, <2>3 DEF NamesFirst
<1> QED BY <1>1, <1>5, <1>6

\* A run emits an event: its reader one of the agent's, or a call the message it carries.
LEMMA EmitTalks ==
    ASSUME ConvInv, UNCHANGED <<status, native, live, quiet>>, NEW g \in Gen,
           NEW q \in Run, NEW e \in Event, run' = [run EXCEPT ![g] = Emit(q, e)],
           q.s = run[g].s, q.native = run[g].native, q.chan = run[g].chan,
           q.pump = run[g].pump, q.proc = run[g].proc, q.reader => run[g].reader,
           q.working => run[g].working \/ e.kind = "NativeSession",
           e.kind \in {"TurnEnded", "NativeSession"} => run[g].reader,
           e.kind = "TurnEnded" => run[g].working \/ ~q.reader,
           e.kind = "NativeSession" => e.native = run[g].native,
           e.kind = "UserMessage" => run[g].s \notin quiet,
           \/ UNCHANGED op
           \/ \E c \in Caller : \E o :
                 /\ op' = [op EXCEPT ![c] = o] /\ op[c].pc = "record" /\ o.pc = "deliver"
                 /\ o.kind = op[c].kind /\ op[c].g = g
                 /\ op[c].kind = "send" => e.kind = "UserMessage"
    PROVE  Conversing
<1>1. EndsInv BY DEF ConvInv
<1>2. /\ op \in [Caller -> Op] /\ run \in [Gen -> Run] /\ live \in [Session -> 0..MaxGen]
      /\ \A n \in 0..MaxGen : n # 0 => n \in Gen
      /\ \A c \in Caller : op[c] \in Op /\ OpGood(op[c])
      /\ run[g].chan \in Seq(Event)
  BY <1>1, ConvTypes
<1>3. PICK x : x = Emit(q, e) OBVIOUS
<1>4. /\ x.s = run[g].s /\ x.native = run[g].native /\ x.pump = run[g].pump
      /\ x.proc = run[g].proc /\ x.reader = q.reader
      /\ \A kinds : Holds(x.chan, kinds) <=> Holds(run[g].chan, kinds) \/ e.kind \in kinds
  <2>1. /\ x.chan = Append(run[g].chan, e) /\ x.s = run[g].s /\ x.native = run[g].native
        /\ x.pump = run[g].pump /\ x.proc = run[g].proc /\ x.reader = q.reader
    BY <1>3, EmitFields
  <2>2. ASSUME NEW kinds
        PROVE  Holds(x.chan, kinds) <=> Holds(run[g].chan, kinds) \/ e.kind \in kinds
    BY <1>2, <2>1, HoldsAppend
  <2> QED BY <2>1, <2>2
<1>5. run'[g] = x /\ \A h \in Gen : h # g => run'[h] = run[h] BY <1>2, <1>3
<1>6. \A h \in Gen : /\ run'[h].s = run[h].s /\ run'[h].native = run[h].native
                     /\ run'[h].pump = run[h].pump /\ run'[h].proc = run[h].proc
                     /\ Talking(h)' => Talking(h)
                     /\ Holds(run[h].chan, {"UserMessage"}) => Holds(run'[h].chan, {"UserMessage"})
                     /\ Holds(run'[h].chan, {"UserMessage"}) /\ h # g =>
                           Holds(run[h].chan, {"UserMessage"})
  <2>1. \A h \in Gen : h # g => (Talking(h)' <=> Talking(h)) BY <1>5 DEF Talking
  <2>2. Talking(g)' => Talking(g) BY <1>4, <1>5 DEF Talking
  <2> QED BY <1>4, <1>5, <2>1, <2>2
<1>7. \/ UNCHANGED op
      \/ \E c \in Caller : \E o :
            /\ op'[c] = o /\ op[c].pc = "record" /\ o.pc = "deliver"
            /\ o.kind = op[c].kind /\ op[c].g = g
            /\ op[c].kind = "send" => e.kind = "UserMessage"
            /\ \A d \in Caller : d # c => op'[d] = op[d]
  BY <1>2
<1>8. Matched'
  <2>1. \A g1 \in Gen : run'[g1].pump => run'[g1].proc # "none" BY <1>6 DEF ConvInv, Matched
  <2>2. \A s \in Session : live[s] # 0 => run'[live[s]].s = s BY <1>2, <1>6 DEF ConvInv, Matched
  <2>3. \A c \in Caller : op'[c].pc = "record" => op'[c] = op[c] /\ op[c].g \in Gen
    BY <1>2, <1>7 DEF OpGood
  <2>4. \A c \in Caller : op'[c].pc = "record" => run'[op'[c].g].s = op'[c].s
    BY <1>6, <2>3 DEF ConvInv, Matched
  <2> QED BY <2>1, <2>2, <2>4 DEF Matched
<1>9. OneReaper'
  <2>1. \A c, d \in Caller : op'[c].kind = "reap" /\ op'[d].kind = "reap" => c = d
    BY <1>7 DEF ConvInv, OneReaper
  <2>2. \A c \in Caller : op'[c].pc \in {"check", "release"} =>
           op'[c].kind = "reap" /\ live[op'[c].s] # 0
    BY <1>7 DEF ConvInv, OneReaper
  <2>3. \A c \in Caller : op'[c].kind # "end" BY <1>7 DEF ConvInv, OneReaper
  <2> QED BY <2>1, <2>2, <2>3 DEF OneReaper
<1>10. NotQuiet'
  <2>1. \A c \in Caller : op'[c].kind = "send" /\ op'[c].pc \in {"ensure", "start", "record"} =>
           op'[c].s \notin quiet
    BY <1>7 DEF ConvInv, NotQuiet
  <2>2. \A h \in Gen : run'[h].pump /\ Holds(run'[h].chan, {"UserMessage"}) =>
           run'[h].s \notin quiet
    BY <1>4, <1>5, <1>6 DEF ConvInv, NotQuiet
  <2> QED BY <2>1, <2>2 DEF NotQuiet
<1>11. Announced'
  <2> SUFFICES ASSUME NEW h \in Gen, run'[h].pump
               PROVE  NamesOwn(run'[h]) /\ (native[run'[h].s] = 0 => NamesFirst(run'[h]))
    BY DEF Announced
  <2>1. NamesOwn(run[h]) /\ (native[run[h].s] = 0 => NamesFirst(run[h]))
    BY <1>6 DEF ConvInv, Announced
  <2>2. CASE h = g BY <1>2, <1>3, <1>4, <1>5, <2>1, <2>2, NamesEmit
  <2>3. CASE h # g BY <1>5, <2>1, <2>3
  <2> QED BY <2>2, <2>3
<1>12. Agreed'
  <2> SUFFICES ASSUME NEW h \in Gen, Talking(h)'
               PROVE  IF native[run'[h].s] = 0 THEN live[run'[h].s] = h /\ Begun(h)'
                      ELSE run'[h].native = native[run'[h].s]
    BY DEF Agreed
  <2>1. IF native[run[h].s] = 0 THEN live[run[h].s] = h /\ Begun(h)
        ELSE run[h].native = native[run[h].s]
    BY <1>6 DEF ConvInv, Agreed
  <2>2. Begun(h) => Begun(h)'
    <3>1. CASE status[run[h].s] \in Busy BY <1>6, <3>1 DEF Begun
    <3>2. CASE Holds(run[h].chan, {"UserMessage"}) BY <1>6, <3>2 DEF Begun
    <3>3. ASSUME NEW c \in Caller, op[c].pc = "record", op[c].kind = "send", op[c].g = h,
                 op[c].s = run[h].s
          PROVE  Begun(h)'
      <4>1. CASE op'[c] = op[c] BY <1>6, <3>3, <4>1 DEF Begun
      <4>2. CASE op'[c] # op[c]
        <5>1. h = g /\ e.kind = "UserMessage" BY <1>7, <3>3, <4>2
        <5> QED BY <1>4, <1>5, <5>1 DEF Begun
      <4> QED BY <4>1, <4>2
    <3> QED BY <3>1, <3>2, <3>3 DEF Begun
  <2> QED BY <1>6, <2>1, <2>2
<1>13. Resumes' BY <1>7 DEF ConvInv, Resumes
<1>14. Spared'
  <2>1. \A c \in Caller : op'[c].pc = "release" => op'[c] = op[c] BY <1>7
  <2>2. ASSUME NEW c \in Caller, NEW s, s = op'[c].s, op'[c].pc = "release", native[s] = 0
        PROVE  ~Talking(live[s])'
    <3>1. op[c].pc = "release" /\ s = op[c].s BY <2>1, <2>2
    <3>2. s \in Session /\ live[s] # 0 BY <1>2, <3>1 DEF ConvInv, OneReaper, OpGood
    <3>3. PICK h \in Gen : h = live[s] BY <1>2, <3>2
    <3>4. ~Talking(h) BY <2>2, <3>1, <3>3 DEF ConvInv, Spared
    <3>5. ~Talking(h)' BY <1>6, <3>4
    <3> QED BY <3>3, <3>5
  <2> QED BY <2>2 DEF Spared
<1> QED BY <1>8, <1>9, <1>10, <1>11, <1>12, <1>13, <1>14 DEF Conversing

LEMMA OneMilder ==
    ASSUME ConvInv, NEW g \in Gen, NEW q, run' = [run EXCEPT ![g] = q], Milder(run[g], q)
    PROVE  \A h \in Gen : Milder(run[h], run'[h])
<1>1. run \in [Gen -> Run]
  <2>1. EndsInv BY DEF ConvInv
  <2> QED BY <2>1, ConvTypes
<1>2. \A h \in Gen : Milder(run[h], run[h]) BY DEF ConvInv, Matched, Milder
<1> QED BY <1>1, <1>2

\* The agent and the reader of its output.
LEMMA AgentTalks ==
    ASSUME ConvInv, NEW g \in Gen, AgentStep(g) \/ ReaderEof(g)
    PROVE  Conversing
<1>1. UNCHANGED <<status, native, live, quiet, op>>
  BY DEF AgentStep, CliRead, CliFold, CliAsk, CliCancel, CliResult, CliExit, ReaderEof, store
<1>2. run[g] \in Run /\ (run[g].pump => run[g].proc # "none")
  <2>1. EndsInv /\ Matched BY DEF ConvInv
  <2> QED BY <2>1, ConvTypes DEF Matched
<1>3. ASSUME NEW q, run' = [run EXCEPT ![g] = q], Milder(run[g], q) PROVE Conversing
  BY <1>1, <1>3, OneMilder, MoveTalks
<1>4. ASSUME NEW q \in Run, NEW e \in Event, run' = [run EXCEPT ![g] = Emit(q, e)],
             q.s = run[g].s, q.native = run[g].native, q.chan = run[g].chan,
             q.pump = run[g].pump, q.proc = run[g].proc, run[g].reader, e.kind # "UserMessage",
             q.working => run[g].working \/ e.kind = "NativeSession",
             e.kind = "TurnEnded" => run[g].working \/ ~q.reader,
             e.kind = "NativeSession" => e.native = run[g].native
      PROVE  Conversing
  BY <1>1, <1>4, EmitTalks
<1>5. CASE CliRead(g)
  <2> DEFINE q == BeginTurn(run[g])
             e == [kind |-> "NativeSession", gen |-> g, native |-> run[g].native]
  <2>1. e \in Event
    BY <1>5, EventTypes DEF CliRead, Talks, ConvInv, EndsInv, ShownInv, IInv, RunOK
  <2>2. q \in Run
    <3>1. run[g].read + 1 \in Nat BY <1>2 DEF Run
    <3> QED BY <1>2, <3>1, RunFields DEF BeginTurn
  <2>3. run' = [run EXCEPT ![g] = Emit(q, e)] BY <1>5, Zenon DEF CliRead
  <2>4. /\ q.s = run[g].s /\ q.native = run[g].native /\ q.chan = run[g].chan
        /\ q.pump = run[g].pump /\ q.proc = run[g].proc /\ q.reader = run[g].reader
    BY <1>2 DEF Run, BeginTurn
  <2>5. e.kind = "NativeSession" /\ e.native = run[g].native OBVIOUS
  <2>6. run[g].reader BY <1>5 DEF CliRead, Talks
  <2> HIDE DEF q, e
  <2> QED BY <1>4, <2>1, <2>2, <2>3, <2>4, <2>5, <2>6
<1>6. CASE CliFold(g)
  <2> DEFINE q == [run[g] EXCEPT !.read = @ + 1]
  <2>1. run' = [run EXCEPT ![g] = q] BY <1>6, Zenon DEF CliFold
  <2>2. Milder(run[g], q) BY <1>2 DEF Run, Milder
  <2> QED BY <1>3, <2>1, <2>2
<1>7. CASE CliAsk(g)
  <2> DEFINE a == count.approval + 1
             q == Ask(run[g], a)
             e == [kind |-> "ApprovalRequested", gen |-> g, approval |-> a]
  <2>1. a \in 1..MaxApproval
    BY <1>7, BoundsAssumption DEF CliAsk, TypeOK, ConvInv, EndsInv, ShownInv, IInv
  <2>2. e \in Event /\ e.kind = "ApprovalRequested" BY <2>1, EventTypes
  <2>3. run[g].pending \cup {a} \in SUBSET (1..MaxApproval) BY <1>2, <2>1 DEF Run
  <2>4. q \in Run BY <1>2, <2>3, RunFields DEF Ask
  <2>5. /\ q.s = run[g].s /\ q.native = run[g].native /\ q.chan = run[g].chan
        /\ q.pump = run[g].pump /\ q.proc = run[g].proc /\ q.reader = run[g].reader
        /\ q.working = run[g].working
    BY <1>2 DEF Run, Ask
  <2>6. run' = [run EXCEPT ![g] = Emit(q, e)] BY <1>7, Zenon DEF CliAsk
  <2>7. run[g].reader BY <1>7 DEF CliAsk, Talks
  <2> HIDE DEF q, e, a
  <2> QED BY <1>4, <2>2, <2>4, <2>5, <2>6, <2>7
<1>8. CASE CliCancel(g)
  <2>1. PICK a : run' = [run EXCEPT ![g] = [run[g] EXCEPT !.pending = run[g].pending \ {a}]]
    BY <1>8 DEF CliCancel
  <2>2. Milder(run[g], [run[g] EXCEPT !.pending = run[g].pending \ {a}])
    BY <1>2 DEF Run, Milder
  <2> QED BY <1>3, <2>1, <2>2
<1>9. CASE CliResult(g)
  <2>1. PICK error \in BOOLEAN :
          run' = [run EXCEPT ![g] = TurnEnd([@ EXCEPT !.working = FALSE], g, error)]
    BY <1>9 DEF CliResult
  <2> DEFINE p == [run[g] EXCEPT !.working = FALSE]
             q == [p EXCEPT !.interruptRequested = FALSE, !.turnActive = FALSE, !.pending = {}]
             e == [kind |-> "TurnEnded", gen |-> g, failed |-> error /\ ~p.interruptRequested]
  <2>2. e \in Event /\ e.kind = "TurnEnded" BY EventTypes
  <2>3. p \in Run BY <1>2, RunFields
  <2>4. q \in Run BY <2>3, RunFields
  <2>5. /\ q.s = run[g].s /\ q.native = run[g].native /\ q.chan = run[g].chan
        /\ q.pump = run[g].pump /\ q.proc = run[g].proc /\ q.reader = run[g].reader
        /\ ~q.working
    BY <1>2 DEF Run
  <2>6. run' = [run EXCEPT ![g] = Emit(q, e)] BY <2>1, Zenon DEF TurnEnd
  <2>7. run[g].working /\ run[g].reader BY <1>9 DEF CliResult, Talks
  <2> HIDE DEF q, e
  <2> QED BY <1>4, <2>2, <2>4, <2>5, <2>6, <2>7
<1>10. CASE CliExit(g)
  <2>1. run' = [run EXCEPT ![g] = [run[g] EXCEPT !.proc = "exited"]] BY <1>10 DEF CliExit
  <2>2. Milder(run[g], [run[g] EXCEPT !.proc = "exited"]) BY <1>2 DEF Run, Milder
  <2> QED BY <1>3, <2>1, <2>2
<1>11. CASE ReaderEof(g)
  <2> DEFINE q == [run[g] EXCEPT !.reader = FALSE]
             e == [kind |-> "TurnEnded", gen |-> g, failed |-> ~q.interruptRequested]
  <2>1. e \in Event /\ e.kind = "TurnEnded" BY EventTypes
  <2>2. q \in Run BY <1>2, RunFields
  <2>3. /\ q.s = run[g].s /\ q.native = run[g].native /\ q.chan = run[g].chan
        /\ q.pump = run[g].pump /\ q.proc = run[g].proc /\ ~q.reader
        /\ q.working = run[g].working
    BY <1>2 DEF Run
  <2>4. /\ run[g].reader
        /\ \/ run' = [run EXCEPT ![g] = Emit(q, e)]
           \/ run' = [run EXCEPT ![g] = q]
    BY <1>11, Zenon DEF ReaderEof
  <2> HIDE DEF q, e
  <2>5. Milder(run[g], q) BY <1>2, <2>3 DEF Milder
  <2> QED BY <1>3, <1>4, <2>1, <2>2, <2>3, <2>4, <2>5
<1> QED BY <1>5, <1>6, <1>7, <1>8, <1>9, <1>10, <1>11 DEF AgentStep

\* The pump takes the first event of a channel.
LEMMA TailHolds ==
    ASSUME NEW c \in Seq(Event), c # <<>>
    PROVE  /\ Head(c) \in Event /\ Tail(c) \in Seq(Event) /\ Head(c) = c[1]
           /\ Len(c) \in Nat /\ Len(c) >= 1 /\ Len(Tail(c)) = Len(c) - 1
           /\ \A i \in 1..Len(Tail(c)) : Tail(c)[i] = c[i + 1] /\ i + 1 \in 2..Len(c)
           /\ \A kinds : Holds(c, kinds) <=> Head(c).kind \in kinds \/ Holds(Tail(c), kinds)
<1>1. PICK q, e : q = Tail(c) /\ e = Head(c) OBVIOUS
<1>2. /\ e \in Event /\ q \in Seq(Event) /\ e = c[1] /\ Len(c) \in Nat /\ Len(c) >= 1
      /\ Len(q) = Len(c) - 1 /\ \A i \in 1..Len(q) : q[i] = c[i + 1]
  BY <1>1
<1>3. /\ \A i \in 1..Len(q) : i + 1 \in 2..Len(c) /\ i + 1 \in 1..Len(c)
      /\ \A i \in 1..Len(c) : i = 1 \/ (i - 1 \in 1..Len(q) /\ c[i] = q[i - 1])
      /\ 1 \in 1..Len(c)
  BY <1>2
<1>4. ASSUME NEW kinds PROVE Holds(c, kinds) <=> e.kind \in kinds \/ Holds(q, kinds)
  BY <1>2, <1>3 DEF Holds
<1> QED BY <1>1, <1>2, <1>3, <1>4

LEMMA PumpTalks ==
    ASSUME ConvInv, NEW g \in Gen, Pump(g)
    PROVE  Conversing /\ \A s \in Session : native[s] # 0 => native'[s] = native[s]
<1>0. PICK c, q, e, s, r : /\ c = run[g].chan /\ q = Tail(c) /\ e = Head(c) /\ s = run[g].s
                           /\ r = [run[g] EXCEPT !.chan = q]
  OBVIOUS
<1>1. EndsInv BY DEF ConvInv
<1>2. /\ run \in [Gen -> Run] /\ op \in [Caller -> Op] /\ live \in [Session -> 0..MaxGen]
      /\ native \in [Session -> 0..MaxGen] /\ status \in [Session -> Status]
      /\ \A n \in 0..MaxGen : n # 0 => n \in Gen
      /\ \A d \in Caller : op[d] \in Op /\ OpGood(op[d])
      /\ \A h \in Gen : h # 0 /\ (run[h].pump => run[h].s \in Session)
      /\ \A d \in Caller : op[d].pc = "start" => live[op[d].s] = 0 /\ op[d].s \in Session
  BY <1>1, ConvTypes
<1>3. run[g].pump /\ c # <<>> /\ s \in Session /\ run[g] \in Run /\ c \in Seq(Event)
  <2>1. run[g].pump /\ c # <<>> BY <1>0 DEF Pump
  <2> QED BY <1>0, <1>1, <1>2, <2>1, ConvTypes
<1>4. /\ run' = [run EXCEPT ![g] = r] /\ UNCHANGED <<live, op>>
      /\ \/ Duplicate(s, e) /\ UNCHANGED <<status, native, quiet>>
         \/ ~Duplicate(s, e) /\ AppendEvent(s, e)
  BY <1>0 DEF Pump, store
<1>5. /\ r.chan = q /\ r.s = s /\ r.native = run[g].native /\ r.pump = run[g].pump
      /\ r.proc = run[g].proc /\ r.reader = run[g].reader /\ r.working = run[g].working
  BY <1>0, <1>3 DEF Run
<1>6. /\ e \in Event /\ q \in Seq(Event) /\ e = c[1] /\ Len(c) \in Nat /\ Len(c) >= 1
      /\ Len(q) = Len(c) - 1 /\ \A i \in 1..Len(q) : q[i] = c[i + 1] /\ i + 1 \in 2..Len(c)
      /\ \A kinds : Holds(c, kinds) <=> e.kind \in kinds \/ Holds(q, kinds)
  BY <1>0, <1>3, TailHolds
<1>7. run'[g] = r /\ \A h \in Gen : h # g => run'[h] = run[h] BY <1>2, <1>4
<1>8. \A h \in Gen : /\ run'[h].s = run[h].s /\ run'[h].native = run[h].native
                     /\ run'[h].pump = run[h].pump /\ run'[h].proc = run[h].proc
                     /\ Talking(h)' => Talking(h)
                     /\ Holds(run'[h].chan, {"UserMessage"}) => Holds(run[h].chan, {"UserMessage"})
  <2>1. Talking(g)' => Talking(g) BY <1>0, <1>5, <1>6, <1>7 DEF Talking
  <2>2. \A h \in Gen : h # g => (Talking(h)' => Talking(h)) BY <1>7 DEF Talking
  <2>3. \A h \in Gen : /\ run'[h].s = run[h].s /\ run'[h].native = run[h].native
                       /\ run'[h].pump = run[h].pump /\ run'[h].proc = run[h].proc
    BY <1>0, <1>3, <1>5, <1>7
  <2>4. \A h \in Gen :
          Holds(run'[h].chan, {"UserMessage"}) => Holds(run[h].chan, {"UserMessage"})
    <3>1. Holds(r.chan, {"UserMessage"}) => Holds(run[g].chan, {"UserMessage"})
      BY <1>0, <1>5, <1>6
    <3> QED BY <1>7, <3>1
  <2> QED BY <2>1, <2>2, <2>3, <2>4
<1>9. quiet' \subseteq quiet BY <1>4 DEF AppendEvent
<1>10. Matched'
  <2>1. \A s1 \in Session : live[s1] # 0 => run'[live[s1]].s = s1
    BY <1>2, <1>8 DEF ConvInv, Matched
  <2>2. \A d \in Caller : op[d].pc = "record" => run'[op[d].g].s = op[d].s
    BY <1>2, <1>8 DEF ConvInv, Matched, OpGood
  <2> QED BY <1>4, <1>8, <2>1, <2>2 DEF ConvInv, Matched
<1>11. OneReaper' BY <1>4 DEF ConvInv, OneReaper
<1>12. NotQuiet' BY <1>4, <1>8, <1>9 DEF ConvInv, NotQuiet
<1>13. NamesOwn(run[g]) /\ (native[s] = 0 => NamesFirst(run[g]))
  BY <1>0, <1>3 DEF ConvInv, Announced
<1>14. NamesOwn(r) BY <1>0, <1>5, <1>6, <1>13 DEF NamesOwn
<1>15. e.kind = "NativeSession" => e.native = run[g].native /\ e.native # 0 /\ Talking(g)
  <2>1. e.kind = "NativeSession" => e.native = run[g].native
    BY <1>0, <1>6, <1>13 DEF NamesOwn
  <2>2. e.kind = "NativeSession" => e.native \in Gen BY <1>6 DEF Event
  <2>3. e.kind = "NativeSession" => Holds(c, {"TurnEnded", "NativeSession"}) BY <1>6
  <2> QED BY <1>0, <1>2, <1>3, <2>1, <2>2, <2>3 DEF Talking
\* What is stored tells the session's native id for the first time.
<1>16. CASE e.kind = "NativeSession" /\ native[s] = 0
  <2>1. live[s] = g BY <1>0, <1>15, <1>16 DEF ConvInv, Agreed
  <2>2. native' = [native EXCEPT ![s] = run[g].native] /\ run[g].native # 0
    BY <1>4, <1>15, <1>16 DEF AppendEvent, Duplicate
  <2>3. UNCHANGED status
    <3>1. After(status[s], e) = status[s] BY <1>16 DEF After
    <3> QED BY <1>2, <1>3, <1>4, <1>15, <1>16, <3>1 DEF AppendEvent, Duplicate
  <2>4. \A t \in Session : IF t = s THEN native'[t] = run[g].native /\ native'[t] # 0
                           ELSE native'[t] = native[t]
    BY <1>2, <1>3, <2>2
  <2>5. Announced'
    <3> SUFFICES ASSUME NEW h \in Gen, run'[h].pump
                 PROVE  NamesOwn(run'[h]) /\ (native'[run'[h].s] = 0 => NamesFirst(run'[h]))
      BY DEF Announced
    <3>1. CASE h = g BY <1>3, <1>5, <1>7, <1>14, <2>4, <3>1
    <3>2. CASE h # g
      <4>1. run'[h] = run[h] /\ run[h].pump /\ run[h].s \in Session BY <1>2, <1>7, <3>2
      <4> QED BY <2>4, <4>1 DEF ConvInv, Announced
    <3> QED BY <3>1, <3>2
  <2>6. Agreed'
    <3> SUFFICES ASSUME NEW h \in Gen, Talking(h)'
                 PROVE  IF native'[run'[h].s] = 0 THEN live'[run'[h].s] = h /\ Begun(h)'
                        ELSE run'[h].native = native'[run'[h].s]
      BY DEF Agreed
    <3>1. Talking(h) /\ run[h].s \in Session BY <1>2, <1>8 DEF Talking
    <3>2. IF native[run[h].s] = 0 THEN live[run[h].s] = h /\ Begun(h)
          ELSE run[h].native = native[run[h].s]
      BY <3>1 DEF ConvInv, Agreed
    <3>3. CASE run[h].s = s
      <4>1. h = g BY <1>16, <2>1, <3>2, <3>3
      <4>2. run'[g].s = s /\ run'[g].native = run[g].native BY <1>0, <1>8
      <4>3. native'[s] = run[g].native /\ native'[s] # 0 BY <1>3, <2>4
      <4> QED BY <4>1, <4>2, <4>3
    <3>4. CASE run[h].s # s
      <4>1. run'[h] = run[h] BY <1>0, <1>7, <3>4
      <4>2. Begun(h) => Begun(h)' BY <1>4, <2>3, <4>1 DEF Begun
      <4> QED BY <1>4, <2>4, <3>1, <3>2, <3>4, <4>1, <4>2
    <3> QED BY <3>3, <3>4
  <2>7. Resumes'
    <3>1. \A d \in Caller : op[d].pc = "start" => op[d].s # s BY <1>2, <2>1
    <3> QED BY <1>2, <1>4, <2>4, <3>1 DEF ConvInv, Resumes
  <2>8. Spared'
    <3> SUFFICES ASSUME NEW d \in Caller, NEW t, t = op[d].s, op[d].pc = "release", native'[t] = 0
                 PROVE  ~Talking(live[t])'
      BY <1>4 DEF Spared
    <3>1. t \in Session /\ live[t] # 0 BY <1>2 DEF ConvInv, OneReaper, OpGood
    <3>2. native[t] = 0 BY <2>4, <3>1
    <3>3. PICK h \in Gen : h = live[t] BY <1>2, <3>1
    <3>4. ~Talking(h) BY <3>2, <3>3 DEF ConvInv, Spared
    <3>5. ~Talking(h)' BY <1>8, <3>4
    <3> QED BY <1>4, <3>3, <3>5
  <2> QED BY <1>10, <1>11, <1>12, <1>16, <2>4, <2>5, <2>6, <2>7, <2>8 DEF Conversing
\* Nothing new is known of it.
<1>17. CASE ~(e.kind = "NativeSession" /\ native[s] = 0)
  <2>1. /\ native' = native
        /\ status' = [status EXCEPT ![s] = IF Duplicate(s, e) THEN @ ELSE After(@, e)]
    <3>1. CASE e.kind = "NativeSession"
      <4>1. run[g].native = native[s] BY <1>0, <1>15, <1>17, <3>1 DEF ConvInv, Agreed
      <4>2. Duplicate(s, e) BY <1>15, <3>1, <4>1 DEF Duplicate
      <4> QED BY <1>2, <1>4, <4>2
    <3>2. CASE e.kind # "NativeSession"
      <4>1. ~Duplicate(s, e) /\ AppendEvent(s, e) BY <1>4, <3>2 DEF Duplicate
      <4>2. native' = native BY <1>2, <3>2, <4>1 DEF AppendEvent
      <4> QED BY <4>1, <4>2 DEF AppendEvent
    <3> QED BY <3>1, <3>2
  <2>2. \A t \in Session : t # s => status'[t] = status[t] BY <1>2, <2>1
  <2>3. e.kind \in {"UserMessage", "ApprovalRequested", "ApprovalResolved"} => status'[s] \in Busy
    BY <1>2, <1>3, <2>1 DEF After, Busy, Duplicate
  <2>4. Announced'
    <3> SUFFICES ASSUME NEW h \in Gen, run'[h].pump
                 PROVE  NamesOwn(run'[h]) /\ (native[run'[h].s] = 0 => NamesFirst(run'[h]))
      BY <2>1 DEF Announced
    <3>1. CASE h # g
      <4>1. run'[h] = run[h] BY <1>7, <3>1
      <4> QED BY <4>1 DEF ConvInv, Announced
    <3>2. ASSUME native[s] = 0 PROVE NamesFirst(r)
      <4>1. NamesFirst(run[g]) /\ e.kind # "NativeSession" BY <1>13, <1>17, <3>2
      <4>2. r.working => Holds(r.chan, {"NativeSession"})
        BY <1>0, <1>5, <1>6, <4>1 DEF NamesFirst
      <4>3. ASSUME NEW i \in 1..Len(q), q[i].kind = "TurnEnded"
            PROVE  \/ \E j \in 1..(i - 1) : q[j].kind = "NativeSession"
                   \/ /\ ~r.reader
                      /\ \A k \in (i + 1)..Len(q) : q[k].kind \notin {"TurnEnded", "NativeSession"}
        <5>1. i + 1 \in 1..Len(c) /\ c[i + 1].kind = "TurnEnded" BY <1>6, <4>3
        <5>2. \/ \E j \in 1..((i + 1) - 1) : c[j].kind = "NativeSession"
              \/ /\ ~r.reader
                 /\ \A k \in (i + 2)..Len(c) : c[k].kind \notin {"TurnEnded", "NativeSession"}
          <6>1. (i + 1) + 1 = i + 2 BY <4>3
          <6> QED BY <1>0, <1>5, <4>1, <5>1, <6>1 DEF NamesFirst
        <5>3. CASE \E j \in 1..((i + 1) - 1) : c[j].kind = "NativeSession"
          <6>1. PICK j \in 1..((i + 1) - 1) : c[j].kind = "NativeSession" BY <5>3
          <6>2. j # 1 BY <1>6, <4>1, <6>1
          <6>3. j - 1 \in 1..(i - 1) /\ j - 1 \in 1..Len(q) /\ (j - 1) + 1 = j
            BY <4>3, <6>1, <6>2, <1>6
          <6>4. q[j - 1] = c[j] BY <1>6, <6>3
          <6> QED BY <6>1, <6>3, <6>4
        <5>4. CASE /\ ~r.reader
                   /\ \A k \in (i + 2)..Len(c) : c[k].kind \notin {"TurnEnded", "NativeSession"}
          <6>1. ASSUME NEW k \in (i + 1)..Len(q)
                PROVE  q[k].kind \notin {"TurnEnded", "NativeSession"}
            <7>1. k \in 1..Len(q) /\ k + 1 \in (i + 2)..Len(c) BY <1>6, <4>3
            <7> QED BY <1>6, <5>4, <7>1
          <6> QED BY <5>4, <6>1
        <5> QED BY <5>2, <5>3, <5>4
      <4> QED BY <1>5, <4>2, <4>3 DEF NamesFirst
    <3>3. CASE h = g BY <1>5, <1>7, <1>14, <3>2, <3>3
    <3> QED BY <3>1, <3>3
  <2>5. Agreed'
    <3> SUFFICES ASSUME NEW h \in Gen, Talking(h)'
                 PROVE  IF native[run'[h].s] = 0 THEN live[run'[h].s] = h /\ Begun(h)'
                        ELSE run'[h].native = native[run'[h].s]
      BY <1>4, <2>1 DEF Agreed
    <3>1. Talking(h) /\ run[h].s \in Session BY <1>2, <1>8 DEF Talking
    <3>2. IF native[run[h].s] = 0 THEN live[run[h].s] = h /\ Begun(h)
          ELSE run[h].native = native[run[h].s]
      BY <3>1 DEF ConvInv, Agreed
    <3>3. CASE run[h].s # s
      <4>1. run'[h] = run[h] BY <1>0, <1>7, <3>3
      <4>2. Begun(h) => Begun(h)' BY <1>4, <2>2, <3>1, <3>3, <4>1 DEF Begun
      <4> QED BY <1>8, <3>2, <4>2
    <3>4. CASE run[h].s = s /\ native[s] = 0
      <4>1. e.kind # "TurnEnded"
        <5> SUFFICES ASSUME e.kind = "TurnEnded" PROVE FALSE OBVIOUS
        <5>1. Talking(g) BY <1>0, <1>3, <1>6 DEF Talking
        <5>2. h = g BY <1>0, <3>2, <3>4, <5>1 DEF ConvInv, Agreed
        <5>3. ~r.reader /\ \A k \in 2..Len(c) : c[k].kind \notin {"TurnEnded", "NativeSession"}
          <6>1. 1 \in 1..Len(c) /\ c[1].kind = "TurnEnded" BY <1>6
          <6>2. \A j \in 1..(1 - 1) : FALSE OBVIOUS
          <6>3. 1 + 1 = 2 OBVIOUS
          <6> QED BY <1>0, <1>5, <1>13, <3>4, <6>1, <6>2, <6>3 DEF NamesFirst
        <5>4. ~Holds(q, {"TurnEnded", "NativeSession"}) BY <1>6, <5>3 DEF Holds
        <5> QED BY <1>5, <1>7, <5>2, <5>3, <5>4 DEF Talking
      <4>2. e.kind \in {"UserMessage", "ApprovalRequested", "ApprovalResolved"}
        BY <1>6, <1>17, <3>4, <4>1 DEF Event
      <4>3. Begun(h)' BY <1>8, <2>3, <3>4, <4>2 DEF Begun
      <4> QED BY <1>8, <3>2, <3>4, <4>3
    <3>5. CASE run[h].s = s /\ native[s] # 0 BY <1>8, <3>2, <3>5
    <3> QED BY <3>3, <3>4, <3>5
  <2>6. Resumes' BY <1>4, <2>1 DEF ConvInv, Resumes
  <2>7. Spared'
    <3> SUFFICES ASSUME NEW d \in Caller, NEW t, t = op[d].s, op[d].pc = "release", native[t] = 0
                 PROVE  ~Talking(live[t])'
      BY <1>4, <2>1 DEF Spared
    <3>1. t \in Session /\ live[t] # 0 BY <1>2 DEF ConvInv, OneReaper, OpGood
    <3>2. PICK h \in Gen : h = live[t] BY <1>2, <3>1
    <3>3. ~Talking(h) BY <3>2 DEF ConvInv, Spared
    <3>4. ~Talking(h)' BY <1>8, <3>3
    <3> QED BY <1>4, <3>2, <3>4
  <2> QED BY <1>10, <1>11, <1>12, <2>1, <2>4, <2>5, <2>6, <2>7 DEF Conversing
<1> QED BY <1>16, <1>17

LEMMA PumpExitTalks == ASSUME ConvInv, NEW g \in Gen, PumpExit(g) PROVE Conversing
<1>1. run[g] \in Run /\ live \in [Session -> 0..MaxGen]
  <2>1. EndsInv BY DEF ConvInv
  <2> QED BY <2>1, ConvTypes
<1>2. run' = [run EXCEPT ![g] = [run[g] EXCEPT !.pump = FALSE]] BY DEF PumpExit
<1>3. Milder(run[g], [run[g] EXCEPT !.pump = FALSE]) BY <1>1 DEF Run, Milder
<1>4. UNCHANGED <<status, native, live, quiet, op>>
  BY DEF PumpExit, Senders, Unregister, store
<1> QED BY <1>2, <1>3, <1>4, OneMilder, MoveTalks

\* A release by the reaper: what it takes out has nothing to say that would be missed.
LEMMA ReleaseTalks == ASSUME ConvInv, NEW c \in Caller, Release(c) PROVE Conversing
<1>0. PICK s, o : s = op[c].s /\ o = [op[c] EXCEPT !.pc = "shutdown", !.g = live[s]] OBVIOUS
<1>1. EndsInv BY DEF ConvInv
<1>2. /\ op \in [Caller -> Op] /\ live \in [Session -> 0..MaxGen]
      /\ \A n \in 0..MaxGen : n # 0 => n \in Gen
      /\ \A d \in Caller : op[d] \in Op /\ OpGood(op[d])
      /\ \A g \in Gen : run[g].pump => run[g].s \in Session
  BY <1>1, ConvTypes
<1>3. op[c].pc = "release" /\ op[c].kind = "reap" /\ live[s] # 0 /\ s \in Session
  <2>1. op[c].pc = "release" BY DEF Release
  <2> QED BY <1>0, <1>2, <2>1 DEF ConvInv, OneReaper, OpGood
<1>4. /\ live' = [live EXCEPT ![s] = 0] /\ op' = [op EXCEPT ![c] = o]
      /\ UNCHANGED <<status, native, run, quiet>>
  BY <1>0, <1>3 DEF Release, store
<1>5. o.pc = "shutdown" /\ o.kind = "reap" BY <1>0, <1>2, <1>3 DEF Op
<1>6. op'[c] = o /\ \A d \in Caller : d # c => op'[d] = op[d] BY <1>2, <1>4
<1>7. \A t \in Session : IF t = s THEN live'[t] = 0 ELSE live'[t] = live[t] BY <1>2, <1>4
<1>8. \A d \in Caller : d # c => op[d].kind # "reap" BY <1>3 DEF ConvInv, OneReaper
<1>9. \A d \in Caller : op'[d].pc \notin {"check", "release"}
  BY <1>5, <1>6, <1>8 DEF ConvInv, OneReaper
<1>10. Matched'
  <2>1. \A t \in Session : live'[t] # 0 => run[live'[t]].s = t BY <1>7 DEF ConvInv, Matched
  <2>2. \A d \in Caller : op'[d].pc = "record" => run[op'[d].g].s = op'[d].s
    BY <1>5, <1>6 DEF ConvInv, Matched
  <2> QED BY <1>4, <2>1, <2>2 DEF ConvInv, Matched
<1>11. OneReaper'
  <2>1. \A d, e \in Caller : op'[d].kind = "reap" /\ op'[e].kind = "reap" => d = e
    BY <1>6, <1>8
  <2>2. \A d \in Caller : op'[d].kind # "end" BY <1>5, <1>6 DEF ConvInv, OneReaper
  <2> QED BY <1>9, <2>1, <2>2 DEF OneReaper
<1>12. NotQuiet' BY <1>4, <1>5, <1>6 DEF ConvInv, NotQuiet
<1>13. Announced' BY <1>4 DEF ConvInv, Announced
<1>14. Agreed'
  <2> SUFFICES ASSUME NEW h \in Gen, Talking(h)
               PROVE  IF native[run[h].s] = 0 THEN live'[run[h].s] = h /\ Begun(h)'
                      ELSE run[h].native = native[run[h].s]
    BY <1>4 DEF Agreed, Talking
  <2>1. IF native[run[h].s] = 0 THEN live[run[h].s] = h /\ Begun(h)
        ELSE run[h].native = native[run[h].s]
    BY DEF ConvInv, Agreed
  <2>2. run[h].s \in Session BY <1>2 DEF Talking
  <2>3. native[run[h].s] = 0 => run[h].s # s
    BY <1>0, <1>3, <2>1 DEF ConvInv, Spared
  <2>4. Begun(h) => Begun(h)' BY <1>3, <1>4, <1>6 DEF Begun
  <2> QED BY <1>7, <2>1, <2>2, <2>3, <2>4
<1>15. Resumes' BY <1>4, <1>5, <1>6 DEF ConvInv, Resumes
<1>16. Spared' BY <1>9 DEF Spared
<1> QED BY <1>10, <1>11, <1>12, <1>13, <1>14, <1>15, <1>16 DEF Conversing

\* A start: it resumes what the session knows, and while it knows nothing, nobody else talks.
LEMMA StartTalks == ASSUME ConvInv, NEW c \in Caller, StartOk(c) PROVE Conversing
<1>0. PICK r, s, n, o : /\ s = op[c].s /\ n = gen + 1 /\ r = StartedRun(s, n, op[c].resume)
                        /\ o = [op[c] EXCEPT !.pc = "record", !.g = n]
  OBVIOUS
<1>1. EndsInv BY DEF ConvInv
<1>2. /\ run \in [Gen -> Run] /\ op \in [Caller -> Op] /\ live \in [Session -> 0..MaxGen]
      /\ gen \in Nat /\ \A m \in 0..MaxGen : m # 0 => m \in Gen
      /\ \A d \in Caller : op[d] \in Op /\ OpGood(op[d])
      /\ \A g \in Gen : g \in Nat \ {0} /\ (run[g].pump => run[g].s \in Session)
      /\ \A d \in Caller : op[d].pc = "start" => live[op[d].s] = 0 /\ op[d].s \in Session
  BY <1>1, ConvTypes
<1>3. /\ op[c].pc = "start" /\ n \in Gen /\ run' = [run EXCEPT ![n] = r]
      /\ live' = [live EXCEPT ![s] = n] /\ op' = [op EXCEPT ![c] = o]
      /\ UNCHANGED <<status, native, quiet>>
  <2>1. /\ op[c].pc = "start" /\ gen < MaxGen /\ UNCHANGED <<status, native, quiet>>
        /\ run' = [run EXCEPT ![gen + 1] = StartedRun(op[c].s, gen + 1, op[c].resume)]
        /\ live' = [live EXCEPT ![op[c].s] = gen + 1]
    BY Zenon DEF StartOk, store
  <2>2. op' = [op EXCEPT ![c] = [op[c] EXCEPT !.pc = "record", !.g = gen + 1]]
    BY <1>2 DEF StartOk
  <2>3. n \in Gen BY <1>0, <1>2, <2>1, BoundsAssumption DEF Gen
  <2> QED BY <1>0, <2>1, <2>2, <2>3, Zenon
<1>4. s \in Session /\ live[s] = 0 /\ op[c].kind = "send" BY <1>0, <1>2, <1>3 DEF OpGood
<1>5. o.pc = "record" /\ o.g = n /\ o.s = s /\ o.kind = "send" BY <1>0, <1>2, <1>4 DEF Op
<1>6. /\ r.s = s /\ r.chan = <<>> /\ ~r.working /\ r.proc = "up" /\ Len(r.chan) = 0
      /\ r.native = IF op[c].resume = 0 THEN n ELSE op[c].resume
  BY <1>0 DEF StartedRun, NotStarted
<1>7. /\ run'[n] = r /\ \A h \in Gen : h # n => run'[h] = run[h]
      /\ op'[c] = o /\ \A d \in Caller : d # c => op'[d] = op[d]
      /\ \A t \in Session : IF t = s THEN live'[t] = n ELSE live'[t] = live[t]
  BY <1>2, <1>3
<1>8. /\ \A t \in Session : live[t] # 0 => live[t] \in Gen /\ live[t] # n
      /\ \A d \in Caller : op[d].pc = "record" => op[d].g \in Gen /\ op[d].g # n
  <2>1. \A t \in Session : live[t] # n
    BY <1>0, <1>1, <1>2 DEF EndsInv, Named
  <2>2. \A d \in Caller : op[d].pc = "record" => op[d].g # n
    BY <1>0, <1>1, <1>2 DEF EndsInv, Named, Inside
  <2> QED BY <1>2, <2>1, <2>2 DEF OpGood
<1>9. Matched'
  <2>1. \A g \in Gen : run'[g].pump => run'[g].proc # "none"
    BY <1>6, <1>7 DEF ConvInv, Matched
  <2>2. \A t \in Session : live'[t] # 0 => run'[live'[t]].s = t
    BY <1>6, <1>7, <1>8 DEF ConvInv, Matched
  <2>3. \A d \in Caller : op'[d].pc = "record" => run'[op'[d].g].s = op'[d].s
    BY <1>5, <1>6, <1>7, <1>8 DEF ConvInv, Matched
  <2> QED BY <2>1, <2>2, <2>3 DEF Matched
<1>10. OneReaper'
  <2>1. \A d, e \in Caller : op'[d].kind = "reap" /\ op'[e].kind = "reap" => d = e
    BY <1>5, <1>7 DEF ConvInv, OneReaper
  <2>2. \A d \in Caller : op'[d].pc \in {"check", "release"} =>
           op'[d] = op[d] /\ op[d].s \in Session
    BY <1>2, <1>5, <1>7 DEF OpGood
  <2>3. \A d \in Caller : op'[d].pc \in {"check", "release"} =>
           op'[d].kind = "reap" /\ live'[op'[d].s] # 0
    BY <1>2, <1>3, <1>7, <2>2 DEF ConvInv, OneReaper
  <2>4. \A d \in Caller : op'[d].kind # "end" BY <1>5, <1>7 DEF ConvInv, OneReaper
  <2> QED BY <2>1, <2>3, <2>4 DEF OneReaper
<1>11. NotQuiet'
  <2>1. \A d \in Caller : op'[d].kind = "send" /\ op'[d].pc \in {"ensure", "start", "record"} =>
           op'[d].s \notin quiet
    BY <1>0, <1>3, <1>4, <1>5, <1>7 DEF ConvInv, NotQuiet
  <2>2. ~Holds(r.chan, {"UserMessage"}) BY <1>6 DEF Holds
  <2>3. \A g \in Gen : run'[g].pump /\ Holds(run'[g].chan, {"UserMessage"}) =>
           run'[g].s \notin quiet
    BY <1>7, <2>2 DEF ConvInv, NotQuiet
  <2> QED BY <1>3, <2>1, <2>3 DEF NotQuiet
<1>12. Announced'
  <2>1. NamesOwn(r) /\ NamesFirst(r) BY <1>6 DEF NamesOwn, NamesFirst
  <2> QED BY <1>3, <1>7, <2>1 DEF ConvInv, Announced
<1>13. Agreed'
  <2> SUFFICES ASSUME NEW h \in Gen, Talking(h)'
               PROVE  IF native[run'[h].s] = 0 THEN live'[run'[h].s] = h /\ Begun(h)'
                      ELSE run'[h].native = native[run'[h].s]
    BY <1>3 DEF Agreed
  <2>1. CASE h = n
    <3>1. op[c].resume = native[s] BY <1>0, <1>3 DEF ConvInv, Resumes
    <3>2. Begun(n)' BY <1>5, <1>6, <1>7 DEF Begun
    <3> QED BY <1>4, <1>6, <1>7, <2>1, <3>1, <3>2
  <2>2. CASE h # n
    <3>1. run'[h] = run[h] /\ Talking(h) /\ run[h].s \in Session
      BY <1>2, <1>7, <2>2 DEF Talking
    <3>2. IF native[run[h].s] = 0 THEN live[run[h].s] = h /\ Begun(h)
          ELSE run[h].native = native[run[h].s]
      BY <3>1 DEF ConvInv, Agreed
    <3>3. native[run[h].s] = 0 => run[h].s # s BY <1>2, <1>4, <3>2
    <3>4. Begun(h) => Begun(h)' BY <1>3, <1>7, <3>1 DEF Begun
    <3> QED BY <1>7, <3>1, <3>2, <3>3, <3>4
  <2> QED BY <2>1, <2>2
<1>14. Resumes' BY <1>3, <1>5, <1>7 DEF ConvInv, Resumes
<1>15. Spared'
  <2> SUFFICES ASSUME NEW d \in Caller, NEW t, t = op'[d].s, op'[d].pc = "release", native[t] = 0
               PROVE  ~Talking(live[t])'
    BY <1>3 DEF Spared
  <2>1. op'[d] = op[d] BY <1>5, <1>7
  <2>2. t \in Session /\ live[t] # 0 BY <1>2, <2>1 DEF ConvInv, OneReaper, OpGood
  <2>3. PICK h \in Gen : h = live[t] /\ h # n BY <1>8, <2>2
  <2>4. ~Talking(h) BY <2>1, <2>3 DEF ConvInv, Spared
  <2>5. ~Talking(h)' BY <1>7, <2>3, <2>4 DEF Talking
  <2>6. live'[t] = h BY <1>4, <1>7, <2>2, <2>3
  <2> QED BY <2>5, <2>6
<1> QED BY <1>9, <1>10, <1>11, <1>12, <1>13, <1>14, <1>15 DEF Conversing

\* The other steps of a call.
LEMMA CallTalks == ASSUME ConvInv, NEW c \in Caller, CallerStep(c) PROVE Conversing
<1>1. EndsInv BY DEF ConvInv
<1>2. /\ run \in [Gen -> Run] /\ op \in [Caller -> Op] /\ live \in [Session -> 0..MaxGen]
      /\ \A n \in 0..MaxGen : n # 0 => n \in Gen
      /\ op[c] \in Op /\ OpGood(op[c])
      /\ \A g \in Gen : run[g] \in Run /\ Milder(run[g], run[g])
  BY <1>1, ConvTypes DEF ConvInv, Matched, Milder
<1>3. NoOp.pc = "idle" /\ NoOp.kind = "none" BY DEF NoOp
<1>4. ASSUME NEW o, Moves(c, o), UNCHANGED <<status, native, live, quiet, run>> PROVE Conversing
  BY <1>2, <1>4, MoveTalks
<1>5. CASE EnsureLive(c)
  <2>1. PICK s, o : /\ s = op[c].s
                    /\ o = IF live[s] # 0 THEN [op[c] EXCEPT !.pc = "record", !.g = live[s]]
                           ELSE [op[c] EXCEPT !.pc = "start", !.resume = native[s]]
    OBVIOUS
  <2>2. /\ op' = [op EXCEPT ![c] = o] /\ op[c].pc = "ensure"
        /\ UNCHANGED <<status, native, live, quiet, run>>
    BY <1>2, <1>5, <2>1 DEF EnsureLive, store
  <2>3. s \in Session /\ op[c].kind = "send" /\ s \notin quiet
    BY <1>2, <2>1, <2>2 DEF OpGood, ConvInv, NotQuiet
  <2>4. /\ o.kind = "send" /\ o.s = s
        /\ IF live[s] # 0 THEN o.pc = "record" /\ o.g = live[s]
           ELSE o.pc = "start" /\ o.resume = native[s]
    BY <1>2, <2>1, <2>3 DEF Op
  <2>5. live[s] # 0 => live[s] \in Gen /\ run[live[s]].s = s
    BY <1>2, <2>3 DEF ConvInv, Matched
  <2>6. Moves(c, o) BY <2>2, <2>3, <2>4, <2>5 DEF Moves
  <2> QED BY <1>4, <2>2, <2>6
<1>6. CASE StartErr(c) \/ ShutdownDone(c) \/ SweepAsk(c)
  <2>1. /\ op' = [op EXCEPT ![c] = NoOp] /\ op[c].pc # "record"
        /\ UNCHANGED <<status, native, live, quiet, run>>
    BY <1>6 DEF StartErr, ShutdownDone, SweepAsk, store
  <2>2. Moves(c, NoOp) BY <1>3, <2>1 DEF Moves
  <2> QED BY <1>4, <2>1, <2>2
<1>7. CASE ReapCheck(c)
  <2>1. PICK s, o : /\ s = op[c].s
                    /\ o = IF s \notin leased /\ s \in quiet /\ status[s] \notin Busy
                           THEN [op[c] EXCEPT !.pc = "release"] ELSE NoOp
    OBVIOUS
  <2>2. /\ op' = [op EXCEPT ![c] = o] /\ op[c].pc = "check"
        /\ UNCHANGED <<status, native, live, quiet, run>>
    BY <1>7, <2>1 DEF ReapCheck, store
  <2>3. s \in Session /\ op[c].kind = "reap" /\ live[s] # 0
    BY <1>2, <2>1, <2>2 DEF OpGood, ConvInv, OneReaper
  <2>4. \/ o = NoOp
        \/ /\ o.pc = "release" /\ o.kind = "reap" /\ o.s = s
           /\ s \in quiet /\ status[s] \notin Busy
    BY <1>2, <2>1, <2>3 DEF Op
  <2>5. s \in quiet /\ status[s] \notin Busy /\ native[s] = 0 => ~Talking(live[s])
    <3> SUFFICES ASSUME s \in quiet, status[s] \notin Busy, native[s] = 0, Talking(live[s])
                 PROVE  FALSE
      OBVIOUS
    <3>1. PICK h \in Gen : h = live[s] /\ run[h].s = s BY <1>2, <2>3 DEF ConvInv, Matched
    <3>2. Begun(h) /\ run[h].pump BY <3>1 DEF ConvInv, Agreed, Talking
    <3>3. ~Holds(run[h].chan, {"UserMessage"}) BY <3>1, <3>2 DEF ConvInv, NotQuiet
    <3>4. \A d \in Caller : op[d].pc = "record" /\ op[d].kind = "send" => op[d].s # s
      BY DEF ConvInv, NotQuiet
    <3> QED BY <3>1, <3>2, <3>3, <3>4 DEF Begun
  <2>6. Moves(c, o) BY <1>3, <2>2, <2>3, <2>4, <2>5 DEF Moves
  <2> QED BY <1>4, <2>2, <2>6
<1>8. CASE Release(c) BY <1>8, ReleaseTalks
<1>9. CASE StartOk(c) BY <1>9, StartTalks
<1>0. PICK g : g = op[c].g OBVIOUS
<1>10. CASE Shutdown(c) \/ ShutdownKill(c)
  <2>1. PICK q : /\ run' = [run EXCEPT ![g] = q]
                 /\ \/ q = [run[g] EXCEPT !.shuttingDown = TRUE, !.stdin = FALSE]
                    \/ q = [run[g] EXCEPT !.proc = "exited"]
    <3>1. Shutdown(c) =>
            run' = [run EXCEPT ![g] = [run[g] EXCEPT !.shuttingDown = TRUE, !.stdin = FALSE]]
      BY <1>0, Zenon DEF Shutdown
    <3>2. ShutdownKill(c) => run' = [run EXCEPT ![g] = [run[g] EXCEPT !.proc = "exited"]]
      BY <1>0, Zenon DEF ShutdownKill
    <3> QED BY <1>10, <3>1, <3>2
  <2>2. /\ op[c].pc \in {"shutdown", "wait"} /\ UNCHANGED <<status, native, live, quiet>>
        /\ UNCHANGED op \/ op' = [op EXCEPT ![c] = [op[c] EXCEPT !.pc = "wait"]]
    BY <1>10 DEF Shutdown, ShutdownKill, store
  <2>3. g \in Gen BY <1>0, <1>2, <2>2 DEF OpGood
  <2>4. Milder(run[g], q) BY <1>2, <2>1, <2>3 DEF Milder, Run
  <2>5. PICK o : o = [op[c] EXCEPT !.pc = "wait"] OBVIOUS
  <2>6. o.pc = "wait" /\ o.kind = op[c].kind BY <1>2, <2>5 DEF Op
  <2>7. UNCHANGED op \/ Moves(c, o)
    BY <2>2, <2>5, <2>6 DEF Moves, ConvInv, OneReaper
  <2>8. \A h \in Gen : Milder(run[h], run'[h]) BY <2>1, <2>3, <2>4, OneMilder
  <2> QED BY <2>2, <2>7, <2>8, MoveTalks
<1>11. CASE Deliver(c) \/ Write(c) \/ InterruptRun(c)
  <2>1. /\ op[c].pc \in {"deliver", "write", "interrupt"}
        /\ UNCHANGED <<status, native, live, quiet>>
    BY <1>11 DEF Deliver, Write, InterruptRun, store
  <2>2. g \in Gen BY <1>0, <1>2, <2>1 DEF OpGood
  <2>3. PICK q : /\ run' = [run EXCEPT ![g] = q]
                 /\ q \in {ClaudeSend(run[g]), ClaudeAnswer(run[g], op[c].arg),
                           Piped(run[g], op[c]), ClaudeInterrupt(run[g])}
    <3>1. Deliver(c) => \E q \in {ClaudeSend(run[g]), ClaudeAnswer(run[g], op[c].arg)} :
                           run' = [run EXCEPT ![g] = q]
      BY <1>0, Zenon DEF Deliver
    <3>2. Write(c) => run' = [run EXCEPT ![g] = Piped(run[g], op[c])]
      BY <1>0, Zenon DEF Write
    <3>3. InterruptRun(c) => run' = [run EXCEPT ![g] = ClaudeInterrupt(run[g])]
      BY <1>0, Zenon DEF InterruptRun
    <3> QED BY <1>11, <3>1, <3>2, <3>3
  <2>4. \A x : /\ Milder(run[g], [run[g] EXCEPT !.turnActive = TRUE, !.interruptRequested = FALSE])
               /\ Milder(run[g], [run[g] EXCEPT !.wrote = x])
               /\ Milder(run[g], [run[g] EXCEPT !.pending = x])
               /\ Milder(run[g], [run[g] EXCEPT !.interruptRequested = x])
    BY <1>2, <2>2 DEF Milder, Run
  <2>5. Milder(run[g], q)
    BY <2>3, <2>4 DEF ClaudeSend, ClaudeAnswer, Piped, ClaudeInterrupt
  <2>6. PICK o : /\ op' = [op EXCEPT ![c] = o]
                 /\ o \in {NoOp, [op[c] EXCEPT !.pc = "write"]}
    <3>1. op[c].kind # "end" BY DEF ConvInv, OneReaper
    <3>2. Return(op[c]) = NoOp BY <3>1 DEF Return
    <3>3. Deliver(c) => \E o \in {NoOp, [op[c] EXCEPT !.pc = "write"]} :
                           op' = [op EXCEPT ![c] = o]
      BY Zenon DEF Deliver
    <3>4. Write(c) => op' = [op EXCEPT ![c] = Return(op[c])]
      BY Zenon DEF Write
    <3>5. InterruptRun(c) =>
            \E o \in {Return(op[c]), [op[c] EXCEPT !.pc = "write"]} : op' = [op EXCEPT ![c] = o]
      BY DEF InterruptRun
    <3> QED BY <1>11, <3>2, <3>3, <3>4, <3>5
  <2>7. \/ o = NoOp
        \/ o.pc = "write" /\ o.kind = op[c].kind
    BY <1>2, <2>6 DEF Op
  <2>8. Moves(c, o) BY <1>3, <2>1, <2>6, <2>7 DEF Moves, ConvInv, OneReaper
  <2>9. \A h \in Gen : Milder(run[h], run'[h]) BY <2>2, <2>3, <2>5, OneMilder
  <2> QED BY <2>1, <2>8, <2>9, MoveTalks
<1>12. CASE Record(c)
  <2>1. PICK e, o : e = OpEvent(op[c]) /\ o = [op[c] EXCEPT !.pc = "deliver"] OBVIOUS
  <2>2. /\ op[c].pc = "record" /\ UNCHANGED <<status, native, live, quiet>>
        /\ run' = [run EXCEPT ![g] = Emit(run[g], e)] /\ op' = [op EXCEPT ![c] = o]
    BY <1>0, <1>12, <2>1, Zenon DEF Record, store
  <2>3. g \in Gen BY <1>0, <1>2, <2>2 DEF OpGood
  <2>4. o.pc = "deliver" /\ o.kind = op[c].kind BY <1>2, <2>1 DEF Op
  <2>5. e \in Event BY <1>0, <1>2, <2>1, <2>2, <2>3, EventTypes DEF OpEvent, OpGood
  <2>6. /\ e.kind = "UserMessage" <=> op[c].kind = "send"
        /\ e.kind \in {"UserMessage", "ApprovalResolved"}
    BY <2>1 DEF OpEvent
  <2>7. e.kind = "UserMessage" => run[g].s \notin quiet
    BY <1>0, <2>2, <2>6 DEF ConvInv, Matched, NotQuiet
  <2>8. run[g] \in Run BY <1>2, <2>3
  <2>9. \E d \in Caller : \E p :
           /\ op' = [op EXCEPT ![d] = p] /\ op[d].pc = "record" /\ p.pc = "deliver"
           /\ p.kind = op[d].kind /\ op[d].g = g
           /\ op[d].kind = "send" => e.kind = "UserMessage"
    BY <1>0, <2>2, <2>4, <2>6
  <2> QED BY <2>2, <2>3, <2>5, <2>6, <2>7, <2>8, <2>9, EmitTalks
<1> QED BY <1>5, <1>6, <1>7, <1>8, <1>9, <1>10, <1>11, <1>12 DEF CallerStep

\* Calls that begin, clients, and time.  No teammate is ended.
LEMMA EntryTalks ==
    ASSUME ConvInv, "end" \notin Chore, NEW s \in Session,
           \/ \E c \in Caller :
                 \/ Send(c, s) \/ Interrupt(c, s) \/ ReapScan(c, s) \/ EndMember(c, s)
                 \/ \E a \in 1..MaxApproval : Answer(c, s, a)
           \/ Lease(s) \/ LeaseEnds(s) \/ IdlePasses(s)
    PROVE  Conversing
<1>1. EndsInv BY DEF ConvInv
<1>2. /\ run \in [Gen -> Run] /\ op \in [Caller -> Op] /\ live \in [Session -> 0..MaxGen]
      /\ \A n \in 0..MaxGen : n # 0 => n \in Gen
      /\ \A g \in Gen : run[g] \in Run /\ Milder(run[g], run[g])
  BY <1>1, ConvTypes DEF ConvInv, Matched, Milder
<1>3. live[s] # 0 => live[s] \in Gen /\ run[live[s]].s = s
  BY <1>2 DEF ConvInv, Matched
<1>4. ASSUME NEW c \in Caller,
             \/ Send(c, s) \/ Interrupt(c, s) \/ ReapScan(c, s) \/ EndMember(c, s)
             \/ \E a \in 1..MaxApproval : Answer(c, s, a)
      PROVE  Conversing
  <2>1. /\ op[c].pc = "idle" /\ UNCHANGED <<status, native, live, run>> /\ quiet' \subseteq quiet
    BY <1>4 DEF Send, Interrupt, ReapScan, EndMember, Answer, store
  <2>2. ASSUME NEW o, Moves(c, o) PROVE Conversing BY <1>2, <2>1, <2>2, MoveTalks
  <2>3. CASE Send(c, s)
    <3>1. PICK o : o = Call("ensure", "send", s, 0, count.msg + 1) OBVIOUS
    <3>2. op' = [op EXCEPT ![c] = o] /\ s \notin quiet' BY <2>3, <3>1 DEF Send
    <3>3. o.pc = "ensure" /\ o.kind = "send" /\ o.s = s BY <3>1 DEF Call
    <3>4. Moves(c, o) BY <2>1, <3>2, <3>3 DEF Moves
    <3> QED BY <2>2, <3>4
  <2>4. CASE ReapScan(c, s)
    <3>1. PICK o : o = Call("check", "reap", s, 0, 0) OBVIOUS
    <3>2. op' = [op EXCEPT ![c] = o] /\ live[s] # 0 /\ \A d \in Caller : op[d].kind # "reap"
      BY <2>4, <3>1 DEF ReapScan
    <3>3. o.pc = "check" /\ o.kind = "reap" /\ o.s = s BY <3>1 DEF Call
    <3>4. Moves(c, o) BY <2>1, <3>2, <3>3 DEF Moves
    <3> QED BY <2>2, <3>4
  <2>5. ASSUME NEW a \in 1..MaxApproval, Answer(c, s, a) PROVE Conversing
    <3>1. PICK o : o = Call("record", "answer", s, live[s], a) OBVIOUS
    <3>2. op' = [op EXCEPT ![c] = o] /\ live[s] # 0 BY <2>5, <3>1 DEF Answer
    <3>3. o.pc = "record" /\ o.kind = "answer" /\ o.s = s /\ o.g = live[s] BY <3>1 DEF Call
    <3>4. Moves(c, o) BY <1>3, <2>1, <3>2, <3>3 DEF Moves
    <3> QED BY <2>2, <3>4
  <2>6. ~EndMember(c, s) BY DEF EndMember
  <2>7. CASE Interrupt(c, s)
    <3>1. PICK o : o = Call("interrupt", "interrupt", s, live[s], 0) OBVIOUS
    <3>2. op' = [op EXCEPT ![c] = o] BY <2>7, <3>1 DEF Interrupt
    <3>3. o.pc = "interrupt" /\ o.kind = "interrupt" BY <3>1 DEF Call
    <3>4. Moves(c, o) BY <2>1, <3>2, <3>3 DEF Moves
    <3> QED BY <2>2, <3>4
  <2> QED BY <1>4, <2>3, <2>4, <2>5, <2>6, <2>7
<1>6. CASE Lease(s) \/ LeaseEnds(s)
  <2>1. UNCHANGED <<status, native, live, quiet, run, op>> BY <1>6 DEF Lease, LeaseEnds, store
  <2> QED BY <1>2, <2>1, MoveTalks
<1>7. CASE IdlePasses(s)
  <2>1. /\ UNCHANGED <<status, native, live, run, op>> /\ quiet' = quiet \cup {s}
        /\ \A g \in Gen : run[g].s = s => run[g].chan = <<>>
        /\ \A c \in Caller : op[c].s = s => op[c].pc \notin {"ensure", "start", "record"}
    BY <1>7 DEF IdlePasses, store
  <2>2. NotQuiet'
    <3>1. ~Holds(<<>>, {"UserMessage"})
      <4>1. Len(<<>>) = 0 OBVIOUS
      <4> QED BY <4>1 DEF Holds
    <3> QED BY <2>1, <3>1 DEF ConvInv, NotQuiet
  <2>3. Matched' /\ OneReaper' /\ Announced' /\ Resumes'
    BY <2>1 DEF ConvInv, Matched, OneReaper, Announced, Resumes
  <2>4. Agreed' BY <2>1 DEF ConvInv, Agreed, Talking, Begun
  <2>5. Spared' BY <2>1 DEF ConvInv, Spared, Talking
  <2> QED BY <2>2, <2>3, <2>4, <2>5 DEF Conversing
<1> QED BY <1>4, <1>6, <1>7

LEMMA SweepTalks == ASSUME ConvInv, NEW c \in Caller, Sweep(c) PROVE Conversing
<1>1. \A g \in Gen : Milder(run[g], run[g]) BY DEF ConvInv, Matched, Milder
<1>2. PICK o : o = Call("ask", "sweep", None, 0, 0) OBVIOUS
<1>3. /\ op[c].pc = "idle" /\ op' = [op EXCEPT ![c] = o]
      /\ UNCHANGED <<status, native, live, run, quiet>>
  BY <1>2 DEF Sweep, store
<1>4. o.pc = "ask" /\ o.kind = "sweep" BY <1>2 DEF Call
<1>5. Moves(c, o) BY <1>3, <1>4 DEF Moves
<1> QED BY <1>1, <1>3, <1>5, MoveTalks

\* A server that has just started has no runs that talk.
LEMMA SilentTalks ==
    ASSUME \A g \in Gen : ~run'[g].pump, \A s \in Session : live'[s] = 0,
           \A c \in Caller : op'[c] = NoOp
    PROVE  Conversing
<1>1. NoOp.pc = "idle" /\ NoOp.kind = "none" BY DEF NoOp
<1>2. Matched' BY <1>1 DEF Matched
<1>3. OneReaper' BY <1>1 DEF OneReaper
<1>4. NotQuiet' BY <1>1 DEF NotQuiet
<1>5. Announced' BY DEF Announced
<1>6. Agreed' BY DEF Agreed, Talking
<1>7. Resumes' /\ Spared' BY <1>1 DEF Resumes, Spared
<1> QED BY <1>2, <1>3, <1>4, <1>5, <1>6, <1>7 DEF Conversing

LEMMA RestartTalks == ASSUME ConvInv, Restart PROVE Conversing
<1>1. EndsInv BY DEF ConvInv
<1>2. \A g \in Gen : run[g] \in Run BY <1>1, ConvTypes
<1>3. ASSUME NEW g \in Gen PROVE ~run'[g].pump
  <2>1. CASE run[g].proc = "none"
    <3>1. run'[g] = run[g] BY <2>1 DEF Restart
    <3> QED BY <2>1, <3>1 DEF ConvInv, Matched
  <2>2. CASE run[g].proc # "none"
    <3>1. run'[g] = [run[g] EXCEPT !.proc = "exited", !.stdin = FALSE, !.reader = FALSE,
                                   !.pump = FALSE, !.chan = <<>>]
      BY <2>2 DEF Restart
    <3> QED BY <1>2, <3>1 DEF Run
  <2> QED BY <2>1, <2>2
<1>4. /\ \A s \in Session : live'[s] = 0
      /\ \A c \in Caller : op'[c] = NoOp
  BY DEF Restart
<1> QED BY <1>3, <1>4, SilentTalks

LEMMA ConvInit == Init => ConvInv
<1> SUFFICES ASSUME Init PROVE ConvInv OBVIOUS
<1>1. NoOp.pc = "idle" /\ NoOp.kind = "none" BY DEF NoOp
<1>2. /\ \A g \in Gen : ~run[g].pump
      /\ \A s \in Session : live[s] = 0
      /\ \A c \in Caller : op[c] = NoOp
  BY DEF Init, NotStarted
<1>3. Matched BY <1>1, <1>2 DEF Matched
<1>4. OneReaper BY <1>1, <1>2 DEF OneReaper
<1>5. NotQuiet BY <1>1, <1>2 DEF NotQuiet
<1>6. Announced BY <1>2 DEF Announced
<1>7. Agreed BY <1>2 DEF Agreed, Talking
<1>8. Resumes /\ Spared BY <1>1, <1>2 DEF Resumes, Spared
<1> QED BY <1>3, <1>4, <1>5, <1>6, <1>7, <1>8, EndsInit DEF ConvInv

LEMMA ConvStep ==
    ASSUME ConvInv, [Next]_vars, "end" \notin Chore
    PROVE  ConvInv' /\ \A s \in Session : native[s] # 0 => native'[s] = native[s]
<1>1. EndsInv' BY EndsStep DEF ConvInv
<1>2. CASE UNCHANGED vars
  <2>1. UNCHANGED <<status, native, live, run, quiet, op>> BY <1>2 DEF vars
  <2>2. \A g \in Gen : Milder(run[g], run'[g]) BY <2>1 DEF ConvInv, Matched, Milder
  <2>3. Conversing BY <2>1, <2>2, MoveTalks
  <2> QED BY <1>1, <2>1, <2>3 DEF ConvInv, Conversing
<1>3. ASSUME NEW c \in Caller, NEW s \in Session,
             \/ Send(c, s) \/ Interrupt(c, s) \/ ReapScan(c, s) \/ EndMember(c, s)
             \/ \E a \in 1..MaxApproval : Answer(c, s, a)
      PROVE  Conversing /\ UNCHANGED native
  <2>1. UNCHANGED native BY <1>3 DEF Send, Interrupt, ReapScan, EndMember, Answer, store
  <2> QED BY <1>3, <2>1, EntryTalks
<1>4. ASSUME NEW c \in Caller, CallerStep(c) PROVE Conversing /\ UNCHANGED native
  <2>1. UNCHANGED native
    BY <1>4 DEF CallerStep, EnsureLive, StartOk, StartErr, Record, Deliver, Write, InterruptRun,
                ReapCheck, Release, Shutdown, ShutdownKill, ShutdownDone, SweepAsk, store
  <2> QED BY <1>4, <2>1, CallTalks
<1>5. ASSUME NEW s \in Session, Lease(s) \/ LeaseEnds(s) \/ IdlePasses(s)
      PROVE  Conversing /\ UNCHANGED native
  <2>1. UNCHANGED native BY <1>5 DEF Lease, LeaseEnds, IdlePasses, store
  <2> QED BY <1>5, <2>1, EntryTalks
<1>6. ASSUME NEW g \in Gen, PumpExit(g) \/ AgentStep(g) \/ ReaderEof(g)
      PROVE  Conversing /\ UNCHANGED native
  <2>1. UNCHANGED native
    BY <1>6 DEF PumpExit, AgentStep, CliRead, CliFold, CliAsk, CliCancel, CliResult, CliExit,
                ReaderEof, store
  <2> QED BY <1>6, <2>1, PumpExitTalks, AgentTalks
<1>7. ASSUME Restart PROVE Conversing /\ UNCHANGED native
  <2>1. UNCHANGED native BY <1>7 DEF Restart
  <2> QED BY <1>7, <2>1, RestartTalks
<1>8. ASSUME NEW g \in Gen, Pump(g)
      PROVE  Conversing /\ \A s \in Session : native[s] # 0 => native'[s] = native[s]
  BY <1>8, PumpTalks
<1>10. ASSUME NEW c \in Caller, Sweep(c)
       PROVE  Conversing /\ \A s \in Session : native[s] # 0 => native'[s] = native[s]
  <2>1. UNCHANGED <<status, native, live, quiet, run>> BY <1>10 DEF Sweep, store
  <2> QED BY <1>10, <2>1, SweepTalks
<1>9. ASSUME Next PROVE Conversing /\ \A s \in Session : native[s] # 0 => native'[s] = native[s]
  BY <1>3, <1>4, <1>5, <1>6, <1>7, <1>8, <1>9, <1>10 DEF Next
<1> QED BY <1>1, <1>2, <1>9 DEF ConvInv, Conversing

(* The native session a conversation lives in is never replaced: what a    *)
(* start resumes was read under the registry lock and is still what the    *)
(* store has, a run that may yet report a session id has the store's, and  *)
(* while the store has none, only the registered run has one to report.    *)
(* This is where reap_idle's checks matter: a session that is quiet and    *)
(* not busy has no run that would still report one.  end_member releases   *)
(* without them, so it is left out.                                        *)
THEOREM SessionsResumeKeeps ==
    ASSUME "end" \notin Chore PROVE Spec => ResumeKeepsConversation
<1>1. ConvInv /\ [Next]_vars => ConvInv' BY ConvStep
<1>2. ConvInv /\ [Next]_vars => [\A s \in Session : native[s] # 0 => native'[s] = native[s]]_vars
  BY ConvStep
<1> QED BY <1>1, <1>2, ConvInit, PTL DEF Spec, ResumeKeepsConversation
=============================================================================
