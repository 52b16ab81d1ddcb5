------------------------------ MODULE Sessions ------------------------------
(***************************************************************************)
(* The session service of the main server: the registry of live agents    *)
(* (session.rs), the event store it writes (store.rs, events.rs) and, as   *)
(* the agent behind it, a run of the Claude Code adapter                   *)
(* (agents/claude_code.rs).                                                *)
(*                                                                         *)
(* HTTP handlers, the idle reaper and the other services of the server     *)
(* call the registry concurrently; a Caller is one such task, and          *)
(* op[c].pc is the await at which it stands.  Every started process has a  *)
(* generation g of its own, with a channel into the pump task that stores  *)
(* the events of that process.                                             *)
(*                                                                         *)
(* Three locks are kept across awaits: the registry's (lock), the one of   *)
(* each run (kept by the call that writes to the agent or waits for its    *)
(* end) and the one of the project mounts (kept by a sweep).               *)
(***************************************************************************)
EXTENDS Integers, Sequences, FiniteSets, Functions, TLC

CONSTANTS Session,      \* session ids
          Caller,       \* concurrent tasks of the server
          None,         \* no caller, no session
          ChanCap,      \* capacity of a run's event channel (256 in the code)
          PipeCap,      \* messages that fit in the pipe to an agent
          Chore,        \* what else runs: subset of {"reap", "end", "sweep"}
          MaxGen,       \* bound: processes started
          MaxMsg,       \* bound: messages sent
          MaxApproval,  \* bound: tool approvals requested
          MaxAnswer,    \* bound: approval answers
          MaxRestart    \* bound: restarts of the server

ASSUME BoundsAssumption ==
    /\ ChanCap \in Nat \ {0} /\ PipeCap \in Nat \ {0}
    /\ MaxGen \in Nat /\ MaxMsg \in Nat
    /\ MaxApproval \in Nat /\ MaxAnswer \in Nat
    /\ MaxRestart \in Nat
ASSUME NamesAssumption ==
    /\ None \notin Session /\ None \notin Caller
    /\ Chore \subseteq {"reap", "end", "sweep"}

VARIABLES
  \* the store, which survives a restart of the server
    status,   \* [Session -> Status]
    native,   \* [Session -> 0..MaxGen], the agent's own session id; 0 = unknown
    log,      \* [Session -> Seq(Event)]; last_seq is its length
  \* the server process
    live,     \* [Session -> 0..MaxGen], generation in the registry; 0 = none
    lock,     \* holder of the registry lock across an await, or None
    gen,      \* generations handed out
    run,      \* [1..MaxGen -> Run]
    op,       \* [Caller -> Op]
    quiet,    \* sessions whose last activity is at least `idle` ago
    leased,   \* sessions a client is looking at
    count     \* messages, approvals, ... so far (for the bounds)

vars == <<status, native, log, live, lock, gen, run, op, quiet, leased, count>>
store == <<status, native, log>>
-----------------------------------------------------------------------------
(* Events and the status they lead to.                                     *)

Status == {"Idle", "Running", "WaitingForApproval", "Finished", "Failed"}
Busy == {"Running", "WaitingForApproval"}
Gen == 1..MaxGen

\* `gen` is a history field: the process whose channel carried the event.
Event ==
    [kind : {"NativeSession"}, gen : Gen, native : Gen] \cup
    [kind : {"UserMessage"}, gen : Gen, msg : 1..MaxMsg] \cup
    [kind : {"ApprovalRequested"}, gen : Gen, approval : 1..MaxApproval] \cup
    [kind : {"ApprovalResolved"}, gen : Gen, approval : 1..MaxApproval] \cup
    [kind : {"TurnEnded"}, gen : Gen, failed : BOOLEAN]

\* Fault: the outcome of a turn is stored where its status belongs.
AfterFault(st, e) ==
    CASE e.kind \in {"UserMessage", "ApprovalResolved"} -> "Running"
      [] e.kind = "ApprovalRequested" -> "WaitingForApproval"
      [] e.kind = "TurnEnded" -> IF e.failed THEN "Failed" ELSE "Completed"
      [] OTHER -> st

\* SessionStatus::after
After(st, e) ==
    CASE e.kind \in {"UserMessage", "ApprovalResolved"} -> "Running"
      [] e.kind = "ApprovalRequested" -> "WaitingForApproval"
      [] e.kind = "TurnEnded" -> IF e.failed THEN "Failed" ELSE "Finished"
      [] OTHER -> st

\* Store::append and the touch of Sessions::record
AppendEvent(s, e) ==
    /\ log' = [log EXCEPT ![s] = Append(@, e)]
    /\ status' = [status EXCEPT ![s] = After(@, e)]
    /\ native' = [native EXCEPT ![s] =
                    IF e.kind = "NativeSession" THEN e.native ELSE @]
    /\ quiet' = quiet \ {s}

(* A run: the handle and stdout reader of the adapter, the process behind  *)
(* them, and the pump with its channel.  `wrote` is every user message     *)
(* written to the process, `read` how many of them it has consumed.        *)
Run == [s : Session \cup {None}, proc : {"none", "up", "exited"},
        stdin : BOOLEAN, reader : BOOLEAN, pump : BOOLEAN,
        native : 0..MaxGen, turnActive : BOOLEAN, interruptRequested : BOOLEAN,
        shuttingDown : BOOLEAN, pending : SUBSET (1..MaxApproval),
        chan : Seq(Event), wrote : Seq(1..MaxMsg), read : Nat, working : BOOLEAN]

NotStarted ==
    [s |-> None, proc |-> "none", stdin |-> FALSE, reader |-> FALSE, pump |-> FALSE,
     native |-> 0, turnActive |-> FALSE, interruptRequested |-> FALSE,
     shuttingDown |-> FALSE, pending |-> {}, chan |-> <<>>, wrote |-> <<>>,
     read |-> 0, working |-> FALSE]

\* A process resumes the native session it is given, or creates one of its own.
StartedRun(s, g, resume) ==
    [NotStarted EXCEPT !.s = s, !.proc = "up", !.stdin = TRUE, !.reader = TRUE,
                       !.pump = TRUE, !.native = IF resume = 0 THEN g ELSE resume]

Op == [pc : {"idle", "ensure", "start", "record", "deliver", "write", "interrupt",
             "check", "release", "shutdown", "wait", "ask"},
       kind : {"none", "send", "answer", "interrupt", "reap", "end", "sweep"},
       s : Session \cup {None}, g : 0..MaxGen, arg : 0..(MaxMsg + MaxApproval),
       resume : 0..MaxGen]
NoOp == [pc |-> "idle", kind |-> "none", s |-> None, g |-> 0, arg |-> 0, resume |-> 0]
Call(pc, kind, s, g, arg) ==
    [pc |-> pc, kind |-> kind, s |-> s, g |-> g, arg |-> arg, resume |-> 0]

\* LiveRun.run: one call at a time writes to the agent or waits for its end.
RunFree(g) == \A d \in Caller : op[d].pc \in {"write", "wait"} => op[d].g # g

\* ProjectMounts::entries: a sweep keeps it while it asks who is live.
MountsFree == \A d \in Caller : op[d].pc # "ask"

\* A write waits while the agent leaves its input unread.
PipeFull(g) ==
    /\ run[g].stdin /\ run[g].proc = "up"
    /\ Len(run[g].wrote) >= run[g].read + PipeCap

\* Whoever leaves the registry guard's scope gives the lock back.
GivenBack(c) == IF lock = c THEN None ELSE lock

Room(g) == Len(run[g].chan) < ChanCap
Emit(r, e) == [r EXCEPT !.chan = Append(@, e)]

Init ==
    /\ status = [s \in Session |-> "Idle"]
    /\ native = [s \in Session |-> 0]
    /\ log = [s \in Session |-> <<>>]
    /\ live = [s \in Session |-> 0]
    /\ lock = None
    /\ gen = 0
    /\ run = [g \in Gen |-> NotStarted]
    /\ op = [c \in Caller |-> NoOp]
    /\ quiet = Session
    /\ leased = {}
    /\ count = [msg |-> 0, approval |-> 0, answer |-> 0, restart |-> 0]
-----------------------------------------------------------------------------
(* Sessions::send                                                          *)

Send(c, s) ==
    /\ op[c].pc = "idle"
    /\ count.msg < MaxMsg
    /\ count' = [count EXCEPT !.msg = @ + 1]
    /\ op' = [op EXCEPT ![c] = Call("ensure", "send", s, 0, count.msg + 1)]
    /\ quiet' = quiet \ {s}
    /\ UNCHANGED <<store, live, lock, gen, run, leased>>

\* ensure_live: the registry lock is kept from here to the end of the start
EnsureLive(c) ==
    /\ op[c].pc = "ensure"
    /\ lock = None
    /\ IF live[op[c].s] # 0
       THEN /\ op' = [op EXCEPT ![c].pc = "record", ![c].g = live[op[c].s]]
            /\ UNCHANGED lock
       ELSE /\ op' = [op EXCEPT ![c].pc = "start", ![c].resume = native[op[c].s]]
            /\ lock' = c
    /\ UNCHANGED <<store, live, gen, run, quiet, leased, count>>

\* The prepare hooks need the mounts' entries; then the adapter spawns the process.
StartOk(c) ==
    LET s == op[c].s
        g == gen + 1
    IN /\ op[c].pc = "start"
       /\ MountsFree
       /\ gen < MaxGen
       /\ gen' = g
       /\ run' = [run EXCEPT ![g] = StartedRun(s, g, op[c].resume)]
       /\ live' = [live EXCEPT ![s] = g]
       /\ lock' = None
       /\ op' = [op EXCEPT ![c].pc = "record", ![c].g = g]
       /\ UNCHANGED <<store, quiet, leased, count>>

\* a prepare hook, a start-config hook or the adapter fails the start
StartErr(c) ==
    /\ op[c].pc = "start"
    /\ MountsFree
    /\ lock' = None
    /\ op' = [op EXCEPT ![c] = NoOp]
    /\ UNCHANGED <<store, live, gen, run, quiet, leased, count>>

OpEvent(o) ==
    IF o.kind = "send"
    THEN [kind |-> "UserMessage", gen |-> o.g, msg |-> o.arg]
    ELSE [kind |-> "ApprovalResolved", gen |-> o.g, approval |-> o.arg]

\* live.events.send(UserMessage | ApprovalResolved): into the channel, before the run
Record(c) ==
    /\ op[c].pc = "record"
    /\ Room(op[c].g)
    /\ run' = [run EXCEPT ![op[c].g] = Emit(@, OpEvent(op[c]))]
    /\ op' = [op EXCEPT ![c].pc = "deliver"]
    /\ UNCHANGED <<store, live, lock, gen, quiet, leased, count>>

\* ClaudeRun::send: the turn counts as active even when the write fails
ClaudeSend(r) == [r EXCEPT !.turnActive = TRUE, !.interruptRequested = FALSE]

\* ClaudeRun::answer: an approval that is not pending is an error
ClaudeAnswer(r, a) == [r EXCEPT !.pending = @ \ {a}]

\* live.run.lock(): the state of the run changes before the write
Deliver(c) ==
    LET g == op[c].g
        o == op[c]
    IN /\ o.pc = "deliver"
       /\ RunFree(g)
       /\ run' = [run EXCEPT ![g] = IF o.kind = "send" THEN ClaudeSend(@)
                                    ELSE ClaudeAnswer(@, o.arg)]
       /\ op' = [op EXCEPT ![c] = IF o.kind = "send" \/ o.arg \in run[g].pending
                                  THEN [o EXCEPT !.pc = "write"] ELSE NoOp]
       /\ UNCHANGED <<store, live, lock, gen, quiet, leased, count>>

\* What follows a call on the run: the end of a teammate goes on to release it.
Return(o) == IF o.kind = "end" THEN Call("release", "end", o.s, 0, 0) ELSE NoOp

\* A message that reaches the pipe; a closed or broken pipe is an error.
Piped(r, o) ==
    [r EXCEPT !.wrote = IF o.kind = "send" /\ r.stdin /\ r.proc = "up"
                        THEN Append(@, o.arg) ELSE @]

\* write_line: the message, the answer or the interrupt request goes out
Write(c) ==
    LET g == op[c].g
    IN /\ op[c].pc = "write"
       /\ ~PipeFull(g)
       /\ run' = [run EXCEPT ![g] = Piped(@, op[c])]
       /\ lock' = GivenBack(c)
       /\ op' = [op EXCEPT ![c] = Return(@)]
       /\ UNCHANGED <<store, live, gen, quiet, leased, count>>
-----------------------------------------------------------------------------
(* Sessions::answer and Sessions::interrupt                                *)

Requested(s) ==
    {a \in 1..MaxApproval : \E i \in 1..Len(log[s]) :
        log[s][i].kind = "ApprovalRequested" /\ log[s][i].approval = a}

\* Any client answers any approval it has been shown, however late.
Answer(c, s, a) ==
    /\ op[c].pc = "idle"
    /\ lock = None
    /\ live[s] # 0
    /\ a \in Requested(s)
    /\ count.answer < MaxAnswer
    /\ count' = [count EXCEPT !.answer = @ + 1]
    /\ op' = [op EXCEPT ![c] = Call("record", "answer", s, live[s], a)]
    /\ UNCHANGED <<store, live, lock, gen, run, quiet, leased>>

ClaudeInterrupt(r) == [r EXCEPT !.interruptRequested = @ \/ r.turnActive]

\* the registry lock is kept to the end of the call on the run (session.rs:452)
Interrupt(c, s) ==
    /\ op[c].pc = "idle"
    /\ lock = None
    /\ live[s] # 0
    /\ lock' = c
    /\ op' = [op EXCEPT ![c] = Call("interrupt", "interrupt", s, live[s], 0)]
    /\ UNCHANGED <<store, live, gen, run, quiet, leased, count>>

\* live.run.lock(): nothing is written when no turn is active
InterruptRun(c) ==
    LET g == op[c].g
        active == run[g].turnActive
    IN /\ op[c].pc = "interrupt"
       /\ RunFree(g)
       /\ run' = [run EXCEPT ![g] = ClaudeInterrupt(@)]
       /\ lock' = IF active THEN lock ELSE GivenBack(c)
       /\ op' = [op EXCEPT ![c] = IF active THEN [@ EXCEPT !.pc = "write"] ELSE Return(@)]
       /\ UNCHANGED <<store, live, gen, quiet, leased, count>>
-----------------------------------------------------------------------------
(* Release: by the idle reaper, after a check; by the end of a teammate,   *)
(* after an interrupt.                                                     *)

\* reap_idle: the snapshot of the registry, one candidate of it; there is one reaper
ReapScan(c, s) ==
    /\ "reap" \in Chore
    /\ \A d \in Caller : op[d].kind # "reap"
    /\ op[c].pc = "idle"
    /\ lock = None
    /\ live[s] # 0
    /\ op' = [op EXCEPT ![c] = Call("check", "reap", s, 0, 0)]
    /\ UNCHANGED <<store, live, lock, gen, run, quiet, leased, count>>

\* Fault: the reaper goes by the stored status alone.
ReapCheckFault(c) ==
    LET s == op[c].s
    IN /\ op[c].pc = "check"
       /\ op' = [op EXCEPT ![c] = IF s \notin leased /\ status[s] \notin Busy
                                  THEN [@ EXCEPT !.pc = "release"] ELSE NoOp]
       /\ UNCHANGED <<store, live, lock, gen, run, quiet, leased, count>>

\* reap_idle: leased, quiet and busy, read without the registry lock
ReapCheck(c) ==
    LET s == op[c].s
    IN /\ op[c].pc = "check"
       /\ op' = [op EXCEPT ![c] =
                    IF s \notin leased /\ s \in quiet /\ status[s] \notin Busy
                    THEN [@ EXCEPT !.pc = "release"] ELSE NoOp]
       /\ UNCHANGED <<store, live, lock, gen, run, quiet, leased, count>>

\* A2a::end_member: interrupt, then release whatever the session is doing
EndMember(c, s) ==
    /\ "end" \in Chore
    /\ op[c].pc = "idle"
    /\ lock = None
    /\ IF live[s] # 0
       THEN /\ op' = [op EXCEPT ![c] = Call("interrupt", "end", s, live[s], 0)]
            /\ lock' = c
       ELSE /\ op' = [op EXCEPT ![c] = Call("release", "end", s, 0, 0)]
            /\ UNCHANGED lock
    /\ UNCHANGED <<store, live, gen, run, quiet, leased, count>>

\* Sessions::release: out of the registry first, whose lock is kept to the end ...
Release(c) ==
    LET s == op[c].s
    IN /\ op[c].pc = "release"
       /\ lock = None
       /\ live' = [live EXCEPT ![s] = 0]
       /\ IF live[s] = 0
          THEN op' = [op EXCEPT ![c] = NoOp] /\ UNCHANGED lock
          ELSE /\ op' = [op EXCEPT ![c] = [@ EXCEPT !.pc = "shutdown", !.g = live[s]]]
               /\ lock' = c
       /\ UNCHANGED <<store, gen, run, quiet, leased, count>>

\* ... then ClaudeRun::shutdown: close stdin and wait for the process
Shutdown(c) ==
    /\ op[c].pc = "shutdown"
    /\ RunFree(op[c].g)
    /\ run' = [run EXCEPT ![op[c].g].shuttingDown = TRUE, ![op[c].g].stdin = FALSE]
    /\ op' = [op EXCEPT ![c].pc = "wait"]
    /\ UNCHANGED <<store, live, lock, gen, quiet, leased, count>>

\* Fault: no time limit on the wait for the process.
ShutdownKillFault(c) == FALSE

\* SHUTDOWN_GRACE is over: kill it
ShutdownKill(c) ==
    /\ op[c].pc = "wait"
    /\ run[op[c].g].proc = "up"
    /\ run' = [run EXCEPT ![op[c].g].proc = "exited"]
    /\ UNCHANGED <<store, live, lock, gen, op, quiet, leased, count>>

ShutdownDone(c) ==
    /\ op[c].pc = "wait"
    /\ run[op[c].g].proc = "exited"
    /\ lock' = GivenBack(c)
    /\ op' = [op EXCEPT ![c] = NoOp]
    /\ UNCHANGED <<store, live, gen, run, quiet, leased, count>>
-----------------------------------------------------------------------------
(* ProjectMounts::sweep, every 30 s, with a mount that has a session: it   *)
(* keeps the mounts' entries while it asks the registry whether the        *)
(* session is live (and unmounts what nobody used for long).               *)

Sweep(c) ==
    /\ "sweep" \in Chore
    /\ op[c].pc = "idle"
    /\ MountsFree
    /\ op' = [op EXCEPT ![c] = Call("ask", "sweep", None, 0, 0)]
    /\ UNCHANGED <<store, live, lock, gen, run, quiet, leased, count>>

\* Sessions::is_live
SweepAsk(c) ==
    /\ op[c].pc = "ask"
    /\ lock = None
    /\ op' = [op EXCEPT ![c] = NoOp]
    /\ UNCHANGED <<store, live, lock, gen, run, quiet, leased, count>>
-----------------------------------------------------------------------------
(* Leases and time.                                                        *)

Lease(s) ==
    /\ "reap" \in Chore
    /\ leased' = leased \cup {s}
    /\ UNCHANGED <<store, live, lock, gen, run, op, quiet, count>>

LeaseEnds(s) ==
    /\ s \in leased
    /\ leased' = leased \ {s}
    /\ UNCHANGED <<store, live, lock, gen, run, op, quiet, count>>

(* `idle` (300 s) passes without activity.  Timing assumption: it is far   *)
(* longer than a call stands before its message is in the channel, and     *)
(* than a pump needs for what is in it.  Only the reaper looks at it, and  *)
(* counts from the moment of its scan (`now`).                             *)
IdlePasses(s) ==
    /\ "reap" \in Chore
    /\ s \notin quiet
    /\ \A g \in Gen : run[g].s = s => run[g].chan = <<>>
    /\ \A c \in Caller : op[c].s = s =>
          op[c].pc \notin {"ensure", "start", "record", "check"}
    /\ quiet' = quiet \cup {s}
    /\ UNCHANGED <<store, live, lock, gen, run, op, leased, count>>
-----------------------------------------------------------------------------
(* The pump of generation g.                                               *)

\* a native id the store already has is not recorded again
Duplicate(s, e) == e.kind = "NativeSession" /\ e.native = native[s]

Pump(g) ==
    LET e == Head(run[g].chan)
    IN /\ run[g].pump
       /\ run[g].chan # <<>>
       /\ run' = [run EXCEPT ![g].chan = Tail(@)]
       /\ IF Duplicate(run[g].s, e) THEN UNCHANGED <<store, quiet>>
          ELSE AppendEvent(run[g].s, e)
       /\ UNCHANGED <<live, lock, gen, op, leased, count>>

\* Who holds a sender into g's channel: the registry, a call on g, the reader.
Senders(g) ==
    \/ live[run[g].s] = g
    \/ run[g].reader
    \/ \E c \in Caller : op[c].g = g

\* Fault: an exiting pump removes whatever entry its session has.
UnregisterFault(g) == [live EXCEPT ![run[g].s] = 0]

\* the registry after the pump of g has ended
Unregister(g) == IF live[run[g].s] = g THEN [live EXCEPT ![run[g].s] = 0] ELSE live

PumpExit(g) ==
    /\ run[g].pump
    /\ run[g].chan = <<>>
    /\ ~Senders(g)
    /\ lock = None
    /\ live' = Unregister(g)
    /\ run' = [run EXCEPT ![g].pump = FALSE]
    /\ UNCHANGED <<store, lock, gen, op, quiet, leased, count>>
-----------------------------------------------------------------------------
(* The agent process (external) and what read_stdout makes of its output.  *)

Talks(g) == run[g].proc = "up" /\ run[g].reader /\ Room(g)

\* A turn begins: the process announces its native session.
BeginTurn(r) == [r EXCEPT !.read = @ + 1, !.working = TRUE]

CliRead(g) ==
    /\ Talks(g)
    /\ ~run[g].working
    /\ run[g].read < Len(run[g].wrote)
    /\ run' = [run EXCEPT ![g] =
                 Emit(BeginTurn(@), [kind |-> "NativeSession", gen |-> g,
                                     native |-> run[g].native])]
    /\ UNCHANGED <<store, live, lock, gen, op, quiet, leased, count>>

\* A message that arrives during a turn may become part of it.
CliFold(g) ==
    /\ Talks(g)
    /\ run[g].working
    /\ run[g].read < Len(run[g].wrote)
    /\ run' = [run EXCEPT ![g].read = @ + 1]
    /\ UNCHANGED <<store, live, lock, gen, op, quiet, leased, count>>

\* Fault: the approval is remembered but nobody is told.
CliAskFault(g) ==
    LET a == count.approval + 1
    IN /\ Talks(g)
       /\ run[g].working
       /\ count.approval < MaxApproval
       /\ count' = [count EXCEPT !.approval = a]
       /\ run' = [run EXCEPT ![g].pending = @ \cup {a}]
       /\ UNCHANGED <<store, live, lock, gen, op, quiet, leased>>

\* Parsed::PermissionRequest for a tool that is not always allowed
Ask(r, a) == [r EXCEPT !.pending = @ \cup {a}]

CliAsk(g) ==
    LET a == count.approval + 1
    IN /\ Talks(g)
       /\ run[g].working
       /\ count.approval < MaxApproval
       /\ count' = [count EXCEPT !.approval = a]
       /\ run' = [run EXCEPT ![g] =
                    Emit(Ask(@, a),
                         [kind |-> "ApprovalRequested", gen |-> g, approval |-> a])]
       /\ UNCHANGED <<store, live, lock, gen, op, quiet, leased>>

\* Parsed::CancelRequest: forgotten without an event
CliCancel(g) ==
    /\ Talks(g)
    /\ \E a \in run[g].pending : run' = [run EXCEPT ![g].pending = @ \ {a}]
    /\ UNCHANGED <<store, live, lock, gen, op, quiet, leased, count>>

\* Parsed::TurnEnd
TurnEnd(r, g, error) ==
    Emit([r EXCEPT !.interruptRequested = FALSE, !.turnActive = FALSE, !.pending = {}],
         [kind |-> "TurnEnded", gen |-> g, failed |-> error /\ ~r.interruptRequested])

CliResult(g) ==
    /\ Talks(g)
    /\ run[g].working
    /\ \E error \in BOOLEAN :
          run' = [run EXCEPT ![g] = TurnEnd([@ EXCEPT !.working = FALSE], g, error)]
    /\ UNCHANGED <<store, live, lock, gen, op, quiet, leased, count>>

\* The process exits: by itself, killed from outside, or because stdin closed.
CliExit(g) ==
    /\ run[g].proc = "up"
    /\ run' = [run EXCEPT ![g].proc = "exited"]
    /\ UNCHANGED <<store, live, lock, gen, op, quiet, leased, count>>

\* Fault: every unexpected exit is reported as the end of a turn.
ReaderEofFault(g) ==
    LET r == [run[g] EXCEPT !.reader = FALSE]
    IN /\ run[g].proc = "exited"
       /\ run[g].reader
       /\ Room(g)
       /\ run' = [run EXCEPT ![g] =
                    IF ~r.shuttingDown
                    THEN Emit(r, [kind |-> "TurnEnded", gen |-> g,
                                  failed |-> ~r.interruptRequested])
                    ELSE r]
       /\ UNCHANGED <<store, live, lock, gen, op, quiet, leased, count>>

\* read_stdout at end of file: a turn cut short is reported, unless we shut it down
ReaderEof(g) ==
    LET r == [run[g] EXCEPT !.reader = FALSE]
    IN /\ run[g].proc = "exited"
       /\ run[g].reader
       /\ Room(g)
       /\ run' = [run EXCEPT ![g] =
                    IF r.turnActive /\ ~r.shuttingDown
                    THEN Emit(r, [kind |-> "TurnEnded", gen |-> g,
                                  failed |-> ~r.interruptRequested])
                    ELSE r]
       /\ UNCHANGED <<store, live, lock, gen, op, quiet, leased, count>>
-----------------------------------------------------------------------------
(* The server stops and starts again: only the store is left, agents lose  *)
(* their pipes, and Store::reset_live_statuses runs before anything else.  *)
Restart ==
    /\ count.restart < MaxRestart
    /\ count' = [count EXCEPT !.restart = @ + 1]
    /\ status' = [s \in Session |-> IF status[s] \in Busy THEN "Idle" ELSE status[s]]
    /\ live' = [s \in Session |-> 0]
    /\ lock' = None
    /\ run' = [g \in Gen |-> IF run[g].proc = "none" THEN run[g]
                             ELSE [run[g] EXCEPT !.proc = "exited", !.stdin = FALSE,
                                     !.reader = FALSE, !.pump = FALSE, !.chan = <<>>]]
    /\ op' = [c \in Caller |-> NoOp]
    /\ quiet' = Session
    /\ leased' = {}
    /\ UNCHANGED <<native, log, gen>>

CallerStep(c) ==
    \/ EnsureLive(c) \/ StartOk(c) \/ StartErr(c) \/ Record(c) \/ Deliver(c) \/ Write(c)
    \/ InterruptRun(c) \/ ReapCheck(c) \/ Release(c)
    \/ Shutdown(c) \/ ShutdownKill(c) \/ ShutdownDone(c) \/ SweepAsk(c)

AgentStep(g) ==
    \/ CliRead(g) \/ CliFold(g) \/ CliAsk(g) \/ CliCancel(g) \/ CliResult(g)
    \/ CliExit(g)

Next ==
    \/ \E c \in Caller, s \in Session :
          \/ Send(c, s) \/ Interrupt(c, s) \/ ReapScan(c, s) \/ EndMember(c, s)
          \/ \E a \in 1..MaxApproval : Answer(c, s, a)
    \/ \E c \in Caller : Sweep(c) \/ CallerStep(c)
    \/ \E s \in Session : Lease(s) \/ LeaseEnds(s) \/ IdlePasses(s)
    \/ \E g \in Gen : Pump(g) \/ PumpExit(g) \/ AgentStep(g) \/ ReaderEof(g)
    \/ Restart

Spec == Init /\ [][Next]_vars

(* Tasks of the server that can run do run, and its locks are given in the *)
(* order they were asked for (tokio), so that a call that waits for one is *)
(* not passed over for ever; the agent owes nothing.                       *)
Fairness ==
    /\ \A c \in Caller : SF_vars(CallerStep(c))
    /\ \A g \in Gen : WF_vars(Pump(g)) /\ WF_vars(PumpExit(g)) /\ WF_vars(ReaderEof(g))

FairSpec == Spec /\ Fairness

\* Callers are interchangeable: for the runs that check safety only.
CallerSymmetry == Permutations(Caller)
-----------------------------------------------------------------------------
(* Every variable has its type; a run that was never started is blank, and *)
(* the registry and the calls only name runs that were started.            *)
TypeOK ==
    /\ status \in [Session -> Status]
    /\ native \in [Session -> 0..MaxGen]
    /\ log \in [Session -> Seq(Event)]
    /\ live \in [Session -> 0..MaxGen]
    /\ lock \in Caller \cup {None}
    /\ gen \in 0..MaxGen
    /\ run \in [Gen -> Run]
    /\ op \in [Caller -> Op]
    /\ quiet \subseteq Session
    /\ leased \subseteq Session
    /\ count \in [msg : 0..MaxMsg, approval : 0..MaxApproval, answer : 0..MaxAnswer,
                 restart : 0..MaxRestart]

(* A running agent is never lost: unless it has been told to stop, or the  *)
(* call that took it out of the registry is about to, it is the one its    *)
(* session's next message will reach (LiveRun.generation: an exiting pump  *)
(* "only removes its own entry and never a newer process").  So a session  *)
(* has at most one agent that still takes input.                           *)
NoOrphanRun ==
    \A g \in Gen :
        run[g].proc = "up" /\ ~run[g].shuttingDown =>
            \/ live[run[g].s] = g
            \/ \E c \in Caller : op[c].pc = "shutdown" /\ op[c].g = g

(* The transcript never shows the end of a turn before the message that    *)
(* began it: at every stored TurnEnded of a process, at least as many      *)
(* messages to that process are stored as turns of it have ended           *)
(* (Sessions::send puts the message into the channel before the run).      *)
EndsFollowMessages ==
    \A s \in Session : \A i \in 1..Len(log[s]) :
        LET Upto(kind) == {j \in 1..i : /\ log[s][j].kind = kind
                                        /\ log[s][j].gen = log[s][i].gen}
        IN log[s][i].kind = "TurnEnded" =>
              Cardinality(Upto("TurnEnded")) <= Cardinality(Upto("UserMessage"))

(* The native session a conversation lives in is never replaced: every     *)
(* process started after the id became known resumes it, so no idle        *)
(* release loses the conversation ("Their next message resumes them        *)
(* natively", reap_idle).                                                  *)
ResumeKeepsConversation ==
    [][\A s \in Session : native[s] # 0 => native'[s] = native[s]]_vars

(* An approval the agent waits for can be seen: the request that made it   *)
(* pending is in the transcript or on its way there (read_stdout).         *)
PendingIsShown ==
    \A g \in Gen : \A a \in run[g].pending :
        run[g].pump => \E e \in Range(run[g].chan) \cup Range(log[run[g].s]) :
            e.kind = "ApprovalRequested" /\ e.approval = a

(* What can hold the service up for ever: an agent that neither reads its  *)
(* input nor exits while a call writes to it, and a start that keeps the   *)
(* registry and waits for the mounts while a sweep keeps the mounts and    *)
(* waits for the registry.                                                 *)
HeldUp ==
    \/ \E c \in Caller : op[c].pc = "write" /\ PipeFull(op[c].g)
    \/ \E c, d \in Caller : op[c].pc = "start" /\ op[d].pc = "ask"

(* Every call on the session service returns, again and again, unless one  *)
(* of those two holds it up for good: the registry lock and the runs'      *)
(* locks are given back, a full channel drains and a release does not wait *)
(* for ever for an agent that will not exit.                               *)
CallsReturn == \A c \in Caller : []<>(op[c].pc = "idle") \/ <>[]HeldUp

(* reap_idle: "Release agents that have been quiet for `idle`, are not     *)
(* mid-turn and are not leased": the reaper shuts down no agent that is at *)
(* work on a turn its adapter knows of.                                    *)
ReapSparesActiveTurns ==
    [][\A c \in Caller : Shutdown(c) /\ op[c].kind = "reap"
          => LET r == run[op[c].g] IN ~(r.proc = "up" /\ r.working /\ r.turnActive)]_vars

=============================================================================
