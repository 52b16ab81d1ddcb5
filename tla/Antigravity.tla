----------------------------- MODULE Antigravity -----------------------------
(***************************************************************************)
(* The Antigravity adapter (agents/antigravity.rs): one agy process per    *)
(* turn and the task that reads it, the calls of the run's owner, the kill *)
(* timers, and the approval hooks agy runs before each tool, which reach   *)
(* the run's approvals over HTTP. agy itself is external.                  *)
(***************************************************************************)
EXTENDS Naturals, Sequences, FiniteSets

CONSTANTS Hook,         \* hook calls; the tool of each is decided when it is made
          Step,         \* tool steps of a turn's stream
          MaxTurn, MaxLine

VARIABLES
    st,       \* TurnState: [active, seq, pid, interrupted, down]; pid is the turn it belongs to, or 0
    appr,     \* ApprovalState: [open, policy, pending, always]; missed: the hook calls that a close
              \* found decided but without their card yet (history)
    policy,   \* AgyRun.policy: "unknown" before the first turn
    registered,         \* the run's token is known to the HookBroker
    call,     \* the owner's call under way: [op, pc, queued], queued: a turn ran when send was called
    proc,     \* [turn -> [alive, sig, lines, written]]: agy and what it has printed
    task,     \* [turn -> [pc, ended, intr, down, called, done]]: Turn::run with its parser
    timers,   \* the turns a kill_later waits for
    hooks,    \* [Hook -> [turn, kind, pc, reply]]
    user,     \* what the user has allowed: hook calls
    shown     \* events of the session: [ended, calls, results]

vars == <<st, appr, policy, registered, call, proc, task, timers, hooks, user, shown>>

Turn == 1..MaxTurn
Idle == [op |-> "none", pc |-> "idle", queued |-> FALSE]

\* AntigravityAdapter::start: read-only until the version is known.
Init ==
    /\ st = [active |-> FALSE, seq |-> 0, pid |-> 0, interrupted |-> FALSE, down |-> FALSE]
    /\ appr = [open |-> FALSE, policy |-> "readonly", pending |-> {}, always |-> FALSE, missed |-> {}]
    /\ policy = "unknown" /\ registered = TRUE /\ call = Idle /\ timers = {} /\ user = {}
    /\ proc = [t \in Turn |-> [alive |-> FALSE, sig |-> "none", lines |-> <<>>, written |-> 0]]
    /\ task = [t \in Turn |-> [pc |-> "none", ended |-> FALSE, intr |-> FALSE, down |-> FALSE,
                               called |-> {}, done |-> {}]]
    /\ hooks = [h \in Hook |-> [turn |-> 0, kind |-> "none", pc |-> "none", reply |-> "none"]]
    /\ shown = [ended |-> <<>>, calls |-> <<>>, results |-> <<>>]

\* RunApprovals::close: later hooks are denied and the pending ones withdrawn.
Asking == {h \in Hook : hooks[h].pc = "insert"}
Close(a) == [a EXCEPT !.open = FALSE, !.pending = {}, !.missed = @ \cup Asking]

\* kill(2): SIGKILL is not taken back by a later SIGINT.
Signal(t, s) == [proc EXCEPT ![t].sig = IF @ = "kill" THEN @ ELSE s]
-----------------------------------------------------------------------------
(* AgyRun::send: wait for the turn before, check, open, spawn.             *)
Send ==
    /\ call = Idle /\ ~st.down /\ st.seq < MaxTurn
    /\ call' = [op |-> "send", pc |-> IF st.seq = 0 THEN "version" ELSE "wait", queued |-> st.active]
    /\ UNCHANGED <<st, appr, policy, registered, proc, task, timers, hooks, user, shown>>

\* PREVIOUS_EXIT_GRACE has passed: whatever the process is doing, it is killed.
SendGraceOver ==
    /\ call.pc = "wait" /\ task[st.seq].pc # "gone" /\ call' = [call EXCEPT !.pc = "await"]
    /\ proc' = IF st.pid # 0 THEN Signal(st.pid, "kill") ELSE proc
    /\ UNCHANGED <<st, appr, policy, registered, task, timers, hooks, user, shown>>

SendWaited ==
    /\ call.op = "send" /\ call.pc \in {"wait", "await"} /\ task[st.seq].pc = "gone"
    /\ call' = [call EXCEPT !.pc = "version"]
    /\ UNCHANGED <<st, appr, policy, registered, proc, task, timers, hooks, user, shown>>

\* check_version, once per run: only the pinned version is gated by the hook alone.
SendVersion ==
    /\ call.op = "send" /\ call.pc = "version"
    /\ IF st.active THEN call' = Idle /\ UNCHANGED <<policy, appr>>   \* "a turn is already running"
       ELSE \E p \in IF policy = "unknown" THEN {"gated", "readonly"} ELSE {policy} :
              policy' = p /\ appr' = [appr EXCEPT !.policy = p] /\ call' = [call EXCEPT !.pc = "hook"]
    /\ UNCHANGED <<st, registered, proc, task, timers, hooks, user, shown>>

\* check_hook, before every turn: a hook that is not listed fails the message (Error and TurnEnded
\* at once, from no turn of its own).
SendHook ==
    /\ call.pc = "hook"
    /\ \/ call' = [call EXCEPT !.pc = "spawn"] /\ appr' = [appr EXCEPT !.open = TRUE]
       \/ call' = Idle /\ UNCHANGED appr
    /\ UNCHANGED <<st, policy, registered, proc, task, timers, hooks, user, shown>>

SendSpawn ==
    /\ call.pc = "spawn" /\ call' = Idle
    /\ \/ LET t == st.seq + 1 IN
          /\ st' = [st EXCEPT !.active = TRUE, !.seq = t, !.interrupted = FALSE, !.pid = t]
          /\ proc' = [proc EXCEPT ![t].alive = TRUE] /\ task' = [task EXCEPT ![t].pc = "read"]
          /\ UNCHANGED appr
       \/ appr' = Close(appr) /\ UNCHANGED <<st, proc, task>>
    /\ UNCHANGED <<policy, registered, timers, hooks, user, shown>>
-----------------------------------------------------------------------------
(* AgyRun::answer, interrupt and shutdown.                                 *)
Answer(h) ==
    /\ call = Idle /\ h \in appr.pending
    /\ \E d \in {"once", "always", "deny"} :
         /\ appr' = [appr EXCEPT !.pending = @ \ {h}, !.always = @ \/ d = "always"]
         /\ hooks' = [hooks EXCEPT ![h].reply = IF d = "deny" THEN "deny" ELSE "allow"]
         /\ user' = IF d = "deny" THEN user ELSE user \cup {h}
    /\ UNCHANGED <<st, policy, registered, call, proc, task, timers, shown>>

Interrupt ==
    /\ call = Idle /\ st.active /\ ~st.down /\ ~st.interrupted
    /\ st' = [st EXCEPT !.interrupted = TRUE] /\ call' = [Idle EXCEPT !.op = "interrupt", !.pc = "close"]
    /\ UNCHANGED <<appr, policy, registered, proc, task, timers, hooks, user, shown>>

InterruptSignal ==
    /\ call.pc = "close" /\ call' = Idle /\ appr' = Close(appr)
    /\ IF st.pid # 0 THEN proc' = Signal(st.pid, "int") /\ timers' = timers \cup {st.seq}
       ELSE UNCHANGED <<proc, timers>>
    /\ UNCHANGED <<st, policy, registered, task, hooks, user, shown>>

\* kill_later: only the turn it was set for, and only while that process is known.
KillLater(t) ==
    /\ t \in timers /\ timers' = timers \ {t}
    /\ proc' = IF st.seq = t /\ st.pid = t THEN Signal(t, "kill") ELSE proc
    /\ UNCHANGED <<st, appr, policy, registered, call, task, hooks, user, shown>>

\* shutdown revokes the token, then signals and waits as send does.
Shutdown ==
    /\ call = Idle /\ ~st.down /\ st' = [st EXCEPT !.down = TRUE]
    /\ registered' = FALSE /\ appr' = Close(appr)
    /\ call' = [Idle EXCEPT !.op = "shutdown", !.pc = IF st.seq = 0 THEN "gone" ELSE "grace"]
    /\ proc' = IF st.pid # 0 THEN Signal(st.pid, "int") ELSE proc
    /\ UNCHANGED <<policy, task, timers, hooks, user, shown>>

ShutdownGraceOver ==
    /\ call.pc = "grace" /\ task[st.seq].pc # "gone" /\ call' = [call EXCEPT !.pc = "await"]
    /\ proc' = IF st.pid # 0 THEN Signal(st.pid, "kill") ELSE proc
    /\ UNCHANGED <<st, appr, policy, registered, task, timers, hooks, user, shown>>

ShutdownDone ==
    /\ call.op = "shutdown" /\ call.pc \in {"grace", "await"} /\ task[st.seq].pc = "gone"
    /\ call' = [call EXCEPT !.pc = "gone"]
    /\ UNCHANGED <<st, appr, policy, registered, proc, task, timers, hooks, user, shown>>
-----------------------------------------------------------------------------
(* Turn::run and LineParser: the stream, the result, the exit.             *)
\* As FinishAllowed, for a finish that only looks at the turn's number.
FinishAllowedFault(t) == st.seq = t

FinishAllowed(t) == st.active /\ st.seq = t

\* finish: the turn is over for the run before anyone is told.
Finish(t, how) ==
    /\ task' = [task EXCEPT ![t].pc = IF FinishAllowed(t) THEN how ELSE "read", ![t].ended = TRUE,
                            ![t].intr = st.interrupted, ![t].down = st.down]
    /\ st' = IF FinishAllowed(t) THEN [st EXCEPT !.active = FALSE] ELSE st

ReadResult(t) ==
    LET l == Head(proc[t].lines) IN
    /\ task[t].pc = "read" /\ proc[t].lines # <<>> /\ l.k = "result" /\ Finish(t, l.how)
    /\ proc' = [proc EXCEPT ![t].lines = Tail(@)]
    /\ UNCHANGED <<appr, policy, registered, call, timers, hooks, user, shown>>

ToolDone(t, l) == l.over /\ l.step \notin task[t].done

\* step_update: a tool's call the first time it is seen, its result the first time it is not running.
ReadStep(t) ==
    LET l == Head(proc[t].lines) IN
    /\ task[t].pc = "read" /\ proc[t].lines # <<>> /\ l.k = "step"
    /\ proc' = [proc EXCEPT ![t].lines = Tail(@)]
    /\ task' = [task EXCEPT ![t].called = @ \cup {l.step}, ![t].done = IF l.over THEN @ \cup {l.step} ELSE @]
    /\ shown' = [shown EXCEPT
                   !.calls = IF l.step \in task[t].called THEN @ ELSE Append(@, <<t, l.step>>),
                   !.results = IF ToolDone(t, l) THEN Append(@, <<t, l.step>>) ELSE @]
    /\ UNCHANGED <<st, appr, policy, registered, call, timers, hooks, user>>

\* The rest of finish: pending cards are denied, and the turn's end is sent unless the run is closing.
FinishReport(t) ==
    /\ task[t].pc \in {"completed", "failed"} /\ appr' = Close(appr)
    /\ task' = [task EXCEPT ![t].pc = "read"]
    /\ shown' = IF task[t].down /\ ~task[t].intr THEN shown
                ELSE [shown EXCEPT !.ended =
                        Append(@, <<t, IF task[t].intr THEN "interrupted" ELSE task[t].pc>>)]
    /\ UNCHANGED <<st, policy, registered, call, proc, timers, hooks, user>>

\* End of output: a turn without a result has failed; then the process is no longer known.
ReadExit(t) ==
    /\ task[t].pc = "read" /\ proc[t].lines = <<>> /\ ~proc[t].alive
    /\ IF task[t].ended
       THEN /\ task' = [task EXCEPT ![t].pc = "gone"]
            /\ st' = IF st.seq = t THEN [st EXCEPT !.pid = 0] ELSE st
       ELSE Finish(t, "failed")
    /\ UNCHANGED <<appr, policy, registered, call, proc, timers, hooks, user, shown>>

TaskStep(t) == ReadResult(t) \/ ReadStep(t) \/ FinishReport(t) \/ ReadExit(t)
-----------------------------------------------------------------------------
(* HookBroker::handle and RunApprovals::decide, one hook call at a time.   *)
Reply(h, r) == hooks' = [hooks EXCEPT ![h].pc = "done", ![h].reply = r]

\* Everything decide reads, it reads here: the rest goes by it.
HookDecide(h) ==
    /\ hooks[h].pc = "sent"
    /\ IF ~registered \/ ~appr.open \/ hooks[h].kind = "root" THEN Reply(h, "deny")
       ELSE IF hooks[h].kind = "local" THEN Reply(h, "allow")
       ELSE IF appr.policy = "readonly" THEN Reply(h, "deny")
       ELSE IF appr.always THEN Reply(h, "allow")
       ELSE hooks' = [hooks EXCEPT ![h].pc = "insert"]
    /\ UNCHANGED <<st, appr, policy, registered, call, proc, task, timers, user, shown>>

\* The card: pending, then asked (an event of the session).
HookInsert(h) ==
    /\ hooks[h].pc = "insert" /\ hooks' = [hooks EXCEPT ![h].pc = "wait"]
    /\ appr' = [appr EXCEPT !.pending = @ \cup {h}]
    /\ UNCHANGED <<st, policy, registered, call, proc, task, timers, user, shown>>

HookAnswered(h) ==
    /\ hooks[h].pc = "wait" /\ hooks[h].reply # "none" /\ Reply(h, hooks[h].reply)
    /\ UNCHANGED <<st, appr, policy, registered, call, proc, task, timers, user, shown>>

\* Withdrawn by close: its sender was dropped.
HookWithdrawn(h) ==
    /\ hooks[h].pc = "wait" /\ hooks[h].reply = "none" /\ h \notin appr.pending /\ Reply(h, "deny")
    /\ UNCHANGED <<st, appr, policy, registered, call, proc, task, timers, user, shown>>

\* The deadline: the hook gives up, and the card is withdrawn after that.
HookTimeout(h) ==
    /\ hooks[h].pc = "wait" /\ hooks[h].reply = "none" /\ h \in appr.pending
    /\ hooks' = [hooks EXCEPT ![h].pc = "late"]
    /\ UNCHANGED <<st, appr, policy, registered, call, proc, task, timers, user, shown>>

HookGivesUp(h) ==
    /\ hooks[h].pc = "late" /\ appr' = [appr EXCEPT !.pending = @ \ {h}] /\ Reply(h, "deny")
    /\ UNCHANGED <<st, policy, registered, call, proc, task, timers, user, shown>>

HookStep(h) ==
    HookDecide(h) \/ HookInsert(h) \/ HookAnswered(h) \/ HookWithdrawn(h) \/ HookTimeout(h) \/ HookGivesUp(h)
-----------------------------------------------------------------------------
(* agy (external): prints steps and results, runs the hook, exits, or      *)
(* ignores SIGINT; SIGKILL ends it. Its hook outlives it.                  *)
AgyPrints(t) ==
    /\ proc[t].alive /\ proc[t].sig = "none" /\ proc[t].written < MaxLine
    /\ \E l \in [k : {"result"}, how : {"completed", "failed"}] \cup [k : {"step"}, step : Step, over : BOOLEAN] :
         proc' = [proc EXCEPT ![t].lines = Append(@, l), ![t].written = @ + 1]
    /\ UNCHANGED <<st, appr, policy, registered, call, task, timers, hooks, user, shown>>

AgyRunsHook(t) ==
    /\ proc[t].alive
    /\ \E h \in Hook, kind \in {"local", "root", "change"} :
         /\ hooks[h].pc = "none"
         /\ hooks' = [hooks EXCEPT ![h] = [turn |-> t, kind |-> kind, pc |-> "sent", reply |-> "none"]]
    /\ UNCHANGED <<st, appr, policy, registered, call, proc, task, timers, user, shown>>

AgyExits(t) ==
    /\ proc[t].alive /\ proc' = [proc EXCEPT ![t].alive = FALSE]
    /\ UNCHANGED <<st, appr, policy, registered, call, task, timers, hooks, user, shown>>

OwnerStep ==
    \/ SendGraceOver \/ SendWaited \/ SendVersion \/ SendHook \/ SendSpawn \/ InterruptSignal
    \/ ShutdownGraceOver \/ ShutdownDone

Next ==
    \/ Send \/ Interrupt \/ Shutdown \/ OwnerStep
    \/ \E h \in Hook : Answer(h) \/ HookStep(h)
    \/ \E t \in Turn : KillLater(t) \/ TaskStep(t) \/ AgyPrints(t) \/ AgyRunsHook(t) \/ AgyExits(t)

Spec == Init /\ [][Next]_vars

AgyDies(t) == proc[t].sig = "kill" /\ AgyExits(t)

\* What keeps running: the run's owner, the turns' tasks, the kill timers, and a killed agy dies.
Going(k) ==
    \/ k = 1 /\ OwnerStep
    \/ k = 2 /\ \E t \in Turn : TaskStep(t)
    \/ k = 3 /\ \E t \in Turn : KillLater(t)
    \/ k = 4 /\ \E t \in Turn : AgyDies(t)

-----------------------------------------------------------------------------
\* The types of the turn state, the approvals, the processes, the hooks and what was shown.
TypeOK ==
    /\ {st.active, st.interrupted, st.down, appr.open, appr.always, registered} \subseteq BOOLEAN
    /\ st.seq \in 0..MaxTurn /\ st.pid \in {0, st.seq} /\ timers \subseteq Turn /\ user \subseteq Hook
    /\ appr.pending \cup appr.missed \subseteq {h \in Hook : hooks[h].turn # 0}
    /\ call.pc \in {"idle", "version", "wait", "await", "hook", "spawn", "close", "grace", "gone"}
    /\ \A t \in Turn : /\ proc[t].written \in 0..MaxLine /\ Len(proc[t].lines) <= proc[t].written
                       /\ proc[t].sig \in {"none", "int", "kill"}
                       /\ task[t].pc \in {"none", "read", "completed", "failed", "gone"}
                       /\ task[t].called \cup task[t].done \subseteq Step
    /\ \A h \in Hook : hooks[h].turn \in 0..MaxTurn /\ hooks[h].reply \in {"none", "allow", "deny"}

(* "Send the turn's end once": a turn has one end, however many results    *)
(* agy prints and whether it exits during or after them, and the next turn *)
(* starts only when the end of this one has been sent.                     *)
TurnsEndOnceInOrder ==
    /\ Len(shown.ended) <= st.seq /\ \A n \in DOMAIN shown.ended : shown.ended[n][1] = n
    /\ st.seq > 1 => Len(shown.ended) >= st.seq - 1

(* No card outlives its turn ("Ending or interrupting a turn, and ending    *)
(* the run, deny every pending approval"), except of a call that decide     *)
(* had found open before the close and made pending after it: that card    *)
(* stays until it is answered, the next close, or its deadline.            *)
CardsCloseWithTurn == appr.open \/ appr.pending \subseteq appr.missed

(* A tool that may change something runs only with the user's consent to   *)
(* that call, or after "always", and never in a run that is read-only:     *)
(* timeouts, withdrawals and late answers all deny (rules 4 to 6).         *)
ChangesAllowedByUser ==
    \A h \in Hook : hooks[h].pc = "done" /\ hooks[h].reply = "allow" /\ hooks[h].kind # "local" =>
        hooks[h].kind = "change" /\ policy = "gated" /\ (h \in user \/ appr.always)

(* Each tool step of a turn is shown as one call and at most one result,   *)
(* the call first, in whatever order and how often its states arrive.      *)
ResultsFollowCalls ==
    /\ \A e \in {"calls", "results"} : \A i, j \in DOMAIN shown[e] : shown[e][i] = shown[e][j] => i = j
    /\ \A i \in DOMAIN shown.results : \E j \in DOMAIN shown.calls : shown.calls[j] = shown.results[i]

(* An interrupted turn ends, as an agy that ignores SIGINT is killed:       *)
(* Due ~> Met.                                                             *)
Due == st.active /\ st.interrupted
Met == ~st.active
=============================================================================
