----------------------------- MODULE Schedules ------------------------------
(***************************************************************************)
(* Scheduled prompts (schedules/mod.rs, schedules/timing.rs): the          *)
(* scheduler's tick, which advances every due schedule and runs its latest *)
(* trigger; the API calls that change schedules meanwhile; the run rows;   *)
(* and the followers that finish a run at the first turn end after it.     *)
(*                                                                         *)
(* A session is reduced to what the scheduler sees of it: a message is     *)
(* recorded in a channel, its status changes when a pump has stored it,    *)
(* and the agent's turn ends later.  The store's connection is locked for  *)
(* one statement at a time, so a call that reads and then writes is two    *)
(* steps.                                                                  *)
(***************************************************************************)
EXTENDS Integers, Sequences, FiniteSets, Order

CONSTANTS Sched,         \* schedule ids
          Session,       \* sessions that schedules continue
          None,
          Exec,          \* concurrent executions of a schedule
          Kind,          \* the kinds a schedule may be given
          Target,        \* [Sched -> session to continue, or None for a new one]
          CatchUp,       \* schedules with catch_up
          Grace,         \* GRACE_MS, in clock units
          MaxMissedRows, \* MAX_MISSED_ROWS
          Outcome,       \* how turns end: completed, interrupted, failed
          Api,           \* API calls made: pause, resume, update, delete, run_now
          MaxTime,       \* bound: the clock
          MaxRuns,       \* bound: rows of schedule_runs, with the messages of users beside them
          MaxApi,        \* bound: API calls
          MaxUser,       \* bound: messages typed by users
          MaxRestart     \* bound: restarts

\* Never: no next trigger (NULL).
Never == -1

ASSUME SchedulesAssumption ==
    /\ \A k \in Kind : \/ k.type = "once" /\ k.at \in Nat
                       \/ k.type = "interval" /\ k.period \in Nat \ {0}
                       \/ k.type = "cron" /\ k.times \subseteq Nat
    /\ CatchUp \subseteq Sched
    /\ \A s \in Sched : Target[s] \in Session \cup {None}
    /\ Grace \in Nat /\ MaxMissedRows \in Nat
    /\ Outcome \subseteq {"completed", "interrupted", "failed"}
    /\ Api \subseteq {"pause", "resume", "update", "delete", "run_now"}
    /\ {MaxTime, MaxRuns, MaxApi, MaxUser, MaxRestart} \subseteq Nat

VARIABLES
  \* the database
    sch,     \* [Sched -> [state, born, paused, kind, anchor, next, last]]
    runs,    \* Seq([s, at, status, origin]): schedule_runs
    log,     \* [Session -> Seq(event)]
    status,  \* [Session -> {"Idle", "Running", "Finished"}]
  \* the server process
    now,     \* the clock
    tick,    \* [pc, now, due: snapshots still to plan, run: triggers to execute]
    ex,      \* [Exec -> [pc, s, at, run, seen, before, origin]]; seen: pushes start after it
    follow,  \* followed runs: set of [run, session, before, seen, lagged]
    api,     \* an update or resume between its read and its write
    user,    \* sessions with a recorded user message not yet with the agent
  \* the agents
    chan,    \* [Session -> Seq(event)]
    inbox,   \* [Session -> Seq(run, or 0 for a user message)]
    turn,    \* [Session -> what the agent's turn is about; {} = between turns]
    count

store == <<sch, runs>>
sessions == <<log, status, user, chan, inbox, turn>>
tasks == <<tick, ex, follow, api>>
vars == <<store, sessions, tasks, now, count>>

NoSchedule == [state |-> "none", born |-> 0, paused |-> FALSE, kind |-> None,
               anchor |-> 0, next |-> Never, last |-> Never]
NoTick == [pc |-> "idle", now |-> 0, due |-> {}, run |-> {}]
NoExec == [pc |-> "idle", s |-> None, at |-> 0, run |-> 0, seen |-> 0, before |-> 0,
           origin |-> "tick"]
NoApi == [pc |-> "idle", s |-> None]
-----------------------------------------------------------------------------
(* timing.rs                                                               *)

\* Fault: the trigger at the moment itself counts as after it.
NextAfterFault(kind, anchor, after) ==
    CASE kind.type = "once" -> IF kind.at >= after THEN kind.at ELSE Never
      [] kind.type = "interval" ->
            IF after < anchor + kind.period THEN anchor + kind.period
            ELSE anchor + ((after - anchor) \div kind.period) * kind.period
      [] kind.type = "cron" ->
            LET later == {t \in kind.times : t >= after}
            IN IF later = {} THEN Never ELSE Min(later)

\* next_after: the first trigger strictly after a moment
NextAfter(kind, anchor, after) ==
    CASE kind.type = "once" -> IF kind.at > after THEN kind.at ELSE Never
      [] kind.type = "interval" ->
            IF after < anchor + kind.period THEN anchor + kind.period
            ELSE anchor + ((after - anchor) \div kind.period + 1) * kind.period
      [] kind.type = "cron" ->
            LET later == {t \in kind.times : t > after}
            IN IF later = {} THEN Never ELSE Min(later)

\* occurrences_between, as a set: first is a planned trigger
Occurrences(kind, anchor, first, until) ==
    {first} \cup {t \in (first + 1)..until : NextAfter(kind, anchor, t - 1) = t}

\* Scheduler::first_trigger; Never where it refuses
FirstTrigger(kind, t) ==
    IF kind.type = "once"
    THEN IF kind.at < t - Grace THEN Never ELSE Max({kind.at, t})
    ELSE NextAfter(kind, t, t)

Init ==
    /\ now = 0
    /\ sch = [s \in Sched |-> NoSchedule]
    /\ runs = <<>>
    /\ log = [x \in Session |-> <<>>]
    /\ status = [x \in Session |-> "Idle"]
    /\ tick = NoTick
    /\ ex = [e \in Exec |-> NoExec]
    /\ follow = {}
    /\ api = NoApi
    /\ user = {}
    /\ chan = [x \in Session |-> <<>>]
    /\ inbox = [x \in Session |-> <<>>]
    /\ turn = [x \in Session |-> {}]
    /\ count = [api |-> 0, user |-> 0, restart |-> 0]

Bump(f) == count' = [count EXCEPT ![f] = @ + 1]

ClockAdvances ==
    /\ now < MaxTime
    /\ now' = now + 1
    /\ UNCHANGED <<store, sessions, tasks, count>>
-----------------------------------------------------------------------------
(* Scheduler::tick                                                         *)

Due(t) == {s \in Sched : /\ sch[s].state = "there" /\ ~sch[s].paused
                         /\ sch[s].next # Never /\ sch[s].next <= t}

\* tick_lock, and the list of due schedules: after the sleep, or woken by a change of a schedule
TickBegin ==
    /\ tick.pc = "idle"
    /\ Due(now) # {}
    /\ tick' = [pc |-> "plan", now |-> now, run |-> {},
                due |-> {[s |-> s, row |-> sch[s]] : s \in Due(now)}]
    /\ UNCHANGED <<store, sessions, ex, follow, api, now, count>>

NoticeEvent == [kind |-> "Notice", about |-> {}]

Row(s, at, st, origin) == [s |-> s, at |-> at, status |-> st, origin |-> origin]

\* the k largest of a set of times, in order
Latest(k, S) == Ascending({t \in S : Cardinality({u \in S : u > t}) < k})

\* Fault: the latest trigger is left out of the missed ones although it is not run.
MissedTimesFault(due, runIt) == Latest(MaxMissedRows, due \ {Max(due)})

\* the missed triggers that get a row: not the one that is run, and not too many
MissedTimes(due, runIt) ==
    Latest(MaxMissedRows, IF runIt THEN due \ {Max(due)} ELSE due)

\* Scheduler::plan on the row as it was when the due list was read
Plan(d) ==
    LET due == Occurrences(d.row.kind, d.row.anchor, d.row.next, tick.now)
        latest == Max(due)
        runIt == tick.now - latest <= Grace \/ d.s \in CatchUp
        missed == MissedTimes(due, runIt)
    IN /\ tick.pc = "plan"
       /\ d \in tick.due
       /\ Len(runs) + Len(missed) <= MaxRuns
       /\ sch' = IF sch[d.s].state # "there" THEN sch ELSE
                 [sch EXCEPT ![d.s].next = NextAfter(d.row.kind, d.row.anchor, tick.now),
                             ![d.s].last = IF runIt THEN latest ELSE @]
       /\ runs' = runs \o [i \in 1..Len(missed) |-> Row(d.s, missed[i], "missed", "tick")]
       /\ log' = [x \in Session |-> IF missed # <<>> /\ x = Target[d.s]
                                    THEN Append(log[x], NoticeEvent) ELSE log[x]]
       /\ tick' = [tick EXCEPT !.due = @ \ {d},
                               !.run = IF runIt THEN @ \cup {[s |-> d.s, at |-> latest]}
                                       ELSE @]
       /\ UNCHANGED <<status, user, chan, inbox, turn, ex, follow, api, now, count>>

\* join_all: the executions of a tick run side by side
TickExecute(e, x) ==
    /\ tick.pc = "plan" /\ tick.due = {}
    /\ x \in tick.run
    /\ ex[e].pc = "idle"
    /\ tick' = [tick EXCEPT !.run = @ \ {x}]
    /\ ex' = [ex EXCEPT ![e] = [NoExec EXCEPT !.pc = "insert", !.s = x.s, !.at = x.at]]
    /\ UNCHANGED <<store, sessions, follow, api, now, count>>

TickEnd ==
    /\ tick.pc = "plan" /\ tick.due = {} /\ tick.run = {}
    /\ \A e \in Exec : ex[e].pc = "idle" \/ ex[e].origin = "now"
    /\ tick' = NoTick
    /\ UNCHANGED <<store, sessions, ex, follow, api, now, count>>
-----------------------------------------------------------------------------
(* Scheduler::execute                                                      *)

\* what a schedule's session has stored; a new session has nothing
Stored(s) == IF Target[s] = None THEN 0 ELSE Len(log[Target[s]])

\* the row, and the subscription to pushes, before anything is sent
ExecInsert(e) ==
    /\ ex[e].pc = "insert"
    /\ Len(runs) + count.user < MaxRuns
    /\ runs' = Append(runs, Row(ex[e].s, ex[e].at, "running", ex[e].origin))
    /\ ex' = [ex EXCEPT ![e] = [ex[e] EXCEPT !.pc = "check", !.run = Len(runs) + 1, !.seen = Stored(ex[e].s)]]
    /\ UNCHANGED <<sch, sessions, tick, follow, api, now, count>>

\* Fault: the outcome of the turn is stored under a name of its own.
FinishedFault(r, st) ==
    [runs EXCEPT ![r].status = IF @ = "running" THEN "ended" ELSE @]

\* finish_run: only a running row changes
Finished(r, st) ==
    [runs EXCEPT ![r].status = IF @ = "running" THEN st ELSE @]

\* Scheduler::send, continue: skipped while the session is in a turn
ExecCheck(e) ==
    LET t == Target[ex[e].s]
    IN /\ ex[e].pc = "check"
       /\ t # None
       /\ IF status[t] = "Running"
          THEN /\ runs' = Finished(ex[e].run, "skipped")
               /\ ex' = [ex EXCEPT ![e] = NoExec]
          ELSE /\ ex' = [ex EXCEPT ![e].pc = "send", ![e].before = Len(log[t])]
               /\ UNCHANGED runs
       /\ UNCHANGED <<sch, sessions, tick, follow, api, now, count>>

\* the arguments of follow_turn, and where it stands in the pushes of its session
Follower(r, x, before, seen) ==
    [run |-> r, session |-> x, before |-> before, seen |-> seen, lagged |-> FALSE]

\* Scheduler::send, new: a session of its own, which only this run uses
ExecNew(e) ==
    /\ ex[e].pc = "check"
    /\ Target[ex[e].s] = None
    /\ follow' = follow \cup {Follower(ex[e].run, None, 0, 0)}
    /\ ex' = [ex EXCEPT ![e] = NoExec]
    /\ UNCHANGED <<store, sessions, tick, api, now, count>>

\* the session cannot be created, placed or started, or its process has gone
ExecFail(e) ==
    /\ ex[e].pc \in {"check", "send", "deliver"}
    /\ runs' = Finished(ex[e].run, "failed")
    /\ ex' = [ex EXCEPT ![e] = NoExec]
    /\ UNCHANGED <<sch, sessions, tick, follow, api, now, count>>

MsgEvent(r) == [kind |-> "UserMessage", about |-> {r}]

ExecRecord(e) ==
    LET t == Target[ex[e].s]
    IN /\ ex[e].pc = "send"
       /\ chan' = [chan EXCEPT ![t] = Append(@, MsgEvent(ex[e].run))]
       /\ ex' = [ex EXCEPT ![e].pc = "deliver"]
       /\ UNCHANGED <<store, log, status, user, inbox, turn, tick, follow, api, now, count>>

\* the agent has it; follow_turn takes over
ExecDeliver(e) ==
    LET t == Target[ex[e].s]
    IN /\ ex[e].pc = "deliver"
       /\ inbox' = [inbox EXCEPT ![t] = Append(@, ex[e].run)]
       /\ follow' = follow \cup {Follower(ex[e].run, t, ex[e].before, ex[e].seen)}
       /\ ex' = [ex EXCEPT ![e] = NoExec]
       /\ UNCHANGED <<store, log, status, user, chan, turn, tick, api, now, count>>

\* follow_turn: a push, or a look in the store

\* the turn ends stored in a follower's session after its `before`, and those not yet pushed to it
TurnEndsIn(x, n) == {i \in (n + 1)..Len(log[x]) : log[x][i].kind = "TurnEnded"}
TurnEndsAfter(f) == TurnEndsIn(f.session, f.before)
Unseen(f) == TurnEndsIn(f.session, f.seen)

FollowEnds(f, st) == runs' = Finished(f.run, st) /\ follow' = follow \ {f}
FollowOn(f, g) == follow' = (follow \ {f}) \cup {g} /\ UNCHANGED runs
EndOutcome(f, i) == log[f.session][i].outcome

\* Fault: a push of an event up to `before` counts as well.
FollowPushFault(f) ==
    /\ f.session # None /\ ~f.lagged /\ Unseen(f) # {}
    /\ FollowEnds(f, EndOutcome(f, Min(Unseen(f))))

\* Ok: the push of the next turn end (events are stored before they are pushed); other pushes
\* change nothing
FollowPush(f) ==
    /\ f.session # None /\ ~f.lagged /\ Unseen(f) # {}
    /\ LET i == Min(Unseen(f))
       IN IF i > f.before THEN FollowEnds(f, EndOutcome(f, i)) ELSE FollowOn(f, [f EXCEPT !.seen = i])

\* The broadcast channel drops the oldest pushes it holds for this receiver, turn ends among them.
FollowLags(f) ==
    /\ f.session # None /\ ~f.lagged
    /\ \E i \in Unseen(f) : FollowOn(f, [f EXCEPT !.seen = i, !.lagged = TRUE])

\* Fault: missed pushes are passed over.
FollowLaggedFault(f) ==
    /\ f.session # None /\ f.lagged
    /\ FollowOn(f, [f EXCEPT !.lagged = FALSE])

\* Lagged: the store is searched instead
FollowLagged(f) ==
    /\ f.session # None /\ f.lagged
    /\ IF TurnEndsAfter(f) # {} THEN FollowEnds(f, EndOutcome(f, Min(TurnEndsAfter(f))))
       ELSE FollowOn(f, [f EXCEPT !.lagged = FALSE])

\* the turn of a session of the run's own
FollowNew(f) == f.session = None /\ \E st \in Outcome : FollowEnds(f, st)

FollowTurn(f) ==
    /\ f \in follow
    /\ FollowPush(f) \/ FollowLags(f) \/ FollowLagged(f) \/ FollowNew(f)
    /\ UNCHANGED <<sch, sessions, tick, ex, api, now, count>>

\* what follow_turn does by itself: it takes a push, or reads the store
FollowRuns ==
    \E f \in follow : (FollowPush(f) \/ FollowLagged(f)) /\ UNCHANGED <<sch, sessions, tick, ex, api, now, count>>
-----------------------------------------------------------------------------
(* The API.                                                                *)

\* create: anchored at its creation, perhaps paused
Create(s, k, p) ==
    /\ sch[s].state = "none"
    /\ p => "pause" \in Api
    /\ FirstTrigger(k, now) # Never
    /\ sch' = [sch EXCEPT ![s] = [NoSchedule EXCEPT !.state = "there", !.born = now,
                                    !.kind = k, !.anchor = now, !.paused = p,
                                    !.next = IF p THEN Never ELSE FirstTrigger(k, now)]]
    /\ UNCHANGED <<runs, sessions, tasks, now, count>>

Call(name) ==
    /\ name \in Api
    /\ count.api < MaxApi
    /\ Bump("api")

Pause(s) ==
    /\ Call("pause")
    /\ sch[s].state = "there"
    /\ sch' = [sch EXCEPT ![s].paused = TRUE, ![s].next = Never]
    /\ UNCHANGED <<runs, sessions, tasks, now>>

\* update and resume read the row ...
ApiRead(name, s) ==
    /\ Call(name)
    /\ api.pc = "idle"
    /\ sch[s].state = "there"
    /\ api' = [pc |-> name, s |-> s, row |-> sch[s]]
    /\ UNCHANGED <<store, sessions, tick, ex, follow, now>>

\* ... and write what they made of it: resume
ResumeWrite ==
    LET r == api.row
        next == IF r.kind.type = "once"
                THEN IF r.last = Never /\ r.kind.at >= now - Grace
                     THEN Max({r.kind.at, now}) ELSE Never
                ELSE NextAfter(r.kind, now, now)
    IN /\ api.pc = "resume"
       /\ sch' = IF sch[api.s].state # "there" THEN sch ELSE
                 [sch EXCEPT ![api.s].paused = FALSE, ![api.s].anchor = now,
                             ![api.s].next = next]
       /\ api' = NoApi
       /\ UNCHANGED <<runs, sessions, tick, ex, follow, now, count>>

\* update with a new kind
UpdateKind(k) ==
    /\ api.pc = "update"
    /\ FirstTrigger(k, now) # Never
    /\ sch' = IF sch[api.s].state # "there" THEN sch ELSE
              [sch EXCEPT ![api.s].kind = k, ![api.s].anchor = now,
                          ![api.s].next = IF api.row.paused THEN Never
                                          ELSE FirstTrigger(k, now)]
    /\ api' = NoApi
    /\ UNCHANGED <<runs, sessions, tick, ex, follow, now, count>>

\* update of the prompt or catch_up: kind, anchor and next trigger are written back
UpdateRest ==
    /\ api.pc = "update"
    /\ sch' = IF sch[api.s].state # "there" THEN sch ELSE
              [sch EXCEPT ![api.s].kind = api.row.kind, ![api.s].anchor = api.row.anchor,
                          ![api.s].next = api.row.next]
    /\ api' = NoApi
    /\ UNCHANGED <<runs, sessions, tick, ex, follow, now, count>>

\* delete: the schedule and its rows, in one transaction
Delete(s) ==
    /\ Call("delete")
    /\ sch[s].state = "there"
    /\ sch' = [sch EXCEPT ![s].state = "deleted"]
    /\ runs' = [i \in 1..Len(runs) |-> IF runs[i].s = s
                                       THEN [runs[i] EXCEPT !.status = "deleted"]
                                       ELSE runs[i]]
    /\ UNCHANGED <<sessions, tasks, now>>

RunNow(e, s) ==
    /\ Call("run_now")
    /\ sch[s].state = "there"
    /\ ex[e].pc = "idle"
    /\ ex' = [ex EXCEPT ![e] = [NoExec EXCEPT !.pc = "insert", !.s = s, !.at = now,
                                                  !.origin = "now"]]
    /\ UNCHANGED <<store, sessions, tick, follow, api, now>>
-----------------------------------------------------------------------------
(* Sessions and agents.                                                    *)

UserRecord(x) ==
    /\ count.user < MaxUser /\ Len(runs) + count.user < MaxRuns
    /\ x \notin user
    /\ Bump("user")
    /\ user' = user \cup {x}
    /\ chan' = [chan EXCEPT ![x] = Append(@, MsgEvent(0))]
    /\ UNCHANGED <<store, log, status, inbox, turn, tasks, now>>

UserDeliver(x) ==
    /\ x \in user
    /\ user' = user \ {x}
    /\ inbox' = [inbox EXCEPT ![x] = Append(@, 0)]
    /\ UNCHANGED <<store, log, status, chan, turn, tasks, now, count>>

\* The agent reads a message: a turn begins, or the running one takes it in.
AgentReads(x) ==
    /\ inbox[x] # <<>>
    /\ inbox' = [inbox EXCEPT ![x] = Tail(@)]
    /\ turn' = [turn EXCEPT ![x] = @ \cup {Head(inbox[x])}]
    /\ UNCHANGED <<store, log, status, user, chan, tasks, now, count>>

TurnEnds(x) ==
    /\ turn[x] # {}
    /\ \E o \in Outcome :
          chan' = [chan EXCEPT ![x] = Append(@, [kind |-> "TurnEnded", about |-> turn[x],
                                                 outcome |-> o])]
    /\ turn' = [turn EXCEPT ![x] = {}]
    /\ UNCHANGED <<store, log, status, user, inbox, tasks, now, count>>

\* the session's pump: Store::append
Pump(x) ==
    /\ chan[x] # <<>>
    /\ chan' = [chan EXCEPT ![x] = Tail(@)]
    /\ log' = [log EXCEPT ![x] = Append(@, Head(chan[x]))]
    /\ status' = [status EXCEPT ![x] = IF Head(chan[x]).kind = "UserMessage"
                                       THEN "Running" ELSE "Finished"]
    /\ UNCHANGED <<store, user, inbox, turn, tasks, now, count>>

\* Fault: runs of the last server are left as they are.
RecoverFault == runs

\* recover: runs that can no longer be followed have failed
Recover == [i \in 1..Len(runs) |-> [runs[i] EXCEPT
                !.status = IF @ = "running" THEN "failed" ELSE @]]

(* The server stops and starts: its tasks and channels are gone, statuses  *)
(* are reset, and recover() runs before the first tick.                    *)
Restart ==
    /\ count.restart < MaxRestart
    /\ Bump("restart")
    /\ runs' = Recover
    /\ status' = [x \in Session |-> IF status[x] = "Running" THEN "Idle" ELSE status[x]]
    /\ tick' = NoTick
    /\ ex' = [e \in Exec |-> NoExec]
    /\ follow' = {}
    /\ api' = NoApi
    /\ user' = {}
    /\ chan' = [x \in Session |-> <<>>]
    /\ inbox' = [x \in Session |-> <<>>]
    /\ turn' = [x \in Session |-> {}]
    /\ UNCHANGED <<sch, log, now>>

ExecStep(e) ==
    \/ ExecInsert(e) \/ ExecCheck(e) \/ ExecNew(e) \/ ExecFail(e) \/ ExecRecord(e)
    \/ ExecDeliver(e)

TickStep ==
    \/ TickBegin \/ TickEnd
    \/ \E d \in tick.due : Plan(d)
    \/ \E e \in Exec : \E x \in tick.run : TickExecute(e, x)

Next ==
    \/ ClockAdvances
    \/ TickStep
    \/ \E e \in Exec : ExecStep(e)
    \/ \E f \in follow : FollowTurn(f)
    \/ \E s \in Sched, k \in Kind, p \in BOOLEAN : Create(s, k, p)
    \/ \E s \in Sched : \/ Pause(s) \/ ApiRead("resume", s) \/ ApiRead("update", s)
                        \/ Delete(s) \/ \E e \in Exec : RunNow(e, s)
    \/ ResumeWrite \/ UpdateRest \/ \E k \in Kind : UpdateKind(k)
    \/ \E x \in Session :
          UserRecord(x) \/ UserDeliver(x) \/ AgentReads(x) \/ TurnEnds(x) \/ Pump(x)
    \/ Restart

Spec == Init /\ [][Next]_vars

(* The server's tasks run when they can. Nothing makes an agent read what  *)
(* it is given, or end its turn.                                           *)
Fairness ==
    /\ \A e \in Exec : WF_vars(ExecStep(e))
    /\ WF_vars(TickStep) /\ WF_vars(FollowRuns)
    /\ \A x \in Session : WF_vars(UserDeliver(x)) /\ WF_vars(Pump(x))

FairSpec == Spec /\ Fairness
-----------------------------------------------------------------------------
(* Every variable has its type.                                            *)
TypeOK ==
    /\ sch \in [Sched -> [state : {"none", "there", "deleted"}, born : 0..MaxTime,
                          paused : BOOLEAN, kind : Kind \cup {None},
                          anchor : 0..MaxTime, next : Int, last : Int]]
    /\ \A i \in 1..Len(runs) :
          runs[i].status \in {"running", "completed", "interrupted", "failed",
                              "skipped", "missed", "deleted"}
    /\ now \in 0..MaxTime
    /\ \A e \in Exec : ex[e].pc # "idle" => ex[e].s \in Sched
    /\ \A f \in follow : f.run \in 1..Len(runs)
    /\ status \in [Session -> {"Idle", "Running", "Finished"}]

(* No trigger is lost: each moment at which a schedule should have fired   *)
(* has a row (a run, or `missed`), is still planned, or is about to be     *)
(* executed ("not silently run: it is recorded as `missed`").  Stated for  *)
(* schedules nobody paused, changed or deleted.                            *)
Untouched(s) ==
    sch[s].state = "there" /\ ~sch[s].paused /\ sch[s].anchor = sch[s].born
Accounted(s, t) ==
    \/ sch[s].next # Never /\ sch[s].next <= t
    \/ \E i \in 1..Len(runs) : runs[i].s = s /\ runs[i].at = t
    \/ [s |-> s, at |-> t] \in tick.run
    \/ \E e \in Exec : /\ ex[e].pc = "insert" /\ ex[e].origin = "tick"
                        /\ ex[e].s = s /\ ex[e].at = t
TriggersAccounted ==
    \A s \in Sched : Untouched(s) => \A t \in (sch[s].born + 1)..now :
        NextAfter(sch[s].kind, sch[s].born, t - 1) = t => Accounted(s, t)

(* No trigger fires twice: the rows a schedule's ticks made are for        *)
(* different moments, whatever is paused, deleted, run by hand or cut      *)
(* short by a restart meanwhile (tick_lock, plan before execute).          *)
TriggersFireOnce ==
    \A i, j \in 1..Len(runs) :
        /\ i # j /\ runs[i].s = runs[j].s
        /\ runs[i].origin = "tick" /\ runs[j].origin = "tick"
        => runs[i].at # runs[j].at

(* A followed run that ends completed or interrupted ends as the first     *)
(* turn end did that was stored after its status check, whatever pushes    *)
(* were lost, came late or are older, and whoever else sends to its        *)
(* session. Where two messages cross, that end may be the other's turn's.  *)
EndsByFirstTurnEnd ==
    [][\A f \in follow :
          (/\ f.session # None /\ runs[f.run].status = "running"
           /\ runs'[f.run].status \in {"completed", "interrupted"})
             => /\ TurnEndsAfter(f) # {}
                /\ runs'[f.run].status = EndOutcome(f, Min(TurnEndsAfter(f)))]_vars

\* The agent keeps it: it has not begun, or not ended, a turn since the run was sent.
AgentKeeps(i) ==
    \E f \in follow :
        /\ f.run = i
        /\ f.session # None => /\ TurnEndsAfter(f) = {}
                               /\ inbox[f.session] # <<>> \/ turn[f.session] # {}

(* Every run comes to an end, across restarts and lost pushes: a row stays *)
(* `running` only while an agent does not end its turn (follow_turn,       *)
(* recover).                                                               *)
RunsFinish ==
    \A i \in 1..MaxRuns :
        LET running == i <= Len(runs) /\ runs[i].status = "running"
        IN []<>~running \/ <>[]AgentKeeps(i)
-----------------------------------------------------------------------------
(* The types, in full: what the rows, the executions and the events hold.  *)

Time == Nat \cup {Never}
ScheduleRow == [state : {"none", "there", "deleted"}, born : 0..MaxTime, paused : BOOLEAN,
                kind : Kind \cup {None}, anchor : 0..MaxTime, next : Time, last : Time]
RunStatus == {"running", "completed", "interrupted", "failed", "skipped", "missed", "deleted"}
RunRow == [s : Sched, at : Nat, status : RunStatus, origin : {"tick", "now"}]
ExecRow == [pc : {"idle", "insert", "check", "send", "deliver"}, s : Sched \cup {None},
            at : Nat, run : Nat, seen : Nat, before : Nat, origin : {"tick", "now"}]
FollowRow(n) == [run : 1..n, session : Session \cup {None}, before : Nat, seen : Nat, lagged : BOOLEAN]
Event == [kind : {"UserMessage", "Notice"}, about : SUBSET Nat] \cup
         [kind : {"TurnEnded"}, about : SUBSET Nat, outcome : Outcome]

\* the row of a schedule that was created
Created(r) == r \in ScheduleRow /\ r.state # "none" /\ r.kind \in Kind

ScheduleTypes ==
    /\ sch \in [Sched -> ScheduleRow]
    /\ \A s \in Sched : sch[s].state # "none" => Created(sch[s])
    /\ api.pc \in {"idle", "update", "resume"}
    /\ api.pc # "idle" => Created(api.row) /\ api.pc \in Api /\ api.s \in Sched
    /\ now \in 0..MaxTime

\* A due schedule was read before now, and planned for no later than that.
TickTypes ==
    /\ tick \in [pc : {"idle", "plan"}, now : Nat, run : SUBSET [s : Sched, at : Nat],
                 due : SUBSET [s : Sched, row : ScheduleRow]]
    /\ tick.now <= now
    /\ tick.pc = "idle" => tick.due = {} /\ tick.run = {}
    /\ \A d \in tick.due :
          Created(d.row) /\ d.row.next \in Nat /\ d.row.next <= tick.now

RunTypes ==
    /\ runs \in Seq(RunRow)
    /\ ex \in [Exec -> ExecRow]
    /\ \A e \in Exec : /\ ex[e].pc # "idle" => ex[e].s \in Sched
                       /\ ex[e].pc \in {"check", "send", "deliver"} => ex[e].run \in 1..Len(runs)
    /\ follow \subseteq FollowRow(Len(runs))

SessionTypes ==
    /\ status \in [Session -> {"Idle", "Running", "Finished"}]
    /\ log \in [Session -> Seq(Event)] /\ chan \in [Session -> Seq(Event)]
    /\ inbox \in [Session -> Seq(Nat)]
    /\ turn \in [Session -> SUBSET Nat]

TypeInv == ScheduleTypes /\ TickTypes /\ RunTypes /\ SessionTypes

(* A trigger is used when an execution is to run it, or has its row.  Used *)
(* are three kinds of things: rows, triggers a tick will execute, and      *)
(* executions that have not inserted their row.                            *)
FromTick(i) == i \in 1..Len(runs) /\ runs[i].origin = "tick"
Inserting(e) == e \in Exec /\ ex[e].pc = "insert" /\ ex[e].origin = "tick"

\* Every used trigger of s is before t.
UsedBefore(s, t) ==
    /\ \A i : FromTick(i) /\ runs[i].s = s => runs[i].at < t
    /\ \A x \in tick.run : x.s = s => x.at < t
    /\ \A e : Inserting(e) /\ ex[e].s = s => ex[e].at < t

\* No trigger is used twice.
UsedOnce ==
    /\ \A i, j : FromTick(i) /\ FromTick(j) /\ i # j /\ runs[i].s = runs[j].s
                    => runs[i].at # runs[j].at
    /\ \A i : \A x \in tick.run : FromTick(i) /\ runs[i].s = x.s => runs[i].at # x.at
    /\ \A i, e : FromTick(i) /\ Inserting(e) /\ runs[i].s = ex[e].s => runs[i].at # ex[e].at
    /\ \A e : \A x \in tick.run : Inserting(e) /\ ex[e].s = x.s => ex[e].at # x.at
    /\ \A e, f : Inserting(e) /\ Inserting(f) /\ e # f /\ ex[e].s = ex[f].s
                    => ex[e].at # ex[f].at

\* What is planned is later than what is used: in the row, or in the row as the tick read it.
PlannedLater ==
    /\ \A s \in Sched : UsedBefore(s, now + 1)
    /\ \A s \in Sched : sch[s].state = "none" => UsedBefore(s, 0)
    /\ \A s \in Sched : sch[s].state = "there" /\ sch[s].next # Never
                        => UsedBefore(s, sch[s].next)
    /\ \A d \in tick.due : sch[d.s].state # "none" /\ UsedBefore(d.s, d.row.next)
    /\ \A d, c \in tick.due : d.s = c.s => d = c

FireInv == TypeInv /\ UsedOnce /\ PlannedLater

LEMMA NextIsLater ==
  ASSUME NEW k \in Kind, NEW anchor \in Nat, NEW after \in Nat
  PROVE  /\ NextAfter(k, anchor, after) \in Time
         /\ NextAfter(k, anchor, after) # Never => NextAfter(k, anchor, after) > after
<1>1. CASE k.type = "once" /\ k.at \in Nat
  BY <1>1 DEF NextAfter, Never, Time
<1>2. CASE k.type = "interval" /\ k.period \in Nat \ {0}
  <2>1. CASE after < anchor + k.period
    <3>1. NextAfter(k, anchor, after) = anchor + k.period BY <1>2, <2>1 DEF NextAfter
    <3> QED BY <1>2, <2>1, <3>1 DEF Never, Time
  <2>2. CASE ~(after < anchor + k.period)
    <3> DEFINE p == k.period
               d == after - anchor
    <3>1. p \in Nat /\ p > 0 /\ d \in Nat
      BY <1>2, <2>2
    <3>2. d \div p \in Nat /\ d < (d \div p + 1) * p
      <4> HIDE DEF p, d
      <4>1. d = p * (d \div p) + (d % p) /\ d % p \in 0..(p - 1) /\ d \div p \in Nat
        BY <3>1
      <4>2. (d \div p + 1) * p = p * (d \div p) + p
        BY <4>1, <3>1
      <4> QED BY <4>1, <4>2, <3>1
    <3>3. NextAfter(k, anchor, after) = anchor + (d \div p + 1) * p
      BY <1>2, <2>2 DEF NextAfter
    <3>4. (d \div p + 1) * p \in Nat
      <4> HIDE DEF p, d
      <4> QED BY <3>1, <3>2
    <3>5. anchor + (d \div p + 1) * p \in Nat /\ anchor + (d \div p + 1) * p > after
      <4> DEFINE x == (d \div p + 1) * p
      <4>1. x \in Nat /\ after - anchor < x BY <3>2, <3>4
      <4> HIDE DEF x
      <4>2. anchor + x \in Nat /\ anchor + x > after BY <4>1
      <4> QED BY <4>2 DEF x
    <3> QED BY <3>3, <3>5 DEF Time
  <2> QED BY <2>1, <2>2
<1>3. CASE k.type = "cron" /\ k.times \subseteq Nat
  <2> DEFINE later == {t \in k.times : t > after}
  <2>1. later = {} \/ Min(later) \in later
    BY <1>3, LeastExists
  <2>2. NextAfter(k, anchor, after) = IF later = {} THEN Never ELSE Min(later)
    BY <1>3 DEF NextAfter
  <2> QED BY <2>1, <2>2, <1>3 DEF Never, Time
<1> QED BY <1>1, <1>2, <1>3, SchedulesAssumption DEF SchedulesAssumption

LEMMA FirstIsTime ==
  ASSUME NEW k \in Kind, NEW t \in Nat PROVE FirstTrigger(k, t) \in Time
<1>1. CASE k.type = "once"
  <2>1. k.at \in Nat BY <1>1, SchedulesAssumption DEF SchedulesAssumption
  <2>2. Max({k.at, t}) \in {k.at, t}
    <3>1. \A y \in {k.at, t} : y <= k.at + t BY <2>1
    <3>2. {k.at, t} \in SUBSET Nat /\ {k.at, t} # {} /\ k.at + t \in Nat BY <2>1
    <3> QED BY <3>1, <3>2, GreatestExists
  <2> QED BY <1>1, <2>1, <2>2 DEF FirstTrigger, Time
<1>2. CASE k.type # "once" BY <1>2, NextIsLater DEF FirstTrigger
<1> QED BY <1>1, <1>2

\* The planned trigger is the first of those that are due.
LEMMA OccurrencesDue ==
  ASSUME NEW k, NEW anchor, NEW first \in Nat, NEW until \in Nat, first <= until
  PROVE  LET due == Occurrences(k, anchor, first, until)
         IN /\ due \in SUBSET (first..until) /\ IsFiniteSet(due)
            /\ Max(due) \in due
<1> DEFINE due == Occurrences(k, anchor, first, until)
<1>1. due \in SUBSET (first..until) /\ first \in due BY DEF Occurrences
<1>2. IsFiniteSet(due) BY <1>1, FS_Interval, FS_Subset
<1>3. due \in SUBSET Nat /\ due # {} /\ \A y \in due : y <= until BY <1>1
<1>4. Max(due) \in due
  <2> HIDE DEF due
  <2> QED BY <1>3, GreatestExists
<1> QED BY <1>1, <1>2, <1>4

\* Missed triggers are among those that are due, each once, and not the one that is run.
LEMMA MissedOnce ==
  ASSUME NEW due \in SUBSET Nat, IsFiniteSet(due), NEW runIt \in BOOLEAN
  PROVE  LET missed == MissedTimes(due, runIt)
         IN /\ missed \in Seq(due)
            /\ \A i \in 1..Len(missed) : runIt => missed[i] # Max(due)
            /\ \A i, j \in 1..Len(missed) : i # j => missed[i] # missed[j]
<1> DEFINE from == IF runIt THEN due \ {Max(due)} ELSE due
           kept == {t \in from : Cardinality({u \in from : u > t}) < MaxMissedRows}
           c == Cardinality(kept)
           missed == MissedTimes(due, runIt)
<1>1. from \subseteq due /\ (runIt => Max(due) \notin from) OBVIOUS
<1>2. kept \subseteq from OBVIOUS
<1>3. missed = Ascending(kept) BY Zenon DEF MissedTimes, Latest
<1> HIDE DEF from, kept, missed
<1>4. kept \in SUBSET Int /\ IsFiniteSet(kept) 
  <2>1. kept \in SUBSET due BY <1>1, <1>2
  <2>2. \A x \in kept : x \in Int BY <2>1
  <2> QED BY <2>1, <2>2, FS_Subset
<1>5. /\ c \in Nat /\ missed \in [1..c -> kept]
      /\ \A m, n \in 1..c : m < n => missed[m] < missed[n]
  BY <1>3, <1>4, AscendingOrder
<1> HIDE DEF c
<1>6. missed \in Seq(kept) /\ Len(missed) = c BY <1>5
<1>7. \A i \in 1..c : missed[i] \in due /\ (runIt => missed[i] # Max(due))
  BY <1>1, <1>2, <1>5
<1>8. ASSUME NEW i \in 1..c, NEW j \in 1..c, i # j PROVE missed[i] # missed[j]
  <2>1. missed[i] \in Nat /\ missed[j] \in Nat BY <1>7
  <2>2. CASE i < j BY <1>5, <2>1, <2>2
  <2>3. CASE j < i BY <1>5, <2>1, <2>3
  <2> QED BY <1>5, <1>8, <2>2, <2>3
<1>9. missed \in Seq(due) BY <1>5, <1>6, <1>7
<1> QED BY <1>6, <1>7, <1>8, <1>9 DEF missed

-----------------------------------------------------------------------------
(* Types: one lemma for each group of actions.                             *)

\* The rows are the same but for their status.
SameRows ==
    /\ runs' \in Seq(RunRow) /\ Len(runs') = Len(runs)
    /\ \A i \in 1..Len(runs) : /\ runs'[i].s = runs[i].s /\ runs'[i].at = runs[i].at
                               /\ runs'[i].origin = runs[i].origin

LEMMA RowsFinished ==
  ASSUME RunTypes, NEW r, NEW st \in RunStatus, runs' = Finished(r, st) PROVE SameRows
<1> DEFINE new(i) == [runs[i] EXCEPT !.status = IF @ = "running" THEN st ELSE @]
<1>1. \A i \in 1..Len(runs) : runs[i] \in RunRow BY DEF RunTypes
<1>2. \A i \in 1..Len(runs) : new(i) \in RunRow BY <1>1 DEF RunRow
<1>3. runs \in [1..Len(runs) -> RunRow] /\ Len(runs) \in Nat BY DEF RunTypes
<1>4. runs' = [i \in 1..Len(runs) |-> IF i = r THEN new(i) ELSE runs[i]]
  BY <1>3 DEF Finished
<1> QED BY <1>1, <1>2, <1>3, <1>4 DEF SameRows, RunRow

LEMMA RowsRecovered == ASSUME RunTypes, runs' = Recover PROVE SameRows
<1>1. \A i \in 1..Len(runs) : runs[i] \in RunRow BY DEF RunTypes
<1>2. \A i \in 1..Len(runs) :
        [runs[i] EXCEPT !.status = IF @ = "running" THEN "failed" ELSE @] \in RunRow
  BY <1>1 DEF RunRow, RunStatus
<1>3. Len(runs) \in Nat BY DEF RunTypes
<1> QED BY <1>1, <1>2, <1>3 DEF Recover, SameRows, RunRow

LEMMA RowsDeleted ==
  ASSUME RunTypes, NEW s,
         runs' = [i \in 1..Len(runs) |-> IF runs[i].s = s
                                         THEN [runs[i] EXCEPT !.status = "deleted"]
                                         ELSE runs[i]]
  PROVE  SameRows
<1>1. \A i \in 1..Len(runs) : runs[i] \in RunRow BY DEF RunTypes
<1>2. \A i \in 1..Len(runs) : [runs[i] EXCEPT !.status = "deleted"] \in RunRow
  BY <1>1 DEF RunRow, RunStatus
<1>3. Len(runs) \in Nat BY DEF RunTypes
<1> QED BY <1>1, <1>2, <1>3 DEF SameRows, RunRow

\* Rows that only change their status, and executions that end.
LEMMA RowsKeepTypes ==
  ASSUME RunTypes, SameRows,
         \/ ex' = ex
         \/ \E e \in Exec : ex' = [ex EXCEPT ![e] = NoExec]
         \/ ex' = [e \in Exec |-> NoExec],
         follow' \subseteq follow \cup FollowRow(Len(runs))
  PROVE  RunTypes'
<1> DEFINE Good(r) ==
             /\ r \in ExecRow
             /\ r.pc # "idle" => r.s \in Sched
             /\ r.pc \in {"check", "send", "deliver"} => r.run \in 1..Len(runs)
<1>1. Good(NoExec) BY DEF NoExec, ExecRow
<1>2. \A e \in Exec : Good(ex[e]) BY DEF RunTypes
<1>3. \A e \in Exec : ex'[e] = ex[e] \/ ex'[e] = NoExec BY DEF RunTypes
<1>4. ex' = [e \in Exec |-> ex'[e]] BY DEF RunTypes
<1>5. \A e \in Exec : Good(ex'[e]) BY <1>1, <1>2, <1>3, Zenon
<1>6. ex' \in [Exec -> ExecRow]
  BY <1>4, <1>5
<1>7. Len(runs') = Len(runs) /\ runs' \in Seq(RunRow) BY DEF SameRows
<1>8. \A e \in Exec : /\ ex'[e].pc # "idle" => ex'[e].s \in Sched
                      /\ ex'[e].pc \in {"check", "send", "deliver"}
                            => ex'[e].run \in 1..Len(runs')
  BY <1>5, <1>7
<1>9. follow' \subseteq FollowRow(Len(runs'))
  BY <1>7 DEF RunTypes
<1> QED BY <1>6, <1>7, <1>8, <1>9, Zenon DEF RunTypes

LEMMA FollowersStay ==
  ASSUME NEW n \in Nat, NEW m \in Nat, n <= m PROVE FollowRow(n) \subseteq FollowRow(m)
<1>1. 1..n \subseteq 1..m OBVIOUS
<1> QED BY <1>1 DEF FollowRow

LEMMA TickTypesStep ==
  ASSUME TypeInv, ClockAdvances \/ TickBegin \/ TickEnd \/
                  (\E e \in Exec : \E x \in tick.run : TickExecute(e, x))
  PROVE  TypeInv'
<1> USE DEF TypeInv
<1>1. CASE ClockAdvances
  <2>1. /\ now < MaxTime /\ now' = now + 1 /\ tick' = tick
        /\ UNCHANGED <<sch, runs, log, status, chan, inbox, turn, ex, follow, api>>
    BY <1>1 DEF ClockAdvances, store, sessions, tasks
  <2>2. now \in Nat /\ now' \in 0..MaxTime /\ now' >= now
    BY <2>1, SchedulesAssumption DEF SchedulesAssumption, ScheduleTypes
  <2>3. ScheduleTypes' BY <2>1, <2>2 DEF ScheduleTypes, Created
  <2>4. TickTypes' BY <2>1, <2>2 DEF TickTypes, Created
  <2>5. RunTypes' /\ SessionTypes' BY <2>1 DEF RunTypes, SessionTypes
  <2> QED BY <2>3, <2>4, <2>5
<1>2. CASE TickBegin
  <2>1. UNCHANGED <<sch, runs, log, status, user, chan, inbox, turn, ex, follow, api, now>>
    BY <1>2 DEF TickBegin, store, sessions
  <2>2. TickTypes'
    <3>1. \A s \in Due(now) : /\ s \in Sched /\ Created(sch[s]) /\ sch[s].next # Never
                              /\ sch[s].next <= now
      BY DEF Due, ScheduleTypes
    <3>2. \A s \in Due(now) : sch[s].next \in Nat BY <3>1 DEF Created, ScheduleRow, Time
    <3>3. tick'.pc = "plan" /\ tick'.now = now /\ tick'.run = {}
          /\ tick'.due = {[s |-> s, row |-> sch[s]] : s \in Due(now)}
      BY <1>2 DEF TickBegin
    <3>4. \A d \in tick'.due : d.s \in Due(now) /\ d.row = sch[d.s] BY <3>3
    <3>5. now \in Nat BY SchedulesAssumption DEF ScheduleTypes, SchedulesAssumption
    <3>6. tick' = [pc |-> "plan", now |-> now, run |-> {},
                   due |-> {[s |-> s, row |-> sch[s]] : s \in Due(now)}]
      BY <1>2 DEF TickBegin
    <3>7. \A d \in tick'.due : d \in [s : Sched, row : ScheduleRow] /\ Created(d.row)
                              /\ d.row.next \in Nat /\ d.row.next <= now
      BY <3>1, <3>2, <3>3 DEF Created
    <3>8. tick' \in [pc : {"idle", "plan"}, now : Nat, run : SUBSET [s : Sched, at : Nat],
                     due : SUBSET [s : Sched, row : ScheduleRow]]
      BY <3>3, <3>5, <3>6, <3>7
    <3> QED BY <2>1, <3>3, <3>5, <3>7, <3>8 DEF TickTypes, Created
  <2> QED BY <2>1, <2>2 DEF ScheduleTypes, RunTypes, SessionTypes, Created
<1>3. CASE TickEnd
  <2>1. UNCHANGED <<sch, runs, log, status, user, chan, inbox, turn, ex, follow, api, now>>
    BY <1>3 DEF TickEnd, store, sessions
  <2>2. TickTypes' BY <1>3, <2>1, SchedulesAssumption
        DEF TickEnd, TickTypes, NoTick, ScheduleTypes, SchedulesAssumption
  <2> QED BY <2>1, <2>2 DEF ScheduleTypes, RunTypes, SessionTypes, Created
<1>4. ASSUME NEW e \in Exec, NEW x \in tick.run, TickExecute(e, x) PROVE TypeInv'
  <2>1. UNCHANGED <<sch, runs, log, status, user, chan, inbox, turn, follow, api, now>>
    BY <1>4 DEF TickExecute, store, sessions
  <2>2. TickTypes' BY <1>4, <2>1 DEF TickExecute, TickTypes, Created
  <2>3. x.s \in Sched /\ x.at \in Nat BY DEF TickTypes
  <2>4. RunTypes'
    <3>1. ex' = [ex EXCEPT ![e] = [NoExec EXCEPT !.pc = "insert", !.s = x.s, !.at = x.at]]
      BY <1>4 DEF TickExecute
    <3> QED BY <2>1, <2>3, <3>1 DEF RunTypes, ExecRow, NoExec
  <2> QED BY <2>1, <2>2, <2>4 DEF ScheduleTypes, SessionTypes, Created
<1> QED BY <1>1, <1>2, <1>3, <1>4

\* What Plan reads of the due schedule, and what it makes of it.
LEMMA PlanTypes ==
  ASSUME TypeInv, NEW d \in tick.due, Plan(d) PROVE TypeInv'
<1> USE DEF TypeInv
<1> DEFINE due == Occurrences(d.row.kind, d.row.anchor, d.row.next, tick.now)
           latest == Max(due)
           runIt == tick.now - latest <= Grace \/ d.s \in CatchUp
           missed == MissedTimes(due, runIt)
           then == NextAfter(d.row.kind, d.row.anchor, tick.now)
<1>1. /\ d.s \in Sched /\ d.row.kind \in Kind /\ d.row.anchor \in Nat /\ d.row.next \in Nat
      /\ d.row.next <= tick.now /\ tick.now \in Nat /\ tick.now <= now
  BY SchedulesAssumption DEF TickTypes, Created, ScheduleRow, SchedulesAssumption
<1>2. due \in SUBSET (d.row.next..tick.now) /\ IsFiniteSet(due) /\ latest \in due
  BY <1>1, OccurrencesDue
<1>3. latest \in Nat /\ due \in SUBSET Nat BY <1>1, <1>2
<1>4. missed \in Seq(due) BY <1>2, <1>3, MissedOnce
<1>5. then \in Time BY <1>1, NextIsLater
<1>6. /\ sch' = IF sch[d.s].state # "there" THEN sch ELSE
                 [sch EXCEPT ![d.s].next = then, ![d.s].last = IF runIt THEN latest ELSE @]
      /\ runs' = runs \o [i \in 1..Len(missed) |-> Row(d.s, missed[i], "missed", "tick")]
      /\ log' = [x \in Session |-> IF missed # <<>> /\ x = Target[d.s]
                                   THEN Append(log[x], NoticeEvent) ELSE log[x]]
      /\ tick' = [tick EXCEPT !.due = @ \ {d},
                              !.run = IF runIt THEN @ \cup {[s |-> d.s, at |-> latest]} ELSE @]
      /\ UNCHANGED <<status, user, chan, inbox, turn, ex, follow, api, now>>
  BY Zenon DEF Plan
<1> HIDE DEF due, latest, runIt, missed, then
<1>7. ScheduleTypes'
  <2>1. latest \in Time BY <1>3 DEF Time
  <2>2. CASE sch[d.s].state # "there" BY <1>6, <2>2 DEF ScheduleTypes, Created
  <2>3. CASE sch[d.s].state = "there"
    <3>1. Created(sch[d.s]) BY <1>1, <2>3 DEF ScheduleTypes
    <3>2. sch' = [sch EXCEPT ![d.s].next = then, ![d.s].last = IF runIt THEN latest ELSE @]
      BY <1>6, <2>3
    <3> DEFINE last == IF runIt THEN latest ELSE sch[d.s].last
               new == [sch[d.s] EXCEPT !.next = then, !.last = last]
    <3>3. last \in Time BY <2>1, <3>1 DEF Created, ScheduleRow
    <3>4. sch' = [sch EXCEPT ![d.s].next = then, ![d.s].last = last] BY <3>2, Zenon
    <3> HIDE DEF last
    <3>5. sch' = [sch EXCEPT ![d.s] = new] BY <1>1, <3>4 DEF ScheduleTypes
    <3>6. Created(new) BY <1>5, <3>1, <3>3 DEF Created, ScheduleRow
    <3> HIDE DEF new
    <3> QED BY <1>1, <1>6, <3>5, <3>6 DEF ScheduleTypes, Created
  <2> QED BY <2>2, <2>3
<1>8. TickTypes'
  <2>1. [s |-> d.s, at |-> latest] \in [s : Sched, at : Nat] BY <1>1, <1>3
  <2>2. /\ tick'.pc = "plan" /\ tick'.now = tick.now /\ tick'.due \subseteq tick.due
        /\ tick' \in [pc : {"idle", "plan"}, now : Nat, run : SUBSET [s : Sched, at : Nat],
                      due : SUBSET [s : Sched, row : ScheduleRow]]
    <3>1. tick \in [pc : {"idle", "plan"}, now : Nat, run : SUBSET [s : Sched, at : Nat],
                   due : SUBSET [s : Sched, row : ScheduleRow]] /\ tick.pc = "plan"
      BY DEF TickTypes, Plan
    <3> DEFINE ran == IF runIt THEN tick.run \cup {[s |-> d.s, at |-> latest]} ELSE tick.run
    <3>2. tick' = [pc |-> tick.pc, now |-> tick.now, due |-> tick.due \ {d}, run |-> ran]
      BY <1>6, <3>1
    <3>3. ran \subseteq [s : Sched, at : Nat] BY <2>1, <3>1
    <3> HIDE DEF ran
    <3> QED BY <3>1, <3>2, <3>3
  <2> QED BY <1>1, <1>6, <2>2 DEF TickTypes, Created
<1>9. RunTypes'
  <2>1. [i \in 1..Len(missed) |-> Row(d.s, missed[i], "missed", "tick")] \in Seq(RunRow)
    <3>1. Len(missed) \in Nat /\ \A i \in 1..Len(missed) : missed[i] \in due BY <1>4
    <3>2. \A i \in 1..Len(missed) : missed[i] \in Nat BY <1>3, <3>1
    <3> QED BY <1>1, <3>1, <3>2 DEF Row, RunRow, RunStatus
  <2>2. runs' \in Seq(RunRow) /\ Len(runs') >= Len(runs) /\ Len(runs') \in Nat
    <3> DEFINE new == [i \in 1..Len(missed) |-> Row(d.s, missed[i], "missed", "tick")]
    <3>1. new \in Seq(RunRow) /\ runs' = runs \o new /\ runs \in Seq(RunRow)
      BY <1>6, <2>1 DEF RunTypes
    <3> HIDE DEF new
    <3> QED BY <3>1
  <2>3. FollowRow(Len(runs)) \subseteq FollowRow(Len(runs')) BY <2>2, FollowersStay DEF RunTypes
  <2> QED BY <1>6, <2>2, <2>3 DEF RunTypes
<1>10. SessionTypes'
  <2>1. NoticeEvent \in Event BY DEF NoticeEvent, Event
  <2> QED BY <1>6, <2>1 DEF SessionTypes
<1> QED BY <1>7, <1>8, <1>9, <1>10

\* Putting one more thing into a session's queue.
LEMMA QueueGrows ==
  ASSUME NEW S, NEW q \in [Session -> Seq(S)], NEW x, NEW v \in S
  PROVE  [q EXCEPT ![x] = Append(@, v)] \in [Session -> Seq(S)]
<1>1. \A y \in Session : Append(q[y], v) \in Seq(S) OBVIOUS
<1> QED BY <1>1

\* An execution that goes on, with a row of its own.
LEMMA ExecKeepsTypes ==
  ASSUME RunTypes, NEW e \in Exec, NEW r,
         r \in ExecRow,
         r.pc # "idle" => r.s \in Sched,
         r.pc \in {"check", "send", "deliver"} => r.run \in 1..Len(runs'),
         runs' \in Seq(RunRow), Len(runs') >= Len(runs),
         ex' = [ex EXCEPT ![e] = r], follow' = follow
  PROVE  RunTypes'
<1>1. \A c \in Exec : /\ ex'[c].pc # "idle" => ex'[c].s \in Sched
                      /\ ex'[c].pc \in {"check", "send", "deliver"} => ex'[c].run \in 1..Len(runs')
  <2> SUFFICES ASSUME NEW c \in Exec
               PROVE  /\ ex'[c].pc # "idle" => ex'[c].s \in Sched
                      /\ ex'[c].pc \in {"check", "send", "deliver"} => ex'[c].run \in 1..Len(runs')
    OBVIOUS
  <2>1. CASE c = e BY <2>1 DEF RunTypes
  <2>2. CASE c # e BY <2>2 DEF RunTypes
  <2> QED BY <2>1, <2>2
<1>2. follow' \subseteq FollowRow(Len(runs'))
  <2>1. Len(runs) \in Nat /\ Len(runs') \in Nat BY DEF RunTypes
  <2> QED BY <2>1, FollowersStay DEF RunTypes
<1>3. ex' \in [Exec -> ExecRow]
  BY DEF RunTypes
<1> QED BY <1>1, <1>2, <1>3, Zenon DEF RunTypes

\* The scheduler's tasks leave the schedules alone.
LEMMA OthersKept ==
  ASSUME ScheduleTypes, TickTypes, SessionTypes, RunTypes',
         UNCHANGED <<sch, sessions, tick, api, now>>
  PROVE  TypeInv'
BY DEF TypeInv, ScheduleTypes, TickTypes, SessionTypes, Created, sessions

LEMMA StoredIsNat == ASSUME SessionTypes, NEW s \in Sched PROVE Stored(s) \in Nat
<1>1. Target[s] # None => Target[s] \in Session BY SchedulesAssumption DEF SchedulesAssumption
<1> QED BY <1>1 DEF Stored, SessionTypes

LEMMA ExecTypes ==
  ASSUME TypeInv, NEW e \in Exec, ExecStep(e) PROVE TypeInv'
<1> USE DEF TypeInv
<1>1. CASE ExecInsert(e)
  <2> DEFINE row == Row(ex[e].s, ex[e].at, "running", ex[e].origin)
             new == [ex[e] EXCEPT !.pc = "check", !.run = Len(runs) + 1, !.seen = Stored(ex[e].s)]
  <2>1. ex[e].pc = "insert" /\ runs' = Append(runs, row) /\ ex' = [ex EXCEPT ![e] = new]
        /\ UNCHANGED <<sch, sessions, tick, follow, api, now>>
    BY <1>1 DEF ExecInsert, RunTypes
  <2>2. row \in RunRow BY <2>1 DEF Row, RunRow, RunStatus, RunTypes, ExecRow
  <2>3. runs' \in Seq(RunRow) /\ Len(runs') = Len(runs) + 1 /\ Len(runs) \in Nat
    <3> HIDE DEF row
    <3> QED BY <2>1, <2>2 DEF RunTypes
  <2>4. /\ new \in ExecRow
        /\ new.s \in Sched /\ new.run \in 1..Len(runs')
    <3>1. Len(runs) + 1 \in Nat /\ Len(runs) + 1 \in 1..Len(runs') BY <2>3
    <3>2. ex[e].s \in Sched BY <2>1 DEF RunTypes
    <3>3. Stored(ex[e].s) \in Nat BY <3>2, StoredIsNat
    <3> QED BY <3>1, <3>2, <3>3 DEF RunTypes, ExecRow
  <2> HIDE DEF row, new
  <2>5. Len(runs') >= Len(runs) BY <2>3
  <2>6. RunTypes' BY <2>1, <2>3, <2>4, <2>5, ExecKeepsTypes
  <2> QED BY <2>1, <2>6, OthersKept
<1>2. CASE ExecCheck(e)
  <2>1. UNCHANGED <<sch, sessions, tick, follow, api, now>> BY <1>2 DEF ExecCheck
  <2>2. CASE runs' = Finished(ex[e].run, "skipped") /\ ex' = [ex EXCEPT ![e] = NoExec]
    <3>1. SameRows BY <2>2, RowsFinished DEF RunStatus
    <3>2. RunTypes' BY <2>1, <2>2, <3>1, RowsKeepTypes
    <3> QED BY <2>1, <3>2, OthersKept
  <2>3. CASE /\ UNCHANGED runs
             /\ ex' = [ex EXCEPT ![e].pc = "send", ![e].before = Len(log[Target[ex[e].s]])]
    <3> DEFINE new == [ex[e] EXCEPT !.pc = "send", !.before = Len(log[Target[ex[e].s]])]
    <3>1. ex[e].pc = "check" /\ ex[e].s \in Sched /\ Target[ex[e].s] \in Session
      BY <1>2, SchedulesAssumption DEF ExecCheck, RunTypes, SchedulesAssumption
    <3>2. Len(log[Target[ex[e].s]]) \in Nat BY <3>1 DEF SessionTypes
    <3>3. ex' = [ex EXCEPT ![e] = new] BY <2>3 DEF RunTypes
    <3>4. /\ new \in ExecRow
          /\ new.s \in Sched /\ new.run \in 1..Len(runs')
      BY <2>3, <3>1, <3>2 DEF RunTypes, ExecRow
    <3>5. runs' \in Seq(RunRow) /\ Len(runs') >= Len(runs) BY <2>3 DEF RunTypes
    <3> HIDE DEF new
    <3>6. RunTypes' BY <2>1, <3>3, <3>4, <3>5, ExecKeepsTypes
    <3> QED BY <2>1, <3>6, OthersKept
  <2> QED BY <1>2, <2>2, <2>3 DEF ExecCheck
<1>3. CASE ExecNew(e)
  <2>1. UNCHANGED <<sch, runs, sessions, tick, api, now>> BY <1>3 DEF ExecNew, store
  <2>2. Follower(ex[e].run, None, 0, 0) \in FollowRow(Len(runs))
    BY <1>3 DEF ExecNew, RunTypes, Follower, FollowRow
  <2>3. SameRows BY <2>1 DEF SameRows, RunTypes
  <2>4. ex' = [ex EXCEPT ![e] = NoExec] BY <1>3 DEF ExecNew
  <2>5. RunTypes'
    <3>1. follow' \subseteq FollowRow(Len(runs))
      BY <1>3, <2>2 DEF ExecNew, RunTypes
    <3> QED BY <2>1, <2>4, <3>1 DEF RunTypes, ExecRow, NoExec
  <2> QED BY <2>1, <2>5, OthersKept
<1>4. CASE ExecFail(e)
  <2>1. /\ runs' = Finished(ex[e].run, "failed") /\ ex' = [ex EXCEPT ![e] = NoExec]
        /\ UNCHANGED <<sch, sessions, tick, follow, api, now>>
    BY <1>4 DEF ExecFail
  <2>2. SameRows BY <2>1, RowsFinished DEF RunStatus
  <2>3. RunTypes' BY <2>1, <2>2, RowsKeepTypes
  <2> QED BY <2>1, <2>3, OthersKept
<1>5. CASE ExecRecord(e)
  <2> DEFINE t == Target[ex[e].s]
             new == [ex[e] EXCEPT !.pc = "deliver"]
  <2>1. /\ ex[e].pc = "send" /\ chan' = [chan EXCEPT ![t] = Append(@, MsgEvent(ex[e].run))]
        /\ ex' = [ex EXCEPT ![e] = new]
        /\ UNCHANGED <<sch, runs, log, status, user, inbox, turn, tick, follow, api, now>>
    BY <1>5 DEF ExecRecord, RunTypes, store
  <2>2. MsgEvent(ex[e].run) \in Event BY <2>1 DEF MsgEvent, Event, RunTypes
  <2>3. SessionTypes'
    <3>1. chan' \in [Session -> Seq(Event)] BY <2>1, <2>2, QueueGrows DEF SessionTypes
    <3> QED BY <2>1, <3>1 DEF SessionTypes
  <2>4. /\ new \in ExecRow
        /\ new.s \in Sched /\ new.run \in 1..Len(runs')
    BY <2>1 DEF RunTypes, ExecRow
  <2>5. runs' \in Seq(RunRow) /\ Len(runs') >= Len(runs) BY <2>1 DEF RunTypes
  <2> HIDE DEF new
  <2>6. RunTypes' BY <2>1, <2>4, <2>5, ExecKeepsTypes
  <2> QED BY <2>1, <2>3, <2>6 DEF ScheduleTypes, TickTypes, Created
<1>6. CASE ExecDeliver(e)
  <2> DEFINE t == Target[ex[e].s]
             f == Follower(ex[e].run, t, ex[e].before, ex[e].seen)
  <2>1. /\ ex[e].pc = "deliver" /\ inbox' = [inbox EXCEPT ![t] = Append(@, ex[e].run)]
        /\ ex' = [ex EXCEPT ![e] = NoExec] /\ follow' = follow \cup {f}
        /\ UNCHANGED <<sch, runs, log, status, user, chan, turn, tick, api, now>>
    BY <1>6 DEF ExecDeliver, store
  <2>2. /\ ex[e].run \in 1..Len(runs) /\ ex[e].run \in Nat /\ ex[e].s \in Sched
        /\ ex[e].before \in Nat /\ ex[e].seen \in Nat
    BY <2>1 DEF RunTypes, ExecRow
  <2>3. f \in FollowRow(Len(runs))
    BY <2>2, SchedulesAssumption DEF SchedulesAssumption, Follower, FollowRow
  <2>4. SessionTypes'
    <3>1. inbox' \in [Session -> Seq(Nat)] BY <2>1, <2>2, QueueGrows DEF SessionTypes
    <3> QED BY <2>1, <3>1 DEF SessionTypes
  <2>5. RunTypes'
    <3>1. follow' \subseteq FollowRow(Len(runs))
      BY <2>1, <2>3 DEF RunTypes
    <3> QED BY <2>1, <3>1 DEF RunTypes, ExecRow, NoExec
  <2> QED BY <2>1, <2>4, <2>5 DEF ScheduleTypes, TickTypes, Created
<1> QED BY <1>1, <1>2, <1>3, <1>4, <1>5, <1>6 DEF ExecStep

\* What a follower does: it ends its run, or goes on with a place of its own in the pushes.
LEMMA FollowSteps ==
  ASSUME TypeInv, NEW f \in follow, FollowTurn(f)
  PROVE  \/ \E st \in Outcome : FollowEnds(f, st)
         \/ f.session # None /\ \E g \in FollowRow(Len(runs)) : FollowOn(f, g)
<1> USE DEF TypeInv
<1>1. CASE f.session = None BY <1>1 DEF FollowTurn, FollowNew, FollowPush, FollowLags, FollowLagged
<1>2. CASE f.session # None
  <2> DEFINE l == log[f.session]
  <2>1. f \in FollowRow(Len(runs)) BY DEF RunTypes
  <2>2. f.session \in Session /\ f.before \in Nat /\ f.seen \in Nat BY <1>2, <2>1 DEF FollowRow
  <2>3. l \in Seq(Event) /\ Len(l) \in Nat BY <2>2 DEF SessionTypes
  <2>4. \A n \in Nat : TurnEndsIn(f.session, n) \in SUBSET Nat BY <2>3 DEF TurnEndsIn
  <2>5. ASSUME NEW n \in Nat, NEW i \in TurnEndsIn(f.session, n) PROVE i \in Nat /\ EndOutcome(f, i) \in Outcome
    <3>1. i \in 1..Len(l) /\ l[i].kind = "TurnEnded" BY <2>3, <2>5 DEF TurnEndsIn
    <3>2. l[i] \in Event BY <2>3, <3>1
    <3>3. l[i].outcome \in Outcome BY <3>1, <3>2 DEF Event
    <3> QED BY <3>1, <3>3 DEF EndOutcome
  <2>6. ASSUME NEW n \in Nat, TurnEndsIn(f.session, n) # {}
        PROVE  Min(TurnEndsIn(f.session, n)) \in TurnEndsIn(f.session, n)
    BY <2>4, <2>6, LeastExists
  <2>7. \A i \in Nat : /\ [f EXCEPT !.seen = i] \in FollowRow(Len(runs))
                       /\ [f EXCEPT !.seen = i, !.lagged = TRUE] \in FollowRow(Len(runs))
                       /\ [f EXCEPT !.lagged = FALSE] \in FollowRow(Len(runs))
    BY <2>1 DEF FollowRow
  <2> HIDE DEF l
  <2>8. CASE FollowPush(f)
    <3>1. Unseen(f) # {} BY <2>8 DEF FollowPush
    <3>2. PICK i : i = Min(Unseen(f)) OBVIOUS
    <3>3. i \in Nat /\ EndOutcome(f, i) \in Outcome BY <2>2, <2>5, <2>6, <3>1, <3>2 DEF Unseen
    <3>4. FollowEnds(f, EndOutcome(f, i)) \/ FollowOn(f, [f EXCEPT !.seen = i])
      BY <2>8, <3>2 DEF FollowPush
    <3> QED BY <1>2, <2>7, <3>3, <3>4
  <2>9. CASE FollowLags(f)
    <3>1. PICK i \in Unseen(f) : FollowOn(f, [f EXCEPT !.seen = i, !.lagged = TRUE])
      BY <2>9 DEF FollowLags
    <3>2. i \in Nat BY <2>2, <2>5, <3>1 DEF Unseen
    <3> QED BY <1>2, <2>7, <3>1, <3>2
  <2>10. CASE FollowLagged(f)
    <3>1. CASE TurnEndsAfter(f) # {}
      <4>1. EndOutcome(f, Min(TurnEndsAfter(f))) \in Outcome BY <2>2, <2>5, <2>6, <3>1 DEF TurnEndsAfter
      <4> QED BY <2>10, <3>1, <4>1 DEF FollowLagged
    <3>2. CASE TurnEndsAfter(f) = {} BY <1>2, <2>7, <2>10, <3>2 DEF FollowLagged
    <3> QED BY <3>1, <3>2
  <2> QED BY <1>2, <2>8, <2>9, <2>10 DEF FollowTurn, FollowNew
<1> QED BY <1>1, <1>2

LEMMA FollowRows ==
  ASSUME TypeInv, NEW f \in follow, FollowTurn(f)
  PROVE  /\ SameRows /\ follow' \subseteq follow \cup FollowRow(Len(runs))
         /\ UNCHANGED <<sch, sessions, tick, ex, api, now, count>>
<1>1. UNCHANGED <<sch, sessions, tick, ex, api, now, count>> BY DEF FollowTurn
<1>2. CASE \E st \in Outcome : FollowEnds(f, st)
  <2>1. Outcome \subseteq RunStatus BY SchedulesAssumption DEF RunStatus, SchedulesAssumption
  <2>2. SameRows BY <1>2, <2>1, RowsFinished DEF FollowEnds, TypeInv
  <2> QED BY <1>1, <1>2, <2>2 DEF FollowEnds
<1>3. CASE \E g \in FollowRow(Len(runs)) : FollowOn(f, g)
  BY <1>1, <1>3 DEF FollowOn, SameRows, TypeInv, RunTypes
<1> QED BY <1>2, <1>3, FollowSteps

LEMMA FollowTypes == ASSUME TypeInv, NEW f \in follow, FollowTurn(f) PROVE TypeInv'
<1>1. RunTypes' BY FollowRows, RowsKeepTypes DEF TypeInv
<1> QED BY <1>1, FollowRows, OthersKept DEF TypeInv

\* What the API writes is a row that was created, or nothing.
LEMMA RowWritten ==
  ASSUME TypeInv, NEW s \in Sched, NEW r, Created(r),
         sch' = sch \/ sch' = [sch EXCEPT ![s] = r],
         api' \in {api, NoApi} \/ (/\ api'.pc \in Api \cap {"update", "resume"}
                                     /\ Created(api'.row) /\ api'.s \in Sched),
         UNCHANGED <<runs, sessions, tick, ex, follow, now>>
  PROVE  TypeInv'
<1> USE DEF TypeInv
<1>1. sch' \in [Sched -> ScheduleRow] /\ \A x \in Sched : sch'[x].state # "none" => Created(sch'[x])
  BY DEF ScheduleTypes, Created
<1>2. api'.pc \in {"idle", "update", "resume"}
      /\ (api'.pc # "idle" => Created(api'.row) /\ api'.pc \in Api /\ api'.s \in Sched)
  BY DEF ScheduleTypes, NoApi
<1>3. ScheduleTypes' BY <1>1, <1>2 DEF ScheduleTypes, Created
<1>4. TickTypes' /\ RunTypes' /\ SessionTypes'
  BY DEF TickTypes, RunTypes, SessionTypes, sessions, Created
<1> QED BY <1>3, <1>4

LEMMA ApiTypes ==
  ASSUME TypeInv, NEW s \in Sched,
         \/ \E k \in Kind, p \in BOOLEAN : Create(s, k, p)
         \/ Pause(s) \/ ApiRead("resume", s) \/ ApiRead("update", s) \/ Delete(s)
         \/ \E e \in Exec : RunNow(e, s)
  PROVE  TypeInv'
<1> USE DEF TypeInv
<1>0. now \in Nat /\ now \in 0..MaxTime /\ sch[s] \in ScheduleRow /\ sch \in [Sched -> ScheduleRow]
      /\ (sch[s].state # "none" => Created(sch[s]))
  BY SchedulesAssumption DEF SchedulesAssumption, ScheduleTypes
<1>1. ASSUME NEW k \in Kind, NEW p \in BOOLEAN, Create(s, k, p) PROVE TypeInv'
  <2> DEFINE next == IF p THEN Never ELSE FirstTrigger(k, now)
             r == [NoSchedule EXCEPT !.state = "there", !.born = now, !.kind = k, !.anchor = now,
                                     !.paused = p, !.next = next]
  <2>1. sch' = [sch EXCEPT ![s] = r] /\ UNCHANGED <<runs, sessions, tick, ex, follow, api, now>>
    BY <1>1 DEF Create, tasks
  <2>2. next \in Time BY <1>0, FirstIsTime DEF Time
  <2> HIDE DEF next
  <2>3. Created(r) BY <1>0, <2>2 DEF Created, ScheduleRow, NoSchedule, Time
  <2> HIDE DEF r
  <2> QED BY <2>1, <2>3, RowWritten
<1>2. CASE Pause(s)
  <2> DEFINE r == [sch[s] EXCEPT !.paused = TRUE, !.next = Never]
  <2>1. sch[s].state = "there" /\ UNCHANGED <<runs, sessions, tick, ex, follow, api, now>>
        /\ sch' = [sch EXCEPT ![s].paused = TRUE, ![s].next = Never]
    BY <1>2 DEF Pause, tasks
  <2>2. sch' = [sch EXCEPT ![s] = r] BY <1>0, <2>1
  <2>3. Created(r) BY <1>0, <2>1 DEF Created, ScheduleRow, Time
  <2> HIDE DEF r
  <2> QED BY <2>1, <2>2, <2>3, RowWritten
<1>3. ASSUME NEW name \in {"resume", "update"}, ApiRead(name, s) PROVE TypeInv'
  <2>1. /\ sch[s].state = "there" /\ name \in Api
        /\ api' = [pc |-> name, s |-> s, row |-> sch[s]]
        /\ UNCHANGED <<sch, runs, sessions, tick, ex, follow, now>>
    BY <1>3 DEF ApiRead, Call, store
  <2>2. Created(sch[s]) BY <1>0, <2>1
  <2>3. api'.pc \in Api \cap {"update", "resume"} /\ Created(api'.row) /\ api'.s \in Sched
    BY <2>1, <2>2
  <2> QED BY <2>1, <2>2, <2>3, RowWritten
<1>4. CASE Delete(s)
  <2> DEFINE r == [sch[s] EXCEPT !.state = "deleted"]
  <2>1. sch[s].state = "there" /\ UNCHANGED <<sessions, tick, ex, follow, api, now>>
        /\ sch' = [sch EXCEPT ![s].state = "deleted"]
    BY <1>4 DEF Delete, tasks
  <2>2. sch' = [sch EXCEPT ![s] = r] BY <1>0, <2>1
  <2>3. Created(r) BY <1>0, <2>1 DEF Created, ScheduleRow
  <2> HIDE DEF r
  <2>4. SameRows BY <1>4, RowsDeleted DEF Delete
  <2>5. RunTypes' BY <2>1, <2>4, RowsKeepTypes
  <2>6. ScheduleTypes' BY <2>1, <2>2, <2>3 DEF ScheduleTypes, Created
  <2>7. TickTypes' /\ SessionTypes' BY <2>1 DEF TickTypes, SessionTypes, sessions, Created
  <2> QED BY <2>5, <2>6, <2>7
<1>5. ASSUME NEW e \in Exec, RunNow(e, s) PROVE TypeInv'
  <2> DEFINE r == [NoExec EXCEPT !.pc = "insert", !.s = s, !.at = now, !.origin = "now"]
  <2>1. ex' = [ex EXCEPT ![e] = r] /\ UNCHANGED <<sch, runs, sessions, tick, follow, api, now>>
    BY <1>5 DEF RunNow, store
  <2>2. /\ r \in ExecRow
        /\ r.s \in Sched /\ r.pc = "insert"
    BY <1>0 DEF NoExec, ExecRow
  <2>3. runs' \in Seq(RunRow) /\ Len(runs') >= Len(runs) BY <2>1 DEF RunTypes
  <2> HIDE DEF r
  <2>4. RunTypes' BY <2>1, <2>2, <2>3, ExecKeepsTypes
  <2> QED BY <2>1, <2>4, OthersKept
<1> QED BY <1>1, <1>2, <1>3, <1>4, <1>5

\* update and resume, writing back.
LEMMA WriteTypes ==
  ASSUME TypeInv, ResumeWrite \/ UpdateRest \/ (\E k \in Kind : UpdateKind(k))
  PROVE  TypeInv'
<1> USE DEF TypeInv
<1> DEFINE s == api.s
<1>1. s \in Sched BY DEF ResumeWrite, UpdateRest, UpdateKind, ScheduleTypes
<1>2. now \in Nat /\ now \in 0..MaxTime /\ sch[s] \in ScheduleRow /\ sch \in [Sched -> ScheduleRow]
      /\ (sch[s].state # "none" => Created(sch[s]))
  BY <1>1, SchedulesAssumption DEF SchedulesAssumption, ScheduleTypes
<1>3. ASSUME NEW next \in Time, NEW k \in Kind, NEW anchor \in 0..MaxTime, NEW p \in BOOLEAN,
             sch[s].state = "there"
      PROVE  /\ Created([sch[s] EXCEPT !.kind = k, !.anchor = anchor, !.next = next])
             /\ Created([sch[s] EXCEPT !.paused = p, !.anchor = anchor, !.next = next])
  BY <1>2, <1>3 DEF Created, ScheduleRow
<1>4. CASE ResumeWrite
  <2> DEFINE next == IF api.row.kind.type = "once"
                     THEN IF api.row.last = Never /\ api.row.kind.at >= now - Grace
                          THEN Max({api.row.kind.at, now}) ELSE Never
                     ELSE NextAfter(api.row.kind, now, now)
             r == [sch[s] EXCEPT !.paused = FALSE, !.anchor = now, !.next = next]
  <2>1. /\ api.pc = "resume" /\ api' = NoApi
        /\ UNCHANGED <<runs, sessions, tick, ex, follow, now>>
        /\ sch' = IF sch[s].state # "there" THEN sch ELSE
                  [sch EXCEPT ![s].paused = FALSE, ![s].anchor = now, ![s].next = next]
    BY <1>4 DEF ResumeWrite
  <2>2. api.row.kind \in Kind BY <2>1 DEF ScheduleTypes, Created
  <2>3. next \in Time
    <3> DEFINE k == api.row.kind
    <3>1. CASE k.type = "once"
      <4>1. k.at \in Nat BY <2>2, <3>1, SchedulesAssumption DEF SchedulesAssumption
      <4>2. Max({k.at, now}) \in {k.at, now}
        <5>1. \A y \in {k.at, now} : y <= k.at + now BY <1>2, <4>1
        <5>2. {k.at, now} \in SUBSET Nat /\ {k.at, now} # {} /\ k.at + now \in Nat BY <1>2, <4>1
        <5> QED BY <5>1, <5>2, GreatestExists
      <4> QED BY <1>2, <3>1, <4>1, <4>2 DEF Time
    <3>2. CASE k.type # "once" BY <1>2, <2>2, <3>2, NextIsLater
    <3> QED BY <3>1, <3>2
  <2> HIDE DEF next
  <2>4. CASE sch[s].state = "there"
    <3>1. sch' = [sch EXCEPT ![s] = r] BY <1>2, <2>1, <2>4
    <3>2. Created(r) BY <1>2, <1>3, <2>2, <2>3, <2>4
    <3> HIDE DEF r, s
    <3> QED BY <1>1, <2>1, <3>1, <3>2, RowWritten
  <2>5. CASE sch[s].state # "there"
    BY <2>1, <2>5 DEF ScheduleTypes, TickTypes, RunTypes, SessionTypes, Created, NoApi, sessions
  <2> QED BY <2>4, <2>5
<1>5. ASSUME NEW k \in Kind, NEW anchor \in 0..MaxTime, NEW next \in Time, api' = NoApi,
             UNCHANGED <<runs, sessions, tick, ex, follow, now>>,
             sch' = IF sch[s].state # "there" THEN sch ELSE
                    [sch EXCEPT ![s].kind = k, ![s].anchor = anchor, ![s].next = next]
      PROVE  TypeInv'
  <2> DEFINE r == [sch[s] EXCEPT !.kind = k, !.anchor = anchor, !.next = next]
  <2>1. CASE sch[s].state = "there"
    <3>1. sch' = [sch EXCEPT ![s] = r] BY <1>2, <1>5, <2>1
    <3>2. Created(r) BY <1>3, <2>1
    <3> HIDE DEF r, s
    <3> QED BY <1>1, <1>5, <3>1, <3>2, RowWritten
  <2>2. CASE sch[s].state # "there"
    BY <1>5, <2>2 DEF ScheduleTypes, TickTypes, RunTypes, SessionTypes, Created, NoApi, sessions
  <2> QED BY <2>1, <2>2
<1>6. CASE UpdateRest
  <2>1. Created(api.row) BY <1>6 DEF UpdateRest, ScheduleTypes
  <2>2. api.row.kind \in Kind /\ api.row.anchor \in 0..MaxTime /\ api.row.next \in Time
    BY <2>1 DEF Created, ScheduleRow
  <2> QED BY <1>5, <1>6, <2>2 DEF UpdateRest
<1>7. ASSUME NEW k \in Kind, UpdateKind(k) PROVE TypeInv'
  <2> DEFINE next == IF api.row.paused THEN Never ELSE FirstTrigger(k, now)
  <2>1. next \in Time BY <1>2, FirstIsTime DEF Time
  <2>2. /\ api' = NoApi /\ UNCHANGED <<runs, sessions, tick, ex, follow, now>>
        /\ sch' = IF sch[s].state # "there" THEN sch ELSE
                    [sch EXCEPT ![s].kind = k, ![s].anchor = now, ![s].next = next]
    BY <1>7 DEF UpdateKind
  <2> HIDE DEF next
  <2> QED BY <1>2, <1>5, <2>1, <2>2
<1> QED BY <1>4, <1>6, <1>7

LEMMA SessionsKeepTypes ==
  ASSUME TypeInv, NEW x \in Session,
         UserRecord(x) \/ UserDeliver(x) \/ AgentReads(x) \/ TurnEnds(x) \/ Pump(x)
  PROVE  TypeInv'
<1> USE DEF TypeInv
<1>1. UNCHANGED <<sch, runs, tick, ex, follow, api, now>>
  BY DEF UserRecord, UserDeliver, AgentReads, TurnEnds, Pump, store, tasks
<1>2. ScheduleTypes' /\ TickTypes' /\ RunTypes'
  BY <1>1 DEF ScheduleTypes, TickTypes, RunTypes, Created
<1>3. SessionTypes'
  <2>1. CASE UserRecord(x)
    <3>1. MsgEvent(0) \in Event BY DEF MsgEvent, Event
    <3>2. chan' \in [Session -> Seq(Event)] BY <2>1, <3>1, QueueGrows DEF UserRecord, SessionTypes
    <3> QED BY <2>1, <3>2 DEF UserRecord, SessionTypes
  <2>2. CASE UserDeliver(x)
    <3>1. inbox' \in [Session -> Seq(Nat)] BY <2>2, QueueGrows DEF UserDeliver, SessionTypes
    <3> QED BY <2>2, <3>1 DEF UserDeliver, SessionTypes
  <2>3. CASE AgentReads(x)
    <3>1. Head(inbox[x]) \in Nat /\ Tail(inbox[x]) \in Seq(Nat) BY <2>3 DEF AgentReads, SessionTypes
    <3>2. turn[x] \cup {Head(inbox[x])} \in SUBSET Nat BY <3>1 DEF SessionTypes
    <3> QED BY <2>3, <3>1, <3>2 DEF AgentReads, SessionTypes
  <2>4. CASE TurnEnds(x)
    <3>1. PICK o \in Outcome :
             chan' = [chan EXCEPT ![x] = Append(@, [kind |-> "TurnEnded", about |-> turn[x],
                                                    outcome |-> o])]
      BY <2>4 DEF TurnEnds
    <3>2. [kind |-> "TurnEnded", about |-> turn[x], outcome |-> o] \in Event
      BY DEF Event, SessionTypes
    <3>3. chan' \in [Session -> Seq(Event)] BY <3>1, <3>2, QueueGrows DEF SessionTypes
    <3>4. turn' \in [Session -> SUBSET Nat] BY <2>4 DEF TurnEnds, SessionTypes
    <3> QED BY <2>4, <3>3, <3>4 DEF TurnEnds, SessionTypes
  <2>5. CASE Pump(x)
    <3>1. Head(chan[x]) \in Event /\ Tail(chan[x]) \in Seq(Event) BY <2>5 DEF Pump, SessionTypes
    <3>2. log' \in [Session -> Seq(Event)] BY <2>5, <3>1, QueueGrows DEF Pump, SessionTypes
    <3>3. chan' \in [Session -> Seq(Event)] BY <2>5, <3>1 DEF Pump, SessionTypes
    <3>4. status' \in [Session -> {"Idle", "Running", "Finished"}] BY <2>5 DEF Pump, SessionTypes
    <3> QED BY <2>5, <3>2, <3>3, <3>4 DEF Pump, SessionTypes
  <2> QED BY <2>1, <2>2, <2>3, <2>4, <2>5
<1> QED BY <1>2, <1>3

LEMMA RestartTypes == ASSUME TypeInv, Restart PROVE TypeInv'
<1> USE DEF TypeInv
<1>1. /\ runs' = Recover /\ tick' = NoTick /\ ex' = [e \in Exec |-> NoExec] /\ follow' = {}
      /\ api' = NoApi /\ chan' = [x \in Session |-> <<>>] /\ inbox' = [x \in Session |-> <<>>]
      /\ turn' = [x \in Session |-> {}]
      /\ status' = [x \in Session |-> IF status[x] = "Running" THEN "Idle" ELSE status[x]]
      /\ UNCHANGED <<sch, log, now>>
  BY DEF Restart
<1>2. ScheduleTypes' BY <1>1 DEF ScheduleTypes, NoApi, Created
<1>3. TickTypes'
  BY <1>1, SchedulesAssumption DEF TickTypes, NoTick, ScheduleTypes, SchedulesAssumption
<1>4. SameRows BY <1>1, RowsRecovered
<1>5. RunTypes' BY <1>1, <1>4, RowsKeepTypes
<1>6. SessionTypes' BY <1>1 DEF SessionTypes
<1> QED BY <1>2, <1>3, <1>5, <1>6

LEMMA InitTypes == Init => TypeInv
<1> SUFFICES ASSUME Init PROVE TypeInv OBVIOUS
<1>1. NoSchedule \in ScheduleRow /\ NoSchedule.state = "none"
  BY SchedulesAssumption DEF NoSchedule, ScheduleRow, Time, SchedulesAssumption
<1>2. ScheduleTypes BY <1>1, SchedulesAssumption DEF Init, ScheduleTypes, NoApi, SchedulesAssumption
<1>3. TickTypes BY DEF Init, TickTypes, NoTick
<1>4. RunTypes BY DEF Init, RunTypes, ExecRow, NoExec
<1>5. SessionTypes BY DEF Init, SessionTypes
<1> QED BY <1>2, <1>3, <1>4, <1>5 DEF TypeInv

LEMMA TypeStep == ASSUME TypeInv, [Next]_vars PROVE TypeInv'
<1>1. CASE UNCHANGED vars
  BY <1>1 DEF vars, store, sessions, tasks, TypeInv, ScheduleTypes, TickTypes, RunTypes,
              SessionTypes, Created
<1>2. ASSUME TickStep PROVE TypeInv' BY <1>2, TickTypesStep, PlanTypes DEF TickStep
<1>3. ASSUME ResumeWrite \/ UpdateRest \/ \E k \in Kind : UpdateKind(k) PROVE TypeInv'
  BY <1>3, WriteTypes
<1> QED BY <1>1, <1>2, <1>3, TickTypesStep, ExecTypes, FollowTypes, ApiTypes, SessionsKeepTypes,
           RestartTypes, Zenon DEF Next

\* Every reachable state is well typed, whatever the schedules, executions and bounds.
THEOREM SchedulesTypeOK == Spec => []TypeOK
<1>1. TypeInv => TypeOK
  <2> SUFFICES ASSUME TypeInv PROVE TypeOK OBVIOUS
  <2>1. \A s \in Sched : sch[s] \in ScheduleRow BY DEF TypeInv, ScheduleTypes
  <2>2. sch \in [Sched -> [state : {"none", "there", "deleted"}, born : 0..MaxTime,
                           paused : BOOLEAN, kind : Kind \cup {None},
                           anchor : 0..MaxTime, next : Int, last : Int]]
    BY <2>1 DEF TypeInv, ScheduleTypes, ScheduleRow, Time, Never
  <2>3. \A i \in 1..Len(runs) : runs[i].status \in RunStatus
    <3>1. \A i \in 1..Len(runs) : runs[i] \in RunRow BY DEF TypeInv, RunTypes
    <3> QED BY <3>1 DEF RunRow
  <2>4. \A f \in follow : f.run \in 1..Len(runs) BY DEF TypeInv, RunTypes, FollowRow
  <2> QED BY <2>2, <2>3, <2>4 DEF TypeInv, ScheduleTypes, RunTypes, SessionTypes, TypeOK, RunStatus
<1> QED BY <1>1, InitTypes, TypeStep, PTL DEF Spec

-----------------------------------------------------------------------------
(* No trigger fires twice.                                                 *)

\* Nothing that is used is new.
UsesShrink ==
    /\ SameRows
    /\ tick'.run \subseteq tick.run
    /\ \A e \in Exec : ex'[e].pc = "insert" /\ ex'[e].origin = "tick" => ex'[e] = ex[e]

LEMMA UsesTyped ==
  ASSUME TypeInv
  PROVE  /\ \A i : FromTick(i) => i \in Nat /\ runs[i].s \in Sched /\ runs[i].at \in Nat
         /\ \A x \in tick.run : x.s \in Sched /\ x.at \in Nat
         /\ \A e : Inserting(e) => ex[e].s \in Sched /\ ex[e].at \in Nat
<1>1. \A i \in 1..Len(runs) : runs[i] \in RunRow BY DEF TypeInv, RunTypes
<1> QED BY <1>1 DEF TypeInv, RunTypes, ExecRow, TickTypes, FromTick, Inserting, RunRow

LEMMA UsedEarlier ==
  ASSUME TypeInv, NEW s, NEW t \in Int, NEW u \in Int, t <= u, UsedBefore(s, t)
  PROVE  UsedBefore(s, u)
BY UsesTyped DEF UsedBefore

LEMMA ShrinkKeeps ==
  ASSUME TypeInv, UsesShrink
  PROVE  /\ UsedOnce => UsedOnce'
         /\ \A s, t : UsedBefore(s, t) => UsedBefore(s, t)'
<1>1. \A i : FromTick(i)' => FromTick(i) /\ runs'[i].s = runs[i].s /\ runs'[i].at = runs[i].at
  BY DEF UsesShrink, SameRows, FromTick
<1>2. \A e : Inserting(e)' => Inserting(e) /\ ex'[e].s = ex[e].s /\ ex'[e].at = ex[e].at
  BY DEF UsesShrink, Inserting
<1>3. tick'.run \subseteq tick.run BY DEF UsesShrink
<1>4. UsedOnce => UsedOnce'
  <2> SUFFICES ASSUME UsedOnce PROVE UsedOnce' OBVIOUS
  <2> QED BY <1>1, <1>2, <1>3 DEF UsedOnce
<1>5. ASSUME NEW s, NEW t, UsedBefore(s, t) PROVE UsedBefore(s, t)'
  BY <1>1, <1>2, <1>3, <1>5 DEF UsedBefore
<1> QED BY <1>4, <1>5

\* How a step other than a tick's may change a schedule.
PlanMild(s) ==
    \/ sch'[s].state = sch[s].state /\ sch'[s].next = sch[s].next
    \/ sch'[s].state # "none" /\ sch'[s].next = Never
    \/ sch'[s].state = "deleted"
    \/ sch'[s].state # "none" /\ sch'[s].next > now
    \/ sch[s].state = "none" /\ sch'[s].state # "none"

LEMMA MildKeeps ==
  ASSUME FireInv, TypeInv', UsesShrink, now' >= now, tick'.due \subseteq tick.due,
         \A s \in Sched : PlanMild(s),
         \A s \in Sched : sch'[s].state = "none" => sch[s].state = "none"
  PROVE  FireInv'
<1>1. UsedOnce' BY ShrinkKeeps DEF FireInv
<1>2. \A s, t : UsedBefore(s, t) => UsedBefore(s, t)' BY ShrinkKeeps DEF FireInv
<1>3. now \in Nat /\ now' \in Nat
  BY SchedulesAssumption DEF FireInv, TypeInv, ScheduleTypes, SchedulesAssumption
<1>4. \A s \in Sched : UsedBefore(s, now + 1)'
  <2> SUFFICES ASSUME NEW s \in Sched PROVE UsedBefore(s, now + 1)' OBVIOUS
  <2>1. UsedBefore(s, now' + 1) BY <1>3, UsedEarlier DEF FireInv, PlannedLater
  <2> QED BY <1>2, <2>1
<1>5. \A s \in Sched : sch'[s].state = "none" => UsedBefore(s, 0)'
  BY <1>2 DEF FireInv, PlannedLater
<1>6. ASSUME NEW s \in Sched, sch'[s].state = "there", sch'[s].next # Never
      PROVE  UsedBefore(s, sch[s].next)'
  <2>1. sch[s].next \in Int /\ sch'[s].next \in Nat /\ UsedBefore(s, now + 1)
    BY <1>6 DEF FireInv, TypeInv, ScheduleTypes, ScheduleRow, Time, Never, PlannedLater
  <2>2. UsedBefore(s, sch'[s].next)
    <3>1. CASE sch'[s].state = sch[s].state /\ sch'[s].next = sch[s].next
      BY <1>6, <3>1 DEF FireInv, PlannedLater
    <3>2. CASE sch'[s].next > now BY <1>3, <2>1, <3>2, UsedEarlier DEF FireInv
    <3>3. CASE sch[s].state = "none"
      <4>1. UsedBefore(s, 0) BY <3>3 DEF FireInv, PlannedLater
      <4> QED BY <2>1, <4>1, UsedEarlier DEF FireInv
    <3> QED BY <1>6, <3>1, <3>2, <3>3 DEF PlanMild
  <2> QED BY <1>2, <2>2
<1>7. \A d \in tick'.due : sch'[d.s].state # "none" /\ UsedBefore(d.s, d.row.next)'
  <2> SUFFICES ASSUME NEW d \in tick'.due
               PROVE  sch'[d.s].state # "none" /\ UsedBefore(d.s, d.row.next)'
    OBVIOUS
  <2>1. d \in tick.due /\ d.s \in Sched BY DEF FireInv, TypeInv, TickTypes
  <2>2. sch[d.s].state # "none" /\ UsedBefore(d.s, d.row.next) BY <2>1 DEF FireInv, PlannedLater
  <2> QED BY <1>2, <2>1, <2>2
<1>8. \A d, c \in tick'.due : d.s = c.s => d = c BY DEF FireInv, PlannedLater
<1> QED BY <1>1, <1>4, <1>5, <1>6, <1>7, <1>8 DEF FireInv, PlannedLater

LEMMA BeginKeeps == ASSUME FireInv, TypeInv', TickBegin PROVE FireInv'
<1>1. /\ tick'.run = {} /\ tick'.due = {[s |-> s, row |-> sch[s]] : s \in Due(now)}
      /\ UNCHANGED <<sch, runs, ex, now>>
  BY DEF TickBegin, store
<1>2. UsesShrink BY <1>1 DEF UsesShrink, SameRows, FireInv, TypeInv, RunTypes
<1>3. UsedOnce' /\ \A s, t : UsedBefore(s, t) => UsedBefore(s, t)'
  BY <1>2, ShrinkKeeps DEF FireInv
<1>4. \A d \in tick'.due : /\ d.s \in Sched /\ d.row = sch[d.s] /\ sch[d.s].state = "there"
                           /\ sch[d.s].next # Never
  BY <1>1 DEF Due
<1>5. \A d \in tick'.due : sch'[d.s].state # "none" /\ UsedBefore(d.s, d.row.next)'
  BY <1>1, <1>3, <1>4 DEF FireInv, PlannedLater
<1>6. \A d, c \in tick'.due : d.s = c.s => d = c BY <1>1
<1>7. /\ \A s \in Sched : UsedBefore(s, now + 1)'
      /\ \A s \in Sched : sch'[s].state = "none" => UsedBefore(s, 0)'
      /\ \A s \in Sched : sch'[s].state = "there" /\ sch'[s].next # Never
                          => UsedBefore(s, sch[s].next)'
  BY <1>1, <1>3 DEF FireInv, PlannedLater
<1> QED BY <1>3, <1>5, <1>6, <1>7 DEF FireInv, PlannedLater

\* A tick uses triggers from the planned one up to its own moment, and plans a later one.
LEMMA PlanKeeps == ASSUME FireInv, TypeInv', NEW d \in tick.due, Plan(d) PROVE FireInv'
<1> USE DEF FireInv
<1> DEFINE due == Occurrences(d.row.kind, d.row.anchor, d.row.next, tick.now)
           latest == Max(due)
           runIt == tick.now - latest <= Grace \/ d.s \in CatchUp
           missed == MissedTimes(due, runIt)
           then == NextAfter(d.row.kind, d.row.anchor, tick.now)
           n == Len(runs)
           first == d.row.next
<1>1. /\ d.s \in Sched /\ d.row.kind \in Kind /\ d.row.anchor \in Nat /\ first \in Nat
      /\ first <= tick.now /\ tick.now \in Nat /\ tick.now <= now /\ now \in Nat
      /\ sch[d.s].state # "none" /\ UsedBefore(d.s, first)
  BY SchedulesAssumption
     DEF TypeInv, ScheduleTypes, TickTypes, Created, ScheduleRow, SchedulesAssumption, PlannedLater
<1>2. due \in SUBSET (first..tick.now) /\ IsFiniteSet(due) /\ latest \in due
  BY <1>1, OccurrencesDue
<1>3. latest \in Nat /\ due \in SUBSET Nat /\ runIt \in BOOLEAN BY <1>1, <1>2
<1>4. /\ missed \in Seq(due)
      /\ \A i \in 1..Len(missed) : runIt => missed[i] # latest
      /\ \A i, j \in 1..Len(missed) : i # j => missed[i] # missed[j]
  BY <1>2, <1>3, MissedOnce
<1>5. then # Never => then > tick.now BY <1>1, NextIsLater
<1>6. /\ sch' = IF sch[d.s].state # "there" THEN sch ELSE
                 [sch EXCEPT ![d.s].next = then, ![d.s].last = IF runIt THEN latest ELSE @]
      /\ runs' = runs \o [i \in 1..Len(missed) |-> Row(d.s, missed[i], "missed", "tick")]
      /\ tick' = [tick EXCEPT !.due = @ \ {d},
                              !.run = IF runIt THEN @ \cup {[s |-> d.s, at |-> latest]} ELSE @]
      /\ UNCHANGED <<ex, now>>
  BY Zenon DEF Plan
<1> HIDE DEF due, latest, runIt, missed, then, first
<1>7. /\ tick'.due = tick.due \ {d}
      /\ \A x \in tick'.run : x \in tick.run \/ (runIt /\ x.s = d.s /\ x.at = latest)
  BY <1>6 DEF TypeInv, TickTypes
<1>8. \A i : FromTick(i)' => \/ FromTick(i) /\ runs'[i] = runs[i] /\ i <= n
                             \/ /\ i > n /\ i - n \in 1..Len(missed)
                                /\ runs'[i].s = d.s /\ runs'[i].at = missed[i - n]
  <2> DEFINE more == [i \in 1..Len(missed) |-> Row(d.s, missed[i], "missed", "tick")]
  <2>1. Len(missed) \in Nat /\ n \in Nat /\ runs \in Seq(RunRow)
    BY <1>4 DEF TypeInv, RunTypes
  <2>2. Len(runs') = n + Len(missed)
        /\ \A i \in 1..Len(runs') : runs'[i] = IF i <= n THEN runs[i] ELSE more[i - n]
    <3>1. more \in Seq({Row(d.s, missed[i], "missed", "tick") : i \in 1..Len(missed)})
          /\ Len(more) = Len(missed)
      BY <2>1
    <3>2. runs' = runs \o more BY <1>6
    <3>3. ASSUME NEW a \in Seq(RunRow), NEW b,
                 b \in Seq({Row(d.s, missed[i], "missed", "tick") : i \in 1..Len(missed)})
          PROVE  /\ Len(a \o b) = Len(a) + Len(b)
                 /\ \A i \in 1..(Len(a) + Len(b)) :
                       (a \o b)[i] = IF i <= Len(a) THEN a[i] ELSE b[i - Len(a)]
      OBVIOUS
    <3> HIDE DEF more
    <3> QED BY <2>1, <3>1, <3>2, <3>3
  <2> HIDE DEF more
  <2>3. SUFFICES ASSUME NEW i, FromTick(i)'
                 PROVE  \/ FromTick(i) /\ runs'[i] = runs[i] /\ i <= n
                        \/ /\ i > n /\ i - n \in 1..Len(missed)
                           /\ runs'[i].s = d.s /\ runs'[i].at = missed[i - n]
    OBVIOUS
  <2>4. i \in 1..Len(runs') /\ runs'[i].origin = "tick" BY <2>3 DEF FromTick
  <2>5. CASE i <= n
    <3>1. runs'[i] = runs[i] BY <2>2, <2>4, <2>5
    <3>2. i \in 1..n BY <2>1, <2>2, <2>4, <2>5
    <3> QED BY <2>4, <2>5, <3>1, <3>2 DEF FromTick
  <2>6. CASE ~(i <= n)
    <3>1. i - n \in 1..Len(missed) /\ i > n BY <2>1, <2>2, <2>4, <2>6
    <3>2. runs'[i] = Row(d.s, missed[i - n], "missed", "tick")
      BY <2>2, <2>4, <2>6, <3>1 DEF more
    <3> QED BY <3>1, <3>2 DEF Row
  <2> QED BY <2>5, <2>6
<1>9. \A e : Inserting(e)' <=> Inserting(e) BY <1>6 DEF Inserting
<1> DEFINE New(i) == i > n /\ i - n \in 1..Len(missed) /\ runs'[i].s = d.s
                     /\ runs'[i].at = missed[i - n]
\* what is new is not before the planned trigger, and not after now
<1>10. \A i \in 1..Len(missed) : missed[i] \in Nat /\ missed[i] >= first /\ missed[i] <= tick.now
  <2>1. \A i \in 1..Len(missed) : missed[i] \in due BY <1>4
  <2>2. \A t \in due : t \in Nat /\ t >= first /\ t <= tick.now BY <1>1, <1>2
  <2> QED BY <2>1, <2>2
<1> HIDE DEF New
<1>11. \A i : New(i) => /\ runs'[i].s = d.s /\ runs'[i].at \in Nat
                        /\ runs'[i].at >= first /\ runs'[i].at <= tick.now
  BY <1>10 DEF New
<1>12. latest >= first /\ latest <= tick.now BY <1>1, <1>2
<1>13. /\ \A i : FromTick(i) /\ runs[i].s = d.s => runs[i].at < first
       /\ \A x \in tick.run : x.s = d.s => x.at < first
       /\ \A e : Inserting(e) /\ ex[e].s = d.s => ex[e].at < first
  BY <1>1 DEF UsedBefore
<1>14. UsedOnce'
  <2>1. ASSUME NEW i, NEW j, FromTick(i)', FromTick(j)', i # j, runs'[i].s = runs'[j].s
        PROVE  runs'[i].at # runs'[j].at
    <3>1. \/ FromTick(i) /\ runs'[i] = runs[i] /\ i <= n
          \/ New(i)
      BY <1>8, <2>1 DEF New
    <3>2. \/ FromTick(j) /\ runs'[j] = runs[j] /\ j <= n
          \/ New(j)
      BY <1>8, <2>1 DEF New
    <3>3. CASE FromTick(i) /\ runs'[i] = runs[i] /\ FromTick(j) /\ runs'[j] = runs[j]
      BY <2>1, <3>3 DEF UsedOnce
    <3>4. CASE FromTick(i) /\ runs'[i] = runs[i] /\ New(j)
      BY <1>1, <1>13, <1>11, <2>1, <3>4, UsesTyped
    <3>5. CASE New(i) /\ FromTick(j) /\ runs'[j] = runs[j]
      BY <1>1, <1>13, <1>11, <2>1, <3>5, UsesTyped
    <3>6. CASE New(i) /\ New(j)
      <4>1. i \in Int /\ j \in Int /\ n \in Nat BY <2>1 DEF FromTick, TypeInv, RunTypes
      <4>2. i - n # j - n BY <2>1, <4>1
      <4> QED BY <1>4, <3>6, <4>2 DEF New
    <3> QED BY <3>1, <3>2, <3>3, <3>4, <3>5, <3>6
  <2>2. ASSUME NEW i, NEW x \in tick'.run, FromTick(i)', runs'[i].s = x.s
        PROVE  runs'[i].at # x.at
    <3>1. \/ FromTick(i) /\ runs'[i] = runs[i] /\ i <= n
          \/ New(i)
      BY <1>8, <2>2 DEF New
    <3>2. x \in tick.run \/ (runIt /\ x.s = d.s /\ x.at = latest) BY <1>7
    <3>3. CASE FromTick(i) /\ runs'[i] = runs[i] /\ x \in tick.run
      BY <2>2, <3>3 DEF UsedOnce
    <3>4. CASE FromTick(i) /\ runs'[i] = runs[i] /\ x.s = d.s /\ x.at = latest
      BY <1>1, <1>3, <1>12, <1>13, <2>2, <3>4, UsesTyped
    <3>5. CASE New(i) /\ x \in tick.run
      BY <1>1, <1>13, <1>11, <2>2, <3>5, UsesTyped
    <3>6. CASE New(i) /\ runIt /\ x.at = latest BY <1>4, <3>6 DEF New
    <3> QED BY <3>1, <3>2, <3>3, <3>4, <3>5, <3>6
  <2>3. ASSUME NEW i, NEW e, FromTick(i)', Inserting(e)', runs'[i].s = ex[e].s
        PROVE  runs'[i].at # ex[e].at
    <3>1. \/ FromTick(i) /\ runs'[i] = runs[i] /\ i <= n
          \/ New(i)
      BY <1>8, <2>3 DEF New
    <3>2. Inserting(e) BY <1>9, <2>3
    <3>3. CASE FromTick(i) /\ runs'[i] = runs[i] BY <2>3, <3>2, <3>3 DEF UsedOnce
    <3>4. CASE New(i) BY <1>1, <1>13, <1>11, <2>3, <3>2, <3>4, UsesTyped
    <3> QED BY <3>1, <3>3, <3>4
  <2>4. ASSUME NEW e, NEW x \in tick'.run, Inserting(e)', ex[e].s = x.s
        PROVE  ex[e].at # x.at
    <3>1. Inserting(e) BY <1>9, <2>4
    <3>2. CASE x \in tick.run BY <2>4, <3>1, <3>2 DEF UsedOnce
    <3>3. CASE x.s = d.s /\ x.at = latest
      BY <1>1, <1>3, <1>12, <1>13, <2>4, <3>1, <3>3, UsesTyped
    <3> QED BY <1>7, <3>2, <3>3
  <2>5. \A e, f : Inserting(e)' /\ Inserting(f)' /\ e # f /\ ex[e].s = ex[f].s
                    => ex[e].at # ex[f].at
    BY <1>9 DEF UsedOnce
  <2>6. ex' = ex BY <1>6
  <2> QED BY <2>1, <2>2, <2>3, <2>4, <2>5, <2>6 DEF UsedOnce
\* another schedule's uses are what they were
<1>15. ASSUME NEW s, NEW t, s # d.s, UsedBefore(s, t) PROVE UsedBefore(s, t)'
  BY <1>6, <1>7, <1>8, <1>9, <1>15 DEF UsedBefore
<1>16. ASSUME NEW t \in Nat, t > tick.now PROVE UsedBefore(d.s, t)'
  <2>1. ASSUME NEW i, FromTick(i)', runs'[i].s = d.s PROVE runs'[i].at < t
    <3>1. CASE FromTick(i) /\ runs'[i] = runs[i]
      BY <1>1, <1>13, <1>16, <2>1, <3>1, UsesTyped
    <3>2. CASE New(i) BY <1>1, <1>16, <1>11, <3>2
    <3> QED BY <1>8, <2>1, <3>1, <3>2 DEF New
  <2>2. ASSUME NEW x \in tick'.run, x.s = d.s PROVE x.at < t
    <3>1. CASE x \in tick.run BY <1>1, <1>13, <1>16, <2>2, <3>1, UsesTyped
    <3>2. CASE x.at = latest BY <1>1, <1>3, <1>12, <1>16, <3>2
    <3> QED BY <1>7, <3>1, <3>2
  <2>3. ASSUME NEW e, Inserting(e)', ex[e].s = d.s PROVE ex[e].at < t
    BY <1>1, <1>9, <1>13, <1>16, <2>3, UsesTyped
  <2> QED BY <1>6, <2>1, <2>2, <2>3 DEF UsedBefore
<1>17. \A s \in Sched : /\ s # d.s => sch'[s] = sch[s]
                        /\ sch'[s].state = sch[s].state
  BY <1>6 DEF TypeInv, ScheduleTypes, ScheduleRow
<1>18. \A s \in Sched : UsedBefore(s, now + 1)'
  <2> SUFFICES ASSUME NEW s \in Sched PROVE UsedBefore(s, now + 1)' OBVIOUS
  <2>1. CASE s = d.s
    <3>1. now + 1 \in Nat /\ now + 1 > tick.now BY <1>1
    <3> QED BY <1>6, <1>16, <2>1, <3>1
  <2>2. CASE s # d.s BY <1>6, <1>15, <2>2 DEF PlannedLater
  <2> QED BY <2>1, <2>2
<1>19. \A s \in Sched : sch'[s].state = "none" => UsedBefore(s, 0)'
  BY <1>1, <1>15, <1>17 DEF PlannedLater
<1>20. ASSUME NEW s \in Sched, sch'[s].state = "there", sch'[s].next # Never
       PROVE  UsedBefore(s, sch[s].next)'
  <2>1. CASE s = d.s
    <3>1. sch[d.s].state = "there" BY <1>17, <1>20, <2>1
    <3>2. sch'[d.s].next = then BY <1>1, <1>6, <3>1 DEF TypeInv, ScheduleTypes, ScheduleRow
    <3>3. then \in Nat /\ then > tick.now
      BY <1>1, <1>5, <1>20, <2>1, <3>2, NextIsLater DEF then, Time
    <3> QED BY <1>16, <2>1, <3>2, <3>3
  <2>2. CASE s # d.s BY <1>15, <1>17, <1>20, <2>2 DEF PlannedLater
  <2> QED BY <2>1, <2>2
<1>21. \A c \in tick'.due : sch'[c.s].state # "none" /\ UsedBefore(c.s, c.row.next)'
  <2> SUFFICES ASSUME NEW c \in tick'.due
               PROVE  sch'[c.s].state # "none" /\ UsedBefore(c.s, c.row.next)'
    OBVIOUS
  <2>1. c \in tick.due /\ c # d BY <1>7
  <2>2. c.s # d.s /\ c.s \in Sched BY <2>1 DEF PlannedLater, TypeInv, TickTypes
  <2>3. sch[c.s].state # "none" /\ UsedBefore(c.s, c.row.next) BY <2>1 DEF PlannedLater
  <2> QED BY <1>15, <1>17, <2>2, <2>3
<1>22. \A c, b \in tick'.due : c.s = b.s => c = b BY <1>7 DEF PlannedLater
<1>23. PlannedLater' BY <1>18, <1>19, <1>20, <1>21, <1>22 DEF PlannedLater
<1> QED BY <1>14, <1>23

\* A trigger goes from the tick to an execution ...
LEMMA ExecuteKeeps ==
  ASSUME FireInv, TypeInv', NEW e \in Exec, NEW x \in tick.run, TickExecute(e, x) PROVE FireInv'
<1> USE DEF FireInv
<1>1. /\ tick'.run = tick.run \ {x} /\ tick'.due = tick.due /\ ex[e].pc = "idle"
      /\ ex'[e].s = x.s /\ ex'[e].at = x.at
      /\ \A f \in Exec : f # e => ex'[f] = ex[f]
      /\ UNCHANGED <<sch, runs, now>>
  BY DEF TickExecute, store, TypeInv, TickTypes, RunTypes, NoExec
<1>2. \A i : FromTick(i)' <=> FromTick(i) BY <1>1 DEF FromTick
<1>3. \A f : Inserting(f)' => f = e \/ (f # e /\ Inserting(f) /\ ex'[f] = ex[f])
  BY <1>1 DEF Inserting
<1>4. ~Inserting(e) BY <1>1 DEF Inserting
<1>5. x \in [s : Sched, at : Nat] /\ \A y \in tick.run : y \in [s : Sched, at : Nat]
  BY DEF TypeInv, TickTypes
<1>6. \A y \in tick'.run : y \in tick.run /\ (y.s = x.s => y.at # x.at)
  <2>1. \A y \in tick.run : y.s = x.s /\ y.at = x.at => y = x BY <1>5
  <2> QED BY <1>1, <2>1
<1>7. UsedOnce'
  <2>1. \A i, j : FromTick(i)' /\ FromTick(j)' /\ i # j /\ runs'[i].s = runs'[j].s
                    => runs'[i].at # runs'[j].at
    BY <1>1, <1>2 DEF UsedOnce
  <2>2. \A i : \A y \in tick'.run : FromTick(i)' /\ runs'[i].s = y.s => runs'[i].at # y.at
    BY <1>1, <1>2 DEF UsedOnce
  <2>3. ASSUME NEW i, NEW f, FromTick(i)', Inserting(f)', runs'[i].s = ex'[f].s
        PROVE  runs'[i].at # ex'[f].at
    <3>1. CASE f = e BY <1>1, <1>2, <2>3, <3>1 DEF UsedOnce
    <3>2. CASE f # e BY <1>1, <1>2, <1>3, <2>3, <3>2 DEF UsedOnce
    <3> QED BY <3>1, <3>2
  <2>4. ASSUME NEW f, NEW y \in tick'.run, Inserting(f)', ex'[f].s = y.s PROVE ex'[f].at # y.at
    <3>1. CASE f = e BY <1>1, <1>6, <2>4, <3>1
    <3>2. CASE f # e BY <1>1, <1>3, <2>4, <3>2 DEF UsedOnce
    <3> QED BY <3>1, <3>2
  <2>5. ASSUME NEW f, NEW g, Inserting(f)', Inserting(g)', f # g, ex'[f].s = ex'[g].s
        PROVE  ex'[f].at # ex'[g].at
    <3>1. CASE f = e BY <1>1, <1>3, <2>5, <3>1 DEF UsedOnce
    <3>2. CASE g = e BY <1>1, <1>3, <2>5, <3>2 DEF UsedOnce
    <3>3. CASE f # e /\ g # e BY <1>1, <1>3, <2>5, <3>3 DEF UsedOnce
    <3> QED BY <3>1, <3>2, <3>3
  <2> QED BY <2>1, <2>2, <2>3, <2>4, <2>5 DEF UsedOnce
<1>8. ASSUME NEW s, NEW t, UsedBefore(s, t) PROVE UsedBefore(s, t)'
  <2>1. \A i : FromTick(i)' /\ runs'[i].s = s => runs'[i].at < t
    BY <1>1, <1>2, <1>8 DEF UsedBefore
  <2>2. \A y \in tick'.run : y.s = s => y.at < t BY <1>1, <1>8 DEF UsedBefore
  <2>3. \A f : Inserting(f)' /\ ex'[f].s = s => ex'[f].at < t
    BY <1>1, <1>3, <1>8 DEF UsedBefore
  <2> QED BY <2>1, <2>2, <2>3 DEF UsedBefore
<1>9. PlannedLater' BY <1>1, <1>8 DEF PlannedLater
<1> QED BY <1>7, <1>9

\* ... and from the execution to its row.
LEMMA InsertedKeeps ==
  ASSUME FireInv, TypeInv', NEW e \in Exec, ExecInsert(e) PROVE FireInv'
<1> USE DEF FireInv
<1> DEFINE n == Len(runs)
<1>1. /\ tick' = tick /\ UNCHANGED <<sch, now>>
      /\ ex[e].pc = "insert" /\ ex'[e].pc = "check"
      /\ \A f \in Exec : f # e => ex'[f] = ex[f]
      /\ runs' = Append(runs, Row(ex[e].s, ex[e].at, "running", ex[e].origin))
  BY DEF ExecInsert, TypeInv, RunTypes
<1>2. n \in Nat /\ runs \in Seq(RunRow) BY DEF TypeInv, RunTypes
<1>3. /\ Len(runs') = n + 1 /\ \A i \in 1..n : runs'[i] = runs[i]
      /\ runs'[n + 1] = Row(ex[e].s, ex[e].at, "running", ex[e].origin)
  <2> DEFINE row == Row(ex[e].s, ex[e].at, "running", ex[e].origin)
  <2>1. runs' = Append(runs, row) BY <1>1
  <2> HIDE DEF row
  <2>2. Len(runs') = n + 1 /\ (\A i \in 1..n : runs'[i] = runs[i]) /\ runs'[n + 1] = row
    BY <1>2, <2>1
  <2> QED BY <2>2 DEF row
<1>4. \A i : FromTick(i)' => \/ FromTick(i) /\ runs'[i] = runs[i] /\ i # n + 1
                             \/ /\ i = n + 1 /\ Inserting(e)
                                /\ runs'[i].s = ex[e].s /\ runs'[i].at = ex[e].at
  BY <1>1, <1>2, <1>3 DEF FromTick, Inserting, Row
<1>5. \A f : Inserting(f)' => Inserting(f) /\ f # e /\ ex'[f] = ex[f]
  BY <1>1 DEF Inserting
<1>6. UsedOnce'
  <2>1. ASSUME NEW i, NEW j, FromTick(i)', FromTick(j)', i # j, runs'[i].s = runs'[j].s
        PROVE  runs'[i].at # runs'[j].at
    <3>1. CASE i = n + 1 BY <1>4, <2>1, <3>1 DEF UsedOnce
    <3>2. CASE j = n + 1 BY <1>4, <2>1, <3>2 DEF UsedOnce
    <3>3. CASE i # n + 1 /\ j # n + 1 BY <1>4, <2>1, <3>3 DEF UsedOnce
    <3> QED BY <3>1, <3>2, <3>3
  <2>2. ASSUME NEW i, NEW x \in tick'.run, FromTick(i)', runs'[i].s = x.s
        PROVE  runs'[i].at # x.at
    <3>1. x \in tick.run BY <1>1, <2>2
    <3>2. CASE i = n + 1
      <4>1. Inserting(e) /\ runs'[i].s = ex[e].s /\ runs'[i].at = ex[e].at BY <1>4, <2>2, <3>2
      <4>2. ex[e].at # x.at BY <2>2, <3>1, <4>1 DEF UsedOnce
      <4> QED BY <4>1, <4>2
    <3>3. CASE i # n + 1
      <4>1. FromTick(i) /\ runs'[i] = runs[i] BY <1>4, <2>2, <3>3
      <4> QED BY <2>2, <3>1, <4>1 DEF UsedOnce
    <3> QED BY <3>2, <3>3
  <2>3. ASSUME NEW i, NEW f, FromTick(i)', Inserting(f)', runs'[i].s = ex'[f].s
        PROVE  runs'[i].at # ex'[f].at
    BY <1>4, <1>5, <2>3 DEF UsedOnce
  <2>4. ASSUME NEW f, NEW x \in tick'.run, Inserting(f)', ex'[f].s = x.s PROVE ex'[f].at # x.at
    BY <1>1, <1>5, <2>4 DEF UsedOnce
  <2>5. ASSUME NEW f, NEW g, Inserting(f)', Inserting(g)', f # g, ex'[f].s = ex'[g].s
        PROVE  ex'[f].at # ex'[g].at
    BY <1>5, <2>5 DEF UsedOnce
  <2> QED BY <2>1, <2>2, <2>3, <2>4, <2>5 DEF UsedOnce
<1>7. ASSUME NEW s, NEW t, UsedBefore(s, t) PROVE UsedBefore(s, t)'
  <2>1. \A i : FromTick(i)' /\ runs'[i].s = s => runs'[i].at < t
    BY <1>4, <1>7 DEF UsedBefore
  <2>2. \A y \in tick'.run : y.s = s => y.at < t BY <1>1, <1>7 DEF UsedBefore
  <2>3. \A f : Inserting(f)' /\ ex'[f].s = s => ex'[f].at < t BY <1>5, <1>7 DEF UsedBefore
  <2> QED BY <2>1, <2>2, <2>3 DEF UsedBefore
<1>8. PlannedLater' BY <1>1, <1>7 DEF PlannedLater
<1> QED BY <1>6, <1>8

\* update writes back what it read, and so does resume what it made of a once schedule.
OnlyTicksPlan ==
    "update" \notin Api /\ ("resume" \in Api => \A k \in Kind : k.type # "once")

\* The steps that use no trigger.
LEMMA OthersFire ==
  ASSUME FireInv, TypeInv', OnlyTicksPlan,
         \/ ClockAdvances \/ TickEnd \/ Restart \/ ResumeWrite \/ UpdateRest
         \/ \E k \in Kind : UpdateKind(k)
         \/ \E e \in Exec : ExecCheck(e) \/ ExecNew(e) \/ ExecFail(e) \/ ExecRecord(e)
                            \/ ExecDeliver(e)
         \/ \E f \in follow : FollowTurn(f)
         \/ \E s \in Sched : \/ \E k \in Kind, p \in BOOLEAN : Create(s, k, p)
                             \/ Pause(s) \/ ApiRead("resume", s) \/ ApiRead("update", s)
                             \/ Delete(s) \/ \E e \in Exec : RunNow(e, s)
         \/ \E x \in Session :
              UserRecord(x) \/ UserDeliver(x) \/ AgentReads(x) \/ TurnEnds(x) \/ Pump(x)
  PROVE  FireInv'
<1> USE DEF FireInv
<1>0. /\ runs \in Seq(RunRow) /\ now \in Nat /\ sch \in [Sched -> ScheduleRow]
      /\ ex \in [Exec -> ExecRow]
  BY SchedulesAssumption DEF TypeInv, RunTypes, ScheduleTypes, SchedulesAssumption
<1>1. (UNCHANGED runs => SameRows) BY <1>0 DEF SameRows
<1>2. ASSUME UNCHANGED <<sch, runs, tick, ex>>, now' >= now PROVE FireInv'
  <2>1. UsesShrink BY <1>1, <1>2 DEF UsesShrink
  <2> QED BY <1>2, <2>1, MildKeeps DEF PlanMild
<1>3. CASE ClockAdvances
  BY <1>0, <1>2, <1>3 DEF ClockAdvances, store, tasks
<1>4. CASE TickEnd \/ Restart
  <2>1. /\ SameRows /\ UNCHANGED <<sch, now>> /\ tick' = NoTick
        /\ (UNCHANGED ex \/ ex' = [e \in Exec |-> NoExec])
    BY <1>1, <1>4, RowsRecovered DEF TickEnd, Restart, store, TypeInv
  <2>2. UsesShrink BY <2>1 DEF UsesShrink, NoTick, NoExec
  <2> QED BY <1>0, <2>1, <2>2, MildKeeps DEF PlanMild, NoTick
<1>5. CASE ResumeWrite
  <2>1. api.pc = "resume" /\ api.row.kind \in Kind /\ api.s \in Sched /\ api.row.kind.type # "once"
    BY <1>5 DEF ResumeWrite, TypeInv, ScheduleTypes, Created, OnlyTicksPlan
  <2> DEFINE next == NextAfter(api.row.kind, now, now)
  <2>2. /\ UNCHANGED <<runs, tick, ex, now>>
        /\ sch' = IF sch[api.s].state # "there" THEN sch ELSE
                  [sch EXCEPT ![api.s].paused = FALSE, ![api.s].anchor = now,
                              ![api.s].next = next]
    BY <1>5, <2>1 DEF ResumeWrite
  <2>3. next = Never \/ next > now BY <1>0, <2>1, NextIsLater
  <2> HIDE DEF next
  <2>4. \A s \in Sched : PlanMild(s) /\ (sch'[s].state = "none" => sch[s].state = "none")
    BY <1>0, <2>1, <2>2, <2>3 DEF PlanMild, ScheduleRow
  <2>5. UsesShrink BY <1>1, <2>2 DEF UsesShrink
  <2> QED BY <1>0, <2>2, <2>4, <2>5, MildKeeps
<1>6. CASE UpdateRest \/ \E k \in Kind : UpdateKind(k)
  BY <1>6 DEF UpdateRest, UpdateKind, OnlyTicksPlan, TypeInv, ScheduleTypes
<1>7. ASSUME NEW e \in Exec,
             ExecCheck(e) \/ ExecNew(e) \/ ExecFail(e) \/ ExecRecord(e) \/ ExecDeliver(e)
      PROVE  FireInv'
  <2>1. UNCHANGED <<sch, tick, now>>
    BY <1>7 DEF ExecCheck, ExecNew, ExecFail, ExecRecord, ExecDeliver, store
  <2>2. SameRows
    <3>1. "skipped" \in RunStatus /\ "failed" \in RunStatus BY DEF RunStatus
    <3> QED BY <1>1, <1>7, <3>1, RowsFinished
            DEF ExecCheck, ExecNew, ExecFail, ExecRecord, ExecDeliver, store, TypeInv
  <2>3. \A f \in Exec : f # e => ex'[f] = ex[f]
    BY <1>0, <1>7 DEF ExecCheck, ExecNew, ExecFail, ExecRecord, ExecDeliver
  <2>4. ex'[e].pc # "insert"
    <3>1. CASE ExecCheck(e) BY <1>0, <3>1 DEF ExecCheck, NoExec, ExecRow
    <3>2. CASE ExecNew(e) \/ ExecFail(e) BY <1>0, <3>2 DEF ExecNew, ExecFail, NoExec
    <3>3. CASE ExecRecord(e)
      <4>1. ex' = [ex EXCEPT ![e].pc = "deliver"] BY <3>3 DEF ExecRecord
      <4>2. ex \in [Exec -> ExecRow] /\ ex[e].pc = "send" BY <1>0, <3>3 DEF ExecRecord
      <4> QED BY <1>7, <4>1, <4>2 DEF ExecRow
    <3>4. CASE ExecDeliver(e)
      <4>1. ex' = [ex EXCEPT ![e] = NoExec] BY <3>4 DEF ExecDeliver
      <4> QED BY <1>0, <4>1 DEF NoExec
    <3> QED BY <1>7, <3>1, <3>2, <3>3, <3>4
  <2>5. UsesShrink BY <2>1, <2>2, <2>3, <2>4 DEF UsesShrink
  <2> QED BY <1>0, <2>1, <2>5, MildKeeps DEF PlanMild
<1>8. ASSUME NEW f \in follow, FollowTurn(f) PROVE FireInv'
  <2>1. UNCHANGED <<sch, tick, ex, now>> BY <1>8 DEF FollowTurn
  <2>3. SameRows BY <1>8, FollowRows DEF FireInv
  <2>4. UsesShrink BY <2>1, <2>3 DEF UsesShrink
  <2> QED BY <1>0, <2>1, <2>4, MildKeeps DEF PlanMild
<1>9. ASSUME NEW s \in Sched, NEW k \in Kind, NEW p \in BOOLEAN, Create(s, k, p) PROVE FireInv'
  <2>1. /\ UNCHANGED <<runs, tick, ex, now>> /\ sch[s].state = "none"
        /\ \A x \in Sched : x # s => sch'[x] = sch[x]
        /\ sch'[s].state = "there"
    BY <1>0, <1>9 DEF Create, tasks, NoSchedule
  <2>2. UsesShrink BY <1>1, <2>1 DEF UsesShrink
  <2> QED BY <1>0, <2>1, <2>2, MildKeeps DEF PlanMild
<1>10. ASSUME NEW s \in Sched, Pause(s) \/ Delete(s) PROVE FireInv'
  <2>1. UNCHANGED <<tick, ex, now>> /\ SameRows
    BY <1>1, <1>10, RowsDeleted DEF Pause, Delete, tasks, TypeInv
  <2>2. /\ \A x \in Sched : x # s => sch'[x] = sch[x]
        /\ sch[s].state = "there"
        /\ sch'[s].state = "deleted" \/ (sch'[s].state = "there" /\ sch'[s].next = Never)
    BY <1>0, <1>10 DEF Pause, Delete, ScheduleRow
  <2>3. UsesShrink BY <2>1 DEF UsesShrink
  <2> QED BY <1>0, <2>1, <2>2, <2>3, MildKeeps DEF PlanMild
<1>11. ASSUME NEW s \in Sched, ApiRead("resume", s) \/ ApiRead("update", s) PROVE FireInv'
  BY <1>0, <1>2, <1>11 DEF ApiRead, store
<1>12. ASSUME NEW s \in Sched, NEW e \in Exec, RunNow(e, s) PROVE FireInv'
  <2>1. /\ UNCHANGED <<sch, runs, tick, now>>
        /\ \A f \in Exec : f # e => ex'[f] = ex[f]
        /\ ex'[e].origin = "now"
    BY <1>0, <1>12 DEF RunNow, store, NoExec
  <2>2. UsesShrink BY <1>1, <2>1 DEF UsesShrink
  <2> QED BY <1>0, <2>1, <2>2, MildKeeps DEF PlanMild
<1>13. ASSUME NEW x \in Session,
              UserRecord(x) \/ UserDeliver(x) \/ AgentReads(x) \/ TurnEnds(x) \/ Pump(x)
       PROVE  FireInv'
  BY <1>0, <1>2, <1>13 DEF UserRecord, UserDeliver, AgentReads, TurnEnds, Pump, store, tasks
<1> QED BY <1>3, <1>4, <1>5, <1>6, <1>7, <1>8, <1>9, <1>10, <1>11, <1>12, <1>13

LEMMA InitFires == Init => FireInv
<1> SUFFICES ASSUME Init PROVE FireInv OBVIOUS
<1>1. /\ \A i : ~FromTick(i) /\ \A e : ~Inserting(e)
      /\ tick.run = {} /\ tick.due = {} /\ \A s \in Sched : sch[s].next = Never
  BY DEF Init, FromTick, Inserting, NoTick, NoExec, NoSchedule
<1>2. UsedOnce /\ \A s, t : UsedBefore(s, t) BY <1>1 DEF UsedOnce, UsedBefore
<1> QED BY <1>1, <1>2, InitTypes DEF FireInv, PlannedLater

LEMMA FireStep == ASSUME FireInv, [Next]_vars, OnlyTicksPlan PROVE FireInv'
<1>1. TypeInv' BY TypeStep DEF FireInv
<1>2. CASE UNCHANGED vars
  BY <1>2 DEF vars, store, tasks, sessions, FireInv, TypeInv, ScheduleTypes, TickTypes, RunTypes,
     SessionTypes, Created, UsedOnce, PlannedLater, UsedBefore, FromTick, Inserting
<1>3. ASSUME TickStep PROVE FireInv'
  BY <1>1, <1>3, BeginKeeps, PlanKeeps, ExecuteKeeps, OthersFire DEF TickStep
<1>4. ASSUME NEW e \in Exec, ExecStep(e) PROVE FireInv'
  BY <1>1, <1>4, InsertedKeeps, OthersFire DEF ExecStep
<1> QED BY <1>1, <1>2, <1>3, <1>4, OthersFire, Zenon DEF Next

(* tick_lock and plan-before-execute: however a schedule's ticks, pauses,  *)
(* deletions and runs by hand interleave, and wherever the server          *)
(* restarts, no trigger gets two rows.  What is left out is what           *)
(* OnlyTicksPlan says.                                                     *)
THEOREM SchedulesFireOnce ==
  ASSUME OnlyTicksPlan PROVE Spec => []TriggersFireOnce
<1>1. FireInv /\ [Next]_vars => FireInv' BY FireStep
<1>2. FireInv => TriggersFireOnce BY DEF FireInv, UsedOnce, FromTick, TriggersFireOnce
<1> QED BY <1>1, <1>2, InitFires, PTL DEF Spec
-----------------------------------------------------------------------------
(* A run ends as the first turn end after its check did.                   *)

\* A run is one execution's, or one follower's.
HasRun(e) == ex[e].pc \in {"check", "send", "deliver"}
RunsApart ==
    /\ \A e, c \in Exec : HasRun(e) /\ HasRun(c) /\ ex[e].run = ex[c].run => e = c
    /\ \A e \in Exec : \A f \in follow : HasRun(e) => ex[e].run # f.run
    /\ \A f, g \in follow : f.run = g.run => f = g

\* What was pushed is stored, and a follower that missed nothing has seen no turn end after `before`.
Watches(f) ==
    f.session # None => /\ f.seen <= Len(log[f.session])
                        /\ ~f.lagged => \A i \in TurnEndsAfter(f) : i > f.seen

\* An execution subscribed before its check.
Subscribed(e) ==
    /\ HasRun(e) => ex[e].seen <= Stored(ex[e].s)
    /\ ex[e].pc \in {"send", "deliver"} => ex[e].seen <= ex[e].before

EndInv ==
    TypeInv /\ RunsApart /\ (\A f \in follow : Watches(f)) /\ (\A e \in Exec : Subscribed(e))

\* Transcripts only grow.
LogGrows == \A x \in Session : /\ Len(log'[x]) >= Len(log[x])
                               /\ \A i \in 1..Len(log[x]) : log'[x][i] = log[x][i]

LEMMA LogsGrow == ASSUME TypeInv, Next PROVE LogGrows
<1>1. log \in [Session -> Seq(Event)] BY DEF TypeInv, SessionTypes
<1>2. log' = log => LogGrows BY <1>1 DEF LogGrows
<1>3. ASSUME NEW d \in tick.due, Plan(d) PROVE LogGrows
  <2>1. \A x \in Session : log'[x] = Append(log[x], NoticeEvent) \/ log'[x] = log[x]
    BY <1>1, <1>3 DEF Plan
  <2> QED BY <1>1, <2>1 DEF LogGrows
<1>4. ASSUME NEW x \in Session, Pump(x) PROVE LogGrows
  <2>1. \A y \in Session : log'[y] = Append(log[y], Head(chan[x])) \/ log'[y] = log[y]
    BY <1>1, <1>4 DEF Pump
  <2> QED BY <1>1, <2>1 DEF LogGrows
<1>5. ASSUME NEW e \in Exec, ExecStep(e) PROVE log' = log
  BY <1>5 DEF ExecStep, ExecInsert, ExecCheck, ExecNew, ExecFail, ExecRecord, ExecDeliver, sessions
<1>6. ASSUME NEW x \in Session, UserRecord(x) \/ UserDeliver(x) \/ AgentReads(x) \/ TurnEnds(x)
      PROVE  log' = log
  BY <1>6 DEF UserRecord, UserDeliver, AgentReads, TurnEnds
<1>7. ASSUME NEW s \in Sched,
             \/ \E k \in Kind, p \in BOOLEAN : Create(s, k, p)
             \/ Pause(s) \/ ApiRead("resume", s) \/ ApiRead("update", s) \/ Delete(s)
             \/ \E e \in Exec : RunNow(e, s)
      PROVE  log' = log
  BY <1>7 DEF Create, Pause, ApiRead, Delete, RunNow, sessions
<1>8. ASSUME \/ ClockAdvances \/ TickBegin \/ TickEnd \/ ResumeWrite \/ UpdateRest \/ Restart
             \/ \E k \in Kind : UpdateKind(k)
             \/ \E e \in Exec : \E x \in tick.run : TickExecute(e, x)
             \/ \E f \in follow : FollowTurn(f)
      PROVE  log' = log
  BY <1>8 DEF ClockAdvances, TickBegin, TickEnd, ResumeWrite, UpdateRest, Restart, UpdateKind,
              TickExecute, FollowTurn, sessions
<1> QED BY <1>2, <1>3, <1>4, <1>5, <1>6, <1>7, <1>8 DEF Next, TickStep

\* A growing transcript takes nothing from what a follower or an execution has seen.
LEMMA WatchesStays ==
  ASSUME TypeInv, LogGrows, TypeInv', NEW f \in FollowRow(Len(runs)), Watches(f) PROVE Watches(f)'
<1>1. CASE f.session = None BY <1>1 DEF Watches
<1>2. CASE f.session # None
  <2> DEFINE x == f.session
  <2>1. x \in Session /\ f.before \in Nat /\ f.seen \in Nat BY <1>2 DEF FollowRow
  <2>2. Len(log[x]) \in Nat /\ Len(log'[x]) \in Nat /\ Len(log'[x]) >= Len(log[x])
    BY <2>1 DEF LogGrows, TypeInv, SessionTypes
  <2>3. f.seen <= Len(log[x]) BY <1>2 DEF Watches
  <2>4. ASSUME ~f.lagged, NEW i \in TurnEndsAfter(f)' PROVE i > f.seen
    <3>1. i \in (f.before + 1)..Len(log'[x]) /\ log'[x][i].kind = "TurnEnded"
      BY <2>4 DEF TurnEndsAfter, TurnEndsIn
    <3>2. CASE i <= Len(log[x])
      <4>1. i \in 1..Len(log[x]) /\ i \in (f.before + 1)..Len(log[x]) BY <2>1, <2>2, <3>1, <3>2
      <4>2. log[x][i].kind = "TurnEnded" BY <2>1, <3>1, <4>1 DEF LogGrows
      <4> QED BY <1>2, <2>4, <4>1, <4>2 DEF Watches, TurnEndsAfter, TurnEndsIn
    <3>3. CASE i > Len(log[x]) BY <2>1, <2>2, <2>3, <3>1, <3>3
    <3> QED BY <2>1, <2>2, <3>1, <3>2, <3>3
  <2>5. f.seen <= Len(log'[x]) BY <2>1, <2>2, <2>3
  <2> QED BY <1>2, <2>4, <2>5 DEF Watches
<1> QED BY <1>1, <1>2

LEMMA SubscribedStays ==
  ASSUME TypeInv, LogGrows, TypeInv', NEW e \in Exec, ex'[e] = ex[e], Subscribed(e) PROVE Subscribed(e)'
<1>1. CASE HasRun(e)
  <2>1. PICK s : s = ex[e].s OBVIOUS
  <2>2. s \in Sched /\ ex[e].seen \in Nat BY <1>1, <2>1 DEF HasRun, TypeInv, RunTypes, ExecRow
  <2>3. Target[s] # None => Target[s] \in Session BY <2>2, SchedulesAssumption DEF SchedulesAssumption
  <2>4. Stored(s) \in Nat /\ Stored(s)' \in Nat /\ Stored(s)' >= Stored(s)
    BY <2>3 DEF Stored, LogGrows, TypeInv, SessionTypes
  <2>5. ex[e].seen <= Stored(s) BY <1>1, <2>1 DEF Subscribed
  <2>6. ex[e].seen <= Stored(s)' BY <2>2, <2>4, <2>5
  <2>7. Stored(ex[e].s)' = Stored(s)' BY <2>1 DEF Stored
  <2> QED BY <2>6, <2>7 DEF Subscribed, HasRun
<1>2. CASE ~HasRun(e) BY <1>2 DEF Subscribed, HasRun
<1> QED BY <1>1, <1>2

\* Executions that stay as they are, or let go of their run.
LEMMA LetGo ==
  ASSUME EndInv, LogGrows, TypeInv', follow' \subseteq follow,
         \A e \in Exec : ex'[e] = ex[e] \/ ~HasRun(e)'
  PROVE  EndInv'
<1>1. RunsApart' BY DEF EndInv, RunsApart, HasRun
<1>2. \A f \in follow : Watches(f)'
  <2>1. \A f \in follow : f \in FollowRow(Len(runs)) BY DEF EndInv, TypeInv, RunTypes
  <2> QED BY <2>1, WatchesStays DEF EndInv
<1>3. \A e \in Exec : Subscribed(e)'
  <2>1. \A e \in Exec : ~HasRun(e)' => Subscribed(e)' BY DEF Subscribed, HasRun
  <2> QED BY <2>1, SubscribedStays DEF EndInv
<1> QED BY <1>1, <1>2, <1>3 DEF EndInv

\* One execution gets a run of its own, or goes on with the one it has.
LEMMA GoesOn ==
  ASSUME EndInv, LogGrows, TypeInv', follow' = follow, NEW e \in Exec,
         \A c \in Exec : c # e => ex'[c] = ex[c],
         HasRun(e)', Subscribed(e)',
         (HasRun(e) /\ ex'[e].run = ex[e].run) \/ ex'[e].run > Len(runs)
  PROVE  EndInv'
<1>1. RunsApart'
  <2>1. /\ \A c \in Exec : HasRun(c) => ex[c].run \in 1..Len(runs)
        /\ \A f \in follow : f.run \in 1..Len(runs)
        /\ Len(runs) \in Nat
    BY DEF EndInv, TypeInv, RunTypes, HasRun, FollowRow
  <2>2. ex'[e].run \in Nat BY DEF TypeInv, RunTypes, ExecRow
  <2>3. \A c \in Exec : HasRun(c) /\ c # e => ex'[e].run # ex[c].run
    BY <2>1, <2>2 DEF EndInv, RunsApart
  <2>4. \A f \in follow : ex'[e].run # f.run BY <2>1, <2>2 DEF EndInv, RunsApart
  <2> QED BY <2>3, <2>4 DEF EndInv, RunsApart, HasRun
<1>2. \A f \in follow : Watches(f)'
  <2>1. \A f \in follow : f \in FollowRow(Len(runs)) BY DEF EndInv, TypeInv, RunTypes
  <2> QED BY <2>1, WatchesStays DEF EndInv
<1>3. \A c \in Exec : Subscribed(c)' BY SubscribedStays DEF EndInv
<1> QED BY <1>1, <1>2, <1>3 DEF EndInv

\* An execution hands its run to a follower.
LEMMA HandsOver ==
  ASSUME EndInv, LogGrows, TypeInv', NEW e \in Exec, NEW f \in FollowRow(Len(runs)),
         HasRun(e), f.run = ex[e].run, follow' = follow \cup {f}, Watches(f),
         ex' = [ex EXCEPT ![e] = NoExec]
  PROVE  EndInv'
<1>1. ~HasRun(e)' /\ \A c \in Exec : c # e => ex'[c] = ex[c]
  BY DEF EndInv, TypeInv, RunTypes, HasRun, NoExec
<1>2. RunsApart' BY <1>1 DEF EndInv, RunsApart, HasRun
<1>3. \A g \in follow' : Watches(g)'
  <2>1. \A g \in follow : g \in FollowRow(Len(runs)) BY DEF EndInv, TypeInv, RunTypes
  <2> QED BY <2>1, WatchesStays DEF EndInv
<1>4. \A c \in Exec : Subscribed(c)'
  <2>1. Subscribed(e)' BY <1>1 DEF Subscribed, HasRun
  <2> QED BY <1>1, <2>1, SubscribedStays DEF EndInv
<1> QED BY <1>2, <1>3, <1>4 DEF EndInv

\* A follower goes on: it has passed over nothing that counts, or will look in the store.
LEMMA FollowerGoesOn ==
  ASSUME TypeInv, NEW f \in follow, Watches(f), FollowTurn(f), f.session # None,
         ~\E st \in Outcome : FollowEnds(f, st)
  PROVE  \E h \in FollowRow(Len(runs)) : FollowOn(f, h) /\ h.run = f.run /\ Watches(h)
<1> DEFINE x == f.session
<1>1. f \in FollowRow(Len(runs)) BY DEF TypeInv, RunTypes
<1>2. x \in Session /\ f.before \in Nat /\ f.seen \in Nat BY <1>1 DEF FollowRow
<1>3. Len(log[x]) \in Nat BY <1>2 DEF TypeInv, SessionTypes
<1>4. Unseen(f) \in SUBSET Nat /\ \A i \in Unseen(f) : i <= Len(log[x])
  BY <1>2, <1>3 DEF Unseen, TurnEndsIn
<1>5. \A i \in TurnEndsAfter(f) : i \in Nat /\ i > f.before
  BY <1>2, <1>3 DEF TurnEndsAfter, TurnEndsIn
<1>6. \A h \in FollowRow(Len(runs)) :
         (h.session = f.session /\ h.before = f.before) => TurnEndsAfter(h) = TurnEndsAfter(f)
  BY DEF TurnEndsAfter
<1>7. CASE FollowPush(f)
  <2>1. PICK i : i = Min(Unseen(f)) OBVIOUS
  <2>2. i \in Unseen(f) BY <1>4, <1>7, <2>1, LeastExists DEF FollowPush
  <2>3. i \in Nat /\ i <= Len(log[x]) BY <1>4, <2>2
  <2>4. IF i > f.before THEN FollowEnds(f, EndOutcome(f, i)) ELSE FollowOn(f, [f EXCEPT !.seen = i])
    BY <1>7, <2>1 DEF FollowPush
  <2>5. CASE i > f.before
    <3>1. PICK st : st = EndOutcome(f, i) OBVIOUS
    <3>2. FollowEnds(f, st) BY <2>4, <2>5, <3>1
    <3>3. i \in (f.seen + 1)..Len(log[x]) /\ log[x][i].kind = "TurnEnded"
      BY <2>2 DEF Unseen, TurnEndsIn
    <3>4. log[x] \in Seq(Event) BY <1>2 DEF TypeInv, SessionTypes
    <3>5. log[x][i] \in Event BY <1>2, <1>3, <3>3, <3>4
    <3>6. st \in Outcome BY <3>1, <3>3, <3>5 DEF Event, EndOutcome
    <3> QED BY <3>2, <3>6
  <2>6. CASE ~(i > f.before)
    <3>1. PICK h : h = [f EXCEPT !.seen = i] OBVIOUS
    <3>2. h \in FollowRow(Len(runs)) /\ h.run = f.run /\ h.session = f.session /\ h.before = f.before
          /\ h.seen = i /\ h.lagged = f.lagged
      BY <1>1, <2>3, <3>1 DEF FollowRow
    <3>3. Watches(h) BY <1>2, <1>5, <1>6, <2>3, <2>6, <3>2 DEF Watches
    <3> QED BY <2>4, <2>6, <3>1, <3>2, <3>3
  <2> QED BY <2>5, <2>6
<1>8. CASE FollowLags(f)
  <2>1. PICK i \in Unseen(f) : FollowOn(f, [f EXCEPT !.seen = i, !.lagged = TRUE])
    BY <1>8 DEF FollowLags
  <2>2. i \in Nat /\ i <= Len(log[x]) BY <1>4, <2>1
  <2>3. PICK h : h = [f EXCEPT !.seen = i, !.lagged = TRUE] OBVIOUS
  <2>4. h \in FollowRow(Len(runs)) /\ h.run = f.run /\ h.session = f.session
        /\ h.seen = i /\ h.lagged
    BY <1>1, <2>2, <2>3 DEF FollowRow
  <2>5. Watches(h) BY <2>2, <2>4 DEF Watches
  <2> QED BY <2>1, <2>3, <2>4, <2>5
<1>9. CASE FollowLagged(f)
  <2>1. CASE TurnEndsAfter(f) # {}
    <3>1. PICK i : i = Min(TurnEndsAfter(f)) OBVIOUS
    <3>2. i \in TurnEndsAfter(f) BY <1>5, <2>1, <3>1, LeastExists
    <3>3. PICK st : st = EndOutcome(f, i) OBVIOUS
    <3>4. FollowEnds(f, st) BY <1>9, <2>1, <3>1, <3>3 DEF FollowLagged
    <3>5. i \in (f.before + 1)..Len(log[x]) /\ log[x][i].kind = "TurnEnded"
      BY <3>2 DEF TurnEndsAfter, TurnEndsIn
    <3>6. log[x] \in Seq(Event) BY <1>2 DEF TypeInv, SessionTypes
    <3>7. log[x][i] \in Event BY <1>2, <1>3, <3>5, <3>6
    <3>8. st \in Outcome BY <3>3, <3>5, <3>7 DEF Event, EndOutcome
    <3> QED BY <3>4, <3>8
  <2>2. CASE TurnEndsAfter(f) = {}
    <3>1. PICK h : h = [f EXCEPT !.lagged = FALSE] OBVIOUS
    <3>2. h \in FollowRow(Len(runs)) /\ h.run = f.run /\ h.session = f.session /\ h.before = f.before
          /\ h.seen = f.seen
      BY <1>1, <3>1 DEF FollowRow
    <3>3. Watches(h) BY <1>6, <2>2, <3>2 DEF Watches
    <3> QED BY <1>9, <2>2, <3>1, <3>2, <3>3 DEF FollowLagged
  <2> QED BY <2>1, <2>2
<1> QED BY <1>7, <1>8, <1>9 DEF FollowTurn, FollowNew

LEMMA FollowEndsWell == ASSUME EndInv, TypeInv', LogGrows, NEW f \in follow, FollowTurn(f) PROVE EndInv'
<1>1. ex' = ex /\ log' = log BY FollowRows DEF EndInv, sessions
<1>2. CASE \E st \in Outcome : FollowEnds(f, st) BY <1>1, <1>2, LetGo DEF FollowEnds
<1>3. CASE ~\E st \in Outcome : FollowEnds(f, st)
  <2>1. f.session # None BY <1>3, FollowSteps DEF EndInv
  <2>2. PICK h \in FollowRow(Len(runs)) : FollowOn(f, h) /\ h.run = f.run /\ Watches(h)
    BY <1>3, <2>1, FollowerGoesOn DEF EndInv
  <2>3. follow' = (follow \ {f}) \cup {h} BY <2>2 DEF FollowOn
  <2>4. RunsApart' BY <1>1, <2>2, <2>3 DEF EndInv, RunsApart, HasRun
  <2>5. \A g \in follow' : Watches(g)'
    <3>1. \A g \in follow : g \in FollowRow(Len(runs)) BY DEF EndInv, TypeInv, RunTypes
    <3> QED BY <2>2, <2>3, <3>1, WatchesStays DEF EndInv
  <2>6. \A c \in Exec : Subscribed(c)' BY <1>1, SubscribedStays DEF EndInv
  <2> QED BY <2>4, <2>5, <2>6 DEF EndInv
<1> QED BY <1>2, <1>3

LEMMA ExecEndsWell == ASSUME EndInv, TypeInv', LogGrows, NEW e \in Exec, ExecStep(e) PROVE EndInv'
<1>0. /\ runs \in Seq(RunRow) /\ ex \in [Exec -> ExecRow] /\ log \in [Session -> Seq(Event)]
      /\ ex[e].pc # "idle" => ex[e].s \in Sched
      /\ HasRun(e) => ex[e].run \in 1..Len(runs)
  BY DEF EndInv, TypeInv, RunTypes, SessionTypes, HasRun
<1>1. CASE ExecInsert(e)
  <2> DEFINE s == ex[e].s
  <2>1. PICK r : r = [ex[e] EXCEPT !.pc = "check", !.run = Len(runs) + 1, !.seen = Stored(s)] OBVIOUS
  <2>2. r.pc = "check" /\ r.run = Len(runs) + 1 /\ r.seen = Stored(s) /\ r.s = s
    BY <1>0, <2>1 DEF ExecRow
  <2>3. ex' = [ex EXCEPT ![e] = r] /\ follow' = follow /\ log' = log
    BY <1>1, <2>1 DEF ExecInsert, sessions
  <2>4. ex'[e] = r /\ \A c \in Exec : c # e => ex'[c] = ex[c] BY <1>0, <2>3
  <2>5. s \in Sched BY <1>0, <1>1 DEF ExecInsert
  <2>6. Stored(s) \in Nat BY <2>5, StoredIsNat DEF EndInv, TypeInv
  <2>7. Subscribed(e)' BY <2>2, <2>3, <2>4, <2>6 DEF Subscribed, HasRun, Stored
  <2>8. HasRun(e)' /\ ex'[e].run > Len(runs) BY <1>0, <2>2, <2>4 DEF HasRun
  <2> QED BY <2>3, <2>4, <2>7, <2>8, GoesOn
<1>2. CASE ExecCheck(e)
  <2>1. CASE ex' = [ex EXCEPT ![e] = NoExec]
    <3>1. follow' = follow BY <1>2 DEF ExecCheck
    <3>2. \A c \in Exec : ex'[c] = ex[c] \/ ~HasRun(c)' BY <1>0, <2>1 DEF HasRun, NoExec
    <3> QED BY <3>1, <3>2, LetGo
  <2>2. CASE ex' = [ex EXCEPT ![e].pc = "send", ![e].before = Len(log[Target[ex[e].s]])]
    <3>1. /\ ex'[e].pc = "send" /\ ex'[e].before = Len(log[Target[ex[e].s]]) /\ ex'[e].s = ex[e].s
          /\ ex'[e].seen = ex[e].seen /\ ex'[e].run = ex[e].run
          /\ \A c \in Exec : c # e => ex'[c] = ex[c]
      BY <1>0, <2>2 DEF ExecRow
    <3>2. HasRun(e) /\ follow' = follow /\ log' = log /\ Target[ex[e].s] # None
      BY <1>2 DEF ExecCheck, HasRun, sessions
    <3>3. ex[e].seen <= Stored(ex[e].s) BY <3>2 DEF EndInv, Subscribed
    <3>4. Stored(ex[e].s) = Len(log[Target[ex[e].s]]) BY <3>2 DEF Stored
    <3>5. PICK s : s = ex[e].s OBVIOUS
    <3>6. Stored(s)' = Stored(s) BY <3>2 DEF Stored
    <3>7. Subscribed(e)' BY <3>1, <3>3, <3>4, <3>5, <3>6 DEF Subscribed, HasRun
    <3>8. HasRun(e)' BY <3>1 DEF HasRun
    <3> QED BY <3>1, <3>2, <3>7, <3>8, GoesOn
  <2> QED BY <1>2, <2>1, <2>2 DEF ExecCheck
<1>3. CASE ExecNew(e)
  <2>1. PICK f : f = Follower(ex[e].run, None, 0, 0) OBVIOUS
  <2>2. f.run = ex[e].run /\ f.session = None BY <2>1 DEF Follower
  <2>3. HasRun(e) /\ follow' = follow \cup {f} /\ ex' = [ex EXCEPT ![e] = NoExec]
    BY <1>3, <2>1 DEF ExecNew, HasRun
  <2>4. f \in FollowRow(Len(runs)) BY <1>0, <2>1, <2>3 DEF Follower, FollowRow
  <2>5. Watches(f) BY <2>2 DEF Watches
  <2> QED BY <2>2, <2>3, <2>4, <2>5, HandsOver
<1>4. CASE ExecFail(e)
  <2>1. follow' = follow /\ \A c \in Exec : ex'[c] = ex[c] \/ ~HasRun(c)'
    BY <1>0, <1>4 DEF ExecFail, HasRun, NoExec
  <2> QED BY <2>1, LetGo
<1>5. CASE ExecRecord(e)
  <2>1. /\ ex'[e].pc = "deliver" /\ ex'[e].before = ex[e].before /\ ex'[e].s = ex[e].s
        /\ ex'[e].seen = ex[e].seen /\ ex'[e].run = ex[e].run
        /\ \A c \in Exec : c # e => ex'[c] = ex[c]
    BY <1>0, <1>5 DEF ExecRow, ExecRecord
  <2>2. HasRun(e) /\ ex[e].pc = "send" /\ follow' = follow /\ log' = log
    BY <1>5 DEF ExecRecord, HasRun
  <2>3. ex[e].seen <= Stored(ex[e].s) /\ ex[e].seen <= ex[e].before BY <2>2 DEF EndInv, Subscribed
  <2>4. PICK s : s = ex[e].s OBVIOUS
  <2>5. Stored(s)' = Stored(s) BY <2>2 DEF Stored
  <2>6. Subscribed(e)' BY <2>1, <2>3, <2>4, <2>5 DEF Subscribed, HasRun
  <2>7. HasRun(e)' BY <2>1 DEF HasRun
  <2> QED BY <2>1, <2>2, <2>6, <2>7, GoesOn
<1>6. CASE ExecDeliver(e)
  <2>1. PICK x : x = Target[ex[e].s] OBVIOUS
  <2>2. PICK f : f = Follower(ex[e].run, x, ex[e].before, ex[e].seen) OBVIOUS
  <2>3. /\ f.run = ex[e].run /\ f.session = x /\ f.before = ex[e].before /\ f.seen = ex[e].seen
        /\ ~f.lagged
    BY <2>2 DEF Follower
  <2>4. HasRun(e) /\ ex[e].pc = "deliver" /\ follow' = follow \cup {f} /\ ex' = [ex EXCEPT ![e] = NoExec]
    BY <1>6, <2>1, <2>2 DEF ExecDeliver, HasRun
  <2>5. ex[e].s \in Sched /\ ex[e].before \in Nat /\ ex[e].seen \in Nat BY <1>0, <2>4 DEF ExecRow
  <2>6. x \in Session \cup {None} BY <2>1, <2>5, SchedulesAssumption DEF SchedulesAssumption
  <2>7. f \in FollowRow(Len(runs)) BY <1>0, <2>2, <2>4, <2>5, <2>6 DEF Follower, FollowRow
  <2>8. Watches(f)
    <3>1. CASE x = None BY <2>3, <3>1 DEF Watches
    <3>2. CASE x # None
      <4>1. ex[e].seen <= Stored(ex[e].s) /\ ex[e].seen <= ex[e].before
        BY <2>4 DEF EndInv, Subscribed
      <4>2. Stored(ex[e].s) = Len(log[x]) BY <2>1, <3>2 DEF Stored
      <4>3. x \in Session /\ Len(log[x]) \in Nat BY <1>0, <2>6, <3>2
      <4>4. \A i \in TurnEndsAfter(f) : i \in Nat /\ i > f.before
        BY <2>3, <2>5, <4>3 DEF TurnEndsAfter, TurnEndsIn
      <4> QED BY <2>3, <2>5, <4>1, <4>2, <4>4 DEF Watches
    <3> QED BY <3>1, <3>2
  <2> QED BY <2>3, <2>4, <2>7, <2>8, HandsOver
<1> QED BY <1>1, <1>2, <1>3, <1>4, <1>5, <1>6 DEF ExecStep

LEMMA EndStep == ASSUME EndInv, [Next]_vars PROVE EndInv'
<1>1. CASE UNCHANGED vars
  BY <1>1 DEF EndInv, TypeInv, ScheduleTypes, TickTypes, RunTypes, SessionTypes, RunsApart, Watches,
              Subscribed, HasRun, Stored, TurnEndsAfter, TurnEndsIn, Created, vars, store, sessions, tasks
<1>2. CASE Next
  <2>1. TypeInv' /\ LogGrows BY <1>2, TypeStep, LogsGrow DEF EndInv
  <2>2. ex \in [Exec -> ExecRow] BY DEF EndInv, TypeInv, RunTypes
  <2>3. UNCHANGED <<ex, follow>> => EndInv' BY <2>1, LetGo
  <2>4. ASSUME NEW e \in Exec, ExecStep(e) PROVE EndInv' BY <2>1, <2>4, ExecEndsWell
  <2>5. ASSUME NEW f \in follow, FollowTurn(f) PROVE EndInv' BY <2>1, <2>5, FollowEndsWell
  <2>6. ASSUME NEW e \in Exec, \/ \E x \in tick.run : TickExecute(e, x)
                               \/ \E s \in Sched : RunNow(e, s)
        PROVE  EndInv'
    <3>1. follow' = follow /\ \A c \in Exec : ex'[c] = ex[c] \/ ~HasRun(c)'
      BY <2>2, <2>6 DEF TickExecute, RunNow, HasRun, NoExec
    <3> QED BY <2>1, <3>1, LetGo
  <2>7. CASE Restart
    <3>1. follow' \subseteq follow /\ \A c \in Exec : ~HasRun(c)' BY <2>7 DEF Restart, HasRun, NoExec
    <3> QED BY <2>1, <3>1, LetGo
  <2>8. ASSUME \/ ClockAdvances \/ TickBegin \/ TickEnd \/ ResumeWrite \/ UpdateRest
               \/ \E d \in tick.due : Plan(d)
               \/ \E k \in Kind : UpdateKind(k)
        PROVE  UNCHANGED <<ex, follow>>
    BY <2>8 DEF ClockAdvances, TickBegin, TickEnd, ResumeWrite, UpdateRest, Plan, UpdateKind, tasks
  <2>9. ASSUME NEW s \in Sched,
               \/ \E k \in Kind, p \in BOOLEAN : Create(s, k, p)
               \/ Pause(s) \/ ApiRead("resume", s) \/ ApiRead("update", s) \/ Delete(s)
        PROVE  UNCHANGED <<ex, follow>>
    BY <2>9 DEF Create, Pause, ApiRead, Delete, tasks
  <2>10. ASSUME NEW x \in Session,
                UserRecord(x) \/ UserDeliver(x) \/ AgentReads(x) \/ TurnEnds(x) \/ Pump(x)
         PROVE  UNCHANGED <<ex, follow>>
    BY <2>10 DEF UserRecord, UserDeliver, AgentReads, TurnEnds, Pump, tasks
  <2> QED BY <1>2, <2>3, <2>4, <2>5, <2>6, <2>7, <2>8, <2>9, <2>10 DEF Next, TickStep
<1> QED BY <1>1, <1>2

\* What Plan does to the rows and to what is to be executed.
LEMMA PlanSteps ==
  ASSUME TypeInv, NEW d \in tick.due, Plan(d)
  PROVE  LET due == Occurrences(d.row.kind, d.row.anchor, d.row.next, tick.now)
             runIt == tick.now - Max(due) <= Grace \/ d.s \in CatchUp
             missed == MissedTimes(due, runIt)
         IN /\ tick.now \in Nat /\ d.row.next \in Nat /\ d.row.next <= tick.now /\ tick.now <= now
            /\ due \in SUBSET (d.row.next..tick.now) /\ IsFiniteSet(due) /\ runIt \in BOOLEAN
            /\ UNCHANGED <<ex, api, now>> /\ tick'.due = tick.due \ {d}
            /\ tick'.run = IF runIt THEN tick.run \cup {[s |-> d.s, at |-> Max(due)]} ELSE tick.run
            /\ \A i \in 1..Len(runs) : i \in 1..Len(runs') /\ runs'[i] = runs[i]
            /\ \A j \in 1..Len(missed) : \E i \in 1..Len(runs') :
                  runs'[i].s = d.s /\ runs'[i].at = missed[j]
<1> DEFINE due == Occurrences(d.row.kind, d.row.anchor, d.row.next, tick.now)
           latest == Max(due)
           runIt == tick.now - latest <= Grace \/ d.s \in CatchUp
           missed == MissedTimes(due, runIt)
           n == Len(runs)
           more == [i \in 1..Len(missed) |-> Row(d.s, missed[i], "missed", "tick")]
<1>1. /\ d.row.next \in Nat /\ d.row.next <= tick.now /\ tick.now \in Nat /\ tick.now <= now
  BY SchedulesAssumption DEF TypeInv, TickTypes
<1>2. due \in SUBSET (d.row.next..tick.now) /\ IsFiniteSet(due) /\ latest \in due
  BY <1>1, OccurrencesDue
<1>3. due \in SUBSET Nat /\ runIt \in BOOLEAN BY <1>1, <1>2
<1>4. missed \in Seq(due) BY <1>2, <1>3, MissedOnce
<1>5. /\ runs' = runs \o more
      /\ tick' = [tick EXCEPT !.due = @ \ {d},
                              !.run = IF runIt THEN @ \cup {[s |-> d.s, at |-> latest]} ELSE @]
      /\ UNCHANGED <<ex, api, now>>
  BY Zenon DEF Plan
<1>6. more \in Seq({Row(d.s, missed[i], "missed", "tick") : i \in 1..Len(missed)})
      /\ Len(more) = Len(missed)
  BY <1>4
<1>7. \A j \in 1..Len(missed) : more[j].s = d.s /\ more[j].at = missed[j] BY DEF Row
<1> HIDE DEF due, latest, runIt, missed, more
<1>8. /\ tick'.due = tick.due \ {d}
      /\ tick'.run = IF runIt THEN tick.run \cup {[s |-> d.s, at |-> latest]} ELSE tick.run
  BY <1>5 DEF TypeInv, TickTypes
<1>9. ASSUME NEW a \in Seq(RunRow), NEW b,
             b \in Seq({Row(d.s, missed[i], "missed", "tick") : i \in 1..Len(missed)})
      PROVE  /\ \A i \in 1..Len(a) : i \in 1..Len(a \o b) /\ (a \o b)[i] = a[i]
             /\ \A j \in 1..Len(b) : Len(a) + j \in 1..Len(a \o b) /\ (a \o b)[Len(a) + j] = b[j]
  OBVIOUS
<1>10. runs \in Seq(RunRow) BY DEF TypeInv, RunTypes
<1>11. /\ \A i \in 1..n : i \in 1..Len(runs') /\ runs'[i] = runs[i]
       /\ \A j \in 1..Len(missed) : n + j \in 1..Len(runs') /\ runs'[n + j] = more[j]
  <2>1. \A j \in 1..Len(more) : Len(runs) + j \in 1..Len(runs') /\ runs'[Len(runs) + j] = more[j]
    BY <1>5, <1>6, <1>9, <1>10
  <2>2. \A i \in 1..n : i \in 1..Len(runs') /\ runs'[i] = runs[i] BY <1>5, <1>6, <1>9, <1>10
  <2> QED BY <1>6, <2>1, <2>2
<1>12. \A j \in 1..Len(missed) : \E i \in 1..Len(runs') :
          runs'[i].s = d.s /\ runs'[i].at = missed[j]
  BY <1>7, <1>11
<1> QED BY <1>1, <1>2, <1>3, <1>5, <1>8, <1>11, <1>12 DEF due, latest, runIt, missed

\* Only its follower makes a running row completed or interrupted.
LEMMA OnlyFollowers ==
  ASSUME EndInv, Next, NEW i \in 1..Len(runs), runs[i].status = "running",
         runs'[i].status \in {"completed", "interrupted"}
  PROVE  \E f \in follow : f.run = i /\ FollowTurn(f) /\ \E st : FollowEnds(f, st)
<1>1. runs \in Seq(RunRow) /\ Len(runs) \in Nat /\ runs[i] \in RunRow BY DEF EndInv, TypeInv, RunTypes
<1>2. runs'[i] # runs[i] OBVIOUS
<1>3. ASSUME NEW r, NEW st, runs' = Finished(r, st), r # i \/ st \notin {"completed", "interrupted"}
      PROVE  FALSE
  BY <1>1, <1>3 DEF Finished, RunRow
<1>4. ASSUME NEW e \in Exec, ExecStep(e) PROVE FALSE
  <2>1. CASE ExecInsert(e) BY <1>1, <1>2, <2>1 DEF ExecInsert
  <2>2. CASE ~ExecInsert(e)
    BY <1>2, <1>3, <1>4, <2>2 DEF ExecStep, ExecCheck, ExecNew, ExecFail, ExecRecord, ExecDeliver, store
  <2> QED BY <2>1, <2>2
<1>5. ASSUME NEW d \in tick.due, Plan(d) PROVE FALSE
  <2>1. runs'[i] = runs[i] BY <1>5, PlanSteps DEF EndInv
  <2> QED BY <1>2, <2>1
<1>6. ASSUME NEW s \in Sched, Delete(s) PROVE FALSE BY <1>1, <1>6 DEF Delete, RunRow
<1>7. CASE Restart BY <1>1, <1>7 DEF Restart, Recover, RunRow
<1>8. ASSUME NEW s \in Sched,
             \/ \E k \in Kind, p \in BOOLEAN : Create(s, k, p)
             \/ Pause(s) \/ ApiRead("resume", s) \/ ApiRead("update", s)
             \/ \E e \in Exec : RunNow(e, s)
      PROVE  FALSE
  BY <1>2, <1>8 DEF Create, Pause, ApiRead, RunNow, store
<1>9. ASSUME \/ ClockAdvances \/ TickBegin \/ TickEnd \/ ResumeWrite \/ UpdateRest
             \/ \E k \in Kind : UpdateKind(k)
             \/ \E e \in Exec : \E x \in tick.run : TickExecute(e, x)
      PROVE  FALSE
  BY <1>2, <1>9 DEF ClockAdvances, TickBegin, TickEnd, ResumeWrite, UpdateRest, UpdateKind,
                    TickExecute, store
<1>10. ASSUME NEW x \in Session,
              UserRecord(x) \/ UserDeliver(x) \/ AgentReads(x) \/ TurnEnds(x) \/ Pump(x)
       PROVE  FALSE
  BY <1>2, <1>10 DEF UserRecord, UserDeliver, AgentReads, TurnEnds, Pump, store
<1>11. ASSUME NEW f \in follow, FollowTurn(f) PROVE f.run = i /\ \E st : FollowEnds(f, st)
  <2>1. CASE \E st : FollowEnds(f, st) BY <1>3, <2>1 DEF FollowEnds
  <2>2. CASE ~\E st : FollowEnds(f, st) BY <1>2, <1>11, <2>2, FollowSteps DEF FollowOn, EndInv
  <2> QED BY <2>1, <2>2
<1> QED BY <1>4, <1>5, <1>6, <1>7, <1>8, <1>9, <1>10, <1>11 DEF Next, TickStep

(* A run that is followed ends as the first turn end stored after its      *)
(* status check did: the subscription before the check, the filter on      *)
(* `before` and the look in the store after missed pushes are enough, for  *)
(* any executions and senders that cross and wherever pushes are lost.     *)
THEOREM SchedulesEndRuns == Spec => EndsByFirstTurnEnd
<1> DEFINE Told(f) ==
             (/\ f.session # None /\ runs[f.run].status = "running"
              /\ runs'[f.run].status \in {"completed", "interrupted"})
                => /\ TurnEndsAfter(f) # {}
                   /\ runs'[f.run].status = EndOutcome(f, Min(TurnEndsAfter(f)))
<1>1. Init => EndInv
  <2> SUFFICES ASSUME Init PROVE EndInv OBVIOUS
  <2>1. TypeInv BY InitTypes
  <2> QED BY <2>1 DEF Init, EndInv, RunsApart, Subscribed, HasRun, NoExec
<1>2. EndInv /\ [Next]_vars => EndInv' BY EndStep
<1>3. ASSUME EndInv, [Next]_vars, NEW f \in follow PROVE Told(f)
  <2> SUFFICES ASSUME f.session # None, runs[f.run].status = "running",
                      runs'[f.run].status \in {"completed", "interrupted"}
               PROVE  /\ TurnEndsAfter(f) # {}
                      /\ runs'[f.run].status = EndOutcome(f, Min(TurnEndsAfter(f)))
    OBVIOUS
  <2>1. Next BY <1>3 DEF vars, store
  <2>2. f \in FollowRow(Len(runs)) /\ f.run \in 1..Len(runs) BY <1>3 DEF EndInv, TypeInv, RunTypes, FollowRow
  <2>3. PICK g \in follow : g.run = f.run /\ FollowTurn(g) /\ \E st : FollowEnds(g, st)
    BY <1>3, <2>1, <2>2, OnlyFollowers
  <2>4. g = f BY <1>3, <2>3 DEF EndInv, RunsApart
  <2>5. Watches(f) /\ f.before \in Nat /\ f.seen \in Nat /\ f.session \in Session
    BY <1>3, <2>2 DEF EndInv, FollowRow
  <2>6. Len(log[f.session]) \in Nat /\ runs \in Seq(RunRow)
    BY <1>3, <2>5 DEF EndInv, TypeInv, SessionTypes, RunTypes
  <2>7. /\ TurnEndsAfter(f) \in SUBSET Nat /\ \A i \in TurnEndsAfter(f) : i > f.before
        /\ Unseen(f) \in SUBSET Nat
    BY <2>5, <2>6 DEF TurnEndsAfter, Unseen, TurnEndsIn
  <2>8. \A st : FollowEnds(f, st) => runs'[f.run].status = st
    BY <2>2, <2>6 DEF FollowEnds, Finished, RunRow
  <2>9. CASE FollowPush(f)
    <3>1. PICK i : i = Min(Unseen(f)) OBVIOUS
    <3>2. i \in Unseen(f) /\ \A j \in Unseen(f) : i <= j BY <2>7, <2>9, <3>1, LeastExists DEF FollowPush
    <3>3. CASE i > f.before
      <4>1. i \in TurnEndsAfter(f) BY <2>5, <2>6, <2>7, <3>2, <3>3 DEF TurnEndsAfter, Unseen, TurnEndsIn
      <4>2. \A j \in TurnEndsAfter(f) : j \in Unseen(f)
        BY <2>5, <2>6, <2>7, <2>9 DEF Watches, TurnEndsAfter, Unseen, TurnEndsIn, FollowPush
      <4>3. \A j \in TurnEndsAfter(f) : i <= j BY <3>2, <4>2
      <4>4. Min(TurnEndsAfter(f)) = i 
        <5> DEFINE m == Min(TurnEndsAfter(f))
        <5>1. m \in TurnEndsAfter(f) /\ m <= i BY <2>7, <4>1, LeastExists
        <5>2. m \in Nat /\ i \in Nat /\ i <= m BY <2>7, <4>1, <4>3, <5>1
        <5> HIDE DEF m
        <5>3. m = i BY <5>1, <5>2
        <5> QED BY <5>3 DEF m
      <4>5. FollowEnds(f, EndOutcome(f, i)) BY <2>9, <3>1, <3>3 DEF FollowPush
      <4> QED BY <2>8, <4>1, <4>4, <4>5
    <3>4. CASE ~(i > f.before)
      <4>1. runs' = runs BY <2>9, <3>1, <3>4 DEF FollowPush, FollowOn
      <4> QED BY <4>1
    <3> QED BY <3>3, <3>4
  <2>10. CASE FollowLags(f)
    <3>1. runs' = runs BY <2>10 DEF FollowLags, FollowOn
    <3> QED BY <3>1
  <2>11. CASE FollowLagged(f)
    <3>1. CASE TurnEndsAfter(f) # {} BY <2>8, <2>11, <3>1 DEF FollowLagged
    <3>2. CASE TurnEndsAfter(f) = {}
      <4>1. runs' = runs BY <2>11, <3>2 DEF FollowLagged, FollowOn
      <4> QED BY <4>1
    <3> QED BY <3>1, <3>2
  <2> QED BY <2>3, <2>4, <2>9, <2>10, <2>11 DEF FollowTurn, FollowNew
<1>4. EndInv /\ [Next]_vars => [\A f \in follow : Told(f)]_vars BY <1>3
<1> QED BY <1>1, <1>2, <1>4, PTL DEF Spec, EndsByFirstTurnEnd

-----------------------------------------------------------------------------
(* No trigger is lost.                                                     *)

\* s is on, and t is a trigger of its kind, counted from its creation.
Live(s) == sch[s].state = "there" /\ ~sch[s].paused
Fires(s, t) == NextAfter(sch[s].kind, sch[s].born, t - 1) = t

\* What has become of t: it is planned, it has its row or is about to be executed, or
\* MAX_MISSED_ROWS later triggers have come since.
Planned(s, t) == sch[s].next # Never /\ sch[s].next <= t
Taken(s, t) ==
    \/ \E i \in 1..Len(runs) : runs[i].s = s /\ runs[i].at = t
    \/ [s |-> s, at |-> t] \in tick.run
    \/ \E e \in Exec : /\ ex[e].pc = "insert" /\ ex[e].origin = "tick"
                       /\ ex[e].s = s /\ ex[e].at = t
Since(s, t) == {u \in (t + 1)..now : Fires(s, u)}
Skipped(s, t) == Cardinality(Since(s, t)) >= MaxMissedRows

(* Each trigger of a schedule that is on has its row, is still planned or  *)
(* about to be executed, unless MAX_MISSED_ROWS later ones have come.      *)
NoneLost(s) ==
    Live(s) => \A t \in (sch[s].born + 1)..now :
        Fires(s, t) => Planned(s, t) \/ Taken(s, t) \/ Skipped(s, t)

\* The server does not stop, and s is neither updated nor resumed.
Disturbs(s) == Restart \/ ApiRead("update", s) \/ ApiRead("resume", s)

\* The rows that a tick has read and not planned yet are those of the table.
ReadAsStored(s) ==
    /\ api.pc # "idle" => api.s # s
    /\ \A d \in tick.due : d.s = s =>
          /\ sch[s].state # "none"
          /\ \A c \in tick.due : c.s = s => c = d
          /\ Live(s) => /\ d.row.kind = sch[s].kind /\ d.row.anchor = sch[s].anchor
                        /\ d.row.next = sch[s].next

\* Triggers to come are planned; those that have come are, or are taken or skipped.
AllCounted(s) ==
    Live(s) => /\ sch[s].anchor = sch[s].born
               /\ \A t \in Nat : t > sch[s].born /\ Fires(s, t) =>
                     Planned(s, t) \/ (t <= now /\ (Taken(s, t) \/ Skipped(s, t)))

LossInv(s) == ReadAsStored(s) /\ AllCounted(s)

\* The steps of Next other than those of a tick, of a new row and of a restart.
QuietStep ==
    \/ ClockAdvances \/ ResumeWrite \/ UpdateRest \/ \E k \in Kind : UpdateKind(k)
    \/ \E e \in Exec : ExecCheck(e) \/ ExecNew(e) \/ ExecFail(e) \/ ExecRecord(e) \/ ExecDeliver(e)
    \/ \E f \in follow : FollowTurn(f)
    \/ \E s \in Sched : \/ \E k \in Kind, p \in BOOLEAN : Create(s, k, p)
                        \/ Pause(s) \/ ApiRead("resume", s) \/ ApiRead("update", s)
                        \/ Delete(s) \/ \E e \in Exec : RunNow(e, s)
    \/ \E x \in Session :
          UserRecord(x) \/ UserDeliver(x) \/ AgentReads(x) \/ TurnEnds(x) \/ Pump(x)

TakenKept == \A s, t : Taken(s, t) => Taken(s, t)'

LEMMA UsesStay ==
  ASSUME UNCHANGED runs \/ SameRows, tick.run \subseteq tick'.run,
         \A e \in Exec : ex[e].pc = "insert" /\ ex[e].origin = "tick" => ex'[e] = ex[e]
  PROVE  TakenKept
<1>1. \A i \in 1..Len(runs) : /\ i \in 1..Len(runs') /\ runs'[i].s = runs[i].s
                              /\ runs'[i].at = runs[i].at
  BY DEF SameRows
<1> SUFFICES ASSUME NEW s, NEW t, Taken(s, t) PROVE Taken(s, t)' BY DEF TakenKept
<1>2. ASSUME NEW i \in 1..Len(runs), runs[i].s = s, runs[i].at = t PROVE Taken(s, t)'
  <2>1. i \in 1..Len(runs') /\ runs'[i].s = s /\ runs'[i].at = t BY <1>1, <1>2
  <2> QED BY <2>1 DEF Taken
<1>3. ASSUME NEW e \in Exec, ex[e].pc = "insert", ex[e].origin = "tick", ex[e].s = s, ex[e].at = t
      PROVE  Taken(s, t)'
  BY <1>3 DEF Taken
<1>4. CASE [s |-> s, at |-> t] \in tick.run BY <1>4 DEF Taken
<1> QED BY <1>2, <1>3, <1>4 DEF Taken

LEMMA QuietKeepsTaken == ASSUME TypeInv, QuietStep PROVE TakenKept
<1>1. runs \in Seq(RunRow) /\ sch \in [Sched -> ScheduleRow] /\ ex \in [Exec -> ExecRow]
  BY DEF TypeInv, RunTypes, ScheduleTypes
<1>2. CASE UNCHANGED <<runs, tick, ex>> BY <1>2, UsesStay
<1>3. CASE ClockAdvances \/ ResumeWrite \/ UpdateRest \/ \E k \in Kind : UpdateKind(k)
  BY <1>2, <1>3 DEF ClockAdvances, ResumeWrite, UpdateRest, UpdateKind, store, tasks
<1>4. ASSUME NEW e \in Exec,
             ExecCheck(e) \/ ExecNew(e) \/ ExecFail(e) \/ ExecRecord(e) \/ ExecDeliver(e)
      PROVE  TakenKept
  <2>1. tick' = tick BY <1>4 DEF ExecCheck, ExecNew, ExecFail, ExecRecord, ExecDeliver
  <2>2. UNCHANGED runs \/ SameRows
    <3>1. "skipped" \in RunStatus /\ "failed" \in RunStatus BY DEF RunStatus
    <3> QED BY <1>4, <3>1, RowsFinished
            DEF ExecCheck, ExecNew, ExecFail, ExecRecord, ExecDeliver, store, TypeInv
  <2>3. ex[e].pc # "insert" /\ \A f \in Exec : f # e => ex'[f] = ex[f]
    BY <1>1, <1>4 DEF ExecCheck, ExecNew, ExecFail, ExecRecord, ExecDeliver
  <2> QED BY <2>1, <2>2, <2>3, UsesStay
<1>5. ASSUME NEW f \in follow, FollowTurn(f) PROVE TakenKept
  <2>1. UNCHANGED <<tick, ex>> /\ SameRows BY <1>5, FollowRows
  <2> QED BY <2>1, UsesStay
<1>6. ASSUME NEW s \in Sched,
             \/ \E k \in Kind, p \in BOOLEAN : Create(s, k, p)
             \/ Pause(s) \/ ApiRead("resume", s) \/ ApiRead("update", s)
      PROVE  UNCHANGED <<runs, tick, ex>>
  BY <1>6 DEF Create, Pause, ApiRead, store, tasks
<1>7. ASSUME NEW s \in Sched, Delete(s) PROVE TakenKept
  <2>1. SameRows /\ UNCHANGED <<tick, ex>> BY <1>7, RowsDeleted DEF Delete, tasks, TypeInv
  <2> QED BY <2>1, UsesStay
<1>8. ASSUME NEW s \in Sched, NEW e \in Exec, RunNow(e, s) PROVE TakenKept
  <2>1. /\ UNCHANGED <<runs, tick>> /\ ex[e].pc = "idle"
        /\ \A f \in Exec : f # e => ex'[f] = ex[f]
    BY <1>1, <1>8 DEF RunNow, store
  <2> QED BY <2>1, UsesStay
<1>9. ASSUME NEW x \in Session,
             UserRecord(x) \/ UserDeliver(x) \/ AgentReads(x) \/ TurnEnds(x) \/ Pump(x)
      PROVE  UNCHANGED <<runs, tick, ex>>
  BY <1>9 DEF UserRecord, UserDeliver, AgentReads, TurnEnds, Pump, store, tasks
<1> QED BY <1>2, <1>3, <1>4, <1>5, <1>6, <1>7, <1>8, <1>9 DEF QuietStep

\* A tick takes a trigger on: it is to be executed, then in execution, then a row.
LEMMA ExecuteKeepsTaken ==
  ASSUME TypeInv, NEW e \in Exec, NEW x \in tick.run, TickExecute(e, x) PROVE TakenKept
<1>1. PICK r : r = [NoExec EXCEPT !.pc = "insert", !.s = x.s, !.at = x.at] OBVIOUS
<1>2. r.pc = "insert" /\ r.s = x.s /\ r.at = x.at /\ r.origin = "tick" BY <1>1 DEF NoExec
<1>3. /\ ex[e].pc = "idle" /\ ex' = [ex EXCEPT ![e] = r] /\ runs' = runs
      /\ tick' = [tick EXCEPT !.run = tick.run \ {x}]
  BY <1>1 DEF TickExecute, store
<1>4. ex'[e] = r /\ \A f \in Exec : f # e => ex'[f] = ex[f]
  BY <1>3 DEF TypeInv, RunTypes
<1>5. tick'.run = tick.run \ {x} BY <1>3 DEF TypeInv, TickTypes
<1> SUFFICES ASSUME NEW s, NEW t, Taken(s, t) PROVE Taken(s, t)' BY DEF TakenKept
<1>6. CASE \E i \in 1..Len(runs) : runs[i].s = s /\ runs[i].at = t BY <1>3, <1>6 DEF Taken
<1>7. CASE [s |-> s, at |-> t] \in tick.run
  <2>1. CASE x = [s |-> s, at |-> t] BY <1>2, <1>4, <2>1 DEF Taken
  <2>2. CASE x # [s |-> s, at |-> t] BY <1>5, <1>7, <2>2 DEF Taken
  <2> QED BY <2>1, <2>2
<1>8. ASSUME NEW f \in Exec, ex[f].pc = "insert", ex[f].origin = "tick", ex[f].s = s, ex[f].at = t
      PROVE  Taken(s, t)'
  <2>1. ex'[f] = ex[f] BY <1>3, <1>4, <1>8
  <2> QED BY <1>8, <2>1 DEF Taken
<1> QED BY <1>6, <1>7, <1>8 DEF Taken

LEMMA InsertKeepsTaken ==
  ASSUME TypeInv, NEW e \in Exec, ExecInsert(e) PROVE TakenKept
<1>1. PICK r : r = Row(ex[e].s, ex[e].at, "running", ex[e].origin) OBVIOUS
<1>2. r.s = ex[e].s /\ r.at = ex[e].at BY <1>1 DEF Row
<1>3. runs' = Append(runs, r) /\ tick' = tick BY <1>1 DEF ExecInsert
<1>4. runs \in Seq(RunRow) /\ ex \in [Exec -> ExecRow] BY DEF TypeInv, RunTypes
<1>5. /\ Len(runs) \in Nat /\ Len(runs') = Len(runs) + 1 /\ runs'[Len(runs) + 1] = r
      /\ \A i \in 1..Len(runs) : runs'[i] = runs[i]
  BY <1>3, <1>4
<1>6. \A f \in Exec : f # e => ex'[f] = ex[f] BY <1>4 DEF ExecInsert
<1> SUFFICES ASSUME NEW s, NEW t, Taken(s, t) PROVE Taken(s, t)' BY DEF TakenKept
<1>7. ASSUME NEW i \in 1..Len(runs), runs[i].s = s, runs[i].at = t PROVE Taken(s, t)'
  <2>1. i \in 1..Len(runs') /\ runs'[i].s = s /\ runs'[i].at = t BY <1>5, <1>7
  <2> QED BY <2>1 DEF Taken
<1>8. CASE [s |-> s, at |-> t] \in tick.run BY <1>3, <1>8 DEF Taken
<1>9. ASSUME NEW f \in Exec, ex[f].pc = "insert", ex[f].origin = "tick", ex[f].s = s, ex[f].at = t
      PROVE  Taken(s, t)'
  <2>1. CASE f # e BY <1>6, <1>9, <2>1 DEF Taken
  <2>2. CASE f = e
    <3>1. Len(runs) + 1 \in 1..Len(runs') BY <1>5
    <3> QED BY <1>2, <1>5, <1>9, <2>2, <3>1 DEF Taken
  <2> QED BY <2>1, <2>2
<1> QED BY <1>7, <1>8, <1>9 DEF Taken

LEMMA PlanKeepsTaken == ASSUME TypeInv, NEW d \in tick.due, Plan(d) PROVE TakenKept
<1>1. /\ \A i \in 1..Len(runs) : i \in 1..Len(runs') /\ runs'[i] = runs[i]
      /\ tick.run \subseteq tick'.run /\ ex' = ex
  BY PlanSteps
<1> SUFFICES ASSUME NEW s, NEW t, Taken(s, t) PROVE Taken(s, t)' BY DEF TakenKept
<1>2. ASSUME NEW i \in 1..Len(runs), runs[i].s = s, runs[i].at = t PROVE Taken(s, t)'
  <2>1. i \in 1..Len(runs') /\ runs'[i].s = s /\ runs'[i].at = t BY <1>1, <1>2
  <2> QED BY <2>1 DEF Taken
<1>3. CASE \E e \in Exec : /\ ex[e].pc = "insert" /\ ex[e].origin = "tick"
                           /\ ex[e].s = s /\ ex[e].at = t
  BY <1>1, <1>3 DEF Taken
<1>4. CASE [s |-> s, at |-> t] \in tick.run BY <1>1, <1>4 DEF Taken
<1> QED BY <1>2, <1>3, <1>4 DEF Taken

LEMMA StepKeepsTaken == ASSUME TypeInv, Next, ~Restart PROVE TakenKept
<1>1. CASE TickBegin \/ TickEnd
  <2>1. tick.run = {} /\ UNCHANGED <<runs, ex>>
    BY <1>1 DEF TickBegin, TickEnd, TypeInv, TickTypes, store
  <2> QED BY <2>1, UsesStay
<1>2. CASE TickStep BY <1>1, <1>2, PlanKeepsTaken, ExecuteKeepsTaken DEF TickStep
<1>3. ASSUME NEW e \in Exec, ExecStep(e) PROVE TakenKept \/ QuietStep
  BY <1>3, InsertKeepsTaken DEF ExecStep, QuietStep
<1>4. QuietStep => TakenKept BY QuietKeepsTaken
<1> QED BY <1>2, <1>3, <1>4 DEF Next, QuietStep

\* A due trigger is the one that is run, has a `missed` row, or has MAX_MISSED_ROWS due after it.
LEMMA MissedCovers ==
  ASSUME NEW due \in SUBSET Nat, IsFiniteSet(due), NEW runIt \in BOOLEAN, NEW t \in due
  PROVE  LET missed == MissedTimes(due, runIt)
         IN \/ runIt /\ t = Max(due)
            \/ \E j \in 1..Len(missed) : missed[j] = t
            \/ Cardinality({u \in due : u > t}) >= MaxMissedRows
<1> DEFINE from == IF runIt THEN due \ {Max(due)} ELSE due
           Above(S) == {u \in S : u > t}
           kept == {v \in from : Cardinality({u \in from : u > v}) < MaxMissedRows}
           missed == MissedTimes(due, runIt)
<1>1. from \subseteq due /\ (t \in from \/ (runIt /\ t = Max(due))) OBVIOUS
<1>2. missed = Ascending(kept) BY Zenon DEF MissedTimes, Latest
<1>3. kept \subseteq from /\ (t \in from => t \in kept \/ ~(Cardinality(Above(from)) < MaxMissedRows))
  OBVIOUS
<1> HIDE DEF from, kept, missed
<1>4. kept \in SUBSET Int /\ IsFiniteSet(kept)
  <2>1. kept \in SUBSET due BY <1>1, <1>3
  <2>2. \A x \in kept : x \in Int BY <2>1
  <2> QED BY <2>1, <2>2, FS_Subset
<1>5. CASE t \in kept
  <2>1. PICK j \in 1..Cardinality(kept) : Ascending(kept)[j] = t BY <1>4, <1>5, AscendingOrder
  <2>2. Cardinality(kept) \in Nat /\ Ascending(kept) \in [1..Cardinality(kept) -> kept]
    BY <1>4, AscendingOrder
  <2>3. Len(missed) = Cardinality(kept) BY <1>2, <2>2
  <2> QED BY <1>2, <2>1, <2>3 DEF missed
<1>6. CASE ~(Cardinality(Above(from)) < MaxMissedRows)
  <2>1. Above(from) \in SUBSET Above(due) /\ Above(due) \in SUBSET due BY <1>1
  <2>2. IsFiniteSet(Above(due)) BY <2>1, FS_Subset
  <2>3. IsFiniteSet(Above(from)) /\ Cardinality(Above(from)) <= Cardinality(Above(due))
    BY <2>1, <2>2, FS_Subset
  <2>4. Cardinality(Above(from)) \in Nat /\ Cardinality(Above(due)) \in Nat /\ MaxMissedRows \in Nat
    BY <2>2, <2>3, FS_CardinalityType, SchedulesAssumption DEF SchedulesAssumption
  <2> HIDE DEF Above
  <2>5. Cardinality(Above(due)) >= MaxMissedRows BY <1>6, <2>3, <2>4
  <2> QED BY <2>5 DEF Above
<1> QED BY <1>1, <1>3, <1>5, <1>6

\* The next trigger after a moment is the first of those after it.
LEMMA NextIsFirst ==
  ASSUME NEW k \in Kind, NEW a \in Nat, NEW x \in Nat, NEW t \in Nat, t > x,
         NextAfter(k, a, t - 1) = t
  PROVE  NextAfter(k, a, x) # Never /\ NextAfter(k, a, x) <= t
<1>1. CASE k.type = "once" /\ k.at \in Nat
  BY <1>1 DEF NextAfter, Never
<1>2. CASE k.type = "interval" /\ k.period \in Nat \ {0}
  <2>1. CASE x < a + k.period
    <3>1. NextAfter(k, a, x) = a + k.period BY <1>2, <2>1 DEF NextAfter
    <3>2. CASE t - 1 < a + k.period
      <4>1. NextAfter(k, a, t - 1) = a + k.period BY <1>2, <3>2 DEF NextAfter
      <4> QED BY <1>2, <3>1, <4>1 DEF Never
    <3>3. CASE ~(t - 1 < a + k.period) BY <1>2, <3>1, <3>3 DEF Never
    <3> QED BY <3>2, <3>3
  <2>2. CASE ~(x < a + k.period)
    <3> DEFINE p == k.period
               d == x - a
               e == t - 1 - a
    <3>1. p \in Nat /\ p > 0 /\ d \in Nat /\ e \in Nat /\ d <= e BY <1>2, <2>2
    <3>2. NextAfter(k, a, x) = a + (d \div p + 1) * p
          /\ NextAfter(k, a, t - 1) = a + (e \div p + 1) * p
      BY <1>2, <2>2 DEF NextAfter
    <3>3. d \div p \in Nat /\ e \div p \in Nat /\ d \div p <= e \div p
      <4> HIDE DEF p, d, e
      <4>1. d = p * (d \div p) + (d % p) /\ d % p \in 0..(p - 1) /\ d \div p \in Nat
        BY <3>1
      <4>2. e = p * (e \div p) + (e % p) /\ e % p \in 0..(p - 1) /\ e \div p \in Nat
        BY <3>1
      <4> DEFINE q == d \div p
                 r == e \div p
      <4>3. ASSUME q > r PROVE FALSE
        <5>1. q \in Nat /\ r \in Nat BY <4>1, <4>2
        <5> HIDE DEF q, r
        <5>2. p * q >= p * (r + 1) BY <3>1, <4>3, <5>1
        <5>3. p * (r + 1) = p * r + p BY <3>1, <5>1
        <5>4. p * q \in Int /\ p * r \in Int BY <3>1, <5>1
        <5>5. d >= p * q /\ e < p * r + p BY <3>1, <4>1, <4>2, <5>4 DEF q, r
        <5> QED BY <3>1, <5>2, <5>3, <5>4, <5>5
      <4> QED BY <4>1, <4>2, <4>3
    <3>4. ASSUME NEW q \in Nat, NEW r \in Nat, NEW m \in Nat, q <= r
          PROVE  (q + 1) * m <= (r + 1) * m /\ (q + 1) * m \in Nat
      <4>1. PICK z \in Nat : r = q + z BY <3>4
      <4>2. (q + 1 + z) * m = (q + 1) * m + z * m BY <4>1
      <4>3. (q + 1) * m \in Nat /\ z * m \in Nat BY <4>1
      <4>4. (r + 1) * m = (q + 1) * m + z * m
        <5>1. r + 1 = q + 1 + z BY <4>1
        <5> QED BY <4>2, <5>1
      <4> QED BY <4>3, <4>4
    <3>5. (d \div p + 1) * p <= (e \div p + 1) * p /\ (d \div p + 1) * p \in Nat
          /\ (e \div p + 1) * p \in Nat
      BY <3>1, <3>3, <3>4
    <3> HIDE DEF p, d, e
    <3>6. a + (d \div p + 1) * p <= a + (e \div p + 1) * p /\ a + (d \div p + 1) * p \in Nat
      BY <3>5
    <3> QED BY <3>2, <3>6 DEF Never
  <2> QED BY <2>1, <2>2
<1>3. CASE k.type = "cron" /\ k.times \subseteq Nat
  <2> DEFINE Later(y) == {u \in k.times : u > y}
  <2>1. \A y : NextAfter(k, a, y) = IF Later(y) = {} THEN Never ELSE Min(Later(y))
    BY <1>3 DEF NextAfter
  <2>2. Later(t - 1) # {} /\ t = Min(Later(t - 1)) BY <2>1 DEF Never
  <2>3. Later(t - 1) \in SUBSET Nat /\ Later(x) \in SUBSET Nat BY <1>3
  <2>4. t \in Later(t - 1) BY <2>2, <2>3, LeastExists
  <2>5. t \in Later(x) BY <2>4
  <2>6. Min(Later(x)) <= t /\ Min(Later(x)) \in Nat BY <2>3, <2>5, LeastExists
  <2> QED BY <2>1, <2>5, <2>6 DEF Never
<1> QED BY <1>1, <1>2, <1>3, SchedulesAssumption DEF SchedulesAssumption

\* What an undisturbed step does to a schedule, to the due list and to the call of the API.
SchSteps(s) ==
    \/ sch'[s] = sch[s] \/ (~Live(s)' /\ sch'[s].state # "none")
    \/ \E k \in Kind, p \in BOOLEAN : Create(s, k, p)
    \/ \E d \in tick.due : d.s = s /\ Plan(d)
Mild(s) ==
    /\ api'.pc # "idle" => api'.s # s
    /\ now' \in {now, now + 1}
    /\ tick'.due \subseteq tick.due \/ TickBegin
    /\ SchSteps(s)

LEMMA ScheduleSteps ==
  ASSUME TypeInv, Next, NEW s \in Sched, ReadAsStored(s), ~Disturbs(s) PROVE Mild(s)
<1>1. sch \in [Sched -> ScheduleRow] BY DEF TypeInv, ScheduleTypes
<1>2. api.pc # "idle" => api.s # s BY DEF ReadAsStored
<1>3. CASE UNCHANGED <<sch, tick, api, now>> BY <1>2, <1>3 DEF Mild, SchSteps
<1>4. CASE ClockAdvances \/ ResumeWrite \/ UpdateRest \/ \E k \in Kind : UpdateKind(k)
  <2>1. tick' = tick /\ now' \in {now, now + 1} /\ (api' = api \/ api' = NoApi)
    <3>1. CASE ClockAdvances BY <3>1 DEF ClockAdvances, tasks
    <3>2. CASE ResumeWrite \/ UpdateRest BY <3>2 DEF ResumeWrite, UpdateRest
    <3>3. ASSUME NEW k \in Kind, UpdateKind(k)
          PROVE  tick' = tick /\ now' = now /\ api' = NoApi
      BY <3>3 DEF UpdateKind
    <3> QED BY <1>4, <3>1, <3>2, <3>3
  <2>2. UNCHANGED api \/ api'.pc = "idle" BY <2>1 DEF NoApi
  <2>3. ASSUME ClockAdvances PROVE sch'[s] = sch[s] BY <2>3 DEF ClockAdvances, store
  <2>4. ASSUME ResumeWrite PROVE sch'[s] = sch[s]
    <3>1. api.s # s BY <1>2, <2>4 DEF ResumeWrite
    <3>2. PICK n : sch' = IF sch[api.s].state # "there" THEN sch ELSE
                          [sch EXCEPT ![api.s].paused = FALSE, ![api.s].anchor = now, ![api.s].next = n]
      BY <2>4 DEF ResumeWrite
    <3> QED BY <1>1, <3>1, <3>2
  <2>5. ASSUME UpdateRest PROVE sch'[s] = sch[s] BY <1>1, <1>2, <2>5 DEF UpdateRest
  <2>6. ASSUME NEW k \in Kind, UpdateKind(k) PROVE sch'[s] = sch[s]
    BY <1>1, <1>2, <2>6 DEF UpdateKind
  <2>7. sch'[s] = sch[s] BY <1>4, <2>3, <2>4, <2>5, <2>6
  <2> QED BY <1>2, <2>1, <2>2, <2>7 DEF Mild, SchSteps
<1>5. ASSUME NEW e \in Exec, ExecStep(e) PROVE UNCHANGED <<sch, tick, api, now>>
  BY <1>5 DEF ExecStep, ExecInsert, ExecCheck, ExecNew, ExecFail, ExecRecord, ExecDeliver, store
<1>6. ASSUME NEW f \in follow, FollowTurn(f) PROVE UNCHANGED <<sch, tick, api, now>>
  BY <1>6 DEF FollowTurn
<1>7. ASSUME NEW u \in Sched, NEW k \in Kind, NEW p \in BOOLEAN, Create(u, k, p) PROVE Mild(s)
  <2>1. UNCHANGED <<tick, api, now>> /\ (u # s => sch'[s] = sch[s])
    BY <1>1, <1>7 DEF Create, tasks
  <2> QED BY <1>2, <1>7, <2>1 DEF Mild, SchSteps
<1>8. ASSUME NEW u \in Sched, Pause(u) \/ Delete(u) PROVE Mild(s)
  <2>1. /\ UNCHANGED <<tick, api, now>> /\ (u # s => sch'[s] = sch[s])
        /\ u = s => ~Live(s)' /\ sch'[s].state # "none"
    BY <1>1, <1>8 DEF Pause, Delete, tasks, Live, ScheduleRow
  <2> QED BY <1>2, <2>1 DEF Mild, SchSteps
<1>9. ASSUME NEW u \in Sched, NEW m, ApiRead(m, u), m \in {"resume", "update"} PROVE Mild(s)
  <2>1. u # s BY <1>9 DEF Disturbs
  <2>2. UNCHANGED <<sch, tick, now>> /\ api'.s = u BY <1>9 DEF ApiRead, store
  <2> QED BY <2>1, <2>2 DEF Mild, SchSteps
<1>10. ASSUME NEW u \in Sched, NEW e \in Exec, RunNow(e, u) PROVE UNCHANGED <<sch, tick, api, now>>
  BY <1>10 DEF RunNow, store
<1>11. ASSUME NEW x \in Session,
              UserRecord(x) \/ UserDeliver(x) \/ AgentReads(x) \/ TurnEnds(x) \/ Pump(x)
       PROVE  UNCHANGED <<sch, tick, api, now>>
  BY <1>11 DEF UserRecord, UserDeliver, AgentReads, TurnEnds, Pump, store, tasks
<1>12. CASE TickBegin BY <1>2, <1>12 DEF TickBegin, store, Mild, SchSteps
<1>13. CASE TickEnd BY <1>2, <1>13 DEF TickEnd, NoTick, store, Mild, SchSteps
<1>14. ASSUME NEW e \in Exec, NEW x \in tick.run, TickExecute(e, x) PROVE Mild(s)
  <2>1. UNCHANGED <<sch, api, now>> /\ tick' = [tick EXCEPT !.run = @ \ {x}]
    BY <1>14 DEF TickExecute, store
  <2>2. tick'.due = tick.due BY <2>1 DEF TypeInv, TickTypes
  <2> QED BY <1>2, <2>1, <2>2 DEF Mild, SchSteps
<1>15. ASSUME NEW d \in tick.due, Plan(d) PROVE Mild(s)
  <2>1. tick'.due = tick.due \ {d} /\ UNCHANGED <<api, now>> BY <1>15, PlanSteps
  <2>2. d.s # s => sch'[s] = sch[s] BY <1>1, <1>15 DEF Plan
  <2> QED BY <1>2, <1>15, <2>1, <2>2 DEF Mild, SchSteps
<1>16. ~Restart BY DEF Disturbs
<1> QED BY <1>3, <1>4, <1>5, <1>6, <1>7, <1>8, <1>9, <1>10, <1>11, <1>12, <1>13, <1>14, <1>15, <1>16
        DEF Next, TickStep

LEMMA ReadKept ==
  ASSUME TypeInv, Next, NEW s \in Sched, ReadAsStored(s), ~Disturbs(s) PROVE ReadAsStored(s)'
<1>1. sch \in [Sched -> ScheduleRow] BY DEF TypeInv, ScheduleTypes
<1>2. api'.pc # "idle" => api'.s # s BY ScheduleSteps DEF Mild
<1>3. CASE TickBegin
  <2>1. tick'.due = {[s |-> u, row |-> sch[u]] : u \in Due(now)} /\ sch' = sch
    BY <1>3 DEF TickBegin, store
  <2>2. \A d \in tick'.due : d.row = sch[d.s] /\ sch[d.s].state = "there" BY <2>1 DEF Due
  <2>3. \A d, c \in tick'.due : d.s = c.s => d = c BY <2>1
  <2> QED BY <1>2, <2>1, <2>2, <2>3 DEF ReadAsStored
<1>4. CASE tick'.due \subseteq tick.due
  <2>1. CASE sch'[s] = sch[s]
    <3>1. Live(s)' => Live(s) BY <2>1 DEF Live
    <3> QED BY <1>2, <1>4, <2>1, <3>1 DEF ReadAsStored
  <2>2. CASE ~Live(s)' /\ sch'[s].state # "none" BY <1>2, <1>4, <2>2 DEF ReadAsStored
  <2>3. ASSUME NEW k \in Kind, NEW p \in BOOLEAN, Create(s, k, p) PROVE ReadAsStored(s)'
    <3>1. sch[s].state = "none" BY <2>3 DEF Create
    <3>2. \A d \in tick'.due : d.s # s BY <1>4, <3>1 DEF ReadAsStored
    <3> QED BY <1>2, <3>2 DEF ReadAsStored
  <2>4. ASSUME NEW d \in tick.due, d.s = s, Plan(d) PROVE ReadAsStored(s)'
    <3>1. tick'.due = tick.due \ {d} BY <2>4, PlanSteps
    <3>2. \A c \in tick'.due : c.s # s BY <2>4, <3>1 DEF ReadAsStored
    <3> QED BY <1>2, <3>2 DEF ReadAsStored
  <2> QED BY <2>1, <2>2, <2>3, <2>4, ScheduleSteps DEF Mild, SchSteps
<1> QED BY <1>3, <1>4, ScheduleSteps DEF Mild

\* What counts for a trigger goes on counting while time passes.
LEMMA CountsOn ==
  ASSUME TypeInv, NEW s \in Sched, NEW t \in Nat, TakenKept, now' \in {now, now + 1},
         \A u \in Nat : Fires(s, u) => Fires(s, u)',
         t <= now, Taken(s, t) \/ Skipped(s, t)
  PROVE  t <= now' /\ (Taken(s, t) \/ Skipped(s, t))'
<1>1. now \in Nat BY SchedulesAssumption DEF TypeInv, ScheduleTypes, SchedulesAssumption
<1>2. now' \in Nat /\ t <= now' BY <1>1
<1>3. CASE Taken(s, t) BY <1>2, <1>3 DEF TakenKept
<1>4. CASE Skipped(s, t)
  <2>1. PICK A : A = Since(s, t) OBVIOUS
  <2>2. PICK B : B = Since(s, t)' OBVIOUS
  <2>3. A \in SUBSET B
    <3> SUFFICES ASSUME NEW u \in A PROVE u \in B OBVIOUS
    <3>1. u \in (t + 1)..now /\ Fires(s, u) BY <2>1 DEF Since
    <3>2. u \in Nat /\ u \in (t + 1)..now' BY <1>1, <1>2, <3>1
    <3>3. Fires(s, u)' BY <3>1, <3>2
    <3> QED BY <2>2, <3>2, <3>3 DEF Since
  <2>4. B \in SUBSET ((t + 1)..now') BY <2>2 DEF Since
  <2>5. IsFiniteSet((t + 1)..now') BY <1>2, FS_Interval
  <2>6. IsFiniteSet(B) BY <2>4, <2>5, FS_Subset
  <2>7. IsFiniteSet(A) /\ Cardinality(A) <= Cardinality(B) BY <2>3, <2>6, FS_Subset
  <2>8. Cardinality(A) \in Nat /\ Cardinality(B) \in Nat /\ MaxMissedRows \in Nat
    BY <2>6, <2>7, FS_CardinalityType, SchedulesAssumption DEF SchedulesAssumption
  <2>9. Cardinality(A) >= MaxMissedRows BY <1>4, <2>1 DEF Skipped
  <2>10. Cardinality(B) >= MaxMissedRows BY <2>7, <2>8, <2>9
  <2> QED BY <1>2, <2>2, <2>10 DEF Skipped
<1> QED BY <1>3, <1>4

\* plan: what was due has its row, is about to be executed, or was too many; the rest is planned.
LEMMA PlanCounts ==
  ASSUME TypeInv, NEW s \in Sched, LossInv(s), NEW d \in tick.due, d.s = s, Plan(d), TakenKept
  PROVE  AllCounted(s)'
<1> DEFINE due == Occurrences(d.row.kind, d.row.anchor, d.row.next, tick.now)
           latest == Max(due)
           runIt == tick.now - latest <= Grace \/ d.s \in CatchUp
           missed == MissedTimes(due, runIt)
           then == NextAfter(d.row.kind, d.row.anchor, tick.now)
<1>1. sch \in [Sched -> ScheduleRow] /\ now \in Nat
  BY SchedulesAssumption DEF TypeInv, ScheduleTypes, SchedulesAssumption
<1>2. sch' = IF sch[s].state # "there" THEN sch ELSE
             [sch EXCEPT ![s].next = then, ![s].last = IF runIt THEN latest ELSE @]
  BY Zenon DEF Plan
<1>3. /\ tick.now \in Nat /\ d.row.next \in Nat /\ d.row.next <= tick.now /\ tick.now <= now
      /\ due \in SUBSET (d.row.next..tick.now) /\ IsFiniteSet(due) /\ runIt \in BOOLEAN
      /\ now' = now
      /\ tick'.run = IF runIt THEN tick.run \cup {[s |-> d.s, at |-> latest]} ELSE tick.run
      /\ \A j \in 1..Len(missed) : \E i \in 1..Len(runs') :
            runs'[i].s = d.s /\ runs'[i].at = missed[j]
  BY PlanSteps
<1>4. \A t \in Int : t \in due <=> \/ t = d.row.next
                                   \/ t \in (d.row.next + 1)..tick.now
                                      /\ NextAfter(d.row.kind, d.row.anchor, t - 1) = t
  BY <1>3 DEF Occurrences
<1> HIDE DEF due, latest, runIt, missed, then
<1> SUFFICES ASSUME Live(s)'
             PROVE  /\ sch'[s].anchor = sch'[s].born
                    /\ \A t \in Nat : t > sch'[s].born /\ Fires(s, t)' =>
                          Planned(s, t)' \/ (t <= now' /\ (Taken(s, t) \/ Skipped(s, t))')
  BY DEF AllCounted
<1>5. PICK r : r = [sch[s] EXCEPT !.next = then, !.last = IF runIt THEN latest ELSE sch[s].last]
  OBVIOUS
<1>6. sch[s].state = "there" /\ sch'[s] = r BY <1>1, <1>2, <1>5 DEF Live
<1>7. /\ r.next = then /\ r.kind = sch[s].kind /\ r.born = sch[s].born /\ r.anchor = sch[s].anchor
      /\ r.paused = sch[s].paused
  BY <1>1, <1>5 DEF ScheduleRow
<1>8. Live(s) BY <1>6, <1>7 DEF Live
<1> DEFINE k == sch[s].kind
           b == sch[s].born
<1>9. /\ d.row.kind = k /\ d.row.anchor = b /\ d.row.next = sch[s].next /\ sch[s].anchor = b
  BY <1>8 DEF LossInv, ReadAsStored, AllCounted
<1>10. k \in Kind /\ b \in Nat
  BY <1>1, <1>6, SchedulesAssumption
     DEF TypeInv, ScheduleTypes, Created, ScheduleRow, SchedulesAssumption
<1>11. \A u : Fires(s, u)' <=> Fires(s, u) BY <1>6, <1>7 DEF Fires
<1>12. ASSUME NEW t \in Nat, t > b, Fires(s, t)
       PROVE  Planned(s, t)' \/ (t <= now' /\ (Taken(s, t) \/ Skipped(s, t))')
  <2>1. CASE t > tick.now
    <3>1. then # Never /\ then <= t
      BY <1>3, <1>9, <1>10, <1>12, <2>1, NextIsFirst DEF then, Fires
    <3> QED BY <1>6, <1>7, <3>1 DEF Planned
  <2>2. CASE Planned(s, t) /\ t <= tick.now
    <3>1. t \in due BY <1>3, <1>4, <1>9, <1>12, <2>2 DEF Planned, Fires
    <3>2. t <= now' BY <1>1, <1>3, <2>2
    <3>3. due \in SUBSET Nat BY <1>3
    <3>4. CASE runIt /\ t = latest BY <1>3, <3>2, <3>4 DEF Taken
    <3>5. ASSUME NEW j \in 1..Len(missed), missed[j] = t PROVE Taken(s, t)'
      BY <1>3, <3>5 DEF Taken
    <3>6. CASE Cardinality({u \in due : u > t}) >= MaxMissedRows
      <4>1. PICK A : A = {u \in due : u > t} OBVIOUS
      <4>2. PICK B : B = Since(s, t)' OBVIOUS
      <4>3. A \in SUBSET B
        <5> SUFFICES ASSUME NEW u \in A PROVE u \in B OBVIOUS
        <5>1. u \in due /\ u > t /\ u \in Nat BY <3>3, <4>1
        <5>2. t >= d.row.next BY <1>9, <2>2 DEF Planned
        <5>3. u \in (d.row.next + 1)..tick.now /\ Fires(s, u)
          BY <1>3, <1>4, <1>9, <5>1, <5>2 DEF Fires
        <5>4. u \in (t + 1)..now' BY <1>1, <1>3, <5>1, <5>3
        <5> QED BY <1>11, <4>2, <5>3, <5>4 DEF Since
      <4>4. B \in SUBSET ((t + 1)..now') BY <4>2 DEF Since
      <4>5. IsFiniteSet((t + 1)..now') BY <1>1, <1>3, FS_Interval
      <4>6. IsFiniteSet(B) BY <4>4, <4>5, FS_Subset
      <4>7. IsFiniteSet(A) /\ Cardinality(A) <= Cardinality(B) BY <4>3, <4>6, FS_Subset
      <4>8. Cardinality(A) \in Nat /\ Cardinality(B) \in Nat /\ MaxMissedRows \in Nat
        BY <4>6, <4>7, FS_CardinalityType, SchedulesAssumption DEF SchedulesAssumption
      <4>9. Cardinality(B) >= MaxMissedRows BY <3>6, <4>1, <4>7, <4>8
      <4> QED BY <3>2, <4>2, <4>9 DEF Skipped
    <3> QED BY <1>3, <3>1, <3>2, <3>3, <3>4, <3>5, <3>6, MissedCovers DEF latest, missed
  <2>3. CASE t <= now /\ (Taken(s, t) \/ Skipped(s, t))
    BY <1>3, <1>11, <2>3, CountsOn
  <2>4. Planned(s, t) \/ (t <= now /\ (Taken(s, t) \/ Skipped(s, t)))
    BY <1>8, <1>12 DEF LossInv, AllCounted
  <2> QED BY <1>3, <2>1, <2>2, <2>3, <2>4
<1> QED BY <1>6, <1>7, <1>9, <1>11, <1>12

\* create: the first trigger after the creation is planned.
LEMMA CreateCounts ==
  ASSUME TypeInv, NEW s \in Sched, NEW k \in Kind, NEW p \in BOOLEAN, Create(s, k, p)
  PROVE  AllCounted(s)'
<1>1. sch \in [Sched -> ScheduleRow] /\ now \in Nat
  BY SchedulesAssumption DEF TypeInv, ScheduleTypes, SchedulesAssumption
<1>2. PICK r : r = [NoSchedule EXCEPT !.state = "there", !.born = now, !.kind = k, !.anchor = now,
                                      !.paused = p, !.next = IF p THEN Never ELSE FirstTrigger(k, now)]
  OBVIOUS
<1>3. sch' = [sch EXCEPT ![s] = r] /\ now' = now /\ FirstTrigger(k, now) # Never
  BY <1>2 DEF Create
<1>4. /\ r.born = now /\ r.kind = k /\ r.anchor = now /\ r.paused = p
      /\ r.next = IF p THEN Never ELSE FirstTrigger(k, now)
  BY <1>2 DEF NoSchedule
<1>5. sch'[s] = r BY <1>1, <1>3
<1>6. ASSUME NEW t \in Nat, t > now, NextAfter(k, now, t - 1) = t, ~p PROVE Planned(s, t)'
  <2>1. CASE k.type = "once"
    <3>1. k.at \in Nat BY <2>1, SchedulesAssumption DEF SchedulesAssumption
    <3>2. t = k.at BY <1>6, <2>1 DEF NextAfter, Never
    <3>3. Max({k.at, now}) \in {k.at, now} /\ Max({k.at, now}) >= k.at
      <4>1. \A y \in {k.at, now} : y <= k.at + now BY <1>1, <3>1
      <4>2. {k.at, now} \in SUBSET Nat /\ {k.at, now} # {} /\ k.at + now \in Nat BY <1>1, <3>1
      <4> QED BY <4>1, <4>2, GreatestExists
    <3>4. FirstTrigger(k, now) = Max({k.at, now}) BY <1>3, <2>1 DEF FirstTrigger
    <3>5. FirstTrigger(k, now) = t BY <1>1, <1>6, <3>1, <3>2, <3>3, <3>4
    <3> QED BY <1>3, <1>4, <1>5, <1>6, <3>5 DEF Planned
  <2>2. CASE k.type # "once"
    <3>1. FirstTrigger(k, now) = NextAfter(k, now, now) BY <2>2 DEF FirstTrigger
    <3>2. NextAfter(k, now, now) # Never /\ NextAfter(k, now, now) <= t BY <1>1, <1>6, NextIsFirst
    <3> QED BY <1>4, <1>5, <1>6, <3>1, <3>2 DEF Planned
  <2> QED BY <2>1, <2>2
<1> QED BY <1>4, <1>5, <1>6 DEF AllCounted, Live, Fires

LEMMA LossKept ==
  ASSUME TypeInv, Next, NEW s \in Sched, LossInv(s), ~Disturbs(s) PROVE LossInv(s)'
<1>1. Mild(s) BY ScheduleSteps DEF LossInv
<1>2. ReadAsStored(s)' BY ReadKept DEF LossInv
<1>3. TakenKept BY StepKeepsTaken DEF Disturbs
<1>4. CASE sch'[s] = sch[s]
  <2>1. \A u : Fires(s, u)' <=> Fires(s, u) BY <1>4 DEF Fires
  <2>2. /\ Live(s)' <=> Live(s)
        /\ \A t : Planned(s, t)' <=> Planned(s, t)
    BY <1>4 DEF Live, Planned
  <2>3. now' \in {now, now + 1} BY <1>1 DEF Mild
  <2>4. SUFFICES ASSUME Live(s), NEW t \in Nat, t > sch[s].born, Fires(s, t)
                 PROVE  Planned(s, t)' \/ (t <= now' /\ (Taken(s, t) \/ Skipped(s, t))')
    BY <1>2, <1>4, <2>1, <2>2 DEF LossInv, AllCounted
  <2>5. Planned(s, t) \/ (t <= now /\ (Taken(s, t) \/ Skipped(s, t)))
    BY <2>4 DEF LossInv, AllCounted
  <2> QED BY <1>3, <2>1, <2>2, <2>3, <2>5, CountsOn
<1>5. CASE ~Live(s)' /\ sch'[s].state # "none" BY <1>2, <1>5 DEF LossInv, AllCounted
<1>6. ASSUME NEW k \in Kind, NEW p \in BOOLEAN, Create(s, k, p) PROVE LossInv(s)'
  BY <1>2, <1>6, CreateCounts DEF LossInv
<1>7. ASSUME NEW d \in tick.due, d.s = s, Plan(d) PROVE LossInv(s)'
  BY <1>2, <1>3, <1>7, PlanCounts DEF LossInv
<1> QED BY <1>1, <1>4, <1>5, <1>6, <1>7 DEF Mild, SchSteps

LEMMA LossStep ==
  ASSUME TypeInv, [Next]_vars, NEW s \in Sched, LossInv(s), [~Disturbs(s)]_vars PROVE LossInv(s)'
<1>1. CASE UNCHANGED vars
  <2>1. UNCHANGED <<sch, runs, now, tick, ex, api>> BY <1>1 DEF vars, store, tasks
  <2> QED BY <2>1 DEF LossInv, ReadAsStored, AllCounted, Live, Fires, Planned, Taken, Skipped, Since
<1> QED BY <1>1, LossKept

LEMMA InitLosesNothing == ASSUME Init, NEW s \in Sched PROVE LossInv(s)
<1>1. sch[s].state = "none" /\ tick.due = {} /\ api.pc = "idle"
  BY DEF Init, NoSchedule, NoTick, NoApi
<1> QED BY <1>1 DEF LossInv, ReadAsStored, AllCounted, Live

LEMMA LossImplies == ASSUME TypeInv, NEW s \in Sched, LossInv(s) PROVE NoneLost(s)
<1>1. sch[s].born \in Nat /\ now \in Nat
  BY SchedulesAssumption DEF TypeInv, ScheduleTypes, ScheduleRow, SchedulesAssumption
<1> QED BY <1>1 DEF LossInv, AllCounted, NoneLost

(* tick, plan and execute: while the server does not stop and a schedule   *)
(* is neither updated nor resumed, each of its triggers gets a row, unless *)
(* MAX_MISSED_ROWS later ones have come since (plan keeps the latest),     *)
(* however its ticks, pauses, deletions and runs by hand interleave, and   *)
(* whatever is done to other schedules.                                    *)
THEOREM SchedulesLoseNone ==
  ASSUME NEW s \in Sched PROVE Spec /\ [][~Disturbs(s)]_vars => []NoneLost(s)
<1>1. Init => TypeInv /\ LossInv(s) BY InitTypes, InitLosesNothing
<1>2. TypeInv /\ [Next]_vars => TypeInv' BY TypeStep
<1>3. TypeInv /\ LossInv(s) /\ [Next]_vars /\ [~Disturbs(s)]_vars => LossInv(s)' BY LossStep
<1>4. TypeInv /\ LossInv(s) => NoneLost(s) BY LossImplies
<1> QED BY <1>1, <1>2, <1>3, <1>4, PTL DEF Spec

\* Nothing disturbs a schedule: the server does not stop, nobody updates or resumes, and no more
\* triggers can be due at once than get rows.
Calm ==
    /\ MaxRestart = 0 /\ "update" \notin Api /\ "resume" \notin Api
    /\ MaxTime <= MaxMissedRows

LEMMA CalmSteps == ASSUME Calm, count.restart = 0, NEW s \in Sched PROVE ~Disturbs(s)
BY DEF Calm, Disturbs, Restart, ApiRead, Call

LEMMA NoneSkipped ==
  ASSUME Calm, TypeInv, NEW s \in Sched, NEW t \in Nat \ {0}, t <= now PROVE ~Skipped(s, t)
<1>1. now \in Nat /\ now <= MaxTime /\ MaxTime \in Nat /\ MaxMissedRows \in Nat
  BY SchedulesAssumption DEF TypeInv, ScheduleTypes, SchedulesAssumption
<1>2. PICK A : A = Since(s, t) OBVIOUS
<1>3. A \in SUBSET ((t + 1)..now) BY <1>2 DEF Since
<1>4. IsFiniteSet((t + 1)..now) /\ Cardinality((t + 1)..now) = IF t + 1 > now THEN 0 ELSE now - (t + 1) + 1
  BY <1>1, FS_Interval
<1>5. IsFiniteSet(A) /\ Cardinality(A) <= Cardinality((t + 1)..now) BY <1>3, <1>4, FS_Subset
<1>6. Cardinality(A) \in Nat BY <1>5, FS_CardinalityType
<1>7. Cardinality(A) < MaxMissedRows BY <1>1, <1>4, <1>5, <1>6 DEF Calm
<1> QED BY <1>1, <1>2, <1>6, <1>7 DEF Skipped

\* count: no restart in a calm run
RestartsNone == count \in [api : Int, user : Int, restart : {0}]

LEMMA RestartsKept == ASSUME Calm, RestartsNone, [Next]_vars PROVE RestartsNone'
<1>1. CASE UNCHANGED count BY <1>1 DEF RestartsNone
<1>2. CASE Bump("api") \/ Bump("user") BY <1>2 DEF Bump, RestartsNone
<1>3. CASE UNCHANGED vars BY <1>1, <1>3 DEF vars
<1>4. CASE ClockAdvances \/ ResumeWrite \/ UpdateRest \/ \E k \in Kind : UpdateKind(k)
  BY <1>1, <1>4 DEF ClockAdvances, ResumeWrite, UpdateRest, UpdateKind
<1>5. CASE TickStep BY <1>1, <1>5 DEF TickStep, TickBegin, TickEnd, Plan, TickExecute
<1>6. ASSUME NEW e \in Exec, ExecStep(e) PROVE UNCHANGED count
  BY <1>6 DEF ExecStep, ExecInsert, ExecCheck, ExecNew, ExecFail, ExecRecord, ExecDeliver
<1>7. ASSUME NEW f \in follow, FollowTurn(f) PROVE UNCHANGED count BY <1>7 DEF FollowTurn
<1>8. ASSUME NEW s \in Sched, NEW k \in Kind, NEW p \in BOOLEAN, Create(s, k, p) PROVE UNCHANGED count
  BY <1>8 DEF Create
<1>9. ASSUME NEW s \in Sched,
             \/ Pause(s) \/ ApiRead("resume", s) \/ ApiRead("update", s) \/ Delete(s)
             \/ \E e \in Exec : RunNow(e, s)
      PROVE  Bump("api")
  BY <1>9 DEF Pause, ApiRead, Delete, RunNow, Call
<1>10. ASSUME NEW x \in Session,
              UserRecord(x) \/ UserDeliver(x) \/ AgentReads(x) \/ TurnEnds(x) \/ Pump(x)
       PROVE  UNCHANGED count \/ Bump("user")
  BY <1>10 DEF UserRecord, UserDeliver, AgentReads, TurnEnds, Pump
<1>11. ~Restart BY DEF Calm, RestartsNone, Restart
<1> QED BY <1>1, <1>2, <1>3, <1>4, <1>5, <1>6, <1>7, <1>8, <1>9, <1>10, <1>11 DEF Next

(* The same for all schedules, where nothing disturbs them: every moment   *)
(* at which an untouched schedule should have fired has its row, is still  *)
(* planned, or is about to be executed.                                    *)
THEOREM SchedulesAccount == ASSUME Calm PROVE Spec => []TriggersAccounted
<1> DEFINE Inv == TypeInv /\ RestartsNone /\ \A s \in Sched : LossInv(s)
<1>1. Init => Inv
  <2>1. Init => RestartsNone BY DEF Init, RestartsNone
  <2> QED BY <2>1, InitTypes, InitLosesNothing
<1>2. Inv /\ [Next]_vars => Inv'
  <2> SUFFICES ASSUME Inv, [Next]_vars PROVE Inv' OBVIOUS
  <2>1. count.restart = 0 BY DEF RestartsNone
  <2>2. \A s \in Sched : LossInv(s)' BY <2>1, CalmSteps, LossStep
  <2> QED BY <2>2, TypeStep, RestartsKept
<1>3. Inv => TriggersAccounted
  <2> SUFFICES ASSUME Inv, NEW s \in Sched, Untouched(s), NEW t \in (sch[s].born + 1)..now,
                      NextAfter(sch[s].kind, sch[s].born, t - 1) = t
               PROVE  Accounted(s, t)
    BY DEF TriggersAccounted
  <2>1. NoneLost(s) /\ Live(s) BY LossImplies DEF Untouched, Live
  <2>2. Planned(s, t) \/ Taken(s, t) \/ Skipped(s, t) BY <2>1 DEF NoneLost, Fires
  <2>3. sch[s].born \in Nat /\ now \in Nat
    BY SchedulesAssumption DEF TypeInv, ScheduleTypes, ScheduleRow, SchedulesAssumption
  <2>4. ~Skipped(s, t) BY <2>3, NoneSkipped
  <2> QED BY <2>2, <2>4 DEF Planned, Taken, Accounted
<1> QED BY <1>1, <1>2, <1>3, PTL DEF Spec
=============================================================================
