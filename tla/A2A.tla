-------------------------------- MODULE A2A ---------------------------------
(***************************************************************************)
(* Agent-to-agent messaging (a2a/mod.rs, a2a/store.rs, the mentions of     *)
(* a2a/mention.rs): durable messages, loop protection, and the flush that  *)
(* delivers what is queued for a session when it is between turns.         *)
(*                                                                         *)
(* The session service is the one of module Sessions, reduced to what a    *)
(* caller sees: events wait in a channel until a pump stores them, and     *)
(* only then does the session's status change.                             *)
(***************************************************************************)
EXTENDS Integers, Sequences, FiniteSets, SequencesExt, Order

CONSTANTS Session,
          Sender,      \* concurrent send requests
          Flusher,     \* concurrent flush calls
          None,
          PerSession,  \* Limits.per_session
          PerPair,     \* Limits.per_pair
          PushCap,     \* capacity of the push broadcast (1024 in the code)
          Faults,      \* subset of {"start", "exit", "end", "mark"}
          Target,      \* bound: the sessions that messages are for
          MaxMsg,      \* bound: messages stored
          MaxAge,      \* bound: messages that leave the window
          MaxUser,     \* bound: messages typed by users
          MaxMention,  \* bound: mentions
          MaxNotice,   \* bound: notices of a refused message
          MaxToggle,   \* bound: changes of the switches
          MaxFault,    \* bound: faults
          MaxRestart   \* bound: restarts

ASSUME LimitsAssumption ==
    /\ PerSession \in Nat /\ PerPair \in Nat /\ PushCap \in Nat \ {0}
    /\ {MaxMsg, MaxAge, MaxUser, MaxMention, MaxNotice, MaxToggle, MaxFault,
        MaxRestart} \subseteq Nat
    /\ Target \subseteq Session
    /\ Faults \subseteq {"start", "exit", "end", "mark"}
    /\ None \notin Session \cup Sender \cup Flusher

VARIABLES
  \* the database
    msgs,      \* Seq([from, to, mention]): a2a_messages, by rowid
    delivered, \* indices of msgs whose delivered_at is set
    off,       \* switches that are off: sessions, and "global"
    log,       \* [Session -> Seq(event)]: the stored transcript
    status,    \* [Session -> {"Idle", "Running", "Finished"}]
  \* the server process
    aged,      \* messages 1..aged are older than Limits.window
    snd,       \* [Sender -> [pc, from, to]]
    sendLock,  \* holder of send_lock
    want,      \* [Session -> Nat]: flush calls that have not begun
    fl,        \* [Flusher -> [pc, t, batch]]
    flushLock, \* [Session -> Flusher or None]
    awaiting,  \* [Session -> last_seq before the delivery, or -1]
    pushes,    \* events the turn watcher has not received
    lagged,    \* the watcher has missed some
    owed,      \* sessions owed a notice about a mention or an ended teammate
    user,      \* sessions with a recorded user message not yet with the agent
  \* the agents
    chan,      \* [Session -> Seq(event)]: recorded, not stored
    agent,     \* [Session -> {"down", "up", "dead"}]; dead = exited, still registered
    inbox,     \* [Session -> Seq(batch)]: given to the agent, not read by it
    active,    \* sessions whose adapter counts a turn as active
    working,   \* sessions whose agent is in a turn
    got,       \* [Session -> Seq(index of msgs)]: all A2A messages the agent was given
    count

queue == <<msgs, delivered, off, aged, snd, sendLock>>
sessions == <<log, status, chan, agent, inbox, active, working, got, user, owed>>
flushes == <<want, fl, flushLock, awaiting>>
watch == <<pushes, lagged>>
vars == <<queue, sessions, flushes, watch, count>>

Idle == [pc |-> "idle", from |-> None, to |-> None]
NoFlush == [pc |-> "idle", t |-> None, seq |-> 0, batch |-> <<>>]
Busy == {"Running"}

Init ==
    /\ msgs = <<>> /\ delivered = {} /\ off = {} /\ aged = 0
    /\ log = [s \in Session |-> <<>>]
    /\ status = [s \in Session |-> "Idle"]
    /\ snd = [k \in Sender |-> Idle] /\ sendLock = None
    /\ want = [s \in Session |-> 0]
    /\ fl = [k \in Flusher |-> NoFlush]
    /\ flushLock = [s \in Session |-> None]
    /\ awaiting = [s \in Session |-> -1]
    /\ pushes = <<>> /\ lagged = FALSE
    /\ user = {} /\ owed = {}
    /\ chan = [s \in Session |-> <<>>]
    /\ agent = [s \in Session |-> "down"]
    /\ inbox = [s \in Session |-> <<>>]
    /\ active = {} /\ working = {}
    /\ got = [s \in Session |-> <<>>]
    /\ count = [user |-> 0, mention |-> 0, notice |-> 0, toggle |-> 0, fault |-> 0, mark |-> 0,
                 restart |-> 0]

Bump(f) == count' = [count EXCEPT ![f] = @ + 1]
-----------------------------------------------------------------------------
(* Events: recorded, stored, pushed.                                       *)

MsgEvent(b) == [kind |-> "UserMessage", batch |-> b]
EndEvent == [kind |-> "TurnEnded", batch |-> <<>>]
NoticeEvent == [kind |-> "Notice", batch |-> <<>>]

After(st, e) ==
    CASE e.kind = "UserMessage" -> "Running"
      [] e.kind = "TurnEnded" -> "Finished"
      [] OTHER -> st

\* Sessions::record: what append and push do to the watcher's queue
Pushed(q, s, n, e) == Append(q, [s |-> s, seq |-> n, end |-> e.kind = "TurnEnded"])
Overflows(q) == Len(q) > PushCap
Kept(q) == IF Overflows(q) THEN SubSeq(q, Len(q) - PushCap + 1, Len(q)) ELSE q

Push(q) ==
    /\ pushes' = Kept(q)
    /\ lagged' = (lagged \/ Overflows(q))

Pump(s) ==
    LET e == Head(chan[s])
    IN /\ chan[s] # <<>>
       /\ chan' = [chan EXCEPT ![s] = Tail(@)]
       /\ log' = [log EXCEPT ![s] = Append(@, e)]
       /\ status' = [status EXCEPT ![s] = After(@, e)]
       /\ Push(Pushed(pushes, s, Len(log[s]) + 1, e))
       /\ UNCHANGED <<queue, agent, inbox, active, working, got, user, owed, flushes, count>>
-----------------------------------------------------------------------------
(* A2a::send                                                               *)

Recent == (aged + 1)..Len(msgs)
SentSince(f) == Cardinality({i \in Recent : msgs[i].from = f})
PairSince(a, b) ==
    Cardinality({i \in Recent : {msgs[i].from, msgs[i].to} = {a, b}})

\* check_limits
OverLimit(f, t) == SentSince(f) + 1 > PerSession \/ PairSince(f, t) >= PerPair

\* the switches, read before send_lock is taken
SendBegin(k, f, t) ==
    /\ snd[k].pc = "idle"
    /\ f # t
    /\ {"global", f, t} \cap off = {}
    /\ Len(msgs) < MaxMsg
    /\ snd' = [snd EXCEPT ![k] = [pc |-> "lock", from |-> f, to |-> t]]
    /\ UNCHANGED <<msgs, delivered, off, aged, sendLock, sessions, flushes, watch, count>>

\* Fault: the limits are checked before the lock is taken.
SendCheckFault(k) ==
    /\ snd[k].pc = "lock"
    /\ ~OverLimit(snd[k].from, snd[k].to)
    /\ snd' = [snd EXCEPT ![k].pc = "insert"]
    /\ UNCHANGED <<msgs, delivered, off, aged, sendLock, sessions, flushes, watch, count>>

\* send_lock.lock, check_limits
SendCheck(k) ==
    /\ snd[k].pc = "lock"
    /\ sendLock = None
    /\ ~OverLimit(snd[k].from, snd[k].to)
    /\ sendLock' = k
    /\ snd' = [snd EXCEPT ![k].pc = "insert"]
    /\ UNCHANGED <<msgs, delivered, off, aged, sessions, flushes, watch, count>>

\* insert_message; the flush of deliver() is under way from here
SendInsert(k) ==
    /\ snd[k].pc = "insert"
    /\ Len(msgs) < MaxMsg
    /\ msgs' = Append(msgs, [from |-> snd[k].from, to |-> snd[k].to, mention |-> FALSE])
    /\ sendLock' = None
    /\ want' = [want EXCEPT ![snd[k].to] = @ + 1]
    /\ snd' = [snd EXCEPT ![k] = Idle]
    /\ UNCHANGED <<delivered, off, aged, sessions, fl, flushLock, awaiting, watch, count>>

\* deliver_mentions: the limits are not asked; the mentioning session gets a notice
Mention(f, t) ==
    /\ f # t
    /\ {"global", f, t} \cap off = {}
    /\ Len(msgs) < MaxMsg
    /\ count.mention < MaxMention
    /\ Bump("mention")
    /\ msgs' = Append(msgs, [from |-> f, to |-> t, mention |-> TRUE])
    /\ want' = [want EXCEPT ![t] = @ + 1]
    /\ owed' = owed \cup {f}
    /\ UNCHANGED <<delivered, off, aged, snd, sendLock, log, status, chan, agent, inbox,
                   active, working, got, user, fl, flushLock, awaiting, watch>>

\* Sessions::record_event: notices bypass the channel
Noticed(s) ==
    /\ s \in owed
    /\ owed' = owed \ {s}
    /\ log' = [log EXCEPT ![s] = Append(@, NoticeEvent)]
    /\ Push(Pushed(pushes, s, Len(log[s]) + 1, NoticeEvent))
    /\ UNCHANGED <<queue, status, chan, agent, inbox, active, working, got, user, flushes,
                   count>>

\* set_enabled, set_session_enabled
Toggle(x) ==
    /\ count.toggle < MaxToggle
    /\ Bump("toggle")
    /\ off' = IF x \in off THEN off \ {x} ELSE off \cup {x}
    /\ UNCHANGED <<msgs, delivered, aged, snd, sendLock, sessions, flushes, watch>>

\* the oldest message leaves the sliding window
Ages ==
    /\ aged < Len(msgs) /\ aged < MaxAge
    /\ aged' = aged + 1
    /\ UNCHANGED <<msgs, delivered, off, snd, sendLock, sessions, flushes, watch, count>>
\* check_limits refuses; notify_rejection tells both sessions, or did so a moment ago
SendRefused(k) ==
    LET f == snd[k].from
        t == snd[k].to
        q == Pushed(pushes, f, Len(log[f]) + 1, NoticeEvent)
    IN /\ snd[k].pc = "lock"
       /\ sendLock = None
       /\ OverLimit(f, t)
       /\ snd' = [snd EXCEPT ![k] = Idle]
       /\ \/ /\ count.notice < MaxNotice
             /\ Bump("notice")
             /\ log' = [log EXCEPT ![f] = Append(@, NoticeEvent),
                                   ![t] = Append(@, NoticeEvent)]
             /\ Push(Pushed(q, t, Len(log[t]) + 1, NoticeEvent))
          \/ UNCHANGED <<log, watch, count>>
       /\ UNCHANGED <<msgs, delivered, off, aged, sendLock, status, chan, agent, inbox,
                      active, working, got, user, owed, flushes>>
-----------------------------------------------------------------------------
(* A2a::flush                                                              *)

\* Fault: flushes of one target run side by side.
FlushLockFault(k, t) ==
    /\ fl[k].pc = "idle"
    /\ want[t] > 0
    /\ want' = [want EXCEPT ![t] = @ - 1]
    /\ flushLock' = [flushLock EXCEPT ![t] = k]
    /\ fl' = [fl EXCEPT ![k] = [NoFlush EXCEPT !.pc = "settle", !.t = t]]
    /\ UNCHANGED <<queue, sessions, awaiting, watch, count>>

\* one of the calls that want to flush t gets the lock
FlushLock(k, t) ==
    /\ fl[k].pc = "idle"
    /\ want[t] > 0
    /\ flushLock[t] = None
    /\ want' = [want EXCEPT ![t] = @ - 1]
    /\ flushLock' = [flushLock EXCEPT ![t] = k]
    /\ fl' = [fl EXCEPT ![k] = [NoFlush EXCEPT !.pc = "settle", !.t = t]]
    /\ UNCHANGED <<queue, sessions, awaiting, watch, count>>

Return(k) ==
    /\ fl' = [fl EXCEPT ![k] = NoFlush]
    /\ flushLock' = [flushLock EXCEPT ![fl[k].t] = None]

\* settle_awaiting: a turn has ended since the last delivery
Ended(t) == \E i \in (awaiting[t] + 1)..Len(log[t]) : log[t][i].kind = "TurnEnded"

FlushSettle(k) ==
    LET t == fl[k].t
    IN /\ fl[k].pc = "settle"
       /\ IF awaiting[t] = -1 \/ Ended(t)
          THEN /\ awaiting' = [awaiting EXCEPT ![t] = -1]
               /\ fl' = [fl EXCEPT ![k].pc = "read"]
               /\ UNCHANGED flushLock
          ELSE Return(k) /\ UNCHANGED awaiting
       /\ UNCHANGED <<queue, sessions, want, watch, count>>

Queued(t) == {i \in 1..Len(msgs) : msgs[i].to = t /\ i \notin delivered}

\* pending_for: oldest first
PendingFor(t) == Ascending(Queued(t))

\* the session's record: its status, and how far its transcript goes
FlushRead(k) ==
    LET t == fl[k].t
    IN /\ fl[k].pc = "read"
       /\ IF status[t] \in Busy THEN Return(k)
          ELSE /\ fl' = [fl EXCEPT ![k].pc = "take", ![k].seq = Len(log[t])]
               /\ UNCHANGED flushLock
       /\ UNCHANGED <<queue, sessions, want, awaiting, watch, count>>

\* Fault: awaiting is not set for the turn that is about to begin.
FlushTakeFault(k) ==
    LET t == fl[k].t
    IN /\ fl[k].pc = "take"
       /\ IF PendingFor(t) = <<>> THEN Return(k)
          ELSE /\ fl' = [fl EXCEPT ![k].pc = "start", ![k].batch = PendingFor(t)]
               /\ UNCHANGED flushLock
       /\ UNCHANGED <<queue, sessions, want, awaiting, watch, count>>

\* the batch, and awaiting: set before sending, for the turn could end at once
FlushTake(k) ==
    LET t == fl[k].t
    IN /\ fl[k].pc = "take"
       /\ IF PendingFor(t) = <<>>
          THEN Return(k) /\ UNCHANGED awaiting
          ELSE /\ fl' = [fl EXCEPT ![k].pc = "start", ![k].batch = PendingFor(t)]
               /\ awaiting' = [awaiting EXCEPT ![t] = fl[k].seq]
               /\ UNCHANGED flushLock
       /\ UNCHANGED <<queue, sessions, want, watch, count>>

Failed(k) ==
    /\ awaiting' = [awaiting EXCEPT ![fl[k].t] = -1]
    /\ Return(k)

\* Sessions::send: the agent is there or is started, and the message is recorded
FlushRecord(k) ==
    LET t == fl[k].t
    IN /\ fl[k].pc = "start"
       /\ agent' = [agent EXCEPT ![t] = IF @ = "down" THEN "up" ELSE @]
       /\ chan' = [chan EXCEPT ![t] = Append(@, MsgEvent(fl[k].batch))]
       /\ fl' = [fl EXCEPT ![k].pc = "deliver"]
       /\ UNCHANGED <<queue, log, status, inbox, active, working, got, user, owed, want,
                      flushLock, awaiting, watch, count>>

FlushStartErr(k) ==
    /\ "start" \in Faults /\ count.fault < MaxFault
    /\ fl[k].pc = "start"
    /\ agent[fl[k].t] = "down"
    /\ Bump("fault")
    /\ Failed(k)
    /\ UNCHANGED <<queue, sessions, want, watch>>

\* Sessions::send: the run takes it
FlushDeliver(k) ==
    LET t == fl[k].t
    IN /\ fl[k].pc = "deliver"
       /\ agent[t] = "up"
       /\ inbox' = [inbox EXCEPT ![t] = Append(@, fl[k].batch)]
       /\ active' = active \cup {t}
       /\ got' = [got EXCEPT ![t] = @ \o fl[k].batch]
       /\ fl' = [fl EXCEPT ![k].pc = "mark"]
       /\ UNCHANGED <<queue, log, status, chan, agent, working, user, owed, want, flushLock,
                      awaiting, watch, count>>

\* or its process is gone
FlushDeliverErr(k) ==
    /\ fl[k].pc = "deliver"
    /\ agent[fl[k].t] # "up"
    /\ Failed(k)
    /\ UNCHANGED <<queue, sessions, want, watch, count>>

\* mark_delivered
FlushMark(k) ==
    /\ fl[k].pc = "mark"
    /\ delivered' = delivered \cup Range(fl[k].batch)
    /\ Return(k)
    /\ UNCHANGED <<msgs, off, aged, snd, sendLock, sessions, want, awaiting, watch, count>>

\* mark_delivered fails: the flush returns the error, awaiting stays
FlushMarkErr(k) ==
    /\ "mark" \in Faults /\ count.mark < MaxFault
    /\ fl[k].pc = "mark"
    /\ Bump("mark")
    /\ Return(k)
    /\ UNCHANGED <<queue, sessions, want, awaiting, watch>>
-----------------------------------------------------------------------------
(* watch_turns                                                             *)

HasPending(t) == Queued(t) # {}

\* flush_all: a flush of every session with a queue
FlushAll == want' = [t \in Session |-> want[t] + (IF HasPending(t) THEN 1 ELSE 0)]

\* Fault: a lagging watcher carries on with what is left.
WatchLaggedFault ==
    /\ lagged
    /\ lagged' = FALSE
    /\ UNCHANGED <<queue, sessions, flushes, pushes, count>>

WatchLagged ==
    /\ lagged
    /\ lagged' = FALSE
    /\ FlushAll
    /\ UNCHANGED <<queue, sessions, fl, flushLock, awaiting, pushes, count>>

WatchEvent ==
    LET p == Head(pushes)
    IN /\ ~lagged
       /\ pushes # <<>>
       /\ pushes' = Tail(pushes)
       /\ IF p.end
          THEN /\ awaiting' = [awaiting EXCEPT ![p.s] =
                                 IF @ # -1 /\ p.seq > @ THEN -1 ELSE @]
               /\ want' = [want EXCEPT ![p.s] = @ + 1]
          ELSE UNCHANGED <<awaiting, want>>
       /\ UNCHANGED <<queue, sessions, fl, flushLock, lagged, count>>
-----------------------------------------------------------------------------
(* Users and agents.                                                       *)

\* Sessions::send for the user: recorded ...
UserRecord(s) ==
    /\ count.user < MaxUser
    /\ s \notin user
    /\ Bump("user")
    /\ user' = user \cup {s}
    /\ agent' = [agent EXCEPT ![s] = IF @ = "down" THEN "up" ELSE @]
    /\ chan' = [chan EXCEPT ![s] = Append(@, MsgEvent(<<>>))]
    /\ UNCHANGED <<queue, log, status, inbox, active, working, got, owed, flushes, watch>>

\* ... then given to the agent, or refused by a run that is gone
UserDeliver(s) ==
    /\ s \in user
    /\ user' = user \ {s}
    /\ inbox' = [inbox EXCEPT ![s] = IF agent[s] = "up" THEN Append(@, <<>>) ELSE @]
    /\ active' = IF agent[s] = "up" THEN active \cup {s} ELSE active
    /\ UNCHANGED <<queue, log, status, chan, agent, working, got, owed, flushes, watch, count>>

\* The agent reads a message: a turn begins, or the running one takes it in.
AgentReads(s) ==
    /\ agent[s] = "up"
    /\ inbox[s] # <<>>
    /\ inbox' = [inbox EXCEPT ![s] = Tail(@)]
    /\ working' = working \cup {s}
    /\ UNCHANGED <<queue, log, status, chan, agent, active, got, user, owed, flushes, watch, count>>

TurnEnds(s) ==
    /\ agent[s] = "up"
    /\ s \in working
    /\ active' = active \ {s} /\ working' = working \ {s}
    /\ chan' = [chan EXCEPT ![s] = Append(@, EndEvent)]
    /\ UNCHANGED <<queue, log, status, agent, inbox, got, user, owed, flushes, watch, count>>

\* The process exits; a turn that was active is reported, the entry stays registered.
AgentExits(s) ==
    /\ "exit" \in Faults /\ count.fault < MaxFault
    /\ Bump("fault")
    /\ agent[s] = "up"
    /\ agent' = [agent EXCEPT ![s] = "dead"]
    /\ chan' = IF s \in active
               THEN [chan EXCEPT ![s] = Append(@, EndEvent)] ELSE chan
    /\ inbox' = [inbox EXCEPT ![s] = <<>>]
    /\ active' = active \ {s} /\ working' = working \ {s}
    /\ UNCHANGED <<queue, log, status, got, user, owed, flushes, watch>>

\* A teammate is ended: its agent is shut down, and no end of its turn is reported.
EndMember(s) ==
    /\ "end" \in Faults /\ count.fault < MaxFault
    /\ Bump("fault")
    /\ agent[s] # "down"
    /\ agent' = [agent EXCEPT ![s] = "down"]
    /\ inbox' = [inbox EXCEPT ![s] = <<>>]
    /\ active' = active \ {s} /\ working' = working \ {s}
    /\ owed' = owed \cup {s}
    /\ UNCHANGED <<queue, log, status, chan, got, user, flushes, watch>>

\* What is left of the server process when it stops.
Stopped ==
    /\ snd' = [k \in Sender |-> Idle] /\ sendLock' = None
    /\ fl' = [k \in Flusher |-> NoFlush]
    /\ flushLock' = [s \in Session |-> None]
    /\ awaiting' = [s \in Session |-> -1]
    /\ pushes' = <<>> /\ lagged' = FALSE
    /\ user' = {} /\ owed' = {}
    /\ chan' = [s \in Session |-> <<>>]
    /\ agent' = [s \in Session |-> "down"]
    /\ inbox' = [s \in Session |-> <<>>]
    /\ active' = {} /\ working' = {}

(* The server stops and starts: install() subscribes, then flushes what is *)
(* queued.                                                                 *)
Restart ==
    /\ count.restart < MaxRestart
    /\ Bump("restart")
    /\ status' = [s \in Session |-> IF status[s] \in Busy THEN "Idle" ELSE status[s]]
    /\ Stopped
    /\ want' = [t \in Session |-> IF HasPending(t) THEN 1 ELSE 0]
    /\ UNCHANGED <<msgs, delivered, off, log, aged, got>>

FlushStep(k) ==
    \/ FlushSettle(k) \/ FlushRead(k) \/ FlushTake(k) \/ FlushRecord(k)
    \/ FlushDeliver(k) \/ FlushDeliverErr(k) \/ FlushMark(k)

Next ==
    \/ \E k \in Sender : SendCheck(k) \/ SendInsert(k) \/ SendRefused(k)
    \/ \E k \in Sender, f \in Session, t \in Target : SendBegin(k, f, t)
    \/ \E f \in Session, t \in Target : Mention(f, t)
    \/ \E x \in Session \cup {"global"} : Toggle(x)
    \/ Ages
    \/ \E k \in Flusher, t \in Session : FlushLock(k, t)
    \/ \E k \in Flusher : FlushStep(k) \/ FlushStartErr(k) \/ FlushMarkErr(k)
    \/ WatchLagged \/ WatchEvent
    \/ \E s \in Target : UserRecord(s)
    \/ \E s \in Session :
          \/ Pump(s) \/ UserDeliver(s) \/ AgentReads(s) \/ TurnEnds(s) \/ AgentExits(s)
          \/ EndMember(s) \/ Noticed(s)
    \/ Restart

Spec == Init /\ [][Next]_vars

(* The server's tasks run when they can; agents read what they are given   *)
(* and their turns end.                                                    *)
Fairness ==
    /\ \A t \in Session : WF_vars(\E k \in Flusher : FlushLock(k, t))
    /\ \A k \in Flusher : WF_vars(FlushStep(k))
    /\ WF_vars(WatchLagged) /\ WF_vars(WatchEvent)
    /\ \A s \in Session : /\ WF_vars(Pump(s)) /\ WF_vars(UserDeliver(s))
                          /\ WF_vars(AgentReads(s)) /\ WF_vars(TurnEnds(s))

FairSpec == Spec /\ Fairness

\* Concurrent send requests and flush calls are interchangeable.
CallSymmetry == Permutations(Sender) \cup Permutations(Flusher)
-----------------------------------------------------------------------------
(* Every variable has its type; the batch of a flush names messages to its *)
(* target.                                                                 *)
TypeOK ==
    /\ msgs \in Seq([from : Session, to : Session, mention : BOOLEAN])
    /\ delivered \subseteq 1..Len(msgs) /\ aged \in 0..Len(msgs)
    /\ off \subseteq Session \cup {"global"}
    /\ snd \in [Sender -> [pc : {"idle", "lock", "insert"}, from : Session \cup {None},
                           to : Session \cup {None}]]
    /\ sendLock \in Sender \cup {None}
    /\ want \in [Session -> Nat]
    /\ \A k \in Flusher :
          /\ fl[k].pc \in {"idle", "settle", "read", "take", "start", "deliver", "mark"}
          /\ \A i \in Range(fl[k].batch) : msgs[i].to = fl[k].t
    /\ flushLock \in [Session -> Flusher \cup {None}]
    /\ awaiting \in [Session -> Int]
    /\ user \cup owed \subseteq Session /\ active \subseteq Session /\ working \subseteq Session
    /\ agent \in [Session -> {"down", "up", "dead"}]
    /\ status \in [Session -> {"Idle", "Running", "Finished"}]

\* A fault that can make a message come twice: a crash or a failed mark_delivered.
Mail == INSTANCE Mailbox WITH posted <- [i \in 1..Len(msgs) |-> msgs[i].to],
                              acked <- delivered, given <- got,
                              faults <- count.restart + count.mark

(* Delivery is that of a mailbox: oldest first, everything queued up to a  *)
(* point, nothing acknowledged that was not handed to the agent, and       *)
(* nothing handed over twice unless the server stopped, or could not write *)
(* delivered_at, in between (A2a::flush, mark_delivered).                  *)
DeliversLikeAMailbox == Mail!Spec

(* "Deliver everything queued for `target` if it is between turns"         *)
(* (A2a::flush; "awaiting" guards against delivering twice before the      *)
(* store shows the turn running): an agent is given queued messages only   *)
(* when it has nothing to do.                                              *)
DeliversBetweenTurns ==
    [][\A k \in Flusher : FlushDeliver(k) =>
            fl[k].t \notin working /\ inbox[fl[k].t] = <<>>]_vars

(* Loop protection (check_limits under send_lock): within the window, no   *)
(* session has sent more than per_session messages of its own, and no pair *)
(* exchanged more than per_pair, however the sends interleave.             *)
WithinLimits ==
    LET Sent(P(_)) == Cardinality({i \in Recent : ~msgs[i].mention /\ P(msgs[i])})
    IN \A a, b \in Session :
          /\ Sent(LAMBDA m : m.from = a) <= PerSession
          /\ Sent(LAMBDA m : {m.from, m.to} = {a, b}) <= PerPair

(* A message that is queued is delivered in the end, whatever pushes the   *)
(* turn watcher misses and across restarts ("a target that is mid-turn     *)
(* gets its queued messages at the next turn boundary; an idle or released *)
(* target is woken by the delivery; undelivered messages survive a         *)
(* restart").                                                              *)
QueuedIsDelivered ==
    \A i \in 1..MaxMsg : (i <= Len(msgs) /\ i \notin delivered) ~> i \in delivered

-----------------------------------------------------------------------------
(* Proof of WithinLimits, for any sessions, senders, limits and bounds: a  *)
(* send between its check and its insertion holds send_lock, so that what  *)
(* it counted is still all there is; mentions come between, and are not    *)
(* counted, and aging only takes messages out of the window.               *)

Sent(a) == {i \in Recent : ~msgs[i].mention /\ msgs[i].from = a}
Exchanged(a, b) == {i \in Recent : ~msgs[i].mention /\ {msgs[i].from, msgs[i].to} = {a, b}}

QueueOK ==
    /\ msgs \in Seq([from : Session \cup {None}, to : Session \cup {None}, mention : BOOLEAN])
    /\ aged \in Nat
    /\ snd \in [Sender -> [pc : {"idle", "lock", "insert"}, from : Session \cup {None},
                           to : Session \cup {None}]]

CountsOK ==
    \A a, b \in Session \cup {None} :
       Cardinality(Sent(a)) <= PerSession /\ Cardinality(Exchanged(a, b)) <= PerPair

\* Who is about to insert holds the lock, and there is room for one more message.
RoomLeft ==
    \A k \in Sender : snd[k].pc = "insert" =>
        /\ sendLock = k
        /\ Cardinality(Sent(snd[k].from)) < PerSession
        /\ Cardinality(Exchanged(snd[k].from, snd[k].to)) < PerPair

LimitsInv == QueueOK /\ CountsOK /\ RoomLeft

LEMMA WindowFinite ==
  ASSUME QueueOK, NEW S, S \subseteq Recent
  PROVE  IsFiniteSet(S) /\ Cardinality(S) \in Nat
<1>1. aged + 1 \in Int /\ Len(msgs) \in Int BY DEF QueueOK
<1>2. IsFiniteSet(Recent) BY <1>1, FS_Interval DEF Recent
<1>3. IsFiniteSet(S) BY <1>2, FS_Subset
<1> QED BY <1>3, FS_CardinalityType

\* A part of what was counted is no more.
LEMMA FewerOf ==
  ASSUME QueueOK, NEW S, S \subseteq Recent, NEW T, T \subseteq S
  PROVE  Cardinality(T) <= Cardinality(S)
BY WindowFinite, FS_Subset

\* A message at the end of the queue adds itself to a count, or nothing.
LEMMA OneMore ==
  ASSUME QueueOK, NEW S, S \subseteq Recent, NEW T, T \subseteq S \cup {Len(msgs) + 1}
  PROVE  Cardinality(T) <= Cardinality(S) + 1
<1>1. IsFiniteSet(S) /\ Cardinality(S) \in Nat BY WindowFinite
<1>2. Len(msgs) + 1 \notin S BY DEF Recent, QueueOK
<1>3. /\ IsFiniteSet(S \cup {Len(msgs) + 1})
      /\ Cardinality(S \cup {Len(msgs) + 1}) = Cardinality(S) + 1
  BY <1>1, <1>2, FS_AddElement
<1> QED BY <1>3, FS_Subset

LEMMA LimitsInit == Init => LimitsInv
<1> SUFFICES ASSUME Init PROVE LimitsInv OBVIOUS
<1>1. QueueOK BY DEF Init, QueueOK, Idle
<1>2. Recent = {} BY DEF Init, Recent
<1>3. \A a, b : Sent(a) = {} /\ Exchanged(a, b) = {} BY <1>2 DEF Sent, Exchanged
<1>4. CountsOK BY <1>3, FS_EmptySet, LimitsAssumption DEF CountsOK
<1>5. RoomLeft BY DEF Init, RoomLeft, Idle
<1> QED BY <1>1, <1>4, <1>5 DEF LimitsInv

\* A step that leaves the queue of messages alone, and the senders.
LEMMA LimitsKept ==
  ASSUME LimitsInv, UNCHANGED <<msgs, aged, snd, sendLock>> PROVE LimitsInv'
BY DEF LimitsInv, QueueOK, CountsOK, RoomLeft, Sent, Exchanged, Recent

\* Counts that do not grow leave the room there was.
LEMMA LimitsShrink ==
  ASSUME LimitsInv, QueueOK', UNCHANGED <<snd, sendLock>>,
         \A a, b \in Session \cup {None} : Sent(a)' \subseteq Sent(a) /\ Exchanged(a, b)' \subseteq Exchanged(a, b)
  PROVE  LimitsInv'
<1>1. ASSUME NEW a \in Session \cup {None}, NEW b \in Session \cup {None}
      PROVE  /\ Cardinality(Sent(a))' <= Cardinality(Sent(a)) /\ Cardinality(Sent(a))' \in Nat
             /\ Cardinality(Exchanged(a, b))' <= Cardinality(Exchanged(a, b))
             /\ Cardinality(Exchanged(a, b))' \in Nat
             /\ Cardinality(Sent(a)) \in Nat /\ Cardinality(Exchanged(a, b)) \in Nat
  <2>1. Sent(a) \subseteq Recent /\ Exchanged(a, b) \subseteq Recent BY DEF Sent, Exchanged
  <2>2. Sent(a)' \subseteq Sent(a) /\ Exchanged(a, b)' \subseteq Exchanged(a, b) OBVIOUS
  <2> QED BY <2>1, <2>2, FewerOf, WindowFinite DEF LimitsInv
<1>2. CountsOK' BY <1>1, LimitsAssumption DEF LimitsInv, CountsOK
<1>3. RoomLeft'
  <2> SUFFICES ASSUME NEW k \in Sender, snd[k].pc = "insert"
               PROVE  /\ sendLock = k
                      /\ Cardinality(Sent(snd[k].from))' < PerSession
                      /\ Cardinality(Exchanged(snd[k].from, snd[k].to))' < PerPair
    BY DEF RoomLeft
  <2>1. snd[k].from \in Session \cup {None} /\ snd[k].to \in Session \cup {None}
    BY DEF LimitsInv, QueueOK
  <2> QED BY <1>1, <2>1, LimitsAssumption DEF LimitsInv, RoomLeft
<1> QED BY <1>2, <1>3 DEF LimitsInv

\* check_limits counts at least what WithinLimits counts, under the lock.
LEMMA CheckKeeps == ASSUME LimitsInv, NEW k \in Sender, SendCheck(k) PROVE LimitsInv'
<1> USE DEF LimitsInv
<1> DEFINE f == snd[k].from
           t == snd[k].to
<1>1. /\ sendLock = None /\ sendLock' = k /\ snd' = [snd EXCEPT ![k].pc = "insert"]
      /\ UNCHANGED <<msgs, aged>> /\ ~OverLimit(f, t)
  BY DEF SendCheck
<1>2. QueueOK' BY <1>1 DEF QueueOK
<1>3. CountsOK' BY <1>1 DEF CountsOK, Sent, Exchanged, Recent
<1>4. Cardinality(Sent(f)) < PerSession /\ Cardinality(Exchanged(f, t)) < PerPair
  <2>1. Sent(f) \subseteq {i \in Recent : msgs[i].from = f} BY DEF Sent
  <2>2. Exchanged(f, t) \subseteq {i \in Recent : {msgs[i].from, msgs[i].to} = {f, t}}
    BY DEF Exchanged
  <2>3. Cardinality(Sent(f)) <= SentSince(f) /\ Cardinality(Sent(f)) \in Nat
        /\ SentSince(f) \in Nat
    BY <2>1, FewerOf, WindowFinite DEF SentSince
  <2>4. Cardinality(Exchanged(f, t)) <= PairSince(f, t) /\ Cardinality(Exchanged(f, t)) \in Nat
        /\ PairSince(f, t) \in Nat
    BY <2>2, FewerOf, WindowFinite DEF PairSince
  <2> QED BY <1>1, <2>3, <2>4, LimitsAssumption DEF OverLimit
<1>5. RoomLeft'
  <2> SUFFICES ASSUME NEW j \in Sender, snd'[j].pc = "insert"
               PROVE  /\ sendLock' = j
                      /\ Cardinality(Sent(snd[j].from)) < PerSession
                      /\ Cardinality(Exchanged(snd[j].from, snd[j].to)) < PerPair
    <3>1. \A j \in Sender : snd'[j].from = snd[j].from /\ snd'[j].to = snd[j].to
      BY <1>1 DEF QueueOK
    <3>2. \A x, y : Sent(x)' = Sent(x) /\ Exchanged(x, y)' = Exchanged(x, y)
      BY <1>1 DEF Sent, Exchanged, Recent
    <3>3. \A j \in Sender : /\ {i \in Recent' : ~msgs'[i].mention /\ msgs'[i].from = snd'[j].from}
                               = Sent(snd[j].from)
                          /\ {i \in Recent' : /\ ~msgs'[i].mention
                                              /\ {msgs'[i].from, msgs'[i].to} = {snd'[j].from, snd'[j].to}}
                               = Exchanged(snd[j].from, snd[j].to)
      BY <1>1, <3>1 DEF Sent, Exchanged, Recent
    <3> QED BY <3>3, Zenon DEF RoomLeft, Sent, Exchanged
  <2>1. CASE j = k BY <1>1, <1>4, <2>1
  <2>2. CASE j # k
    <3>1. snd[j].pc = "insert" BY <1>1, <2>2 DEF QueueOK
    <3>2. sendLock = j BY <3>1 DEF RoomLeft
    <3> QED BY <1>1, <3>2, LimitsAssumption
  <2> QED BY <2>1, <2>2
<1> QED BY <1>2, <1>3, <1>5

\* insert_message uses the room that was left, and gives the lock back.
LEMMA InsertKeeps == ASSUME LimitsInv, NEW k \in Sender, SendInsert(k) PROVE LimitsInv'
<1> USE DEF LimitsInv
<1> DEFINE f == snd[k].from
           t == snd[k].to
           m == [from |-> f, to |-> t, mention |-> FALSE]
<1>1. /\ snd[k].pc = "insert" /\ msgs' = Append(msgs, m) /\ aged' = aged
      /\ snd' = [snd EXCEPT ![k] = Idle]
  BY DEF SendInsert
<1>2. f \in Session \cup {None} /\ t \in Session \cup {None} BY DEF QueueOK
<1>3. QueueOK' BY <1>1, <1>2 DEF QueueOK, Idle
<1>4. /\ Recent' \subseteq Recent \cup {Len(msgs) + 1}
      /\ \A i \in Recent : msgs'[i] = msgs[i]
      /\ Len(msgs) + 1 \notin Recent /\ msgs'[Len(msgs) + 1] = m
  BY <1>1, <1>2 DEF QueueOK, Recent
<1>5. CountsOK'
  <2> SUFFICES ASSUME NEW a \in Session \cup {None}, NEW b \in Session \cup {None}
               PROVE  Cardinality(Sent(a)') <= PerSession /\ Cardinality(Exchanged(a, b)') <= PerPair
    BY DEF CountsOK
  <2>1. /\ Sent(a) \subseteq Recent /\ Exchanged(a, b) \subseteq Recent
        /\ Sent(a)' \subseteq Recent' /\ Exchanged(a, b)' \subseteq Recent'
    BY DEF Sent, Exchanged
  <2>2. /\ Cardinality(Sent(a)) \in Nat /\ Cardinality(Sent(a)') \in Nat
        /\ Cardinality(Exchanged(a, b)) \in Nat /\ Cardinality(Exchanged(a, b)') \in Nat
    <3>1. Cardinality(Sent(a)) \in Nat /\ Cardinality(Exchanged(a, b)) \in Nat
      BY <2>1, WindowFinite
    <3>2. IsFiniteSet(Recent \cup {Len(msgs) + 1})
      BY WindowFinite, FS_AddElement
    <3> QED BY <1>4, <2>1, <3>1, <3>2, FS_Subset, FS_CardinalityType
  <2>3. Cardinality(Sent(a)') <= PerSession
    <3>1. Sent(a)' \subseteq Sent(a) \cup {Len(msgs) + 1} BY <1>4 DEF Sent
    <3>2. CASE a = f
      <4>1. Cardinality(Sent(a)) < PerSession BY <1>1, <3>2 DEF RoomLeft
      <4> QED BY <2>1, <2>2, <3>1, <4>1, OneMore, LimitsAssumption
    <3>3. CASE a # f
      <4>1. Sent(a)' \subseteq Sent(a) BY <1>4, <3>3 DEF Sent
      <4>2. Cardinality(Sent(a)') <= Cardinality(Sent(a)) BY <2>1, <4>1, FewerOf
      <4> QED BY <2>2, <4>2, LimitsAssumption DEF CountsOK
    <3> QED BY <3>2, <3>3
  <2>4. Cardinality(Exchanged(a, b)') <= PerPair
    <3>1. Exchanged(a, b)' \subseteq Exchanged(a, b) \cup {Len(msgs) + 1} BY <1>4 DEF Exchanged
    <3>2. CASE {f, t} = {a, b}
      <4>1. Exchanged(a, b) = Exchanged(f, t) BY <3>2 DEF Exchanged
      <4>2. Cardinality(Exchanged(a, b)) < PerPair BY <1>1, <4>1 DEF RoomLeft
      <4> QED BY <2>1, <2>2, <3>1, <4>2, OneMore, LimitsAssumption
    <3>3. CASE {f, t} # {a, b}
      <4>1. ASSUME NEW i \in Exchanged(a, b)' PROVE i \in Exchanged(a, b)
        <5>1. i \in Recent' /\ ~msgs'[i].mention /\ {msgs'[i].from, msgs'[i].to} = {a, b}
          BY DEF Exchanged
        <5>2. i # Len(msgs) + 1
          <6>1. msgs'[Len(msgs) + 1].from = f /\ msgs'[Len(msgs) + 1].to = t BY <1>4
          <6> QED BY <3>3, <5>1, <6>1
        <5>3. i \in Recent /\ msgs'[i] = msgs[i] BY <1>4, <5>1, <5>2
        <5> QED BY <5>1, <5>3 DEF Exchanged
      <4>2. Cardinality(Exchanged(a, b)') <= Cardinality(Exchanged(a, b))
        BY <2>1, <4>1, FewerOf
      <4> QED BY <2>2, <4>2, LimitsAssumption DEF CountsOK
    <3> QED BY <3>2, <3>3
  <2> QED BY <2>3, <2>4
<1>6. RoomLeft'
  <2> SUFFICES ASSUME NEW j \in Sender PROVE snd'[j].pc # "insert"
    BY DEF RoomLeft
  <2>1. CASE j = k BY <1>1, <2>1 DEF QueueOK, Idle
  <2>2. CASE j # k
    <3>1. snd'[j] = snd[j] BY <1>1, <2>2 DEF QueueOK
    <3> QED BY <1>1, <2>2, <3>1 DEF RoomLeft
  <2> QED BY <2>1, <2>2
<1> QED BY <1>3, <1>5, <1>6

LEMMA MentionKeeps ==
  ASSUME LimitsInv, NEW f \in Session, NEW t \in Session, Mention(f, t) PROVE LimitsInv'
<1> DEFINE m == [from |-> f, to |-> t, mention |-> TRUE]
<1>1. msgs' = Append(msgs, m) /\ UNCHANGED <<aged, snd, sendLock>> BY DEF Mention
<1>2. QueueOK' BY <1>1 DEF LimitsInv, QueueOK
<1>3. /\ Recent' \subseteq Recent \cup {Len(msgs) + 1}
      /\ \A i \in Recent : msgs'[i] = msgs[i]
      /\ msgs'[Len(msgs) + 1].mention
  BY <1>1 DEF LimitsInv, QueueOK, Recent
<1>4. \A a, b \in Session \cup {None} :
        Sent(a)' \subseteq Sent(a) /\ Exchanged(a, b)' \subseteq Exchanged(a, b)
  BY <1>3 DEF Sent, Exchanged
<1> QED BY <1>1, <1>2, <1>4, LimitsShrink

LEMMA AgesKeeps == ASSUME LimitsInv, Ages PROVE LimitsInv'
<1>1. aged' = aged + 1 /\ UNCHANGED <<msgs, snd, sendLock>> BY DEF Ages
<1>2. QueueOK' BY <1>1 DEF LimitsInv, QueueOK
<1>3. Recent' \subseteq Recent BY <1>1 DEF LimitsInv, QueueOK, Recent
<1>4. \A a, b \in Session \cup {None} :
        Sent(a)' \subseteq Sent(a) /\ Exchanged(a, b)' \subseteq Exchanged(a, b)
  BY <1>1, <1>3 DEF Sent, Exchanged
<1> QED BY <1>1, <1>2, <1>4, LimitsShrink

\* Senders that come, are refused, or are gone with the server.
LEMMA SendersKeep ==
  ASSUME LimitsInv, UNCHANGED <<msgs, aged>>, QueueOK',
         \A k \in Sender : snd'[k].pc = "insert" => snd'[k] = snd[k] /\ sendLock' = sendLock
  PROVE  LimitsInv'
<1>1. CountsOK' BY DEF LimitsInv, CountsOK, Sent, Exchanged, Recent
<1>2. RoomLeft' BY DEF LimitsInv, RoomLeft, Sent, Exchanged, Recent
<1> QED BY <1>1, <1>2 DEF LimitsInv

LEMMA LimitsStep == ASSUME LimitsInv, [Next]_vars PROVE LimitsInv'
<1>1. CASE UNCHANGED <<msgs, aged, snd, sendLock>> BY <1>1, LimitsKept
<1>2. ASSUME NEW k \in Sender, SendCheck(k) \/ SendInsert(k) PROVE LimitsInv'
  BY <1>2, CheckKeeps, InsertKeeps
<1>3. ASSUME NEW k \in Sender, SendRefused(k) PROVE LimitsInv'
  <2>1. UNCHANGED <<msgs, aged, sendLock>> /\ snd' = [snd EXCEPT ![k] = Idle]
    BY <1>3 DEF SendRefused
  <2>2. QueueOK' BY <2>1 DEF LimitsInv, QueueOK, Idle
  <2> QED BY <2>1, <2>2, SendersKeep DEF LimitsInv, QueueOK, Idle
<1>4. ASSUME NEW k \in Sender, NEW f \in Session, NEW t \in Target, SendBegin(k, f, t)
      PROVE  LimitsInv'
  <2>1. /\ UNCHANGED <<msgs, aged, sendLock>>
        /\ snd' = [snd EXCEPT ![k] = [pc |-> "lock", from |-> f, to |-> t]]
    BY <1>4 DEF SendBegin
  <2>2. QueueOK' BY <2>1, LimitsAssumption DEF LimitsInv, QueueOK
  <2> QED BY <2>1, <2>2, SendersKeep DEF LimitsInv, QueueOK
<1>5. ASSUME NEW f \in Session, NEW t \in Target, Mention(f, t) PROVE LimitsInv'
  BY <1>5, MentionKeeps, LimitsAssumption
<1>6. CASE Ages BY <1>6, AgesKeeps
<1>7. CASE Restart
  <2>1. UNCHANGED <<msgs, aged>> /\ snd' = [k \in Sender |-> Idle] BY <1>7 DEF Restart, Stopped
  <2>2. QueueOK' BY <2>1 DEF LimitsInv, QueueOK, Idle
  <2> QED BY <2>1, <2>2, SendersKeep DEF Idle
<1>8. ASSUME \E x \in Session \cup {"global"} : Toggle(x)
      PROVE  UNCHANGED <<msgs, aged, snd, sendLock>>
  BY <1>8 DEF Toggle
<1>9. ASSUME NEW k \in Flusher,
             \/ \E t \in Session : FlushLock(k, t)
             \/ FlushStep(k) \/ FlushStartErr(k) \/ FlushMarkErr(k)
      PROVE  UNCHANGED <<msgs, aged, snd, sendLock>>
  BY <1>9 DEF FlushLock, FlushStep, FlushStartErr, FlushMarkErr, FlushSettle, FlushRead, FlushTake,
              FlushRecord, FlushDeliver, FlushDeliverErr, FlushMark, queue
<1>10. ASSUME WatchLagged \/ WatchEvent PROVE UNCHANGED <<msgs, aged, snd, sendLock>>
  BY <1>10 DEF WatchLagged, WatchEvent, queue
<1>11. ASSUME NEW s \in Session,
              \/ UserRecord(s) \/ Pump(s) \/ UserDeliver(s) \/ AgentReads(s) \/ TurnEnds(s)
              \/ AgentExits(s) \/ EndMember(s) \/ Noticed(s)
       PROVE  UNCHANGED <<msgs, aged, snd, sendLock>>
  BY <1>11 DEF UserRecord, Pump, UserDeliver, AgentReads, TurnEnds, AgentExits, EndMember, Noticed,
               queue
<1>12. CASE UNCHANGED vars BY <1>1, <1>12 DEF vars, queue
<1> QED BY <1>1, <1>2, <1>3, <1>4, <1>5, <1>6, <1>7, <1>8, <1>9, <1>10, <1>11, <1>12,
           LimitsAssumption DEF Next

\* A2a::send under send_lock: however sends and mentions cross, whatever ages and whenever the
\* server restarts, no session and no pair of sessions goes over its limit.
THEOREM LimitsHold == Spec => []WithinLimits
<1>1. Init => LimitsInv BY LimitsInit
<1>2. LimitsInv /\ [Next]_vars => LimitsInv' BY LimitsStep
<1>3. LimitsInv => WithinLimits
  <2> SUFFICES ASSUME LimitsInv, NEW a \in Session, NEW b \in Session
               PROVE  Cardinality(Sent(a)) <= PerSession /\ Cardinality(Exchanged(a, b)) <= PerPair
    BY Zenon DEF WithinLimits, Sent, Exchanged
  <2> QED BY DEF LimitsInv, CountsOK
<1> QED BY <1>1, <1>2, <1>3, PTL DEF Spec
-----------------------------------------------------------------------------
(* Proof of DeliversLikeAMailbox and of TypeOK. The types of TypeOK, in   *)
(* full, with what a flush and a send request hold.                        *)

Message == [from : Session, to : Session, mention : BOOLEAN]
Event == [kind : {"UserMessage", "TurnEnded", "Notice"}, batch : Seq(Nat)]
SendRow == [pc : {"idle", "lock", "insert"}, from : Session \cup {None}, to : Session \cup {None}]
FlushRow == [pc : {"idle", "settle", "read", "take", "start", "deliver", "mark"},
             t : Session \cup {None}, seq : Nat, batch : Seq(Nat)]
Counts == [user : Nat, mention : Nat, notice : Nat, toggle : Nat, fault : Nat, mark : Nat,
           restart : Nat]

QueueTypes ==
    /\ msgs \in Seq(Message) /\ delivered \subseteq 1..Len(msgs) /\ aged \in 0..Len(msgs)
    /\ off \subseteq Session \cup {"global"}
    /\ snd \in [Sender -> SendRow] /\ sendLock \in Sender \cup {None}
    /\ \A k \in Sender : snd[k].pc # "idle" => snd[k].from \in Session /\ snd[k].to \in Session

FlushTypes ==
    /\ want \in [Session -> Nat] /\ fl \in [Flusher -> FlushRow]
    /\ flushLock \in [Session -> Flusher \cup {None}]
    /\ awaiting \in [Session -> Int]
    /\ count \in Counts

AgentTypes ==
    /\ log \in [Session -> Seq(Event)] /\ chan \in [Session -> Seq(Event)]
    /\ got \in [Session -> Seq(Nat)]
    /\ status \in [Session -> {"Idle", "Running", "Finished"}]
    /\ agent \in [Session -> {"down", "up", "dead"}]
    /\ user \cup owed \subseteq Session /\ active \subseteq Session /\ working \subseteq Session

A2ATypes == QueueTypes /\ FlushTypes /\ AgentTypes

\* A flush that is under way holds its target's lock.
LockHeld ==
    \A k \in Flusher : fl[k].pc # "idle" => /\ fl[k].t \in Session
                                            /\ flushLock[fl[k].t] = k

\* b lists the oldest of what is queued for t, all of it up to some message, in order.
OldestFor(t, b) ==
    /\ b # <<>>
    /\ \A n \in 1..Len(b) : b[n] \in Queued(t)
    /\ \A m, n \in 1..Len(b) : m < n => b[m] < b[n]
    /\ \A i \in Queued(t) : i < b[Len(b)] => \E n \in 1..Len(b) : b[n] = i

\* What a flush has read stays what is to be delivered next, until it is marked.
HasBatch(k) == fl[k].pc \in {"start", "deliver", "mark"}
BatchIsOldest ==
    \A k \in Flusher : IF HasBatch(k) THEN OldestFor(fl[k].t, fl[k].batch)
                       ELSE fl[k].batch = <<>>

\* A queued message was handed over at most once for each fault, and once more when the flush
\* that did is about to mark it.
TimesIn(l, i) == Cardinality({n \in 1..Len(l) : l[n] = i})
Handed(t, i) == TimesIn(got[t], i)
Faulted == count.restart + count.mark
Marking(t, i) == \E k \in Flusher : /\ fl[k].pc = "mark" /\ fl[k].t = t
                                    /\ \E n \in 1..Len(fl[k].batch) : fl[k].batch[n] = i
HandedOnce ==
    \A t \in Session : \A i \in Queued(t) :
        /\ Handed(t, i) <= Faulted + 1
        /\ ~Marking(t, i) => Handed(t, i) <= Faulted

\* Only messages there are were handed over, those that are about to be marked among them.
HandedKnown ==
    /\ \A t \in Session : \A n \in 1..Len(got[t]) : got[t][n] \in 1..Len(msgs)
    /\ \A k \in Flusher : fl[k].pc = "mark" =>
          \A n \in 1..Len(fl[k].batch) :
              \E m \in 1..Len(got[fl[k].t]) : got[fl[k].t][m] = fl[k].batch[n]

MailInv == A2ATypes /\ LockHeld /\ BatchIsOldest /\ HandedOnce /\ HandedKnown

LEMMA TypesInit == Init => A2ATypes
<1> SUFFICES ASSUME Init PROVE A2ATypes OBVIOUS
<1>1. QueueTypes BY LimitsAssumption DEF Init, QueueTypes, SendRow, Idle
<1>2. FlushTypes BY DEF Init, FlushTypes, FlushRow, NoFlush, Counts
<1>3. AgentTypes BY DEF Init, AgentTypes
<1> QED BY <1>1, <1>2, <1>3 DEF A2ATypes

\* One more message in the queue.
LEMMA MessageTyped ==
  ASSUME QueueTypes, NEW m \in Message, msgs' = Append(msgs, m), UNCHANGED <<delivered, aged>>
  PROVE  /\ msgs' \in Seq(Message) /\ Len(msgs') = Len(msgs) + 1 /\ Len(msgs) \in Nat
         /\ delivered' \subseteq 1..Len(msgs') /\ aged' \in 0..Len(msgs')
<1>1. msgs' \in Seq(Message) /\ Len(msgs') = Len(msgs) + 1 /\ Len(msgs) \in Nat
  BY DEF QueueTypes
<1> QED BY <1>1 DEF QueueTypes

LEMMA QueueTypesStep == ASSUME A2ATypes, BatchIsOldest, [Next]_vars PROVE QueueTypes'
<1> USE DEF A2ATypes
<1>1. CASE UNCHANGED queue BY <1>1 DEF QueueTypes, queue
<1>2. ASSUME NEW k \in Sender, SendCheck(k) \/ SendRefused(k) PROVE QueueTypes'
  <2>1. UNCHANGED <<msgs, delivered, off, aged>> BY <1>2 DEF SendCheck, SendRefused
  <2>2. CASE SendCheck(k)
    <3>1. snd[k].pc = "lock" /\ snd' = [snd EXCEPT ![k].pc = "insert"] /\ sendLock' = k
      BY <2>2 DEF SendCheck
    <3> QED BY <2>1, <3>1 DEF QueueTypes, SendRow
  <2>3. CASE SendRefused(k)
    <3>1. snd' = [snd EXCEPT ![k] = Idle] /\ sendLock' = sendLock BY <2>3 DEF SendRefused
    <3> QED BY <2>1, <3>1 DEF QueueTypes, SendRow, Idle
  <2> QED BY <1>2, <2>2, <2>3
<1>3. ASSUME NEW k \in Sender, SendInsert(k) PROVE QueueTypes'
  <2> DEFINE m == [from |-> snd[k].from, to |-> snd[k].to, mention |-> FALSE]
  <2>1. /\ msgs' = Append(msgs, m) /\ UNCHANGED <<delivered, off, aged>>
        /\ sendLock' = None /\ snd' = [snd EXCEPT ![k] = Idle] /\ snd[k].pc = "insert"
    BY <1>3 DEF SendInsert
  <2>2. m \in Message BY <2>1 DEF QueueTypes, Message
  <2> HIDE DEF m
  <2>3. /\ msgs' \in Seq(Message) /\ delivered' \subseteq 1..Len(msgs') /\ aged' \in 0..Len(msgs')
    BY <2>1, <2>2, MessageTyped
  <2> QED BY <2>1, <2>3 DEF QueueTypes, SendRow, Idle
<1>4. ASSUME NEW f \in Session, NEW t \in Session, Mention(f, t) PROVE QueueTypes'
  <2> DEFINE m == [from |-> f, to |-> t, mention |-> TRUE]
  <2>1. msgs' = Append(msgs, m) /\ UNCHANGED <<delivered, off, aged, snd, sendLock>>
    BY <1>4 DEF Mention
  <2>2. m \in Message BY DEF Message
  <2> HIDE DEF m
  <2>3. /\ msgs' \in Seq(Message) /\ delivered' \subseteq 1..Len(msgs') /\ aged' \in 0..Len(msgs')
    BY <2>1, <2>2, MessageTyped
  <2> QED BY <2>1, <2>3 DEF QueueTypes
<1>5. ASSUME NEW k \in Sender, NEW f \in Session, NEW t \in Session, SendBegin(k, f, t)
      PROVE  QueueTypes'
  <2>1. /\ UNCHANGED <<msgs, delivered, off, aged, sendLock>>
        /\ snd' = [snd EXCEPT ![k] = [pc |-> "lock", from |-> f, to |-> t]]
    BY <1>5 DEF SendBegin
  <2> QED BY <2>1 DEF QueueTypes, SendRow
<1>6. ASSUME NEW x \in Session \cup {"global"}, Toggle(x) PROVE QueueTypes'
  BY <1>6 DEF Toggle, QueueTypes
<1>7. CASE Ages
  <2>1. /\ UNCHANGED <<msgs, delivered, off, snd, sendLock>>
        /\ aged < Len(msgs) /\ aged' = aged + 1
    BY <1>7 DEF Ages
  <2> QED BY <2>1 DEF QueueTypes
<1>8. ASSUME NEW k \in Flusher, FlushMark(k) PROVE QueueTypes'
  <2>1. /\ UNCHANGED <<msgs, off, aged, snd, sendLock>> /\ fl[k].pc = "mark"
        /\ delivered' = delivered \cup Range(fl[k].batch)
    BY <1>8 DEF FlushMark
  <2>2. fl[k].batch \in Seq(Nat) BY DEF FlushTypes, FlushRow
  <2>3. Range(fl[k].batch) \subseteq 1..Len(msgs)
    BY <1>8, <2>1, <2>2 DEF Range, BatchIsOldest, HasBatch, OldestFor, Queued
  <2> QED BY <2>1, <2>3 DEF QueueTypes
<1>9. CASE Restart
  <2>1. /\ UNCHANGED <<msgs, delivered, off, aged>>
        /\ snd' = [k \in Sender |-> Idle] /\ sendLock' = None
    BY <1>9 DEF Restart, Stopped
  <2> QED BY <2>1 DEF QueueTypes, SendRow, Idle
<1>10. ASSUME NEW k \in Flusher,
              \/ \E t \in Session : FlushLock(k, t)
              \/ FlushSettle(k) \/ FlushRead(k) \/ FlushTake(k) \/ FlushRecord(k)
              \/ FlushDeliver(k) \/ FlushDeliverErr(k) \/ FlushStartErr(k) \/ FlushMarkErr(k)
       PROVE  UNCHANGED queue
  BY <1>10 DEF FlushLock, FlushSettle, FlushRead, FlushTake, FlushRecord, FlushDeliver,
               FlushDeliverErr, FlushStartErr, FlushMarkErr
<1>11. ASSUME WatchLagged \/ WatchEvent PROVE UNCHANGED queue
  BY <1>11 DEF WatchLagged, WatchEvent
<1>12. ASSUME NEW s \in Session,
              \/ UserRecord(s) \/ Pump(s) \/ UserDeliver(s) \/ AgentReads(s) \/ TurnEnds(s)
              \/ AgentExits(s) \/ EndMember(s) \/ Noticed(s)
       PROVE  UNCHANGED queue
  BY <1>12 DEF UserRecord, Pump, UserDeliver, AgentReads, TurnEnds, AgentExits, EndMember, Noticed
<1>13. CASE UNCHANGED vars BY <1>1, <1>13 DEF vars
<1> QED BY <1>1, <1>2, <1>3, <1>4, <1>5, <1>6, <1>7, <1>8, <1>9, <1>10, <1>11, <1>12, <1>13,
           LimitsAssumption DEF Next, FlushStep

\* A counter goes up; a call of flush is asked for.
LEMMA BumpTypes ==
  ASSUME count \in Counts, NEW f, f \in {"user", "mention", "notice", "toggle", "fault", "mark", "restart"},
         Bump(f)
  PROVE  count' \in Counts
BY DEF Bump, Counts

LEMMA WantTypes ==
  ASSUME FlushTypes, NEW t, want' = [want EXCEPT ![t] = @ + 1] PROVE want' \in [Session -> Nat]
<1>1. want \in [Session -> Nat] BY DEF FlushTypes
<1>2. \A u \in Session : want'[u] \in Nat BY <1>1
<1> QED BY <1>1, <1>2

LEMMA ReturnTypes ==
  ASSUME FlushTypes, NEW k \in Flusher, Return(k)
  PROVE  fl' \in [Flusher -> FlushRow] /\ flushLock' \in [Session -> Flusher \cup {None}]
<1>1. <<>> \in Seq(Nat) /\ 0 \in Nat OBVIOUS
<1>2. NoFlush \in FlushRow BY <1>1 DEF FlushRow, NoFlush
<1> QED BY <1>2 DEF Return, FlushTypes

\* the batch is a list of queue positions
LEMMA PendingOldest ==
  ASSUME QueueTypes, NEW t
  PROVE  /\ PendingFor(t) \in Seq(Nat)
         /\ PendingFor(t) # <<>> => OldestFor(t, PendingFor(t))
         /\ PendingFor(t) = <<>> <=> Queued(t) = {}
<1> DEFINE S == Queued(t)
           c == Cardinality(S)
           b == Ascending(S)
<1>1. Len(msgs) \in Nat /\ S \subseteq 1..Len(msgs) BY DEF QueueTypes, Queued
<1>2. IsFiniteSet(S) /\ S \in SUBSET Int /\ \A i \in S : i \in Nat
  <2>1. IsFiniteSet(1..Len(msgs)) BY <1>1, FS_Interval
  <2>2. S \in SUBSET (1..Len(msgs)) BY <1>1
  <2>3. IsFiniteSet(S) BY <2>1, <2>2, FS_Subset
  <2> QED BY <1>1, <2>3
<1> HIDE DEF S
<1>3. /\ c \in Nat /\ b \in [1..c -> S]
      /\ \A m, n \in 1..c : m < n => b[m] < b[n]
      /\ \A i \in S : \E n \in 1..c : b[n] = i
  BY <1>2, AscendingOrder, Zenon
<1> HIDE DEF c, b
<1>4. b \in Seq(Nat) /\ Len(b) = c
  <2>1. b \in [1..c -> Nat] BY <1>2, <1>3
  <2> QED BY <1>3, <2>1
<1>5. b = <<>> <=> c = 0 BY <1>3, <1>4
<1>6. b # <<>> => /\ \A n \in 1..Len(b) : b[n] \in S
                  /\ \A m, n \in 1..Len(b) : m < n => b[m] < b[n]
                  /\ \A i \in S : i < b[Len(b)] => \E n \in 1..Len(b) : b[n] = i
  BY <1>3, <1>4
<1>7. b = <<>> <=> S = {}
  <2>1. c = 0 => S = {} BY <1>3
  <2>2. c # 0 => S # {} BY <1>3
  <2> QED BY <1>5, <2>1, <2>2
<1> QED BY <1>4, <1>6, <1>7, Zenon DEF PendingFor, OldestFor, S, b

\* A flush goes on to r, before its message is handed over.
Moves(k, r) ==
    /\ fl' = [fl EXCEPT ![k] = r] /\ UNCHANGED flushLock
    /\ r \in FlushRow /\ r.t = fl[k].t
    /\ {fl[k].pc, r.pc} \cap {"idle", "mark"} = {}
    /\ IF r.pc \in {"start", "deliver"} THEN OldestFor(r.t, r.batch) ELSE r.batch = <<>>

LEMMA FlushMoves ==
  ASSUME A2ATypes, LockHeld, BatchIsOldest, NEW k \in Flusher,
         FlushSettle(k) \/ FlushRead(k) \/ FlushTake(k) \/ FlushRecord(k)
  PROVE  /\ UNCHANGED <<msgs, delivered, got, want, count>>
         /\ awaiting' \in [Session -> Int]
         /\ (Return(k) /\ fl[k].pc \notin {"idle", "mark"}) \/ \E r : Moves(k, r)
<1> USE DEF A2ATypes
<1>1. UNCHANGED <<msgs, delivered, got, want, count>>
  BY DEF FlushSettle, FlushRead, FlushTake, FlushRecord, queue, sessions
<1>2. fl[k] \in FlushRow /\ fl \in [Flusher -> FlushRow] BY DEF FlushTypes
<1>3. CASE FlushSettle(k)
  <2> DEFINE r == [fl[k] EXCEPT !.pc = "read"]
  <2>1. CASE awaiting[fl[k].t] = -1 \/ Ended(fl[k].t)
    <3>1. /\ fl' = [fl EXCEPT ![k] = r] /\ UNCHANGED flushLock /\ fl[k].pc = "settle"
          /\ awaiting' = [awaiting EXCEPT ![fl[k].t] = -1]
      BY <1>2, <1>3, <2>1 DEF FlushSettle
    <3>2. r \in FlushRow /\ r.t = fl[k].t /\ r.pc = "read" /\ r.batch = fl[k].batch
      BY <1>2 DEF FlushRow
    <3>3. r.batch = <<>> BY <3>1, <3>2 DEF BatchIsOldest, HasBatch
    <3> HIDE DEF r
    <3>4. Moves(k, r) BY <3>1, <3>2, <3>3 DEF Moves
    <3>5. awaiting' \in [Session -> Int]
      <4>1. awaiting \in [Session -> Int] /\ -1 \in Int BY DEF FlushTypes
      <4>2. awaiting' = [awaiting EXCEPT ![fl[k].t] = -1] BY <3>1
      <4> QED BY <4>1, <4>2
    <3> QED BY <1>1, <3>4, <3>5
  <2> QED BY <1>1, <1>3, <2>1 DEF FlushSettle, FlushTypes
<1>4. CASE FlushRead(k)
  <2> DEFINE r == [fl[k] EXCEPT !.pc = "take", !.seq = Len(log[fl[k].t])]
  <2>1. CASE ~(status[fl[k].t] \in Busy)
    <3>1. fl' = [fl EXCEPT ![k] = r] /\ UNCHANGED <<flushLock, awaiting>> /\ fl[k].pc = "read"
      BY <1>2, <1>4, <2>1 DEF FlushRead
    <3>2. Len(log[fl[k].t]) \in Nat BY <3>1 DEF LockHeld, AgentTypes
    <3>3. r \in FlushRow /\ r.t = fl[k].t /\ r.pc = "take" /\ r.batch = fl[k].batch
      BY <1>2, <3>2 DEF FlushRow
    <3>4. r.batch = <<>> BY <3>1, <3>3 DEF BatchIsOldest, HasBatch
    <3> HIDE DEF r
    <3>5. Moves(k, r) BY <3>1, <3>3, <3>4 DEF Moves
    <3> QED BY <1>1, <3>1, <3>5 DEF FlushTypes
  <2> QED BY <1>1, <1>4, <2>1 DEF FlushRead, FlushTypes
<1>5. CASE FlushTake(k)
  <2> DEFINE r == [fl[k] EXCEPT !.pc = "start", !.batch = PendingFor(fl[k].t)]
  <2>1. CASE PendingFor(fl[k].t) # <<>>
    <3>1. /\ fl' = [fl EXCEPT ![k] = r] /\ UNCHANGED flushLock /\ fl[k].pc = "take"
          /\ awaiting' = [awaiting EXCEPT ![fl[k].t] = fl[k].seq]
      BY <1>2, <1>5, <2>1 DEF FlushTake
    <3>2. PendingFor(fl[k].t) \in Seq(Nat) /\ OldestFor(fl[k].t, PendingFor(fl[k].t))
      BY <2>1, PendingOldest
    <3>3. r \in FlushRow /\ r.t = fl[k].t /\ r.pc = "start" /\ r.batch = PendingFor(fl[k].t)
      BY <1>2, <3>2 DEF FlushRow
    <3>4. fl[k].seq \in Int BY <1>2 DEF FlushRow
    <3> HIDE DEF r
    <3>5. Moves(k, r) BY <3>1, <3>2, <3>3 DEF Moves
    <3> QED BY <1>1, <3>1, <3>4, <3>5 DEF FlushTypes
  <2> QED BY <1>1, <1>5, <2>1 DEF FlushTake, FlushTypes
<1>6. CASE FlushRecord(k)
  <2> DEFINE r == [fl[k] EXCEPT !.pc = "deliver"]
  <2>1. fl' = [fl EXCEPT ![k] = r] /\ UNCHANGED <<flushLock, awaiting>> /\ fl[k].pc = "start"
    BY <1>2, <1>6 DEF FlushRecord
  <2>2. r \in FlushRow /\ r.t = fl[k].t /\ r.pc = "deliver" /\ r.batch = fl[k].batch
    BY <1>2 DEF FlushRow
  <2>3. OldestFor(r.t, r.batch) BY <2>1, <2>2 DEF BatchIsOldest, HasBatch
  <2> HIDE DEF r
  <2>4. Moves(k, r) BY <2>1, <2>2, <2>3 DEF Moves
  <2> QED BY <1>1, <2>1, <2>4 DEF FlushTypes
<1> QED BY <1>3, <1>4, <1>5, <1>6

LEMMA FlushTypesStep == ASSUME A2ATypes, LockHeld, BatchIsOldest, [Next]_vars PROVE FlushTypes'
<1> USE DEF A2ATypes
<1>1. CASE UNCHANGED <<flushes, count>> BY <1>1 DEF FlushTypes, flushes
<1>2. ASSUME NEW f \in {"user", "mention", "notice", "toggle", "fault", "mark", "restart"},
             Bump(f), UNCHANGED flushes
      PROVE  FlushTypes'
  BY <1>2, BumpTypes DEF FlushTypes, flushes
<1>3. ASSUME NEW k \in Sender, SendInsert(k) PROVE FlushTypes'
  BY <1>3, WantTypes DEF SendInsert, FlushTypes, watch
<1>4. ASSUME NEW f \in Session, NEW t \in Session, Mention(f, t) PROVE FlushTypes'
  BY <1>4, WantTypes, BumpTypes DEF Mention, FlushTypes
<1>5. ASSUME NEW k \in Flusher, NEW t \in Session, FlushLock(k, t) PROVE FlushTypes'
  <2> DEFINE r == [NoFlush EXCEPT !.pc = "settle", !.t = t]
  <2>1. /\ want[t] > 0 /\ want' = [want EXCEPT ![t] = @ - 1]
        /\ flushLock' = [flushLock EXCEPT ![t] = k]
        /\ fl' = [fl EXCEPT ![k] = r] /\ UNCHANGED <<awaiting, count>>
    BY <1>5 DEF FlushLock
  <2>2. r \in FlushRow
    <3>1. <<>> \in Seq(Nat) /\ 0 \in Nat OBVIOUS
    <3> QED BY <3>1 DEF NoFlush, FlushRow
  <2> HIDE DEF r
  <2> QED BY <2>1, <2>2 DEF FlushTypes
<1>6. ASSUME NEW k \in Flusher,
             FlushSettle(k) \/ FlushRead(k) \/ FlushTake(k) \/ FlushRecord(k)
      PROVE  FlushTypes'
  <2>1. UNCHANGED <<want, count>> /\ awaiting' \in [Session -> Int] BY <1>6, FlushMoves
  <2>2. fl' \in [Flusher -> FlushRow] /\ flushLock' \in [Session -> Flusher \cup {None}]
    BY <1>6, FlushMoves, ReturnTypes DEF Moves, FlushTypes
  <2> QED BY <2>1, <2>2 DEF FlushTypes
<1>7. ASSUME NEW k \in Flusher, FlushStartErr(k) \/ FlushDeliverErr(k) \/ FlushMark(k) \/ FlushMarkErr(k)
      PROVE  FlushTypes'
  <2>1. UNCHANGED want /\ Return(k)
    BY <1>7 DEF FlushStartErr, FlushDeliverErr, FlushMark, FlushMarkErr, Failed
  <2>2. fl' \in [Flusher -> FlushRow] /\ flushLock' \in [Session -> Flusher \cup {None}]
    BY <2>1, ReturnTypes
  <2>3. count' \in Counts
    BY <1>7, BumpTypes DEF FlushStartErr, FlushDeliverErr, FlushMark, FlushMarkErr, FlushTypes
  <2>4. awaiting' \in [Session -> Int]
    BY <1>7 DEF FlushStartErr, FlushDeliverErr, FlushMark, FlushMarkErr, Failed, FlushTypes
  <2> QED BY <2>1, <2>2, <2>3, <2>4 DEF FlushTypes
<1>8. ASSUME NEW k \in Flusher, FlushDeliver(k) PROVE FlushTypes'
  <2>1. fl' = [fl EXCEPT ![k].pc = "mark"] /\ UNCHANGED <<want, flushLock, awaiting, count>>
    BY <1>8 DEF FlushDeliver
  <2> QED BY <2>1 DEF FlushTypes, FlushRow
<1>9. CASE WatchLagged
  BY <1>9 DEF WatchLagged, FlushAll, FlushTypes
<1>10. CASE WatchEvent
  <2>1. /\ UNCHANGED <<fl, flushLock, count>>
        /\ \/ UNCHANGED <<awaiting, want>>
           \/ \E s, n : /\ want' = [want EXCEPT ![s] = @ + 1]
                        /\ awaiting' = [awaiting EXCEPT ![s] = IF @ # -1 /\ n > @ THEN -1 ELSE @]
    BY <1>10 DEF WatchEvent
  <2> QED BY <2>1 DEF FlushTypes
<1>11. CASE Restart
  <2>1. /\ fl' = [k \in Flusher |-> NoFlush] /\ flushLock' = [s \in Session |-> None]
        /\ awaiting' = [s \in Session |-> -1] /\ Bump("restart")
        /\ want' = [t \in Session |-> IF HasPending(t) THEN 1 ELSE 0]
    BY <1>11 DEF Restart, Stopped
  <2> QED BY <2>1, BumpTypes DEF FlushTypes, NoFlush, FlushRow
<1>12. ASSUME NEW k \in Sender, SendCheck(k) \/ SendRefused(k) PROVE FlushTypes'
  BY <1>12, <1>1, <1>2 DEF SendCheck, SendRefused, watch, flushes
<1>13. ASSUME NEW k \in Sender, NEW f \in Session, NEW t \in Session, SendBegin(k, f, t)
       PROVE  FlushTypes'
  BY <1>1, <1>13 DEF SendBegin
<1>14. ASSUME NEW x \in Session \cup {"global"}, Toggle(x) PROVE FlushTypes'
  BY <1>2, <1>14 DEF Toggle
<1>15. CASE Ages BY <1>1, <1>15 DEF Ages
<1>16. ASSUME NEW s \in Session,
              \/ UserRecord(s) \/ Pump(s) \/ UserDeliver(s) \/ AgentReads(s) \/ TurnEnds(s)
              \/ AgentExits(s) \/ EndMember(s) \/ Noticed(s)
       PROVE  FlushTypes'
  BY <1>1, <1>2, <1>16 DEF UserRecord, Pump, UserDeliver, AgentReads, TurnEnds, AgentExits,
                           EndMember, Noticed
<1>17. CASE UNCHANGED vars BY <1>1, <1>17 DEF vars
<1> QED BY <1>3, <1>4, <1>5, <1>6, <1>7, <1>8, <1>9, <1>10, <1>11, <1>12, <1>13, <1>14, <1>15,
           <1>16, <1>17, LimitsAssumption DEF Next, FlushStep

\* Putting one more thing into a session's list.
LEMMA ListGrows ==
  ASSUME NEW S, NEW q \in [Session -> Seq(S)], NEW x, NEW v \in S
  PROVE  [q EXCEPT ![x] = Append(@, v)] \in [Session -> Seq(S)]
<1>1. \A y \in Session : Append(q[y], v) \in Seq(S) OBVIOUS
<1> QED BY <1>1

LEMMA TwoListsGrow ==
  ASSUME NEW S, NEW q \in [Session -> Seq(S)], NEW x \in Session, NEW y \in Session, NEW v \in S
  PROVE  [q EXCEPT ![x] = Append(@, v), ![y] = Append(@, v)] \in [Session -> Seq(S)]
<1> DEFINE Add(l) == Append(l, v)
<1>1. \A l \in Seq(S) : Add(l) \in Seq(S) OBVIOUS
<1> HIDE DEF Add
<1>2. [q EXCEPT ![x] = Add(@), ![y] = Add(@)] \in [Session -> Seq(S)]
  <2>1. CASE x = y BY <1>1, <2>1
  <2>2. CASE x # y BY <1>1, <2>2
  <2> QED BY <2>1, <2>2
<1> QED BY <1>2 DEF Add

LEMMA EventsTyped ==
  /\ EndEvent \in Event /\ NoticeEvent \in Event
  /\ \A b \in Seq(Nat) : MsgEvent(b) \in Event
<1>1. <<>> \in Seq(Nat) OBVIOUS
<1> QED BY <1>1 DEF Event, EndEvent, NoticeEvent, MsgEvent

LEMMA AgentTypesStep == ASSUME A2ATypes, LockHeld, [Next]_vars PROVE AgentTypes'
<1> USE DEF A2ATypes
<1>0. /\ log \in [Session -> Seq(Event)] /\ chan \in [Session -> Seq(Event)]
      /\ got \in [Session -> Seq(Nat)]
      /\ status \in [Session -> {"Idle", "Running", "Finished"}]
      /\ agent \in [Session -> {"down", "up", "dead"}]
      /\ user \subseteq Session /\ owed \subseteq Session
      /\ active \subseteq Session /\ working \subseteq Session
  BY DEF AgentTypes
<1>1. CASE UNCHANGED sessions BY <1>1 DEF AgentTypes, sessions
<1>2. ASSUME NEW k \in Sender, SendRefused(k) PROVE AgentTypes'
  <2> DEFINE f == snd[k].from
             t == snd[k].to
  <2>1. /\ f \in Session /\ t \in Session
        /\ UNCHANGED <<status, chan, agent, got, active, working, user, owed>>
        /\ \/ UNCHANGED log
           \/ log' = [log EXCEPT ![f] = Append(@, NoticeEvent), ![t] = Append(@, NoticeEvent)]
    BY <1>2 DEF SendRefused, QueueTypes
  <2> HIDE DEF f, t
  <2>2. log' \in [Session -> Seq(Event)]
    <3>1. [log EXCEPT ![f] = Append(@, NoticeEvent), ![t] = Append(@, NoticeEvent)]
             \in [Session -> Seq(Event)]
      BY <1>0, <2>1, EventsTyped, TwoListsGrow, Zenon
    <3> QED BY <1>0, <2>1, <3>1, Zenon
  <2> QED BY <1>0, <2>1, <2>2 DEF AgentTypes
<1>3. ASSUME NEW f \in Session, NEW t \in Session, Mention(f, t) PROVE AgentTypes'
  BY <1>0, <1>3 DEF Mention, AgentTypes
<1>4. ASSUME NEW k \in Flusher, FlushRecord(k) PROVE AgentTypes'
  <2> DEFINE e == MsgEvent(fl[k].batch)
  <2>1. /\ UNCHANGED <<log, status, got, active, working, user, owed>>
        /\ agent' = [agent EXCEPT ![fl[k].t] = IF @ = "down" THEN "up" ELSE @]
        /\ chan' = [chan EXCEPT ![fl[k].t] = Append(@, e)]
    BY <1>4 DEF FlushRecord
  <2>2. e \in Event
    <3>1. fl[k].batch \in Seq(Nat) BY DEF FlushTypes, FlushRow
    <3> QED BY <3>1, EventsTyped
  <2> HIDE DEF e
  <2>3. chan' \in [Session -> Seq(Event)] BY <1>0, <2>1, <2>2, ListGrows
  <2> QED BY <1>0, <2>1, <2>3 DEF AgentTypes
<1>5. ASSUME NEW k \in Flusher, FlushDeliver(k) PROVE AgentTypes'
  <2> DEFINE b == fl[k].batch
  <2>1. /\ UNCHANGED <<log, status, chan, agent, working, user, owed>>
        /\ active' = active \cup {fl[k].t} /\ fl[k].pc = "deliver"
        /\ got' = [got EXCEPT ![fl[k].t] = @ \o b]
    BY <1>5 DEF FlushDeliver
  <2>2. fl[k].t \in Session BY <2>1 DEF LockHeld
  <2>3. b \in Seq(Nat) BY DEF FlushTypes, FlushRow
  <2> HIDE DEF b
  <2>4. got' \in [Session -> Seq(Nat)]
    <3>1. \A y \in Session : got[y] \o b \in Seq(Nat) BY <1>0, <2>3
    <3> QED BY <1>0, <2>1, <3>1
  <2> QED BY <1>0, <2>1, <2>2, <2>4 DEF AgentTypes
<1>6. ASSUME NEW s \in Session, Pump(s) PROVE AgentTypes'
  <2> DEFINE e == Head(chan[s])
  <2>1. /\ UNCHANGED <<agent, got, active, working, user, owed>> /\ chan[s] # <<>>
        /\ chan' = [chan EXCEPT ![s] = Tail(@)]
        /\ log' = [log EXCEPT ![s] = Append(@, e)]
        /\ status' = [status EXCEPT ![s] = After(@, e)]
    BY <1>6 DEF Pump
  <2>2. e \in Event /\ Tail(chan[s]) \in Seq(Event) BY <1>0, <2>1
  <2> HIDE DEF e
  <2>3. log' \in [Session -> Seq(Event)] BY <1>0, <2>1, <2>2, ListGrows
  <2>4. chan' \in [Session -> Seq(Event)] BY <1>0, <2>1, <2>2
  <2>5. status' \in [Session -> {"Idle", "Running", "Finished"}] BY <1>0, <2>1 DEF After
  <2> QED BY <1>0, <2>1, <2>3, <2>4, <2>5 DEF AgentTypes
<1>7. ASSUME NEW s \in Session, Noticed(s) PROVE AgentTypes'
  <2>1. /\ UNCHANGED <<status, chan, agent, got, active, working, user>>
        /\ log' = [log EXCEPT ![s] = Append(@, NoticeEvent)] /\ owed' = owed \ {s}
    BY <1>7 DEF Noticed
  <2>2. log' \in [Session -> Seq(Event)] BY <1>0, <2>1, EventsTyped, ListGrows
  <2> QED BY <1>0, <2>1, <2>2 DEF AgentTypes
<1>8. ASSUME NEW s \in Session, UserRecord(s) PROVE AgentTypes'
  <2>1. /\ UNCHANGED <<log, status, got, active, working, owed>> /\ user' = user \cup {s}
        /\ agent' = [agent EXCEPT ![s] = IF @ = "down" THEN "up" ELSE @]
        /\ chan' = [chan EXCEPT ![s] = Append(@, MsgEvent(<<>>))]
    BY <1>8 DEF UserRecord
  <2>2. <<>> \in Seq(Nat) OBVIOUS
  <2>3. chan' \in [Session -> Seq(Event)] BY <1>0, <2>1, <2>2, EventsTyped, ListGrows
  <2> QED BY <1>0, <2>1, <2>3 DEF AgentTypes
<1>9. ASSUME NEW s \in Session, UserDeliver(s) \/ AgentReads(s) \/ EndMember(s) PROVE AgentTypes'
  <2>1. UNCHANGED <<log, status, chan, got>>
    BY <1>9 DEF UserDeliver, AgentReads, EndMember
  <2>2. /\ agent' \in [Session -> {"down", "up", "dead"}]
        /\ user' \subseteq Session /\ owed' \subseteq Session
        /\ active' \subseteq Session /\ working' \subseteq Session
    BY <1>0, <1>9 DEF UserDeliver, AgentReads, EndMember
  <2> QED BY <1>0, <2>1, <2>2 DEF AgentTypes
<1>10. ASSUME NEW s \in Session, TurnEnds(s) \/ AgentExits(s) PROVE AgentTypes'
  <2>1. /\ UNCHANGED <<log, status, got, user, owed>>
        /\ active' = active \ {s} /\ working' = working \ {s}
        /\ agent' \in [Session -> {"down", "up", "dead"}]
        /\ UNCHANGED chan \/ chan' = [chan EXCEPT ![s] = Append(@, EndEvent)]
    BY <1>0, <1>10 DEF TurnEnds, AgentExits
  <2>2. [chan EXCEPT ![s] = Append(@, EndEvent)] \in [Session -> Seq(Event)]
    BY <1>0, EventsTyped, ListGrows
  <2>3. chan' \in [Session -> Seq(Event)] BY <1>0, <2>1, <2>2, Zenon
  <2> QED BY <1>0, <2>1, <2>3 DEF AgentTypes
<1>11. CASE Restart
  <2>1. /\ UNCHANGED <<log, got>> /\ user' = {} /\ owed' = {} /\ active' = {} /\ working' = {}
        /\ status' = [s \in Session |-> IF status[s] \in Busy THEN "Idle" ELSE status[s]]
        /\ agent' = [s \in Session |-> "down"] /\ chan' = [s \in Session |-> <<>>]
    BY <1>11 DEF Restart, Stopped
  <2>2. chan' \in [Session -> Seq(Event)] BY <2>1
  <2>3. status' \in [Session -> {"Idle", "Running", "Finished"}] BY <1>0, <2>1
  <2> QED BY <1>0, <2>1, <2>2, <2>3 DEF AgentTypes
<1>12. ASSUME \/ \E k \in Sender : SendCheck(k) \/ SendInsert(k)
              \/ \E k \in Sender, f, t \in Session : SendBegin(k, f, t)
              \/ \E x \in Session \cup {"global"} : Toggle(x)
              \/ Ages \/ WatchLagged \/ WatchEvent
       PROVE  UNCHANGED sessions
  BY <1>12 DEF SendCheck, SendInsert, SendBegin, Toggle, Ages, WatchLagged, WatchEvent
<1>13. ASSUME NEW k \in Flusher,
              \/ \E t \in Session : FlushLock(k, t)
              \/ FlushSettle(k) \/ FlushRead(k) \/ FlushTake(k) \/ FlushDeliverErr(k)
              \/ FlushMark(k) \/ FlushStartErr(k) \/ FlushMarkErr(k)
       PROVE  UNCHANGED sessions
  BY <1>13 DEF FlushLock, FlushSettle, FlushRead, FlushTake, FlushDeliverErr, FlushMark,
               FlushStartErr, FlushMarkErr
<1>14. CASE UNCHANGED vars BY <1>1, <1>14 DEF vars
<1> QED BY <1>1, <1>2, <1>3, <1>4, <1>5, <1>6, <1>7, <1>8, <1>9, <1>10, <1>11, <1>12, <1>13,
           <1>14, LimitsAssumption DEF Next, FlushStep

LEMMA TypesStep == ASSUME MailInv, [Next]_vars PROVE A2ATypes'
BY QueueTypesStep, FlushTypesStep, AgentTypesStep DEF MailInv, A2ATypes

-----------------------------------------------------------------------------
(* The mailbox's steps: messages are posted, handed over, acknowledged, and*)
(* faults happen; everything else leaves what MailInv relates alone.       *)

Mailboxes == <<msgs, delivered, got, Faulted>>

LEMMA HandedNat == ASSUME A2ATypes, NEW t \in Session, NEW i PROVE Handed(t, i) \in Nat
<1>1. Len(got[t]) \in Nat BY DEF A2ATypes, AgentTypes
<1>2. IsFiniteSet({n \in 1..Len(got[t]) : got[t][n] = i})
  <2>1. IsFiniteSet(1..Len(got[t])) BY <1>1, FS_Interval
  <2>2. {n \in 1..Len(got[t]) : got[t][n] = i} \in SUBSET (1..Len(got[t])) OBVIOUS
  <2> QED BY <2>1, <2>2, FS_Subset
<1> QED BY <1>2, FS_CardinalityType DEF Handed, TimesIn

LEMMA QuietKeeps ==
  ASSUME MailInv, A2ATypes', UNCHANGED Mailboxes, UNCHANGED <<fl, flushLock>> PROVE MailInv'
<1> USE DEF MailInv, Mailboxes
<1>1. LockHeld' BY DEF LockHeld
<1>2. BatchIsOldest' BY DEF BatchIsOldest, HasBatch, OldestFor, Queued
<1>3. HandedOnce' BY DEF HandedOnce, Handed, Marking, Queued
<1>4. HandedKnown' BY DEF HandedKnown
<1> QED BY <1>1, <1>2, <1>3, <1>4

\* The new message comes after all that is queued.
LEMMA PostKeeps ==
  ASSUME MailInv, A2ATypes', NEW m \in Message, msgs' = Append(msgs, m),
         UNCHANGED <<delivered, got, fl, flushLock, Faulted>>
  PROVE  MailInv'
<1> USE DEF MailInv
<1>1. /\ Len(msgs) \in Nat /\ Len(msgs') = Len(msgs) + 1
      /\ \A i \in 1..Len(msgs) : msgs'[i] = msgs[i]
  BY DEF A2ATypes, QueueTypes
<1>2. \A t : /\ Queued(t) \subseteq 1..Len(msgs) /\ Queued(t) \subseteq Queued(t)'
             /\ \A i \in Queued(t)' : i \in Queued(t) \/ i = Len(msgs) + 1
  BY <1>1 DEF Queued
<1>3. LockHeld' BY DEF LockHeld
<1>4. BatchIsOldest'
  <2> SUFFICES ASSUME NEW k \in Flusher, HasBatch(k) PROVE OldestFor(fl[k].t, fl[k].batch)'
    BY DEF BatchIsOldest, HasBatch
  <2> DEFINE b == fl[k].batch
             t == fl[k].t
  <2>1. OldestFor(t, b) /\ b \in Seq(Nat) BY DEF BatchIsOldest, A2ATypes, FlushTypes, FlushRow
  <2>2. b[Len(b)] \in Queued(t) BY <2>1 DEF OldestFor
  <2>3. \A i \in Queued(t)' : i < b[Len(b)] => i \in Queued(t) BY <1>1, <1>2, <2>2
  <2> QED BY <1>2, <2>1, <2>3 DEF OldestFor
<1>5. HandedKnown'
  <2>1. \A i \in 1..Len(msgs) : i \in 1..Len(msgs') BY <1>1
  <2> QED BY <2>1 DEF HandedKnown
<1>6. HandedOnce'
  <2> SUFFICES ASSUME NEW t \in Session, NEW i \in Queued(t)'
               PROVE  Handed(t, i) <= Faulted + 1 /\ (~Marking(t, i) => Handed(t, i) <= Faulted)
    BY DEF HandedOnce, Handed, Marking
  <2>1. CASE i \in Queued(t) BY <2>1 DEF HandedOnce
  <2>2. CASE i = Len(msgs) + 1
    <3>1. {n \in 1..Len(got[t]) : got[t][n] = i} = {} BY <1>1, <2>2 DEF HandedKnown
    <3>2. Handed(t, i) = 0 BY <3>1, FS_EmptySet DEF Handed, TimesIn
    <3>3. Faulted \in Nat
      <4>1. count \in Counts BY DEF A2ATypes, FlushTypes
      <4> HIDE DEF MailInv
      <4> QED BY <4>1 DEF Faulted, Counts
    <3> QED BY <3>2, <3>3
  <2> QED BY <1>2, <2>1, <2>2
<1> QED BY <1>3, <1>4, <1>5, <1>6

\* A flush gets the lock, reads the batch, or records it.
LEMMA MovesKeep ==
  ASSUME MailInv, A2ATypes', NEW k \in Flusher, NEW r,
         fl' = [fl EXCEPT ![k] = r], {fl[k].pc, r.pc} \cap {"mark"} = {},
         IF r.pc \in {"start", "deliver"} THEN OldestFor(r.t, r.batch) ELSE r.batch = <<>>,
         LockHeld', UNCHANGED Mailboxes
  PROVE  MailInv'
<1> USE DEF MailInv, Mailboxes
<1>1. fl \in [Flusher -> FlushRow] BY DEF A2ATypes, FlushTypes
<1>2. fl'[k] = r /\ \A j \in Flusher : j # k => fl'[j] = fl[j] BY <1>1
<1>3. \A t, b : OldestFor(t, b)' <=> OldestFor(t, b) BY DEF OldestFor, Queued
<1>4. BatchIsOldest' BY <1>2, <1>3 DEF BatchIsOldest, HasBatch
<1>5. \A t, i : Marking(t, i)' <=> Marking(t, i) BY <1>2 DEF Marking
<1>6. HandedOnce' BY <1>5 DEF HandedOnce, Handed, Queued
<1>7. HandedKnown' BY <1>2 DEF HandedKnown
<1> QED BY <1>4, <1>6, <1>7

\* A flush that has not handed anything over gives up.
LEMMA ReturnKeeps ==
  ASSUME MailInv, A2ATypes', NEW k \in Flusher, Return(k), fl[k].pc \notin {"idle", "mark"},
         UNCHANGED Mailboxes
  PROVE  MailInv'
<1>1. fl' = [fl EXCEPT ![k] = NoFlush] /\ flushLock' = [flushLock EXCEPT ![fl[k].t] = None]
  BY DEF Return
<1>2. fl \in [Flusher -> FlushRow] /\ flushLock \in [Session -> Flusher \cup {None}]
  BY DEF MailInv, A2ATypes, FlushTypes
<1>3. LockHeld' BY <1>1, <1>2 DEF MailInv, LockHeld, NoFlush
<1> QED BY <1>1, <1>3, MovesKeep DEF NoFlush

\* Two flushes never hold the lock of one session.
LEMMA LockKeeps ==
  ASSUME MailInv, A2ATypes', NEW k \in Flusher, NEW t \in Session, FlushLock(k, t) PROVE MailInv'
<1> USE DEF MailInv
<1> DEFINE r == [NoFlush EXCEPT !.pc = "settle", !.t = t]
<1>1. /\ fl[k].pc = "idle" /\ flushLock[t] = None /\ flushLock' = [flushLock EXCEPT ![t] = k]
      /\ fl' = [fl EXCEPT ![k] = r] /\ UNCHANGED <<msgs, delivered, got, count>>
  BY DEF FlushLock, queue, sessions
<1>2. fl \in [Flusher -> FlushRow] /\ flushLock \in [Session -> Flusher \cup {None}]
  BY DEF A2ATypes, FlushTypes
<1>3. r.pc = "settle" /\ r.t = t /\ r.batch = <<>> BY DEF NoFlush
<1> HIDE DEF r
<1>4. LockHeld'
  <2> SUFFICES ASSUME NEW j \in Flusher, fl'[j].pc # "idle"
               PROVE  fl'[j].t \in Session /\ flushLock'[fl'[j].t] = j
    BY DEF LockHeld
  <2>1. CASE j = k BY <1>1, <1>2, <1>3, <2>1
  <2>2. CASE j # k
    <3>1. fl'[j] = fl[j] BY <1>1, <1>2, <2>2
    <3>2. fl[j].t \in Session /\ flushLock[fl[j].t] = j BY <3>1 DEF LockHeld
    <3>3. fl[j].t # t BY <1>1, <3>2, LimitsAssumption
    <3> QED BY <1>1, <1>2, <3>1, <3>2, <3>3
  <2> QED BY <2>1, <2>2
<1>5. UNCHANGED Mailboxes BY <1>1 DEF Mailboxes, Faulted
<1> QED BY <1>1, <1>3, <1>4, <1>5, MovesKeep

\* What a list holds once more after an ascending batch was appended to it.
LEMMA OnceMore ==
  ASSUME NEW g \in Seq(Nat), NEW b \in Seq(Nat), NEW i,
         \A m, n \in 1..Len(b) : m < n => b[m] < b[n]
  PROVE  /\ TimesIn(g, i) \in Nat /\ TimesIn(g \o b, i) \in Nat
         /\ TimesIn(g \o b, i) <= TimesIn(g, i) + 1
         /\ (\A n \in 1..Len(b) : b[n] # i) => TimesIn(g \o b, i) = TimesIn(g, i)
<1> DEFINE G == {n \in 1..Len(g) : g[n] = i}
           H == {n \in 1..Len(g \o b) : (g \o b)[n] = i}
<1>1. /\ g \o b \in Seq(Nat) /\ Len(g \o b) = Len(g) + Len(b) /\ Len(g) \in Nat /\ Len(b) \in Nat
      /\ \A n \in 1..Len(g) : (g \o b)[n] = g[n]
      /\ \A n \in 1..(Len(g) + Len(b)) : n > Len(g) => (g \o b)[n] = b[n - Len(g)]
  OBVIOUS
<1>2. IsFiniteSet(G) /\ IsFiniteSet(H)
  <2>1. IsFiniteSet(1..Len(g)) /\ IsFiniteSet(1..Len(g \o b)) BY <1>1, FS_Interval
  <2>2. G \in SUBSET (1..Len(g)) /\ H \in SUBSET (1..Len(g \o b)) OBVIOUS
  <2> QED BY <2>1, <2>2, FS_Subset
<1>3. Cardinality(G) \in Nat /\ Cardinality(H) \in Nat BY <1>2, FS_CardinalityType
<1>4. ASSUME \A n \in 1..Len(b) : b[n] # i PROVE H = G
  <2> DEFINE gb == g \o b
  <2>1. /\ Len(gb) = Len(g) + Len(b) /\ \A n \in 1..Len(g) : gb[n] = g[n]
        /\ \A n \in 1..(Len(g) + Len(b)) : n > Len(g) => gb[n] = b[n - Len(g)]
    BY <1>1
  <2> HIDE DEF gb
  <2>2. {n \in 1..Len(gb) : gb[n] = i} = G BY <1>1, <1>4, <2>1
  <2> QED BY <2>2 DEF gb
<1>5. ASSUME NEW m \in 1..Len(b), b[m] = i PROVE H \subseteq G \cup {Len(g) + m}
  <2> DEFINE gb == g \o b
  <2>1. /\ Len(gb) = Len(g) + Len(b) /\ \A n \in 1..Len(g) : gb[n] = g[n]
        /\ \A n \in 1..(Len(g) + Len(b)) : n > Len(g) => gb[n] = b[n - Len(g)]
    BY <1>1
  <2> HIDE DEF gb
  <2>2. \A n \in 1..Len(b) : b[n] = i => n = m
    <3>1. \A n \in 1..Len(b) : b[n] \in Nat OBVIOUS
    <3> QED BY <1>1, <1>5, <3>1
  <2>3. ASSUME NEW n \in 1..Len(gb), gb[n] = i PROVE n \in G \cup {Len(g) + m}
    <3>1. CASE n <= Len(g) BY <1>1, <2>1, <2>3, <3>1
    <3>2. CASE n > Len(g)
      <4>1. n - Len(g) \in 1..Len(b) /\ b[n - Len(g)] = i BY <1>1, <2>1, <2>3, <3>2
      <4>2. n - Len(g) = m BY <2>2, <4>1
      <4>3. n = Len(g) + m BY <1>1, <3>2, <4>2
      <4> QED BY <4>3
    <3> QED BY <1>1, <2>1, <3>1, <3>2
  <2> QED BY <2>3 DEF gb
<1>6. Cardinality(H) <= Cardinality(G) + 1
  <2> HIDE DEF G, H
  <2>1. CASE \A n \in 1..Len(b) : b[n] # i BY <1>3, <1>4, <2>1
  <2>2. ASSUME NEW m \in 1..Len(b), b[m] = i PROVE Cardinality(H) <= Cardinality(G) + 1
    <3> DEFINE K == G \cup {Len(g) + m}
    <3>1. H \subseteq K BY <1>5, <2>2
    <3> DEFINE x == Len(g) + m
    <3> HIDE DEF x
    <3>2. /\ IsFiniteSet(G \cup {x})
          /\ Cardinality(G \cup {x}) = IF x \in G THEN Cardinality(G) ELSE Cardinality(G) + 1
      BY <1>2, FS_AddElement
    <3>3. Cardinality(H) <= Cardinality(G \cup {x}) BY <3>1, <3>2, FS_Subset DEF x
    <3> QED BY <1>3, <3>2, <3>3
  <2> QED BY <2>1, <2>2
<1> QED BY <1>3, <1>4, <1>6, Zenon DEF TimesIn

\* A flush of t is the only one.
LEMMA OnlyFlush ==
  ASSUME LockHeld, NEW k \in Flusher, NEW j \in Flusher, fl[k].pc # "idle", fl[j].pc # "idle",
         fl[j].t = fl[k].t
  PROVE  j = k
BY DEF LockHeld

\* What is handed over was read as the oldest of what is queued, and is so still.
LEMMA DeliverKeeps ==
  ASSUME MailInv, A2ATypes', NEW k \in Flusher, FlushDeliver(k) PROVE MailInv'
<1> USE DEF MailInv
<1>0. PICK t, b, g : t = fl[k].t /\ b = fl[k].batch /\ g = got[t] OBVIOUS
<1>1. /\ fl[k].pc = "deliver" /\ fl' = [fl EXCEPT ![k].pc = "mark"]
      /\ got' = [got EXCEPT ![t] = g \o b]
      /\ UNCHANGED <<msgs, delivered, flushLock, count>>
  BY <1>0 DEF FlushDeliver, queue
<1>2. /\ fl \in [Flusher -> FlushRow] /\ got \in [Session -> Seq(Nat)] /\ Faulted \in Nat
      /\ b \in Seq(Nat) /\ t \in Session /\ g \in Seq(Nat)
  <2>1. /\ fl \in [Flusher -> FlushRow] /\ got \in [Session -> Seq(Nat)] /\ count \in Counts
    BY DEF A2ATypes, FlushTypes, AgentTypes
  <2>2. Faulted \in Nat BY <2>1 DEF Faulted, Counts
  <2>3. t \in Session BY <1>0, <1>1 DEF LockHeld
  <2>4. fl[k] \in FlushRow /\ got[t] \in Seq(Nat) BY <2>1, <2>3
  <2>5. fl[k].batch \in Seq(Nat) BY <2>4 DEF FlushRow
  <2> QED BY <1>0, <2>1, <2>2, <2>3, <2>4, <2>5
<1>3. /\ fl'[k].pc = "mark" /\ fl'[k].t = t /\ fl'[k].batch = b
      /\ \A j \in Flusher : j # k => fl'[j] = fl[j]
  BY <1>0, <1>1, <1>2 DEF FlushRow
<1>4. OldestFor(t, b) /\ \A m, n \in 1..Len(b) : m < n => b[m] < b[n]
  BY <1>0, <1>1 DEF BatchIsOldest, HasBatch, OldestFor
<1>5. \A j \in Flusher : fl[j].pc = "mark" => fl[j].t # t BY <1>0, <1>1, OnlyFlush
<1>6. got'[t] = g \o b /\ \A u \in Session : u # t => got'[u] = got[u] BY <1>1, <1>2
<1>7. /\ Len(g \o b) = Len(g) + Len(b) /\ Len(g) \in Nat /\ Len(b) \in Nat
      /\ \A n \in 1..Len(g) : (g \o b)[n] = g[n]
      /\ \A n \in 1..(Len(g) + Len(b)) : n > Len(g) => (g \o b)[n] = b[n - Len(g)]
  BY <1>2
<1> DEFINE gb == g \o b
<1> HIDE DEF gb
<1>8. LockHeld' BY <1>0, <1>1, <1>2, <1>3 DEF LockHeld
<1>9. BatchIsOldest' BY <1>1, <1>3, <1>4 DEF BatchIsOldest, HasBatch, OldestFor, Queued
<1>10. \A u, i : Marking(u, i)' <=> Marking(u, i) \/ (u = t /\ \E n \in 1..Len(b) : b[n] = i)
  BY <1>0, <1>1, <1>3 DEF Marking
<1>11. HandedOnce'
  <2> SUFFICES ASSUME NEW u \in Session, NEW i \in Queued(u)
               PROVE  /\ Handed(u, i)' <= Faulted + 1
                      /\ ~Marking(u, i)' => Handed(u, i)' <= Faulted
    BY <1>1 DEF HandedOnce, Queued, Faulted
  <2>1. CASE u # t
    <3>1. Handed(u, i)' = Handed(u, i) BY <1>6, <2>1 DEF Handed
    <3> QED BY <1>10, <2>1, <3>1 DEF HandedOnce
  <2>2. CASE u = t
    <3>1. ~Marking(t, i) BY <1>5 DEF Marking
    <3>2. Handed(t, i) <= Faulted BY <2>2, <3>1 DEF HandedOnce
    <3>3. Handed(t, i) = TimesIn(g, i) /\ Handed(t, i)' = TimesIn(g \o b, i)
      BY <1>0, <1>6 DEF Handed
    <3>4. /\ Handed(t, i) \in Nat /\ Handed(t, i)' \in Nat /\ Handed(t, i)' <= Handed(t, i) + 1
          /\ (\A n \in 1..Len(b) : b[n] # i) => Handed(t, i)' = Handed(t, i)
      BY <1>2, <1>4, <3>3, OnceMore
    <3>5. Handed(t, i)' <= Faulted + 1 BY <1>2, <3>2, <3>4
    <3>6. ~Marking(t, i)' => Handed(t, i)' <= Faulted BY <1>10, <3>2, <3>4
    <3> QED BY <2>2, <3>5, <3>6
  <2> QED BY <2>1, <2>2
<1>12. HandedKnown'
  <2>1. ASSUME NEW u \in Session, NEW n \in 1..Len(got'[u]) PROVE got'[u][n] \in 1..Len(msgs)
    <3>1. CASE u # t BY <1>6, <2>1, <3>1 DEF HandedKnown
    <3>2. CASE u = t
      <4>1. \A m \in 1..Len(g) : g[m] \in 1..Len(msgs) BY <1>0, <1>2 DEF HandedKnown
      <4>2. \A m \in 1..Len(b) : b[m] \in 1..Len(msgs) BY <1>4 DEF OldestFor, Queued
      <4>3. got'[u] = gb /\ Len(gb) = Len(g) + Len(b) BY <1>6, <1>7, <3>2 DEF gb
      <4>4. CASE n <= Len(g) BY <1>7, <2>1, <4>1, <4>3, <4>4 DEF gb
      <4>5. CASE n > Len(g)
        <5>1. n - Len(g) \in 1..Len(b) /\ gb[n] = b[n - Len(g)] BY <1>7, <2>1, <4>3, <4>5 DEF gb
        <5> QED BY <4>2, <4>3, <5>1
      <4> QED BY <1>7, <2>1, <4>3, <4>4, <4>5
    <3> QED BY <3>1, <3>2
  <2>2. ASSUME NEW j \in Flusher, fl'[j].pc = "mark", NEW n \in 1..Len(fl'[j].batch)
        PROVE  \E m \in 1..Len(got'[fl'[j].t]) : got'[fl'[j].t][m] = fl'[j].batch[n]
    <3>1. CASE j = k
      <4>1. fl'[j].t = t /\ fl'[j].batch = b /\ got'[t] = gb /\ n \in 1..Len(b)
        BY <1>3, <1>6, <2>2, <3>1 DEF gb
      <4>2. Len(g) + n \in 1..Len(gb) /\ gb[Len(g) + n] = b[n] BY <1>7, <4>1 DEF gb
      <4> QED BY <4>1, <4>2
    <3>2. CASE j # k
      <4>1. fl'[j] = fl[j] /\ fl[j].t \in Session /\ fl[j].t # t
        BY <1>3, <1>5, <2>2, <3>2 DEF LockHeld
      <4>2. got'[fl[j].t] = got[fl[j].t] BY <1>6, <4>1
      <4> QED BY <2>2, <4>1, <4>2 DEF HandedKnown
    <3> QED BY <3>1, <3>2
  <2> QED BY <1>1, <2>1, <2>2 DEF HandedKnown
<1> QED BY <1>8, <1>9, <1>11, <1>12

\* mark_delivered takes what was handed over out of the queue, and nothing else.
LEMMA MarkKeeps ==
  ASSUME MailInv, A2ATypes', NEW k \in Flusher, FlushMark(k) PROVE MailInv'
<1> USE DEF MailInv
<1>0. PICK t, b : t = fl[k].t /\ b = fl[k].batch OBVIOUS
<1>1. /\ fl[k].pc = "mark" /\ fl' = [fl EXCEPT ![k] = NoFlush]
      /\ flushLock' = [flushLock EXCEPT ![t] = None]
      /\ delivered' = delivered \cup Range(b) /\ UNCHANGED <<msgs, got, count>>
  BY <1>0 DEF FlushMark, Return, sessions
<1>2. /\ fl \in [Flusher -> FlushRow] /\ flushLock \in [Session -> Flusher \cup {None}]
      /\ b \in Seq(Nat) /\ t \in Session /\ Faulted' = Faulted
  BY <1>0, <1>1 DEF A2ATypes, FlushTypes, FlushRow, LockHeld, Faulted
<1>3. fl'[k] = NoFlush /\ \A j \in Flusher : j # k => fl'[j] = fl[j] BY <1>1, <1>2
<1>4. \A i : i \in Range(b) <=> \E n \in 1..Len(b) : b[n] = i BY <1>2 DEF Range
<1>5. \A i \in Range(b) : i \in Queued(t)
  BY <1>0, <1>1, <1>4 DEF BatchIsOldest, HasBatch, OldestFor
<1>6. Queued(t)' = Queued(t) \ Range(b) BY <1>1 DEF Queued
<1>7. ASSUME NEW u, u # t PROVE Queued(u)' = Queued(u)
  BY <1>1, <1>5, <1>7 DEF Queued
<1>8. ASSUME NEW j \in Flusher, j # k, fl[j].pc # "idle" PROVE fl[j].t # t
  BY <1>0, <1>1, <1>8, OnlyFlush
<1>9. LockHeld'
  <2> SUFFICES ASSUME NEW j \in Flusher, fl'[j].pc # "idle"
               PROVE  fl'[j].t \in Session /\ flushLock'[fl'[j].t] = j
    BY DEF LockHeld
  <2>1. j # k BY <1>3 DEF NoFlush
  <2>2. fl'[j] = fl[j] /\ fl[j].t \in Session /\ flushLock[fl[j].t] = j
    BY <1>3, <2>1 DEF LockHeld
  <2> QED BY <1>1, <1>2, <1>8, <2>1, <2>2
<1>10. BatchIsOldest'
  <2> SUFFICES ASSUME NEW j \in Flusher
               PROVE  IF HasBatch(j)' THEN OldestFor(fl[j].t, fl[j].batch)' ELSE fl'[j].batch = <<>>
    BY DEF BatchIsOldest, HasBatch
  <2>1. CASE j = k BY <1>3, <2>1 DEF HasBatch, NoFlush
  <2>2. CASE j # k
    <3>1. fl'[j] = fl[j] BY <1>3, <2>2
    <3>2. CASE HasBatch(j)
      <4>1. fl[j].t # t BY <1>8, <2>2, <3>2 DEF HasBatch
      <4>2. PICK u, c : u = fl[j].t /\ c = fl[j].batch OBVIOUS
      <4>3. fl'[j].t = u /\ fl'[j].batch = c /\ u # t /\ OldestFor(u, c)
        BY <3>1, <3>2, <4>1, <4>2 DEF BatchIsOldest
      <4>4. Queued(u)' = Queued(u) BY <1>7, <4>3
      <4>5. OldestFor(fl[j].t, fl[j].batch)'
        <5>1. \A i : i \in Queued(fl[j].t)' <=> i \in Queued(u)
          <6>1. Queued(fl[j].t)' = Queued(u)' BY <4>3 DEF Queued
          <6> QED BY <4>4, <6>1
        <5> QED BY <4>3, <5>1 DEF OldestFor
      <4> QED BY <3>1, <3>2, <4>5 DEF HasBatch
    <3>3. CASE ~HasBatch(j) BY <3>1, <3>3 DEF BatchIsOldest, HasBatch
    <3> QED BY <3>2, <3>3
  <2> QED BY <2>1, <2>2
<1>11. HandedOnce'
  <2> SUFFICES ASSUME NEW u \in Session, NEW i \in Queued(u)'
               PROVE  /\ Handed(u, i) <= Faulted + 1
                      /\ ~Marking(u, i)' => Handed(u, i) <= Faulted
    BY <1>1, <1>2 DEF HandedOnce, Handed
  <2>1. i \in Queued(u) BY <1>6, <1>7
  <2>2. CASE ~Marking(u, i) BY <2>1, <2>2 DEF HandedOnce, A2ATypes, FlushTypes, Counts, Faulted
  <2>3. CASE Marking(u, i)
    <3>1. PICK j \in Flusher : /\ fl[j].pc = "mark" /\ fl[j].t = u
                               /\ \E n \in 1..Len(fl[j].batch) : fl[j].batch[n] = i
      BY <2>3 DEF Marking
    <3>2. j # k BY <1>0, <1>4, <1>6, <3>1
    <3>3. Marking(u, i)' BY <1>3, <3>1, <3>2 DEF Marking
    <3> QED BY <2>1, <3>3 DEF HandedOnce
  <2> QED BY <2>2, <2>3
<1>12. HandedKnown'
  <2>1. \A j \in Flusher : fl'[j].pc = "mark" => fl'[j] = fl[j] BY <1>3 DEF NoFlush
  <2> QED BY <1>1, <2>1 DEF HandedKnown
<1> QED BY <1>9, <1>10, <1>11, <1>12

\* mark_delivered fails: what was handed over stays queued, and one fault is counted.
LEMMA MarkErrKeeps ==
  ASSUME MailInv, A2ATypes', NEW k \in Flusher, FlushMarkErr(k) PROVE MailInv'
<1> USE DEF MailInv
<1>0. PICK t : t = fl[k].t OBVIOUS
<1>1. /\ fl[k].pc = "mark" /\ fl' = [fl EXCEPT ![k] = NoFlush]
      /\ flushLock' = [flushLock EXCEPT ![t] = None]
      /\ Bump("mark") /\ UNCHANGED <<msgs, delivered, got>>
  BY <1>0 DEF FlushMarkErr, Return, queue, sessions
<1>2. /\ fl \in [Flusher -> FlushRow] /\ flushLock \in [Session -> Flusher \cup {None}]
      /\ count \in Counts
  BY DEF A2ATypes, FlushTypes
<1>3. Faulted \in Nat /\ Faulted' = Faulted + 1 BY <1>1, <1>2 DEF Faulted, Counts, Bump
<1>4. fl'[k] = NoFlush /\ \A j \in Flusher : j # k => fl'[j] = fl[j] BY <1>1, <1>2
<1>5. LockHeld'
  <2> SUFFICES ASSUME NEW j \in Flusher, fl'[j].pc # "idle"
               PROVE  fl'[j].t \in Session /\ flushLock'[fl'[j].t] = j
    BY DEF LockHeld
  <2>1. j # k BY <1>4 DEF NoFlush
  <2>2. fl'[j] = fl[j] /\ fl[j].t \in Session /\ flushLock[fl[j].t] = j /\ fl[j].t # t
    BY <1>0, <1>1, <1>4, <2>1, OnlyFlush DEF LockHeld
  <2> QED BY <1>1, <1>2, <2>2
<1>6. BatchIsOldest' BY <1>1, <1>4 DEF BatchIsOldest, HasBatch, OldestFor, Queued, NoFlush
<1>7. HandedOnce'
  <2> SUFFICES ASSUME NEW u \in Session, NEW i \in Queued(u) PROVE Handed(u, i) <= Faulted + 1
    <3>1. \A u, i : Queued(u)' = Queued(u) /\ Handed(u, i)' = Handed(u, i)
      BY <1>1 DEF Queued, Handed
    <3>2. \A u \in Session : \A i : Handed(u, i) \in Nat BY HandedNat
    <3> QED BY <1>3, <3>1, <3>2 DEF HandedOnce
  <2> QED BY DEF HandedOnce
<1>8. HandedKnown'
  <2>1. \A j \in Flusher : fl'[j].pc = "mark" => fl'[j] = fl[j] BY <1>4 DEF NoFlush
  <2> QED BY <1>1, <2>1 DEF HandedKnown
<1> QED BY <1>5, <1>6, <1>7, <1>8

\* The server stops: no flush is left, and one fault is counted.
LEMMA RestartKeeps == ASSUME MailInv, A2ATypes', Restart PROVE MailInv'
<1> USE DEF MailInv
<1>1. /\ fl' = [k \in Flusher |-> NoFlush] /\ Bump("restart") /\ UNCHANGED <<msgs, delivered, got>>
  BY DEF Restart, Stopped
<1>2. Faulted \in Nat /\ Faulted' = Faulted + 1
  BY <1>1 DEF A2ATypes, FlushTypes, Faulted, Counts, Bump
<1>3. LockHeld' /\ BatchIsOldest' BY <1>1 DEF LockHeld, BatchIsOldest, HasBatch, NoFlush
<1>4. HandedOnce'
  <2> SUFFICES ASSUME NEW u \in Session, NEW i \in Queued(u) PROVE Handed(u, i) <= Faulted + 1
    <3>1. \A u, i : Queued(u)' = Queued(u) /\ Handed(u, i)' = Handed(u, i)
      BY <1>1 DEF Queued, Handed
    <3>2. \A u \in Session : \A i : Handed(u, i) \in Nat BY HandedNat
    <3> QED BY <1>2, <3>1, <3>2 DEF HandedOnce
  <2> QED BY DEF HandedOnce
<1>5. HandedKnown' BY <1>1 DEF HandedKnown, NoFlush
<1> QED BY <1>3, <1>4, <1>5

\* One lemma per kind of step: which of the mailbox's steps it is, and that MailInv is kept.
LEMMA MailInit == Init => MailInv
<1> SUFFICES ASSUME Init PROVE MailInv OBVIOUS
<1>1. A2ATypes BY TypesInit
<1>2. LockHeld /\ BatchIsOldest /\ HandedKnown
  BY DEF Init, LockHeld, BatchIsOldest, HasBatch, HandedKnown, NoFlush
<1>3. HandedOnce BY DEF Init, HandedOnce, Queued
<1> QED BY <1>1, <1>2, <1>3 DEF MailInv

LEMMA PostMaps ==
  ASSUME MailInv, NEW m \in Message, msgs' = Append(msgs, m), UNCHANGED <<delivered, got, Faulted>>
  PROVE  \E t \in Session : Mail!Post(t)
<1> DEFINE p == [i \in 1..Len(msgs) |-> msgs[i].to]
<1>1. msgs \in Seq(Message) /\ Len(msgs) \in Nat BY DEF MailInv, A2ATypes, QueueTypes
<1>2. m.to \in Session BY DEF Message
<1>3. /\ Len(msgs') = Len(msgs) + 1 /\ msgs'[Len(msgs) + 1] = m
      /\ \A i \in 1..Len(msgs) : msgs'[i] = msgs[i]
  BY <1>1
<1>4. [i \in 1..Len(msgs') |-> msgs'[i].to] = Append(p, m.to)
  <2>1. p \in Seq(Session) /\ Len(p) = Len(msgs)
    <3>1. \A i \in 1..Len(msgs) : msgs[i] \in Message BY <1>1
    <3>2. \A i \in 1..Len(msgs) : msgs[i].to \in Session BY <3>1 DEF Message
    <3> QED BY <1>1, <3>2
  <2>2. /\ DOMAIN Append(p, m.to) = 1..(Len(msgs) + 1) /\ Append(p, m.to)[Len(msgs) + 1] = m.to
        /\ \A i \in 1..Len(msgs) : Append(p, m.to)[i] = p[i]
    <3> HIDE DEF p
    <3> QED BY <1>1, <1>2, <2>1
  <2>3. \A i \in 1..(Len(msgs) + 1) : msgs'[i].to = Append(p, m.to)[i] BY <1>1, <1>3, <2>2
  <2>4. Append(p, m.to) = [i \in 1..(Len(msgs) + 1) |-> Append(p, m.to)[i]]
    <3> HIDE DEF p
    <3> QED BY <1>1, <1>2, <2>1
  <2> QED BY <1>3, <2>3, <2>4
<1>5. Mail!Post(m.to) BY <1>4 DEF Mail!Post, Faulted
<1> QED BY <1>2, <1>5

\* The mailbox counts as this module does.
LEMMA SameSize == \A S : Mail!Cardinality(S) = Cardinality(S)
BY DEF Mail!Cardinality, Cardinality

LEMMA CopiesSame == \A t, i : Mail!Copies(t, i) = Handed(t, i)
BY SameSize DEF Mail!Copies, Handed, TimesIn

\* What is handed over are the oldest messages pending, none of them given more often than
\* there were faults.
LEMMA GiveMaps ==
  ASSUME MailInv, NEW k \in Flusher, FlushDeliver(k) PROVE \E t \in Session : Mail!Give(t)
<1> USE DEF MailInv
<1>0. PICK t, b : t = fl[k].t /\ b = fl[k].batch OBVIOUS
<1>1. /\ fl[k].pc = "deliver" /\ got' = [got EXCEPT ![t] = @ \o b]
      /\ UNCHANGED <<msgs, delivered, count>>
  BY <1>0 DEF FlushDeliver, queue
<1>2. /\ b \in Seq(Nat) /\ t \in Session /\ msgs \in Seq(Message) /\ OldestFor(t, b)
  BY <1>0, <1>1 DEF A2ATypes, FlushTypes, FlushRow, QueueTypes, LockHeld, BatchIsOldest, HasBatch
<1>3. Mail!Pending(t) = Queued(t) BY <1>2 DEF Mail!Pending, Queued
<1>4. IsFiniteSet(Queued(t)) /\ Cardinality(Queued(t)) \in Nat
  <2>1. Queued(t) \in SUBSET (1..Len(msgs)) /\ IsFiniteSet(1..Len(msgs))
    BY <1>2, FS_Interval DEF Queued
  <2> QED BY <2>1, FS_Subset, FS_CardinalityType
<1>5. Len(b) \in Nat /\ Len(b) # 0 /\ b \in [1..Len(b) -> Queued(t)]
  BY <1>2 DEF OldestFor
<1>6. Len(b) <= Cardinality(Queued(t))
  <2>1. \A m, n \in 1..Len(b) : b[m] = b[n] => m = n
    <3>1. \A m \in 1..Len(b) : b[m] \in Nat BY <1>2
    <3> QED BY <1>2, <1>5, <3>1 DEF OldestFor
  <2>2. b \in Injection(1..Len(b), Queued(t)) BY <1>5, <2>1 DEF Injection, IsInjective
  <2>3. Cardinality(1..Len(b)) <= Cardinality(Queued(t)) BY <1>4, <2>2, FS_Injection
  <2> QED BY <1>5, <2>3, FS_Interval
<1>7. Mail!OldestPending(t, b) BY <1>2, <1>3 DEF Mail!OldestPending, OldestFor
<1>8. \A n \in 1..Len(b) : Mail!Copies(t, b[n]) <= Faulted
  <2> SUFFICES ASSUME NEW n \in 1..Len(b) PROVE Handed(t, b[n]) <= Faulted BY CopiesSame
  <2>1. \A j \in Flusher : fl[j].pc = "mark" => fl[j].t # t BY <1>0, <1>1, OnlyFlush
  <2>2. ~Marking(t, b[n]) /\ b[n] \in Queued(t) BY <1>5, <2>1 DEF Marking
  <2> QED BY <1>2, <2>2 DEF HandedOnce
<1>9. Len(b) \in 1..Cardinality(Queued(t)) BY <1>4, <1>5, <1>6
<1>10. Mail!Give(t)
  <2>1. /\ Len(b) \in 1..Cardinality(Mail!Pending(t)) /\ b \in [1..Len(b) -> Mail!Pending(t)]
        /\ Mail!OldestPending(t, b) /\ \A n \in 1..Len(b) : Mail!Copies(t, b[n]) <= Faulted
    BY <1>3, <1>5, <1>7, <1>8, <1>9
  <2>2. count.restart + count.mark = Faulted /\ UNCHANGED (count.restart + count.mark)
    BY <1>1 DEF Faulted
  <2>3. UNCHANGED [i \in 1..Len(msgs) |-> msgs[i].to] BY <1>1
  <2> DEFINE G(n, a) == /\ Mail!OldestPending(t, a)
                        /\ \A i \in 1..n : Mail!Copies(t, a[i]) <= Faulted
                        /\ got' = [got EXCEPT ![t] = @ \o a]
  <2>4. G(Len(b), b) BY <1>1, <2>1
  <2> HIDE DEF G
  <2>5. \E n \in 1..Mail!Cardinality(Mail!Pending(t)) :
          \E a \in [1..n -> Mail!Pending(t)] : G(n, a)
    BY <2>1, <2>4, SameSize, Zenon
  <2> QED BY <1>1, <2>2, <2>3, <2>5, Zenon DEF Mail!Give, Faulted, G
<1> QED BY <1>2, <1>10

LEMMA AckMaps ==
  ASSUME MailInv, NEW k \in Flusher, FlushMark(k) PROVE \E t \in Session : Mail!Ack(t)
<1> USE DEF MailInv
<1>0. PICK t, b : t = fl[k].t /\ b = fl[k].batch OBVIOUS
<1>1. /\ fl[k].pc = "mark" /\ delivered' = delivered \cup Range(b) /\ UNCHANGED <<msgs, got, count>>
  BY <1>0 DEF FlushMark, sessions
<1>2. /\ b \in Seq(Nat) /\ t \in Session /\ OldestFor(t, b) /\ got[t] \in Seq(Nat)
  BY <1>0, <1>1 DEF A2ATypes, FlushTypes, FlushRow, AgentTypes, LockHeld, BatchIsOldest, HasBatch
<1>3. Range(b) \in SUBSET Mail!Pending(t)
  BY <1>2 DEF Range, OldestFor, Queued, Mail!Pending
<1>4. ASSUME NEW i \in Range(b) PROVE Mail!Copies(t, i) > 0
  <2>1. PICK n \in 1..Len(b) : b[n] = i BY <1>2, <1>4 DEF Range
  <2>2. PICK m \in 1..Len(got[t]) : got[t][m] = i BY <1>0, <1>1, <2>1 DEF HandedKnown
  <2> DEFINE S == {x \in 1..Len(got[t]) : got[t][x] = i}
  <2>3. IsFiniteSet(S)
    <3>1. IsFiniteSet(1..Len(got[t])) BY <1>2, FS_Interval
    <3>2. S \in SUBSET (1..Len(got[t])) OBVIOUS
    <3> QED BY <3>1, <3>2, FS_Subset
  <2>4. m \in S BY <2>2
  <2>5. Cardinality(S) \in Nat /\ Cardinality(S) # 0
    BY <2>3, <2>4, FS_CardinalityType, FS_EmptySet
  <2>6. Mail!Copies(t, i) = Cardinality(S) BY SameSize DEF Mail!Copies
  <2> QED BY <2>5, <2>6
<1>5. Mail!Ack(t) BY <1>1, <1>3, <1>4 DEF Mail!Ack, Faulted
<1> QED BY <1>2, <1>5

LEMMA FaultMaps ==
  ASSUME MailInv, Restart \/ \E k \in Flusher : FlushMarkErr(k) PROVE Mail!Fault
<1>1. UNCHANGED <<msgs, delivered, got>> /\ (Bump("restart") \/ Bump("mark"))
  BY DEF Restart, Stopped, FlushMarkErr, queue, sessions
<1>2. count \in Counts BY DEF MailInv, A2ATypes, FlushTypes
<1>3. count.restart' + count.mark' = count.restart + count.mark + 1
  BY <1>1, <1>2 DEF Bump, Counts
<1> QED BY <1>1, <1>3 DEF Mail!Fault

\* Every step keeps MailInv and is a step of the mailbox, or leaves the mailbox alone.
Mailed == MailInv' /\ [Mail!Next]_(Mail!mvars)

LEMMA QuietMaps ==
  ASSUME MailInv, MailInv', UNCHANGED Mailboxes PROVE Mailed
<1>1. UNCHANGED <<[i \in 1..Len(msgs) |-> msgs[i].to], delivered, got, count.restart + count.mark>>
  BY DEF Mailboxes, Faulted
<1> QED BY <1>1 DEF Mailed, Mail!mvars

LEMMA StepMaps == ASSUME MailInv', NEW t \in Session, Mail!Post(t) \/ Mail!Give(t) \/ Mail!Ack(t)
  PROVE Mailed
BY Zenon DEF Mailed, Mail!Next

\* A field of count that is not one of the faults.
LEMMA NoFault ==
  ASSUME MailInv, NEW f \in {"user", "mention", "notice", "toggle", "fault"}, Bump(f)
  PROVE  Faulted' = Faulted
BY DEF MailInv, A2ATypes, FlushTypes, Counts, Bump, Faulted

LEMMA FlushMaps ==
  ASSUME MailInv, A2ATypes', NEW k \in Flusher, FlushStep(k) \/ FlushStartErr(k) \/ FlushMarkErr(k)
  PROVE  Mailed
<1> USE DEF MailInv
<1>1. CASE FlushSettle(k) \/ FlushRead(k) \/ FlushTake(k) \/ FlushRecord(k)
  <2>1. /\ UNCHANGED <<msgs, delivered, got, count>>
        /\ (Return(k) /\ fl[k].pc \notin {"idle", "mark"}) \/ \E r : Moves(k, r)
    BY <1>1, FlushMoves
  <2>2. UNCHANGED Mailboxes BY <2>1 DEF Mailboxes, Faulted
  <2>3. CASE Return(k) /\ fl[k].pc \notin {"idle", "mark"}
    BY <2>2, <2>3, ReturnKeeps, QuietMaps
  <2>4. ASSUME NEW r, Moves(k, r) PROVE Mailed
    <3>1. /\ fl' = [fl EXCEPT ![k] = r] /\ UNCHANGED flushLock
          /\ r.t = fl[k].t /\ {fl[k].pc, r.pc} \cap {"idle", "mark"} = {}
          /\ IF r.pc \in {"start", "deliver"} THEN OldestFor(r.t, r.batch) ELSE r.batch = <<>>
      BY <2>4 DEF Moves
    <3>2. LockHeld'
      <4> SUFFICES ASSUME NEW j \in Flusher, fl'[j].pc # "idle"
                   PROVE  fl'[j].t \in Session /\ flushLock'[fl'[j].t] = j
        BY DEF LockHeld
      <4>1. fl \in [Flusher -> FlushRow] BY DEF A2ATypes, FlushTypes
      <4>2. fl'[j].t = fl[j].t /\ fl[j].pc # "idle" BY <3>1, <4>1
      <4> QED BY <3>1, <4>2 DEF LockHeld
    <3>3. {fl[k].pc, r.pc} \cap {"mark"} = {} BY <3>1
    <3> QED BY <2>2, <3>1, <3>2, <3>3, MovesKeep, QuietMaps
  <2> QED BY <2>1, <2>3, <2>4
<1>2. CASE FlushStartErr(k) \/ FlushDeliverErr(k)
  <2>1. /\ Return(k) /\ fl[k].pc \notin {"idle", "mark"} /\ UNCHANGED <<msgs, delivered, got>>
        /\ UNCHANGED count \/ Bump("fault")
    BY <1>2 DEF FlushStartErr, FlushDeliverErr, Failed, queue, sessions
  <2>2. UNCHANGED Mailboxes BY <2>1, NoFault DEF Mailboxes, Faulted
  <2> QED BY <2>1, <2>2, ReturnKeeps, QuietMaps
<1>3. CASE FlushDeliver(k) BY <1>3, DeliverKeeps, GiveMaps, StepMaps
<1>4. CASE FlushMark(k) BY <1>4, MarkKeeps, AckMaps, StepMaps
<1>5. CASE FlushMarkErr(k)
  <2>1. Mail!Fault /\ MailInv' BY <1>5, MarkErrKeeps, FaultMaps
  <2> QED BY <2>1, Zenon DEF Mailed, Mail!Next
<1> QED BY <1>1, <1>2, <1>3, <1>4, <1>5 DEF FlushStep

LEMMA MailStep == ASSUME MailInv, [Next]_vars PROVE Mailed
<1>0. A2ATypes' BY TypesStep
<1>1. ASSUME UNCHANGED <<msgs, delivered, got, fl, flushLock>>,
             UNCHANGED count \/ \E f \in {"user", "mention", "notice", "toggle", "fault"} : Bump(f)
      PROVE  Mailed
  <2>1. UNCHANGED Mailboxes BY <1>1, NoFault DEF Mailboxes, Faulted
  <2> QED BY <1>0, <1>1, <2>1, QuietKeeps, QuietMaps
<1>2. ASSUME NEW m \in Message, msgs' = Append(msgs, m), UNCHANGED <<delivered, got, fl, flushLock>>,
             UNCHANGED count \/ Bump("mention")
      PROVE  Mailed
  <2>1. UNCHANGED Faulted BY <1>2, NoFault DEF Faulted
  <2> QED BY <1>0, <1>2, <2>1, PostKeeps, PostMaps, StepMaps
<1>3. ASSUME NEW k \in Sender, SendCheck(k) \/ SendRefused(k) PROVE Mailed
  <2>1. /\ UNCHANGED <<msgs, delivered, got, fl, flushLock>>
        /\ UNCHANGED count \/ Bump("notice")
    BY <1>3 DEF SendCheck, SendRefused, sessions, flushes
  <2> QED BY <1>1, <2>1
<1>4. ASSUME NEW k \in Sender, SendInsert(k) PROVE Mailed
  <2>1. PICK m : m = [from |-> snd[k].from, to |-> snd[k].to, mention |-> FALSE] OBVIOUS
  <2>2. /\ snd[k].pc = "insert" /\ msgs' = Append(msgs, m)
        /\ UNCHANGED <<delivered, got, fl, flushLock, count>>
    BY <1>4, <2>1 DEF SendInsert, sessions
  <2>3. m \in Message BY <2>1, <2>2 DEF MailInv, A2ATypes, QueueTypes, Message
  <2> QED BY <1>2, <2>2, <2>3
<1>5. ASSUME NEW f \in Session, NEW t \in Session, Mention(f, t) PROVE Mailed
  <2>1. PICK m : m = [from |-> f, to |-> t, mention |-> TRUE] OBVIOUS
  <2>2. /\ msgs' = Append(msgs, m) /\ UNCHANGED <<delivered, got, fl, flushLock>>
        /\ Bump("mention")
    BY <1>5, <2>1 DEF Mention
  <2>3. m \in Message BY <2>1 DEF Message
  <2> QED BY <1>2, <2>2, <2>3
<1>6. ASSUME NEW k \in Sender, NEW f \in Session, NEW t \in Session, SendBegin(k, f, t) PROVE Mailed
  BY <1>1, <1>6 DEF SendBegin, sessions, flushes
<1>7. ASSUME NEW x \in Session \cup {"global"}, Toggle(x) PROVE Mailed
  BY <1>1, <1>7 DEF Toggle, sessions, flushes
<1>8. CASE Ages BY <1>1, <1>8 DEF Ages, sessions, flushes
<1>9. ASSUME NEW k \in Flusher, NEW t \in Session, FlushLock(k, t) PROVE Mailed
  <2>1. UNCHANGED Mailboxes BY <1>9 DEF FlushLock, queue, sessions, Mailboxes, Faulted
  <2> QED BY <1>0, <1>9, <2>1, LockKeeps, QuietMaps
<1>10. ASSUME NEW k \in Flusher, FlushStep(k) \/ FlushStartErr(k) \/ FlushMarkErr(k) PROVE Mailed
  BY <1>0, <1>10, FlushMaps
<1>11. CASE WatchLagged \/ WatchEvent
  <2>1. UNCHANGED <<msgs, delivered, got, fl, flushLock, count>>
    BY <1>11 DEF WatchLagged, WatchEvent, queue, sessions
  <2> QED BY <1>1, <2>1
<1>12. ASSUME NEW s \in Session, UserRecord(s) PROVE Mailed
  BY <1>1, <1>12 DEF UserRecord, queue, flushes
<1>13. ASSUME NEW s \in Session,
              Pump(s) \/ UserDeliver(s) \/ AgentReads(s) \/ TurnEnds(s) \/ Noticed(s)
       PROVE  Mailed
  <2>1. UNCHANGED <<msgs, delivered, got, fl, flushLock, count>>
    BY <1>13 DEF Pump, UserDeliver, AgentReads, TurnEnds, Noticed, queue, flushes
  <2> QED BY <1>1, <2>1
<1>14. ASSUME NEW s \in Session, AgentExits(s) \/ EndMember(s) PROVE Mailed
  <2>1. UNCHANGED <<msgs, delivered, got, fl, flushLock>> /\ Bump("fault")
    BY <1>14 DEF AgentExits, EndMember, queue, flushes
  <2> QED BY <1>1, <2>1
<1>15. CASE Restart
  <2>1. Mail!Fault /\ MailInv' BY <1>0, <1>15, RestartKeeps, FaultMaps
  <2> QED BY <2>1, Zenon DEF Mailed, Mail!Next
<1>16. CASE UNCHANGED vars
  <2>1. UNCHANGED <<msgs, delivered, got, fl, flushLock, count>>
    BY <1>16 DEF vars, queue, sessions, flushes
  <2> QED BY <1>1, <2>1
<1>17. Target \subseteq Session BY LimitsAssumption
<1> QED BY <1>3, <1>4, <1>5, <1>6, <1>7, <1>8, <1>9, <1>10, <1>11, <1>12, <1>13, <1>14, <1>15,
           <1>16, <1>17 DEF Next

LEMMA MailBegins == Init => Mail!Init
BY DEF Init, Mail!Init

\* A2a::send, flush, mark_delivered and the turn watcher, with the faults around them, are a
\* mailbox: for any number of sessions, senders and flushes and whatever the limits and bounds.
THEOREM A2ADelivers == Spec => DeliversLikeAMailbox
<1>1. Init => MailInv /\ Mail!Init BY MailInit, MailBegins
<1>2. MailInv /\ [Next]_vars => MailInv' /\ [Mail!Next]_(Mail!mvars) BY MailStep DEF Mailed
<1> QED BY <1>1, <1>2, PTL DEF Spec, DeliversLikeAMailbox, Mail!Spec

\* Every variable of the module has its type in every state, and a flush's batch names messages
\* that are there and are for its target (A2a::flush reads it from the store).
THEOREM A2ATypeOK == Spec => []TypeOK
<1>1. Init => MailInv BY MailInit
<1>2. MailInv /\ [Next]_vars => MailInv' BY MailStep DEF Mailed
<1>3. MailInv => TypeOK
  <2> SUFFICES ASSUME MailInv PROVE TypeOK OBVIOUS
  <2>1. QueueTypes /\ FlushTypes /\ AgentTypes BY DEF MailInv, A2ATypes
  <2>2. ASSUME NEW k \in Flusher, NEW i \in Range(fl[k].batch) PROVE msgs[i].to = fl[k].t
    <3>1. PICK n \in DOMAIN fl[k].batch : i = fl[k].batch[n] BY DEF Range
    <3>2. fl[k].batch \in Seq(Nat) BY <2>1 DEF FlushTypes, FlushRow
    <3>3. n \in 1..Len(fl[k].batch) BY <3>1, <3>2
    <3>4. OldestFor(fl[k].t, fl[k].batch) BY <3>3 DEF MailInv, BatchIsOldest
    <3> QED BY <3>1, <3>3, <3>4 DEF OldestFor, Queued
  <2>3. \A k \in Flusher :
          fl[k].pc \in {"idle", "settle", "read", "take", "start", "deliver", "mark"}
    BY <2>1 DEF FlushTypes, FlushRow
  <2> QED BY <2>1, <2>2, <2>3 DEF QueueTypes, FlushTypes, AgentTypes, TypeOK, SendRow, Message
<1> QED BY <1>1, <1>2, <1>3, PTL DEF Spec
-----------------------------------------------------------------------------
(* Proof of DeliversBetweenTurns, where no user types: what `awaiting`     *)
(* stands for.                                                             *)

AtWork(t) == inbox[t] # <<>> \/ t \in working
EndAhead(t) == \E i \in 1..Len(chan[t]) : chan[t][i].kind = "TurnEnded"
AtRest(t) == ~AtWork(t) /\ ~EndAhead(t)
NoEndSince(t, n) == \A i \in (n + 1)..Len(log[t]) : log[t][i].kind # "TurnEnded"

\* An agent has one batch at a time, and its turn's end comes after it.
InTurn(t) ==
    /\ inbox[t] # <<>> => Len(inbox[t]) = 1 /\ t \notin working
    /\ t \in active => AtWork(t)
    /\ AtWork(t) => ~EndAhead(t)
    /\ \A i, j \in 1..Len(chan[t]) :
          chan[t][i].kind = "TurnEnded" /\ chan[t][j].kind = "TurnEnded" => i = j

\* Where no turn is awaited, or the awaited one has ended, the agent is at rest.
Awaited(t) == (awaiting[t] = -1 \/ Ended(t)) => AtRest(t)

\* A flush that goes on found the session at rest, and awaits the turn it is to begin.
Prepared(k) ==
    LET t == fl[k].t
    IN /\ fl[k].pc \in {"read", "take"} => awaiting[t] = -1
       /\ fl[k].pc \in {"take", "start", "deliver"} =>
             fl[k].seq <= Len(log[t]) /\ NoEndSince(t, fl[k].seq)
       /\ fl[k].pc \in {"start", "deliver"} => awaiting[t] = fl[k].seq /\ AtRest(t)

\* What the watcher is told of the end of a turn is in the transcript.
PushRow == [s : Session, seq : Nat, end : BOOLEAN]
PushesTrue ==
    \A i \in 1..Len(pushes) : LET p == pushes[i] IN
       p.end => p.seq \in 1..Len(log[p.s]) /\ log[p.s][p.seq].kind = "TurnEnded"

\* What MailInv leaves open.
InputTypes ==
    /\ inbox \in [Session -> Seq(Seq(Nat))] /\ pushes \in Seq(PushRow)
    /\ awaiting \in [Session -> Nat \cup {-1}]
NoUsers == user = {} /\ count.user = 0

AwaitInv ==
    /\ MailInv /\ InputTypes /\ NoUsers /\ PushesTrue
    /\ \A t \in Session : InTurn(t) /\ Awaited(t)
    /\ \A k \in Flusher : Prepared(k)

LEMMA AwaitTypes ==
  ASSUME MailInv, InputTypes
  PROVE  /\ fl \in [Flusher -> FlushRow] /\ awaiting \in [Session -> Int]
         /\ log \in [Session -> Seq(Event)] /\ chan \in [Session -> Seq(Event)]
         /\ \A t \in Session : /\ log[t] \in Seq(Event) /\ Len(log[t]) \in Nat
                               /\ chan[t] \in Seq(Event) /\ Len(chan[t]) \in Nat
                               /\ inbox[t] \in Seq(Seq(Nat)) /\ Len(inbox[t]) \in Nat
                               /\ awaiting[t] \in Nat \cup {-1}
         /\ pushes \in Seq(PushRow) /\ Len(pushes) \in Nat
         /\ \A i \in 1..Len(pushes) : pushes[i] \in PushRow
         /\ \A k \in Flusher : fl[k].seq \in Nat /\ fl[k].batch \in Seq(Nat)
         /\ \A k \in Flusher : fl[k].pc # "idle" => fl[k].t \in Session /\ flushLock[fl[k].t] = k
BY DEF MailInv, A2ATypes, FlushTypes, FlushRow, AgentTypes, InputTypes, LockHeld

LEMMA LogAppended ==
  ASSUME NEW S, NEW p \in Seq(S), NEW v
  PROVE  /\ Len(Append(p, v)) = Len(p) + 1
         /\ \A i \in 1..Len(p) : Append(p, v)[i] = p[i]
         /\ Append(p, v)[Len(p) + 1] = v
OBVIOUS

LEMMA FirstPut ==
  ASSUME NEW S, NEW p \in Seq(S), NEW v \in S, p = <<>>
  PROVE  Append(p, v) \in Seq(S) /\ Append(p, v) # <<>> /\ Len(Append(p, v)) = 1
OBVIOUS

LEMMA TakenApart ==
  ASSUME NEW S, NEW q \in Seq(S), q # <<>>
  PROVE  /\ Head(q) = q[1] /\ Head(q) \in S /\ Len(q) >= 1
         /\ Tail(q) \in Seq(S) /\ Len(Tail(q)) = Len(q) - 1
         /\ Len(q) = 1 => Tail(q) = <<>>
         /\ \A i \in 1..(Len(q) - 1) : Tail(q)[i] = q[i + 1]
<1>1. Head(q) = q[1] /\ Head(q) \in S /\ Len(q) \in Nat /\ Len(q) >= 1 OBVIOUS
<1>2. Tail(q) \in Seq(S) /\ Len(Tail(q)) = Len(q) - 1 OBVIOUS
<1>3. Len(q) = 1 => Tail(q) = <<>>
  <2>1. \A p \in Seq(S) : Len(p) = 0 => p = <<>> OBVIOUS
  <2>2. Len(q) = 1 => Len(Tail(q)) = 0 BY <1>2
  <2> QED BY <1>2, <2>1, <2>2, Zenon
<1>4. \A i \in 1..(Len(q) - 1) : Tail(q)[i] = q[i + 1] BY <1>1, <1>2
<1> QED BY <1>1, <1>2, <1>3, <1>4

\* Transcripts grow; nothing in them changes, and no turn ends.
LogsGrow == \A t \in Session : /\ Len(log'[t]) >= Len(log[t])
                               /\ \A i \in 1..Len(log[t]) : log'[t][i] = log[t][i]
LogsQuiet == \A t \in Session : \A i \in (Len(log[t]) + 1)..Len(log'[t]) :
                log'[t][i].kind # "TurnEnded"

\* The watcher's queue keeps what it had, and takes in what is true.
Told(p) == p.end => p.seq \in 1..Len(log'[p.s]) /\ log'[p.s][p.seq].kind = "TurnEnded"
PushesGrow ==
    /\ pushes' \in Seq(PushRow)
    /\ \A i \in 1..Len(pushes') :
          (\E j \in 1..Len(pushes) : pushes'[i] = pushes[j]) \/ Told(pushes'[i])

LEMMA PushesStayTrue ==
  ASSUME MailInv, InputTypes, PushesTrue, LogsGrow, AgentTypes', PushesGrow PROVE PushesTrue'
<1> SUFFICES ASSUME NEW i \in 1..Len(pushes') PROVE Told(pushes'[i]) BY DEF PushesTrue, Told
<1>1. CASE \E j \in 1..Len(pushes) : pushes'[i] = pushes[j]
  <2>1. PICK j \in 1..Len(pushes) : pushes'[i] = pushes[j] BY <1>1
  <2>2. PICK p : p = pushes[j] OBVIOUS
  <2>3. p \in PushRow /\ (p.end => p.seq \in 1..Len(log[p.s]) /\ log[p.s][p.seq].kind = "TurnEnded")
    BY <2>2, AwaitTypes DEF PushesTrue
  <2>4. p.s \in Session BY <2>3 DEF PushRow
  <2>5. Len(log[p.s]) \in Nat /\ Len(log'[p.s]) \in Nat
    BY <2>4, AwaitTypes DEF AgentTypes
  <2>6. p.end => p.seq \in 1..Len(log'[p.s]) /\ log'[p.s][p.seq].kind = "TurnEnded"
    BY <2>3, <2>4, <2>5 DEF LogsGrow
  <2> QED BY <2>1, <2>2, <2>6 DEF Told
<1> QED BY <1>1 DEF PushesGrow

\* Kept drops the oldest pushes.
LEMMA KeptPart ==
  ASSUME NEW q \in Seq(PushRow)
  PROVE  /\ Kept(q) \in Seq(PushRow)
         /\ \A i \in 1..Len(Kept(q)) : \E j \in 1..Len(q) : Kept(q)[i] = q[j]
<1>1. Len(q) \in Nat /\ PushCap \in Nat \ {0} BY LimitsAssumption
<1>2. CASE Overflows(q)
  <2>1. PICK n : n = Len(q) - PushCap + 1 OBVIOUS
  <2>0. n \in Nat /\ n >= 1 /\ n <= Len(q) BY <1>1, <1>2, <2>1 DEF Overflows
  <2>2. Kept(q) = SubSeq(q, n, Len(q)) BY <1>2, <2>1 DEF Kept
  <2>3. /\ SubSeq(q, n, Len(q)) \in Seq(PushRow) /\ Len(SubSeq(q, n, Len(q))) = Len(q) - n + 1
        /\ \A i \in 1..(Len(q) - n + 1) : SubSeq(q, n, Len(q))[i] = q[n + i - 1]
    BY <1>1, <2>0
  <2>4. \A i \in 1..(Len(q) - n + 1) : n + i - 1 \in 1..Len(q) BY <1>1, <2>0
  <2> QED BY <2>2, <2>3, <2>4
<1>3. CASE ~Overflows(q) BY <1>3 DEF Kept
<1> QED BY <1>2, <1>3

\* One push more, of an event: its row is the only new one.
LEMMA RowPushed ==
  ASSUME NEW q \in Seq(PushRow), NEW p \in PushRow, NEW r, r = Append(q, p)
  PROVE  /\ r \in Seq(PushRow)
         /\ \A i \in 1..Len(r) : (\E j \in 1..Len(q) : r[i] = q[j]) \/ r[i] = p
<1>1. r \in Seq(PushRow) /\ Len(q) \in Nat OBVIOUS
<1>2. \A i \in 1..Len(r) : i \in 1..Len(q) \/ i = Len(q) + 1 BY <1>1, LogAppended
<1>3. \A i \in 1..Len(r) : (\E j \in 1..Len(q) : r[i] = q[j]) \/ r[i] = p
  BY <1>2, LogAppended
<1> QED BY <1>1, <1>3

LEMMA PushedTrue ==
  ASSUME NEW q \in Seq(PushRow), NEW t \in Session, NEW n \in Nat, NEW e,
         NEW p, p = [s |-> t, seq |-> n, end |-> e.kind = "TurnEnded"],
         NEW r, r = Pushed(q, t, n, e)
  PROVE  /\ r \in Seq(PushRow)
         /\ \A i \in 1..Len(r) : (\E j \in 1..Len(q) : r[i] = q[j]) \/ r[i] = p
<1>1. p \in PushRow BY DEF PushRow
<1>2. r = Append(q, p) BY DEF Pushed
<1> QED BY <1>1, <1>2, RowPushed

LEMMA PushGrows ==
  ASSUME NEW q \in Seq(PushRow), pushes' = Kept(q),
         \A i \in 1..Len(q) : (\E j \in 1..Len(pushes) : q[i] = pushes[j]) \/ Told(q[i])
  PROVE  PushesGrow
<1>1. PICK r : r = Kept(q) OBVIOUS
<1>2. r \in Seq(PushRow) /\ \A i \in 1..Len(r) : \E j \in 1..Len(q) : r[i] = q[j]
  BY <1>1, KeptPart
<1>3. pushes' = r BY <1>1
<1> QED BY <1>2, <1>3 DEF PushesGrow

\* Steps that leave the sessions' agents, and flushes that go on, alone.
LEMMA ElsewhereAwaits ==
  ASSUME AwaitInv, MailInv', UNCHANGED <<chan, inbox, active, working, awaiting, user>>,
         count'.user = count.user, LogsGrow, LogsQuiet, PushesGrow,
         \A k \in Flusher : fl'[k] = fl[k] \/ fl'[k].pc \in {"idle", "settle", "mark"}
  PROVE  AwaitInv'
<1> USE DEF AwaitInv
<1>1. /\ InputTypes' /\ NoUsers' BY DEF InputTypes, NoUsers, PushesGrow
<1>2. PushesTrue' BY PushesStayTrue DEF MailInv, A2ATypes
<1>3. \A t \in Session : /\ Len(log[t]) \in Nat /\ Len(log'[t]) \in Nat
                          /\ awaiting[t] \in Nat \cup {-1}
  BY AwaitTypes DEF MailInv, A2ATypes, AgentTypes
<1>4. ASSUME NEW t \in Session, NEW n \in Nat PROVE NoEndSince(t, n) => NoEndSince(t, n)'
  <2> SUFFICES ASSUME NoEndSince(t, n), NEW i \in (n + 1)..Len(log'[t])
               PROVE  log'[t][i].kind # "TurnEnded"
    BY DEF NoEndSince
  <2>1. CASE i <= Len(log[t]) BY <1>3, <2>1 DEF NoEndSince, LogsGrow
  <2>2. CASE i > Len(log[t]) BY <1>3, <2>2 DEF NoEndSince, LogsQuiet
  <2> QED BY <1>3, <2>1, <2>2
<1>5. ASSUME NEW t \in Session PROVE InTurn(t)' /\ Awaited(t)'
  <2>1. InTurn(t)' BY DEF InTurn, AtWork, EndAhead
  <2>2. awaiting[t] # -1 => (Ended(t)' => Ended(t))
    <3>1. PICK n : n = awaiting[t] OBVIOUS
    <3>2. n # -1 => (NoEndSince(t, n) => NoEndSince(t, n)') BY <1>3, <1>4, <3>1
    <3> QED BY <3>1, <3>2 DEF Ended, NoEndSince
  <2>3. AtRest(t)' <=> AtRest(t) BY DEF AtRest, AtWork, EndAhead
  <2> QED BY <2>1, <2>2, <2>3 DEF Awaited
<1>6. ASSUME NEW k \in Flusher PROVE Prepared(k)'
  <2>1. CASE fl'[k] # fl[k] BY <2>1 DEF Prepared
  <2>2. CASE fl'[k] = fl[k] /\ fl[k].pc \in {"read", "take", "start", "deliver"}
    <3>1. PICK t \in Session : t = fl[k].t BY <2>2, AwaitTypes
    <3>2. PICK n \in Nat : n = fl[k].seq BY AwaitTypes
    <3>3. AtRest(t)' <=> AtRest(t) BY DEF AtRest, AtWork, EndAhead
    <3>4. n <= Len(log[t]) => n <= Len(log'[t]) BY <1>3, <3>2 DEF LogsGrow
    <3>5. NoEndSince(t, n) => NoEndSince(t, n)' BY <1>4
    <3> QED BY <2>2, <3>1, <3>2, <3>3, <3>4, <3>5 DEF Prepared, NoEndSince
  <2>3. CASE fl'[k] = fl[k] /\ fl[k].pc \notin {"read", "take", "start", "deliver"}
    BY <2>3 DEF Prepared
  <2> QED BY <2>1, <2>2, <2>3
<1> QED BY <1>1, <1>2, <1>5, <1>6

\* A step at one session, and at the flush of it that is under way.
Others(x) ==
    \A y \in Session : y # x =>
        /\ log'[y] = log[y] /\ chan'[y] = chan[y] /\ inbox'[y] = inbox[y]
        /\ awaiting'[y] = awaiting[y]
        /\ (y \in active' <=> y \in active) /\ (y \in working' <=> y \in working)

LEMMA OneSession ==
  ASSUME AwaitInv, MailInv', NEW x \in Session, InputTypes', NoUsers', PushesTrue', Others(x),
         \A k \in Flusher : fl[k].t # x => fl'[k] = fl[k],
         InTurn(x)', Awaited(x)',
         \A k \in Flusher : fl[k].t = x => Prepared(k)'
  PROVE  AwaitInv'
<1> USE DEF AwaitInv
<1>1. ASSUME NEW y \in Session PROVE InTurn(y)' /\ Awaited(y)'
  <2>1. CASE y = x BY <2>1
  <2>2. CASE y # x
    BY <2>2 DEF Others, InTurn, Awaited, AtRest, AtWork, EndAhead, Ended
  <2> QED BY <2>1, <2>2
<1>2. ASSUME NEW k \in Flusher PROVE Prepared(k)'
  <2>1. CASE fl[k].t = x BY <2>1
  <2>2. CASE fl[k].t # x /\ fl[k].pc = "idle" BY <2>2 DEF Prepared
  <2>3. CASE fl[k].t # x /\ fl[k].pc # "idle"
    <3>1. fl'[k] = fl[k] BY <2>3
    <3>2. PICK y \in Session : y = fl[k].t /\ y # x BY <2>3, AwaitTypes
    <3>3. AtRest(y)' <=> AtRest(y) BY <3>2 DEF Others, AtRest, AtWork, EndAhead
    <3> QED BY <3>1, <3>2, <3>3 DEF Others, Prepared, NoEndSince
  <2> QED BY <2>1, <2>2, <2>3
<1> QED BY <1>1, <1>2

\* Two flushes of one session are one.
LEMMA OneFlush ==
  ASSUME AwaitInv, MailInv', NEW k \in Flusher, NEW x \in Session,
         fl[k].t = x, fl[k].pc # "idle", InputTypes', NoUsers', PushesTrue', Others(x),
         \A j \in Flusher : j # k => fl'[j] = fl[j],
         InTurn(x)', Awaited(x)', Prepared(k)'
  PROVE  AwaitInv'
<1>1. ASSUME NEW j \in Flusher, fl[j].t = x, j # k PROVE Prepared(j)'
  <2>1. fl[j].pc = "idle" BY <1>1, AwaitTypes DEF AwaitInv
  <2> QED BY <1>1, <2>1 DEF Prepared
<1>2. \A j \in Flusher : fl[j].t # x => fl'[j] = fl[j] OBVIOUS
<1> QED BY <1>1, <1>2, OneSession

\* What is put at the end of a channel.
LEMMA EndPut ==
  ASSUME NEW t, chan[t] \in Seq(Event), NEW v, chan'[t] = Append(chan[t], v)
  PROVE  /\ v.kind # "TurnEnded" => /\ EndAhead(t)' <=> EndAhead(t)
                                    /\ \A i \in 1..Len(chan'[t]) : chan'[t][i].kind = "TurnEnded" =>
                                          i \in 1..Len(chan[t]) /\ chan[t][i].kind = "TurnEnded"
         /\ ~EndAhead(t) => \A i \in 1..Len(chan'[t]) : chan'[t][i].kind = "TurnEnded" =>
                               i = Len(chan[t]) + 1
<1>1. Len(chan[t]) \in Nat OBVIOUS
<1>2. /\ Len(chan'[t]) = Len(chan[t]) + 1
      /\ \A i \in 1..Len(chan[t]) : chan'[t][i] = chan[t][i]
      /\ chan'[t][Len(chan[t]) + 1] = v
  BY LogAppended
<1>3. \A i \in 1..Len(chan'[t]) : i \in 1..Len(chan[t]) \/ i = Len(chan[t]) + 1 BY <1>1, <1>2
<1>4. \A i \in 1..Len(chan[t]) : i \in 1..Len(chan'[t]) BY <1>1, <1>2
<1> QED BY <1>2, <1>3, <1>4 DEF EndAhead

\* While its agent works, no flush of a session goes on.
LEMMA WorkIsAwaited ==
  ASSUME AwaitInv, NEW x \in Session, AtWork(x)
  PROVE  /\ awaiting[x] # -1 /\ ~Ended(x)
         /\ \A k \in Flusher : fl[k].t = x => fl[k].pc \notin {"read", "take", "start", "deliver"}
<1>1. ~AtRest(x) BY DEF AtRest
<1>2. awaiting[x] # -1 /\ ~Ended(x) BY <1>1 DEF AwaitInv, Awaited
<1> QED BY <1>1, <1>2 DEF AwaitInv, Prepared

LEMMA AgentAwaits ==
  ASSUME AwaitInv, MailInv', NEW x \in Session,
         AgentReads(x) \/ TurnEnds(x) \/ AgentExits(x) \/ EndMember(x)
  PROVE  AwaitInv'
<1> USE DEF AwaitInv
<1>0. /\ count \in Counts /\ active \subseteq Session /\ working \subseteq Session
      /\ chan \in [Session -> Seq(Event)] /\ inbox \in [Session -> Seq(Seq(Nat))]
  BY DEF MailInv, A2ATypes, FlushTypes, AgentTypes, InputTypes
<1>1. /\ UNCHANGED <<log, fl, awaiting, pushes, user>>
      /\ count'.user = count.user
      /\ \A y \in Session : y # x => /\ chan'[y] = chan[y] /\ inbox'[y] = inbox[y]
                                     /\ (y \in active' <=> y \in active)
                                     /\ (y \in working' <=> y \in working)
  <2>1. UNCHANGED <<log, fl, awaiting, pushes, user>>
    BY DEF AgentReads, TurnEnds, AgentExits, EndMember, flushes, watch
  <2>2. count'.user = count.user
    BY <1>0 DEF AgentReads, TurnEnds, AgentExits, EndMember, Bump, Counts
  <2> QED BY <1>0, <2>1, <2>2 DEF AgentReads, TurnEnds, AgentExits, EndMember
<1>2. inbox' \in [Session -> Seq(Seq(Nat))]
  <2>1. <<>> \in Seq(Seq(Nat)) OBVIOUS
  <2>2. inbox[x] # <<>> => Tail(inbox[x]) \in Seq(Seq(Nat)) BY <1>0
  <2>3. \/ inbox' = inbox \/ inbox' = [inbox EXCEPT ![x] = <<>>]
        \/ inbox[x] # <<>> /\ inbox' = [inbox EXCEPT ![x] = Tail(inbox[x])]
    BY <1>0 DEF AgentReads, TurnEnds, AgentExits, EndMember
  <2> QED BY <1>0, <2>1, <2>2, <2>3
<1>3. InputTypes' /\ NoUsers' /\ PushesTrue' /\ Others(x)
  BY <1>1, <1>2 DEF InputTypes, NoUsers, PushesTrue, Others
<1>4. Ended(x)' <=> Ended(x) BY <1>1 DEF Ended
<1>5. InTurn(x) OBVIOUS
<1>6. InTurn(x)'
  <2>1. CASE AgentReads(x)
    <3>1. /\ inbox[x] # <<>> /\ inbox'[x] = Tail(inbox[x]) /\ x \in working'
          /\ chan' = chan
      BY <1>0, <2>1 DEF AgentReads
    <3>2. inbox'[x] = <<>>
      <4>1. inbox[x] \in Seq(Seq(Nat)) /\ Len(inbox[x]) = 1 BY <1>0, <1>5, <3>1 DEF InTurn
      <4> QED BY <3>1, <4>1, TakenApart, Zenon
    <3> QED BY <1>5, <3>1, <3>2 DEF InTurn, AtWork, EndAhead
  <2>2. CASE TurnEnds(x)
    <3>1. /\ x \in working /\ x \notin working' /\ x \notin active' /\ inbox' = inbox
          /\ chan'[x] = Append(chan[x], EndEvent)
      BY <1>0, <2>2 DEF TurnEnds
    <3>2. inbox'[x] = <<>> /\ ~EndAhead(x) BY <1>5, <3>1 DEF InTurn, AtWork
    <3>3. \A i \in 1..Len(chan'[x]) : chan'[x][i].kind = "TurnEnded" => i = Len(chan[x]) + 1
      BY <1>0, <3>1, <3>2, EndPut
    <3> QED BY <3>1, <3>2, <3>3 DEF InTurn, AtWork
  <2>3. CASE AgentExits(x) \/ EndMember(x)
    <3>1. /\ inbox'[x] = <<>> /\ x \notin working' /\ x \notin active'
          /\ \/ chan' = chan
             \/ x \in active /\ chan'[x] = Append(chan[x], EndEvent)
      BY <1>0, <2>3 DEF AgentExits, EndMember
    <3>2. CASE chan' = chan BY <1>5, <3>1, <3>2 DEF InTurn, AtWork, EndAhead
    <3>3. CASE x \in active /\ chan'[x] = Append(chan[x], EndEvent)
      <4>1. ~EndAhead(x) BY <1>5, <3>3 DEF InTurn
      <4>2. \A i \in 1..Len(chan'[x]) : chan'[x][i].kind = "TurnEnded" => i = Len(chan[x]) + 1
        BY <1>0, <3>3, <4>1, EndPut
      <4> QED BY <3>1, <4>2 DEF InTurn, AtWork
    <3> QED BY <3>1, <3>2, <3>3
  <2> QED BY <2>1, <2>2, <2>3
<1>7. CASE AtWork(x)
  <2>1. Awaited(x)' BY <1>1, <1>4, <1>7, WorkIsAwaited DEF Awaited
  <2>2. \A k \in Flusher : fl[k].t = x => Prepared(k)'
    BY <1>1, <1>7, WorkIsAwaited DEF Prepared
  <2> QED BY <1>1, <1>3, <1>6, <2>1, <2>2, OneSession
<1>8. CASE ~AtWork(x)
  <2>1. chan'[x] = chan[x] /\ inbox'[x] = <<>> /\ x \notin working'
    <3>1. x \notin active /\ inbox[x] = <<>> /\ x \notin working BY <1>5, <1>8 DEF InTurn, AtWork
    <3> QED BY <1>0, <3>1 DEF AgentReads, TurnEnds, AgentExits, EndMember
  <2>2. AtRest(x) => AtRest(x)' BY <2>1 DEF AtRest, AtWork, EndAhead
  <2>3. Awaited(x)' BY <1>1, <1>4, <2>2 DEF Awaited
  <2>4. ASSUME NEW k \in Flusher, fl[k].t = x PROVE Prepared(k)'
    BY <1>1, <2>2, <2>4 DEF Prepared, NoEndSince
  <2> QED BY <1>1, <1>3, <1>6, <2>3, <2>4, OneSession
<1> QED BY <1>7, <1>8

\* One event more in a transcript.
LEMMA OneMoreEvent ==
  ASSUME NEW t, log[t] \in Seq(Event), NEW e, log'[t] = Append(log[t], e)
  PROVE  /\ Len(log[t]) \in Nat /\ Len(log'[t]) = Len(log[t]) + 1
         /\ \A i \in 1..Len(log[t]) : log'[t][i] = log[t][i]
         /\ log'[t][Len(log[t]) + 1] = e
         /\ e.kind # "TurnEnded" => \A n \in Nat : NoEndSince(t, n) =>
               \A i \in (n + 1)..Len(log'[t]) : log'[t][i].kind # "TurnEnded"
<1>1. /\ Len(log[t]) \in Nat /\ Len(log'[t]) = Len(log[t]) + 1
      /\ \A i \in 1..Len(log[t]) : log'[t][i] = log[t][i]
      /\ log'[t][Len(log[t]) + 1] = e
  BY LogAppended
<1>2. ASSUME e.kind # "TurnEnded", NEW n \in Nat, NoEndSince(t, n), NEW i \in (n + 1)..Len(log'[t])
      PROVE  log'[t][i].kind # "TurnEnded"
  <2>1. CASE i = Len(log[t]) + 1 BY <1>1, <1>2, <2>1
  <2>2. CASE i # Len(log[t]) + 1
    <3>1. i \in 1..Len(log[t]) /\ i \in (n + 1)..Len(log[t]) BY <1>1, <1>2, <2>2
    <3> QED BY <1>1, <1>2, <3>1 DEF NoEndSince
  <2> QED BY <2>1, <2>2
<1> QED BY <1>1, <1>2

\* An event pushed onto a queue of true rows: the row of the event is the only new one.
LEMMA EventPushed ==
  ASSUME NEW t \in Session, NEW n \in Nat, NEW e, pushes \in Seq(PushRow),
         NEW p, p = [s |-> t, seq |-> n, end |-> e.kind = "TurnEnded"], Told(p),
         pushes' = Kept(Pushed(pushes, t, n, e))
  PROVE  PushesGrow
<1>1. PICK q \in Seq(PushRow) : q = pushes OBVIOUS
<1>2. PICK r : r = Pushed(q, t, n, e) OBVIOUS
<1>3. p \in PushRow BY DEF PushRow
<1>4. r = Append(q, p) BY <1>2 DEF Pushed
<1>5. /\ r \in Seq(PushRow)
      /\ \A i \in 1..Len(r) : (\E j \in 1..Len(q) : r[i] = q[j]) \/ r[i] = p
  BY <1>3, <1>4, RowPushed
<1>6. \A i \in 1..Len(r) : (\E j \in 1..Len(pushes) : r[i] = pushes[j]) \/ Told(r[i])
  BY <1>1, <1>5
<1>7. pushes' = Kept(r) BY <1>1, <1>2
<1> QED BY <1>5, <1>6, <1>7, PushGrows

LEMMA PumpAwaits == ASSUME AwaitInv, MailInv', NEW x \in Session, Pump(x) PROVE AwaitInv'
<1> USE DEF AwaitInv
<1>1. PICK e : e = Head(chan[x]) OBVIOUS
<1>2. /\ chan[x] # <<>> /\ chan'[x] = Tail(chan[x]) /\ log'[x] = Append(log[x], e)
      /\ UNCHANGED <<inbox, active, working, user, fl, awaiting, count>>
      /\ \A y \in Session : y # x => log'[y] = log[y] /\ chan'[y] = chan[y]
      /\ pushes' = Kept(Pushed(pushes, x, Len(log[x]) + 1, e))
  BY <1>1, AwaitTypes DEF Pump, Push, flushes
<1>3. /\ log[x] \in Seq(Event) /\ chan[x] \in Seq(Event) /\ Len(log[x]) \in Nat
      /\ awaiting[x] \in Nat \cup {-1}
  BY AwaitTypes
<1>4. /\ e = chan[x][1] /\ Len(chan[x]) \in Nat /\ Len(chan[x]) >= 1
      /\ Len(chan'[x]) = Len(chan[x]) - 1
      /\ \A i \in 1..Len(chan'[x]) : chan'[x][i] = chan[x][i + 1] /\ i + 1 \in 1..Len(chan[x])
  BY <1>1, <1>2, <1>3, TakenApart
<1>5. /\ Len(log'[x]) = Len(log[x]) + 1
      /\ \A i \in 1..Len(log[x]) : log'[x][i] = log[x][i]
      /\ log'[x][Len(log[x]) + 1] = e
  BY <1>2, <1>3, OneMoreEvent
<1>6. Others(x) BY <1>2 DEF Others
<1>7. LogsGrow
  <2>1. \A y \in Session : Len(log[y]) \in Nat BY AwaitTypes
  <2> QED BY <1>2, <1>5, <2>1 DEF LogsGrow
<1>8. PushesGrow
  <2>1. PICK n \in Nat : n = Len(log[x]) + 1 BY <1>3
  <2>2. PICK p : p = [s |-> x, seq |-> n, end |-> e.kind = "TurnEnded"] OBVIOUS
  <2>3. p.s = x /\ p.seq = n /\ (p.end <=> e.kind = "TurnEnded") BY <2>2
  <2>4. n \in 1..Len(log'[x]) BY <1>3, <1>5, <2>1
  <2>5. Told(p) BY <1>5, <2>1, <2>3, <2>4 DEF Told
  <2>6. pushes' = Kept(Pushed(pushes, x, n, e)) BY <1>2, <2>1
  <2>7. pushes \in Seq(PushRow) BY DEF InputTypes
  <2> QED BY <2>2, <2>5, <2>6, <2>7, EventPushed
<1>9. PushesTrue' BY <1>7, <1>8, PushesStayTrue DEF MailInv, A2ATypes
<1>10. InputTypes' /\ NoUsers' BY <1>2, <1>8 DEF InputTypes, NoUsers, PushesGrow
<1>11. InTurn(x) OBVIOUS
<1>12. AtWork(x)' <=> AtWork(x) BY <1>2 DEF AtWork
<1>13. EndAhead(x)' => EndAhead(x) BY <1>4 DEF EndAhead
<1>14. InTurn(x)'
  <2>1. \A i, j \in 1..Len(chan'[x]) :
           chan'[x][i].kind = "TurnEnded" /\ chan'[x][j].kind = "TurnEnded" => i = j
    <3> SUFFICES ASSUME NEW i \in 1..Len(chan'[x]), NEW j \in 1..Len(chan'[x]),
                        chan'[x][i].kind = "TurnEnded", chan'[x][j].kind = "TurnEnded"
                 PROVE  i = j
      OBVIOUS
    <3>1. i + 1 = j + 1 BY <1>4, <1>11 DEF InTurn
    <3> QED BY <3>1
  <2> QED BY <1>2, <1>11, <1>12, <1>13, <2>1 DEF InTurn
<1>15. CASE e.kind = "TurnEnded"
  <2>1. EndAhead(x) BY <1>4, <1>15 DEF EndAhead
  <2>2. ~EndAhead(x)'
    <3> SUFFICES ASSUME NEW i \in 1..Len(chan'[x]), chan'[x][i].kind = "TurnEnded" PROVE FALSE
      BY DEF EndAhead
    <3>1. 1 \in 1..Len(chan[x]) /\ i + 1 \in 1..Len(chan[x]) BY <1>4
    <3>2. i + 1 = 1 BY <1>4, <1>11, <1>15, <3>1 DEF InTurn
    <3> QED BY <3>2
  <2>3. ~AtWork(x) BY <1>11, <2>1 DEF InTurn
  <2>4. AtRest(x)' BY <1>12, <2>2, <2>3 DEF AtRest
  <2>5. \A k \in Flusher : fl[k].t = x => fl[k].pc \notin {"read", "take", "start", "deliver"}
    <3>1. ~AtRest(x) BY <2>1 DEF AtRest
    <3>2. awaiting[x] # -1 BY <3>1 DEF Awaited
    <3> QED BY <3>1, <3>2 DEF Prepared
  <2>6. \A k \in Flusher : fl[k].t = x => Prepared(k)' BY <1>2, <2>5 DEF Prepared
  <2> QED BY <1>2, <1>6, <1>9, <1>10, <1>14, <2>4, <2>6, OneSession DEF Awaited
<1>16. CASE e.kind # "TurnEnded"
  <2>1. \A n \in Nat : NoEndSince(x, n) =>
           \A i \in (n + 1)..Len(log'[x]) : log'[x][i].kind # "TurnEnded"
    BY <1>2, <1>3, <1>16, OneMoreEvent
  <2>2. AtRest(x) => AtRest(x)' BY <1>12, <1>13 DEF AtRest
  <2>3. awaiting[x] # -1 => (Ended(x)' => Ended(x))
    <3>1. awaiting[x] # -1 => awaiting[x] \in Nat BY <1>3
    <3> QED BY <1>2, <2>1, <3>1 DEF Ended, NoEndSince
  <2>4. Awaited(x)' BY <1>2, <2>2, <2>3 DEF Awaited
  <2>5. ASSUME NEW k \in Flusher, fl[k].t = x PROVE Prepared(k)'
    <3>1. fl[k].seq \in Nat BY AwaitTypes
    <3>2. NoEndSince(x, fl[k].seq) =>
             \A i \in (fl[k].seq + 1)..Len(log'[x]) : log'[x][i].kind # "TurnEnded"
      BY <2>1, <3>1
    <3>3. fl[k].seq <= Len(log[x]) => fl[k].seq <= Len(log'[x]) BY <1>3, <1>5, <3>1
    <3> QED BY <1>2, <2>2, <2>5, <3>2, <3>3 DEF Prepared, NoEndSince
  <2> QED BY <1>2, <1>6, <1>9, <1>10, <1>14, <2>4, <2>5, OneSession
<1> QED BY <1>15, <1>16

\* The steps of a flush.
LEMMA FlushAwaits ==
  ASSUME AwaitInv, MailInv', NEW k \in Flusher,
         \/ FlushSettle(k) \/ FlushRead(k) \/ FlushTake(k) \/ FlushRecord(k)
         \/ FlushDeliver(k) \/ FlushDeliverErr(k) \/ FlushStartErr(k)
  PROVE  AwaitInv'
<1> USE DEF AwaitInv
<1>1. PICK x : x = fl[k].t OBVIOUS
<1>2. fl[k].pc \notin {"idle", "mark"} /\ x \in Session
  <2>1. fl[k].pc \notin {"idle", "mark"}
    BY DEF FlushSettle, FlushRead, FlushTake, FlushRecord, FlushDeliver, FlushDeliverErr,
           FlushStartErr
  <2> QED BY <1>1, <2>1, AwaitTypes
<1>3. /\ UNCHANGED <<log, pushes, working, user>> /\ count'.user = count.user
      /\ \A j \in Flusher : j # k => fl'[j] = fl[j]
      /\ \A y \in Session : y # x =>
            /\ chan'[y] = chan[y] /\ inbox'[y] = inbox[y] /\ awaiting'[y] = awaiting[y]
            /\ (y \in active' <=> y \in active)
  <2>1. /\ fl \in [Flusher -> FlushRow] /\ awaiting \in [Session -> Int] /\ count \in Counts
        /\ chan \in [Session -> Seq(Event)] /\ inbox \in [Session -> Seq(Seq(Nat))]
    BY DEF MailInv, A2ATypes, FlushTypes, AgentTypes, InputTypes
  <2>2. UNCHANGED <<log, pushes, working, user>>
    BY DEF FlushSettle, FlushRead, FlushTake, FlushRecord, FlushDeliver, FlushDeliverErr,
           FlushStartErr, sessions, watch
  <2>3. count'.user = count.user
    BY <2>1 DEF FlushSettle, FlushRead, FlushTake, FlushRecord, FlushDeliver, FlushDeliverErr,
                FlushStartErr, Bump, Counts
  <2>4. \A j \in Flusher : j # k => fl'[j] = fl[j]
    BY <2>1 DEF FlushSettle, FlushRead, FlushTake, FlushRecord, FlushDeliver, FlushDeliverErr,
                FlushStartErr, Failed, Return
  <2>5. \A y \in Session : y # x =>
            /\ chan'[y] = chan[y] /\ inbox'[y] = inbox[y] /\ awaiting'[y] = awaiting[y]
            /\ (y \in active' <=> y \in active)
    BY <1>1, <2>1 DEF FlushSettle, FlushRead, FlushTake, FlushRecord, FlushDeliver,
                FlushDeliverErr, FlushStartErr, Failed, Return, sessions
  <2> QED BY <2>2, <2>3, <2>4, <2>5
<1>4. /\ NoUsers' /\ PushesTrue' /\ Others(x) BY <1>3 DEF NoUsers, PushesTrue, Others
<1>5. /\ log[x] \in Seq(Event) /\ chan[x] \in Seq(Event) /\ Len(log[x]) \in Nat
      /\ awaiting[x] \in Nat \cup {-1} /\ fl[k].seq \in Nat /\ fl[k] \in FlushRow
  BY <1>2, AwaitTypes
<1>6. InTurn(x) /\ Awaited(x) /\ Prepared(k) BY <1>2
\* a flush that returns, or goes on to r, with n awaited
<1>7. ASSUME NEW r, fl'[k] = r, NEW n \in Nat \cup {-1}, awaiting' = [awaiting EXCEPT ![x] = n],
             UNCHANGED inbox, UNCHANGED active, InTurn(x)', AtRest(x)' <=> AtRest(x),
             AtRest(x) \/ (n # -1 /\ NoEndSince(x, n)),
             r.pc # "idle" => r.t = x,
             r.pc \in {"read", "take"} => n = -1,
             r.pc \in {"take", "start", "deliver"} => r.seq <= Len(log[x]) /\ NoEndSince(x, r.seq),
             r.pc \in {"start", "deliver"} => n = r.seq /\ AtRest(x)
      PROVE  AwaitInv'
  <2>1. awaiting \in [Session -> Nat \cup {-1}] BY DEF InputTypes
  <2>2. InputTypes' BY <1>3, <1>7, <2>1 DEF InputTypes
  <2>3. awaiting'[x] = n BY <1>2, <1>7, <2>1
  <2>4. Awaited(x)' BY <1>3, <1>7, <2>3 DEF Awaited, Ended, NoEndSince
  <2>5. Prepared(k)'
    <3>1. CASE r.pc = "idle" BY <1>7, <3>1 DEF Prepared
    <3>2. CASE r.pc # "idle"
      <4>1. fl'[k].t = x BY <1>7, <3>2
      <4> QED BY <1>3, <1>7, <2>3, <4>1 DEF Prepared, NoEndSince
    <3> QED BY <3>1, <3>2
  <2> QED BY <1>1, <1>2, <1>3, <1>4, <1>7, <2>2, <2>4, <2>5, OneFlush
<1>8. ASSUME Return(k), awaiting' = awaiting, UNCHANGED <<chan, inbox, active>> PROVE AwaitInv'
  <2>1. fl'[k] = NoFlush BY <1>8, AwaitTypes DEF Return
  <2>2. LogsGrow /\ LogsQuiet /\ PushesGrow
    <3>1. \A y \in Session : Len(log[y]) \in Nat BY AwaitTypes
    <3> QED BY <1>3, <3>1, AwaitTypes DEF LogsGrow, LogsQuiet, PushesGrow
  <2>3. \A j \in Flusher : fl'[j] = fl[j] \/ fl'[j].pc \in {"idle", "settle", "mark"}
    BY <1>3, <2>1 DEF NoFlush
  <2> QED BY <1>3, <1>8, <2>2, <2>3, ElsewhereAwaits
<1>9. CASE FlushSettle(k)
  <2>1. UNCHANGED <<chan, inbox, active>> /\ fl[k].pc = "settle" BY <1>9 DEF FlushSettle, sessions
  <2>2. CASE awaiting[x] = -1 \/ Ended(x)
    <3>1. PICK r : r = [fl[k] EXCEPT !.pc = "read"] OBVIOUS
    <3>2. fl'[k] = r /\ awaiting' = [awaiting EXCEPT ![x] = -1]
      BY <1>1, <1>9, <2>2, <3>1, AwaitTypes DEF FlushSettle
    <3>3. r.pc = "read" /\ r.t = x BY <1>1, <1>5, <3>1 DEF FlushRow
    <3>4. AtRest(x) BY <1>6, <2>2 DEF Awaited
    <3>5. InTurn(x)' /\ (AtRest(x)' <=> AtRest(x))
      BY <1>3, <1>6, <2>1 DEF InTurn, AtRest, AtWork, EndAhead
    <3> QED BY <1>7, <2>1, <3>2, <3>3, <3>4, <3>5
  <2>3. CASE ~(awaiting[x] = -1 \/ Ended(x))
    BY <1>1, <1>8, <1>9, <2>1, <2>3 DEF FlushSettle
  <2> QED BY <2>2, <2>3
<1>10. CASE FlushRead(k)
  <2>1. UNCHANGED <<chan, inbox, active, awaiting>> /\ fl[k].pc = "read"
    BY <1>10 DEF FlushRead, sessions
  <2>2. CASE status[x] \in Busy BY <1>1, <1>8, <1>10, <2>1, <2>2 DEF FlushRead
  <2>3. CASE status[x] \notin Busy
    <3>1. PICK r : r = [fl[k] EXCEPT !.pc = "take", !.seq = Len(log[x])] OBVIOUS
    <3>2. fl'[k] = r BY <1>1, <1>10, <2>3, <3>1, AwaitTypes DEF FlushRead
    <3>3. r.pc = "take" /\ r.t = x /\ r.seq = Len(log[x]) BY <1>1, <1>5, <3>1 DEF FlushRow
    <3>4. awaiting[x] = -1 BY <1>1, <1>6, <2>1 DEF Prepared
    <3>5. AtRest(x) BY <1>6, <3>4 DEF Awaited
    <3>6. InTurn(x)' /\ (AtRest(x)' <=> AtRest(x))
      BY <1>3, <1>6, <2>1 DEF InTurn, AtRest, AtWork, EndAhead
    <3>7. NoEndSince(x, Len(log[x])) BY <1>5 DEF NoEndSince
    <3>8. awaiting' = [awaiting EXCEPT ![x] = -1] BY <2>1, <3>4, AwaitTypes
    <3>9. r.seq <= Len(log[x]) /\ NoEndSince(x, r.seq) BY <1>5, <3>3, <3>7
    <3> QED BY <1>5, <1>7, <2>1, <3>2, <3>3, <3>5, <3>6, <3>8, <3>9
  <2> QED BY <2>2, <2>3
<1>11. CASE FlushTake(k)
  <2>1. UNCHANGED <<chan, inbox, active>> /\ fl[k].pc = "take" BY <1>11 DEF FlushTake, sessions
  <2>2. CASE PendingFor(x) = <<>> BY <1>1, <1>8, <1>11, <2>1, <2>2 DEF FlushTake
  <2>3. CASE PendingFor(x) # <<>>
    <3>1. PICK r : r = [fl[k] EXCEPT !.pc = "start", !.batch = PendingFor(x)] OBVIOUS
    <3>2. fl'[k] = r /\ awaiting' = [awaiting EXCEPT ![x] = fl[k].seq]
      BY <1>1, <1>11, <2>3, <3>1, AwaitTypes DEF FlushTake
    <3>3. r.pc = "start" /\ r.t = x /\ r.seq = fl[k].seq BY <1>1, <1>5, <3>1 DEF FlushRow
    <3>4. /\ awaiting[x] = -1 /\ fl[k].seq <= Len(log[x]) /\ NoEndSince(x, fl[k].seq)
      BY <1>1, <1>6, <2>1 DEF Prepared
    <3>5. AtRest(x) BY <1>6, <3>4 DEF Awaited
    <3>6. InTurn(x)' /\ (AtRest(x)' <=> AtRest(x))
      BY <1>3, <1>6, <2>1 DEF InTurn, AtRest, AtWork, EndAhead
    <3> QED BY <1>5, <1>7, <2>1, <3>2, <3>3, <3>4, <3>5, <3>6
  <2> QED BY <2>2, <2>3
<1>12. CASE FlushRecord(k)
  <2>1. PICK v : v = MsgEvent(fl[k].batch) OBVIOUS
  <2>2. PICK r : r = [fl[k] EXCEPT !.pc = "deliver"] OBVIOUS
  <2>3. /\ UNCHANGED <<inbox, active, awaiting>> /\ fl[k].pc = "start" /\ fl'[k] = r
        /\ chan'[x] = Append(chan[x], v)
    BY <1>1, <1>2, <1>12, <2>1, <2>2, AwaitTypes DEF FlushRecord
  <2>4. v.kind # "TurnEnded" BY <2>1 DEF MsgEvent
  <2>5. r.pc = "deliver" /\ r.t = x /\ r.seq = fl[k].seq BY <1>1, <1>5, <2>2 DEF FlushRow
  <2>6. /\ awaiting[x] = fl[k].seq /\ fl[k].seq <= Len(log[x]) /\ NoEndSince(x, fl[k].seq)
        /\ AtRest(x)
    BY <1>1, <1>6, <2>3 DEF Prepared
  <2>7. /\ EndAhead(x)' <=> EndAhead(x)
        /\ \A i \in 1..Len(chan'[x]) : chan'[x][i].kind = "TurnEnded" =>
              i \in 1..Len(chan[x]) /\ chan[x][i].kind = "TurnEnded"
    BY <1>5, <2>3, <2>4, EndPut
  <2>8. AtRest(x)' <=> AtRest(x) BY <1>3, <2>3, <2>7 DEF AtRest, AtWork
  <2>9. InTurn(x)'
    <3>1. \A i, j \in 1..Len(chan'[x]) :
             chan'[x][i].kind = "TurnEnded" /\ chan'[x][j].kind = "TurnEnded" => i = j
      BY <2>6, <2>7 DEF AtRest, EndAhead
    <3> QED BY <1>3, <1>6, <2>3, <2>7, <3>1 DEF InTurn, AtWork
  <2>10. awaiting' = [awaiting EXCEPT ![x] = fl[k].seq] BY <2>3, <2>6, AwaitTypes
  <2> QED BY <1>5, <1>7, <2>3, <2>5, <2>6, <2>8, <2>9, <2>10
<1>13. CASE FlushDeliver(k)
  <2>1. PICK b : b = fl[k].batch OBVIOUS
  <2>2. PICK r : r = [fl[k] EXCEPT !.pc = "mark"] OBVIOUS
  <2>3. /\ UNCHANGED <<chan, awaiting>> /\ fl[k].pc = "deliver" /\ fl'[k] = r
        /\ inbox' = [inbox EXCEPT ![x] = Append(inbox[x], b)]
    BY <1>1, <1>13, <2>1, <2>2, AwaitTypes DEF FlushDeliver, InputTypes
  <2>4. r.pc = "mark" BY <1>5, <2>2 DEF FlushRow
  <2>5. b \in Seq(Nat) /\ inbox[x] \in Seq(Seq(Nat)) /\ inbox \in [Session -> Seq(Seq(Nat))]
    BY <1>2, <2>1, AwaitTypes DEF InputTypes
  <2>6. /\ awaiting[x] = fl[k].seq /\ NoEndSince(x, fl[k].seq) /\ AtRest(x)
    BY <1>1, <1>6, <2>3 DEF Prepared
  <2>7. inbox[x] = <<>> /\ x \notin working /\ ~EndAhead(x) BY <2>6 DEF AtRest, AtWork
  <2>8. inbox'[x] # <<>> /\ Len(inbox'[x]) = 1 /\ inbox' \in [Session -> Seq(Seq(Nat))]
    <3>1. PICK c : c = Append(inbox[x], b) OBVIOUS
    <3>2. c \in Seq(Seq(Nat)) /\ c # <<>> /\ Len(c) = 1
      BY <2>5, <2>7, <3>1, FirstPut
    <3>3. inbox'[x] = c /\ inbox' = [inbox EXCEPT ![x] = c] BY <1>2, <2>3, <2>5, <3>1
    <3> QED BY <2>5, <3>2, <3>3
  <2>9. InTurn(x)'
    <3>1. x \notin working' /\ AtWork(x)' BY <1>3, <2>7, <2>8 DEF AtWork
    <3>2. ~EndAhead(x)' BY <2>3, <2>7 DEF EndAhead
    <3> QED BY <1>6, <2>3, <2>8, <3>1, <3>2 DEF InTurn
  <2>10. Awaited(x)'
    <3>1. awaiting'[x] # -1 BY <1>5, <2>3, <2>6
    <3>2. ~Ended(x)' BY <1>3, <2>3, <2>6 DEF Ended, NoEndSince
    <3> QED BY <3>1, <3>2 DEF Awaited
  <2>11. Prepared(k)' BY <2>3, <2>4 DEF Prepared
  <2>12. InputTypes' BY <1>3, <2>3, <2>8 DEF InputTypes
  <2> QED BY <1>1, <1>2, <1>3, <1>4, <2>9, <2>10, <2>11, <2>12, OneFlush
<1>14. CASE FlushDeliverErr(k) \/ FlushStartErr(k)
  <2>1. /\ UNCHANGED <<chan, inbox, active>> /\ fl[k].pc \in {"start", "deliver"}
        /\ awaiting' = [awaiting EXCEPT ![x] = -1] /\ fl'[k] = NoFlush
    BY <1>1, <1>14, AwaitTypes DEF FlushDeliverErr, FlushStartErr, Failed, Return, sessions
  <2>2. AtRest(x) BY <1>1, <1>6, <2>1 DEF Prepared
  <2>3. InTurn(x)' /\ (AtRest(x)' <=> AtRest(x))
    BY <1>3, <1>6, <2>1 DEF InTurn, AtRest, AtWork, EndAhead
  <2>4. NoFlush.pc = "idle" BY DEF NoFlush
  <2> QED BY <1>7, <2>1, <2>2, <2>3, <2>4
<1> QED BY <1>9, <1>10, <1>11, <1>12, <1>13, <1>14

\* Notices are no ends of turns, in the transcript and in what the watcher is told.
LEMMA NoticesQuiet ==
  ASSUME MailInv, AgentTypes', NEW e, e.kind # "TurnEnded",
         \A y \in Session : \/ log'[y] = log[y] \/ log'[y] = Append(log[y], e)
                            \/ log'[y] = Append(Append(log[y], e), e)
  PROVE  LogsGrow /\ LogsQuiet
<1> SUFFICES ASSUME NEW y \in Session
             PROVE  /\ Len(log'[y]) >= Len(log[y])
                    /\ \A i \in 1..Len(log[y]) : log'[y][i] = log[y][i]
                    /\ \A i \in (Len(log[y]) + 1)..Len(log'[y]) : log'[y][i].kind # "TurnEnded"
  BY DEF LogsGrow, LogsQuiet
<1>1. log[y] \in Seq(Event) /\ Len(log[y]) \in Nat /\ log'[y] \in Seq(Event)
  BY DEF MailInv, A2ATypes, AgentTypes
<1>2. CASE log'[y] = log[y] BY <1>1, <1>2
<1>3. /\ Len(Append(log[y], e)) = Len(log[y]) + 1
      /\ \A i \in 1..Len(log[y]) : Append(log[y], e)[i] = log[y][i]
      /\ Append(log[y], e)[Len(log[y]) + 1] = e
  BY <1>1, LogAppended
<1>4. CASE log'[y] = Append(log[y], e) BY <1>1, <1>3, <1>4
<1>5. CASE log'[y] = Append(Append(log[y], e), e)
  <2>1. PICK q : q = Append(log[y], e) OBVIOUS
  <2>2. q \in Seq(Event \cup {e}) BY <1>1, <2>1
  <2>3. /\ Len(Append(q, e)) = Len(q) + 1
        /\ \A i \in 1..Len(q) : Append(q, e)[i] = q[i]
        /\ Append(q, e)[Len(q) + 1] = e
    BY <2>2, LogAppended
  <2> QED BY <1>1, <1>3, <1>5, <2>1, <2>3
<1> QED BY <1>2, <1>4, <1>5

LEMMA NoticePushed ==
  ASSUME NEW q \in Seq(PushRow), NEW t \in Session, NEW n \in Nat, NEW e, e.kind # "TurnEnded",
         \A i \in 1..Len(q) : (\E j \in 1..Len(pushes) : q[i] = pushes[j]) \/ Told(q[i])
  PROVE  /\ Pushed(q, t, n, e) \in Seq(PushRow)
         /\ \A i \in 1..Len(Pushed(q, t, n, e)) :
               \/ \E j \in 1..Len(pushes) : Pushed(q, t, n, e)[i] = pushes[j]
               \/ Told(Pushed(q, t, n, e)[i])
<1>1. PICK p : p = [s |-> t, seq |-> n, end |-> e.kind = "TurnEnded"] OBVIOUS
<1>2. Told(p) BY <1>1 DEF Told
<1>3. PICK r : r = Pushed(q, t, n, e) OBVIOUS
<1>4. /\ r \in Seq(PushRow)
      /\ \A i \in 1..Len(r) : (\E j \in 1..Len(q) : r[i] = q[j]) \/ r[i] = p
  BY <1>1, <1>3, PushedTrue
<1>5. \A i \in 1..Len(r) : (\E j \in 1..Len(pushes) : r[i] = pushes[j]) \/ Told(r[i])
  <2> SUFFICES ASSUME NEW i \in 1..Len(r)
               PROVE  (\E j \in 1..Len(pushes) : r[i] = pushes[j]) \/ Told(r[i])
    OBVIOUS
  <2>1. CASE r[i] = p BY <1>2, <2>1
  <2>2. CASE \E j \in 1..Len(q) : r[i] = q[j]
    <3>1. PICK j \in 1..Len(q) : r[i] = q[j] BY <2>2
    <3>2. (\E m \in 1..Len(pushes) : q[j] = pushes[m]) \/ Told(q[j]) OBVIOUS
    <3> QED BY <3>1, <3>2
  <2> QED BY <1>4, <2>1, <2>2
<1> QED BY <1>3, <1>4, <1>5

LEMMA NoticesAwait ==
  ASSUME AwaitInv, MailInv',
         (\E s \in Session : Noticed(s)) \/ (\E k \in Sender : SendRefused(k))
  PROVE  AwaitInv'
<1> USE DEF AwaitInv
<1>1. NoticeEvent.kind # "TurnEnded" BY DEF NoticeEvent
<1>2. /\ \A i \in 1..Len(pushes) :
            (\E j \in 1..Len(pushes) : pushes[i] = pushes[j]) \/ Told(pushes[i])
      /\ \A y \in Session : Len(log[y]) \in Nat
      /\ log \in [Session -> Seq(Event)] /\ pushes \in Seq(PushRow) /\ count \in Counts
  BY AwaitTypes DEF MailInv, A2ATypes, FlushTypes
<1>3. ASSUME NEW s \in Session, Noticed(s) PROVE AwaitInv'
  <2>1. /\ UNCHANGED <<chan, inbox, active, working, awaiting, user, fl, count>>
        /\ log' = [log EXCEPT ![s] = Append(@, NoticeEvent)]
        /\ pushes' = Kept(Pushed(pushes, s, Len(log[s]) + 1, NoticeEvent))
    BY <1>3 DEF Noticed, Push, flushes
  <2>2. \A y \in Session : log'[y] = log[y] \/ log'[y] = Append(log[y], NoticeEvent)
    BY <1>2, <2>1
  <2>3. LogsGrow /\ LogsQuiet BY <1>1, <2>2, NoticesQuiet DEF MailInv, A2ATypes
  <2>4. PushesGrow
    <3>1. PICK q : q = Pushed(pushes, s, Len(log[s]) + 1, NoticeEvent) OBVIOUS
    <3>2. Len(log[s]) + 1 \in Nat BY <1>2
    <3>3. /\ q \in Seq(PushRow)
          /\ \A i \in 1..Len(q) : (\E j \in 1..Len(pushes) : q[i] = pushes[j]) \/ Told(q[i])
      BY <1>1, <1>2, <3>1, <3>2, NoticePushed, Zenon
    <3> QED BY <2>1, <3>1, <3>3, PushGrows
  <2> QED BY <2>1, <2>3, <2>4, ElsewhereAwaits
<1>4. ASSUME NEW k \in Sender, SendRefused(k) PROVE AwaitInv'
  <2>1. PICK f, t : f = snd[k].from /\ t = snd[k].to OBVIOUS
  <2>2. /\ UNCHANGED <<chan, inbox, active, working, awaiting, user, fl>>
        /\ count' = count \/ Bump("notice")
        /\ snd[k].pc = "lock"
    BY <1>4 DEF SendRefused, flushes
  <2>3. f \in Session /\ t \in Session BY <2>1, <2>2 DEF MailInv, A2ATypes, QueueTypes
  <2>4. count'.user = count.user BY <1>2, <2>2 DEF Bump, Counts
  <2>5. CASE UNCHANGED <<log, watch>>
    <3>1. LogsGrow /\ LogsQuiet BY <1>2, <2>5 DEF LogsGrow, LogsQuiet
    <3>2. PushesGrow BY <1>2, <2>5 DEF PushesGrow, watch
    <3> QED BY <2>2, <2>4, <3>1, <3>2, ElsewhereAwaits
  <2>6. CASE ~UNCHANGED <<log, watch>>
    <3>1. PICK q : q = Pushed(pushes, f, Len(log[f]) + 1, NoticeEvent) OBVIOUS
    <3>2. /\ log' = [log EXCEPT ![f] = Append(@, NoticeEvent), ![t] = Append(@, NoticeEvent)]
          /\ pushes' = Kept(Pushed(q, t, Len(log[t]) + 1, NoticeEvent))
      BY <1>4, <2>1, <2>6, <3>1 DEF SendRefused, Push
    <3>3. \A y \in Session : \/ log'[y] = log[y] \/ log'[y] = Append(log[y], NoticeEvent)
                             \/ log'[y] = Append(Append(log[y], NoticeEvent), NoticeEvent)
      <4> DEFINE Add(l) == Append(l, NoticeEvent)
      <4>1. log' = [log EXCEPT ![f] = Add(@), ![t] = Add(@)] BY <3>2
      <4> HIDE DEF Add
      <4>2. \A y \in Session : \/ log'[y] = log[y] \/ log'[y] = Add(log[y])
                               \/ log'[y] = Add(Add(log[y]))
        <5>1. CASE f = t BY <1>2, <2>3, <4>1, <5>1
        <5>2. CASE f # t BY <1>2, <2>3, <4>1, <5>2
        <5> QED BY <5>1, <5>2
      <4> QED BY <4>2 DEF Add
    <3>4. LogsGrow /\ LogsQuiet BY <1>1, <3>3, NoticesQuiet DEF MailInv, A2ATypes
    <3>5. Len(log[f]) + 1 \in Nat /\ Len(log[t]) + 1 \in Nat BY <1>2, <2>3
    <3>6. /\ q \in Seq(PushRow)
          /\ \A i \in 1..Len(q) : (\E j \in 1..Len(pushes) : q[i] = pushes[j]) \/ Told(q[i])
      BY <1>1, <1>2, <2>3, <3>1, <3>5, NoticePushed, Zenon
    <3>7. PICK r : r = Pushed(q, t, Len(log[t]) + 1, NoticeEvent) OBVIOUS
    <3>8. /\ r \in Seq(PushRow)
          /\ \A i \in 1..Len(r) : (\E j \in 1..Len(pushes) : r[i] = pushes[j]) \/ Told(r[i])
      BY <1>1, <2>3, <3>5, <3>6, <3>7, NoticePushed, Zenon
    <3>9. PushesGrow BY <3>2, <3>7, <3>8, PushGrows
    <3> QED BY <2>2, <2>4, <3>4, <3>9, ElsewhereAwaits
  <2> QED BY <2>5, <2>6
<1> QED BY <1>3, <1>4

\* The watcher: it is told of no end that did not come.
LEMMA WatchAwaits == ASSUME AwaitInv, MailInv', WatchEvent PROVE AwaitInv'
<1> USE DEF AwaitInv
<1>1. PICK p : p = Head(pushes) OBVIOUS
<1>2. /\ pushes # <<>> /\ pushes' = Tail(pushes)
      /\ UNCHANGED <<log, chan, inbox, active, working, user, fl, count>>
  BY DEF WatchEvent, sessions
<1>3. /\ p = pushes[1] /\ p \in PushRow /\ 1 \in 1..Len(pushes)
      /\ pushes' \in Seq(PushRow)
      /\ \A i \in 1..Len(pushes') : i + 1 \in 1..Len(pushes) /\ pushes'[i] = pushes[i + 1]
  <2>1. pushes \in Seq(PushRow) /\ Len(pushes) \in Nat BY AwaitTypes
  <2>2. /\ Head(pushes) = pushes[1] /\ Head(pushes) \in PushRow /\ Len(pushes) >= 1
        /\ Tail(pushes) \in Seq(PushRow) /\ Len(Tail(pushes)) = Len(pushes) - 1
        /\ \A i \in 1..(Len(pushes) - 1) : Tail(pushes)[i] = pushes[i + 1]
    BY <1>2, <2>1, TakenApart
  <2> QED BY <1>1, <1>2, <2>1, <2>2
<1>4. PushesGrow BY <1>3 DEF PushesGrow
<1>5. LogsGrow /\ LogsQuiet
  <2>1. \A y \in Session : Len(log[y]) \in Nat BY AwaitTypes
  <2> QED BY <1>2, <2>1 DEF LogsGrow, LogsQuiet
<1>6. PICK x : x = p.s OBVIOUS
<1>7. x \in Session /\ p.seq \in Nat BY <1>3, <1>6 DEF PushRow
<1>8. awaiting \in [Session -> Nat \cup {-1}] BY DEF InputTypes
<1>9. CASE awaiting' = awaiting BY <1>2, <1>4, <1>5, <1>9, ElsewhereAwaits
<1>10. CASE awaiting' # awaiting
  <2>1. p.end /\ awaiting' = [awaiting EXCEPT ![x] = IF @ # -1 /\ p.seq > @ THEN -1 ELSE @]
    BY <1>1, <1>6, <1>10 DEF WatchEvent
  <2>2. awaiting[x] # -1 /\ p.seq > awaiting[x]
    <3> SUFFICES ASSUME ~(awaiting[x] # -1 /\ p.seq > awaiting[x]) PROVE awaiting' = awaiting
      BY <1>10
    <3> QED BY <1>8, <2>1
  <2>3. awaiting'[x] = -1 /\ \A y \in Session : y # x => awaiting'[y] = awaiting[y]
    BY <1>7, <1>8, <2>1, <2>2
  <2>4. p.seq \in 1..Len(log[x]) /\ log[x][p.seq].kind = "TurnEnded"
    BY <1>3, <1>6, <2>1 DEF PushesTrue
  <2>5. Ended(x)
    <3>1. awaiting[x] \in Nat /\ Len(log[x]) \in Nat BY <1>7, <2>2, AwaitTypes
    <3>2. p.seq \in (awaiting[x] + 1)..Len(log[x]) BY <1>7, <2>2, <2>4, <3>1
    <3> QED BY <2>4, <3>2 DEF Ended
  <2>6. AtRest(x) BY <1>7, <2>5 DEF Awaited
  <2>7. InTurn(x)' /\ Awaited(x)'
    BY <1>2, <1>7, <2>6 DEF InTurn, Awaited, AtRest, AtWork, EndAhead
  <2>8. ASSUME NEW k \in Flusher, fl[k].t = x PROVE Prepared(k)'
    <3>1. fl[k].pc \notin {"start", "deliver"}
      <4> SUFFICES ASSUME fl[k].pc \in {"start", "deliver"} PROVE FALSE OBVIOUS
      <4>1. awaiting[x] = fl[k].seq /\ NoEndSince(x, fl[k].seq) BY <2>8 DEF Prepared
      <4> QED BY <2>5, <4>1 DEF Ended, NoEndSince
    <3>2. fl[k].pc \notin {"read", "take"} BY <2>2, <2>8 DEF Prepared
    <3> QED BY <1>2, <3>1, <3>2 DEF Prepared
  <2>9. Others(x) BY <1>2, <2>3 DEF Others
  <2>10. PushesTrue' BY <1>4, <1>5, PushesStayTrue DEF MailInv, A2ATypes
  <2>11. awaiting' \in [Session -> Nat \cup {-1}] BY <1>8, <2>1
  <2>12. InputTypes' /\ NoUsers' BY <1>2, <1>3, <2>11 DEF InputTypes, NoUsers
  <2> QED BY <1>2, <1>7, <2>7, <2>8, <2>9, <2>10, <2>12, OneSession
<1> QED BY <1>9, <1>10

\* Steps of the queue, of flushes that begin and return, and of the watcher that has lagged.
LEMMA QueueAwaits ==
  ASSUME AwaitInv, MailInv',
         \/ \E k \in Sender : SendCheck(k) \/ SendInsert(k)
         \/ \E k \in Sender, f \in Session, t \in Session : SendBegin(k, f, t)
         \/ \E f \in Session, t \in Session : Mention(f, t)
         \/ \E z \in Session \cup {"global"} : Toggle(z)
         \/ Ages \/ WatchLagged
         \/ \E k \in Flusher : \/ FlushMark(k) \/ FlushMarkErr(k)
                               \/ \E t \in Session : FlushLock(k, t)
  PROVE  AwaitInv'
<1> USE DEF AwaitInv
<1>1. count \in Counts /\ fl \in [Flusher -> FlushRow] BY DEF MailInv, A2ATypes, FlushTypes
<1>2. ASSUME UNCHANGED <<log, pushes, chan, inbox, active, working, awaiting, user>>,
             count'.user = count.user,
             \A j \in Flusher : fl'[j] = fl[j] \/ fl'[j].pc \in {"idle", "settle", "mark"}
      PROVE  AwaitInv'
  <2>1. \A y \in Session : Len(log[y]) \in Nat BY AwaitTypes
  <2>2. LogsGrow /\ LogsQuiet BY <1>2, <2>1 DEF LogsGrow, LogsQuiet
  <2>3. PushesGrow BY <1>2, AwaitTypes DEF PushesGrow
  <2> QED BY <1>2, <2>2, <2>3, ElsewhereAwaits
<1>3. CASE \/ \E k \in Sender : SendCheck(k) \/ SendInsert(k)
           \/ \E k \in Sender, f \in Session, t \in Session : SendBegin(k, f, t)
           \/ Ages \/ WatchLagged
  <2>1. UNCHANGED <<log, pushes, chan, inbox, active, working, awaiting, user, count, fl>>
    BY <1>3 DEF SendCheck, SendInsert, SendBegin, Ages, WatchLagged, sessions, flushes, watch
  <2> QED BY <1>2, <2>1
<1>4. CASE \/ \E f \in Session, t \in Session : Mention(f, t)
           \/ \E z \in Session \cup {"global"} : Toggle(z)
  <2>1. /\ UNCHANGED <<log, pushes, chan, inbox, active, working, awaiting, user, fl>>
        /\ Bump("mention") \/ Bump("toggle")
    BY <1>4 DEF Mention, Toggle, sessions, flushes, watch
  <2>2. count'.user = count.user BY <1>1, <2>1 DEF Bump, Counts
  <2> QED BY <1>2, <2>1, <2>2
<1>5. ASSUME NEW k \in Flusher, FlushMark(k) \/ FlushMarkErr(k) PROVE AwaitInv'
  <2>1. /\ UNCHANGED <<log, pushes, chan, inbox, active, working, awaiting, user>>
        /\ count' = count \/ Bump("mark")
        /\ fl' = [fl EXCEPT ![k] = NoFlush]
    BY <1>5 DEF FlushMark, FlushMarkErr, Return, sessions, watch
  <2>2. count'.user = count.user BY <1>1, <2>1 DEF Bump, Counts
  <2>3. \A j \in Flusher : fl'[j] = fl[j] \/ fl'[j].pc = "idle" BY <1>1, <2>1 DEF NoFlush
  <2> QED BY <1>2, <2>1, <2>2, <2>3
<1>6. ASSUME NEW k \in Flusher, NEW t \in Session, FlushLock(k, t) PROVE AwaitInv'
  <2>1. PICK r : r = [NoFlush EXCEPT !.pc = "settle", !.t = t] OBVIOUS
  <2>2. /\ UNCHANGED <<log, pushes, chan, inbox, active, working, awaiting, user, count>>
        /\ fl' = [fl EXCEPT ![k] = r]
    BY <1>6, <2>1 DEF FlushLock, sessions, watch
  <2>3. r.pc = "settle" BY <2>1 DEF NoFlush
  <2>4. \A j \in Flusher : fl'[j] = fl[j] \/ fl'[j].pc = "settle" BY <1>1, <2>2, <2>3
  <2> QED BY <1>2, <2>2, <2>4
<1> QED BY <1>3, <1>4, <1>5, <1>6

LEMMA RestartAwaits == ASSUME AwaitInv, MailInv', Restart PROVE AwaitInv'
<1> USE DEF AwaitInv
<1>1. /\ count \in Counts
      /\ pushes' = <<>> /\ user' = {} /\ active' = {} /\ working' = {}
      /\ inbox' = [s \in Session |-> <<>>] /\ awaiting' = [s \in Session |-> -1]
      /\ fl' = [k \in Flusher |-> NoFlush] /\ chan' = [s \in Session |-> <<>>]
      /\ count' = [count EXCEPT !["restart"] = @ + 1]
  BY DEF Restart, Stopped, Bump, MailInv, A2ATypes, FlushTypes
<1>2. InputTypes' /\ PushesTrue' BY <1>1 DEF InputTypes, PushesTrue
<1>3. NoUsers' BY <1>1 DEF NoUsers, Counts
<1>4. \A t \in Session : InTurn(t)' /\ Awaited(t)'
  BY <1>1 DEF InTurn, Awaited, AtRest, AtWork, EndAhead
<1>5. \A k \in Flusher : Prepared(k)' BY <1>1 DEF Prepared, NoFlush
<1> QED BY <1>2, <1>3, <1>4, <1>5

LEMMA InitAwaits == Init => AwaitInv
<1> SUFFICES ASSUME Init PROVE AwaitInv OBVIOUS
<1>1. InputTypes /\ PushesTrue BY DEF Init, InputTypes, PushesTrue
<1>2. NoUsers BY DEF Init, NoUsers
<1>3. \A t \in Session : InTurn(t) /\ Awaited(t)
  BY DEF Init, InTurn, Awaited, AtRest, AtWork, EndAhead
<1>4. \A k \in Flusher : Prepared(k) BY DEF Init, Prepared, NoFlush
<1> QED BY <1>1, <1>2, <1>3, <1>4, MailInit DEF AwaitInv

LEMMA AwaitStep == ASSUME MaxUser = 0, AwaitInv, [Next]_vars PROVE AwaitInv'
<1>1. MailInv' BY MailStep DEF AwaitInv, Mailed
<1>2. CASE UNCHANGED vars
  <2>1. UNCHANGED <<log, pushes, chan, inbox, active, working, awaiting, user, count, fl>>
    BY <1>2 DEF vars, sessions, flushes, watch
  <2>2. \A y \in Session : Len(log[y]) \in Nat BY AwaitTypes DEF AwaitInv
  <2>3. LogsGrow /\ LogsQuiet BY <2>1, <2>2 DEF LogsGrow, LogsQuiet
  <2>4. PushesGrow BY <2>1, AwaitTypes DEF PushesGrow, AwaitInv
  <2> QED BY <1>1, <2>1, <2>3, <2>4, ElsewhereAwaits
<1>3. ASSUME NEW s \in Session, UserRecord(s) \/ UserDeliver(s) PROVE FALSE
  BY <1>3 DEF UserRecord, UserDeliver, AwaitInv, NoUsers
<1>4. ASSUME NEW k \in Flusher, FlushStep(k) \/ FlushStartErr(k) \/ FlushMarkErr(k) PROVE AwaitInv'
  BY <1>1, <1>4, FlushAwaits, QueueAwaits DEF FlushStep
<1>5. ASSUME NEW k \in Sender, NEW f \in Session, NEW t \in Target, SendBegin(k, f, t)
      PROVE  AwaitInv'
  BY <1>1, <1>5, QueueAwaits, LimitsAssumption
<1>6. ASSUME NEW f \in Session, NEW t \in Target, Mention(f, t) PROVE AwaitInv'
  BY <1>1, <1>6, QueueAwaits, LimitsAssumption
<1>7. Target \subseteq Session BY LimitsAssumption
<1> QED BY <1>1, <1>2, <1>3, <1>4, <1>5, <1>6, <1>7, QueueAwaits, NoticesAwait, WatchAwaits,
           PumpAwaits, AgentAwaits, RestartAwaits DEF Next

(* A2a::flush: where no user types, an agent is handed queued messages     *)
(* only between turns, whatever the flushes that cross, the pushes that    *)
(* the watcher misses, the processes that exit or fail to start, the       *)
(* teammates that are ended and the restarts.  `awaiting` is what makes it *)
(* so while the store does not show the turn yet.                          *)
THEOREM A2ADeliversBetweenTurns ==
  ASSUME MaxUser = 0 PROVE Spec => DeliversBetweenTurns
<1>1. AwaitInv /\ [Next]_vars => AwaitInv' BY AwaitStep
<1>2. AwaitInv => \A k \in Flusher : FlushDeliver(k) =>
                     fl[k].t \notin working /\ inbox[fl[k].t] = <<>>
  BY DEF AwaitInv, Prepared, FlushDeliver, AtRest, AtWork
<1> QED BY <1>1, <1>2, InitAwaits, PTL DEF Spec, DeliversBetweenTurns
=============================================================================
