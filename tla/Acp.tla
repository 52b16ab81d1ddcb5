-------------------------------- MODULE Acp ---------------------------------
(***************************************************************************)
(* The Agent Client Protocol adapter (agents/acp.rs): the connection and   *)
(* its reader, the prompt loop that sends one queued message at a time,    *)
(* the calls of the run's owner, permission requests, and the terminals    *)
(* the agent starts through Ember. The agent process is external.          *)
(***************************************************************************)
EXTENDS Naturals, Sequences, FiniteSets

CONSTANTS Msg, Tool, Term, None,
          Resume,                       \* "new", "resume" or "load": how the session is opened
          MaxAsk, MaxUpdate, MaxInterrupt

VARIABLES
    phase,    \* connect: "initialize", "open", "ready" or "failed"
    replaying, closing, eof, active, cancel,   \* the flags of Conn (and the reader's end)
    queue, sentTo,      \* prompts waiting for the loop; messages given to send
    loop,     \* prompt_loop: [pc, msg, reply]
    intr,     \* the call of interrupt: [pc, msg]
    approvals,          \* Conn.approvals, by the agent's request
    mapper,   \* Mapper: [text, tools, done]
    toAgent, fromAgent, agent,   \* agent: [alive, opened, turn, asks, rpc, updates]
    terms,    \* [Term -> [state, kill]]: Host.terminals and their drivers
    shown,    \* what the session has got: [replayed, deltas, said, called, results, ended, error]
    interrupts

conn == <<phase, replaying, closing, eof, active, cancel>>
vars == <<conn, queue, sentTo, loop, intr, approvals, mapper, toAgent, fromAgent, agent, terms, shown, interrupts>>

Idle == [pc |-> "idle", msg |-> None, reply |-> None]
NoInterrupt == [pc |-> "idle", msg |-> None]
FreshMapper == [text |-> 0, tools |-> {}, done |-> {}]

Init ==
    /\ phase = "initialize" /\ replaying = FALSE /\ closing = FALSE /\ eof = FALSE
    /\ active = FALSE /\ cancel = FALSE /\ queue = <<>> /\ sentTo = {} /\ loop = Idle /\ intr = NoInterrupt
    /\ approvals = {} /\ mapper = FreshMapper
    /\ toAgent = <<[k |-> "initialize"]>> /\ fromAgent = <<>>
    /\ agent = [alive |-> TRUE, opened |-> FALSE, turn |-> None, cancelled |-> FALSE, asks |-> {}, rpc |-> 0,
                updates |-> 0]
    /\ terms = [t \in Term |-> [state |-> "none", kill |-> FALSE]]
    /\ shown = [replayed |-> FALSE, deltas |-> 0, said |-> 0, called |-> [t \in Tool |-> 0], results |-> {},
                ended |-> <<>>, error |-> FALSE]
    /\ interrupts = 0

\* Conn::write: fails once the writer is closed or the agent is gone.
Writable == agent.alive /\ ~closing
Writes(ls) == toAgent' = IF Writable THEN toAgent \o ls ELSE toAgent
SetToSeqs(S) == {q \in [1..Cardinality(S) -> S] : \A i, j \in DOMAIN q : q[i] = q[j] => i = j}
-----------------------------------------------------------------------------
(* connect: the history that session/load replays is dropped.              *)
Opened(ok) ==
    /\ phase' = IF ok THEN "ready" ELSE "failed"
    /\ replaying' = FALSE
    /\ closing' = (closing \/ ~ok)
    /\ agent' = IF ok THEN agent ELSE [agent EXCEPT !.alive = FALSE]
    /\ mapper' = IF Resume = "load" THEN FreshMapper ELSE mapper

\* Another protocol version is refused; session/load sets the mark before it asks.
Initialized(ok) ==
    /\ phase' = IF ok THEN "open" ELSE "failed"
    /\ closing' = (closing \/ ~ok) /\ UNCHANGED mapper
    /\ replaying' = (ok /\ Resume = "load")
    /\ agent' = IF ok THEN agent ELSE [agent EXCEPT !.alive = FALSE]
    /\ IF ok THEN Writes(<<[k |-> "open"]>>) ELSE UNCHANGED toAgent
-----------------------------------------------------------------------------
(* prompt_loop: one queued message at a time; the response ends the turn.  *)
LoopTake ==
    /\ phase = "ready" /\ loop.pc = "idle" /\ queue # <<>>
    /\ queue' = Tail(queue) /\ loop' = [pc |-> "prompt", msg |-> Head(queue), reply |-> None]
    /\ cancel' = FALSE /\ active' = TRUE
    /\ UNCHANGED <<phase, replaying, closing, eof, sentTo, intr, approvals, mapper, toAgent, fromAgent,
                   agent, terms, shown, interrupts>>

LoopPrompt ==
    /\ loop.pc = "prompt"
    /\ loop' = [loop EXCEPT !.pc = "await", !.reply = IF Writable THEN None ELSE "error"]
    /\ Writes(<<[k |-> "prompt", msg |-> loop.msg]>>)
    /\ UNCHANGED <<conn, queue, sentTo, intr, approvals, mapper, fromAgent, agent, terms, shown, interrupts>>

\* As CancelPermissions, for a drain that forgets to answer.
CancelPermissionsFault == approvals' = {} /\ UNCHANGED toAgent

\* cancel_permissions answers every request that is still open with `cancelled`.
CancelPermissions ==
    /\ approvals' = {}
    /\ \E q \in SetToSeqs(approvals) : Writes([n \in DOMAIN q |-> [k |-> "answer", rpc |-> q[n]]])

LoopReply ==
    /\ loop.pc = "await" /\ loop.reply # None /\ CancelPermissions
    /\ loop' = [loop EXCEPT !.pc = "end"]
    /\ UNCHANGED <<conn, queue, sentTo, intr, mapper, fromAgent, agent, terms, shown, interrupts>>

\* How the turn is reported; nothing is when the run is being shut down.
Outcome ==
    IF loop.reply = "cancelled" \/ (cancel /\ (loop.reply # "error" \/ ~closing)) THEN "interrupted"
    ELSE IF loop.reply = "error" THEN (IF closing THEN None ELSE "failed") ELSE "completed"

\* end_turn finishes the streamed message and forgets the turn's tools.
LoopEnd ==
    /\ loop.pc = "end" /\ loop' = [loop EXCEPT !.pc = "ended"]
    /\ mapper' = FreshMapper
    /\ shown' = [shown EXCEPT !.said = @ + mapper.text,
                    !.ended = IF Outcome = None THEN @ ELSE Append(@, <<loop.msg, Outcome>>),
                    !.error = @ \/ Outcome = "failed"]
    /\ UNCHANGED <<conn, queue, sentTo, intr, approvals, toAgent, fromAgent, agent, terms, interrupts>>

LoopIdle ==
    /\ loop.pc = "ended" /\ active' = FALSE
    /\ loop' = IF closing THEN [Idle EXCEPT !.pc = "stopped"] ELSE Idle
    /\ UNCHANGED <<phase, replaying, closing, eof, cancel, queue, sentTo, intr, approvals, mapper, toAgent,
                   fromAgent, agent, terms, shown, interrupts>>
-----------------------------------------------------------------------------
(* AcpRun: send queues, answer and interrupt write at once.                *)
Send(m) ==
    /\ phase = "ready" /\ ~closing /\ m \notin sentTo /\ intr.pc = "idle"
    /\ sentTo' = sentTo \cup {m} /\ queue' = Append(queue, m)
    /\ UNCHANGED <<conn, loop, intr, approvals, mapper, toAgent, fromAgent, agent, terms, shown, interrupts>>

Answer(r) ==
    /\ r \in approvals /\ ~closing /\ intr.pc = "idle" /\ approvals' = approvals \ {r}
    /\ Writes(<<[k |-> "answer", rpc |-> r]>>)
    /\ UNCHANGED <<conn, queue, sentTo, loop, intr, mapper, fromAgent, agent, terms, shown, interrupts>>

\* interrupt: the flag is set for the running turn, then session/cancel is written, ...
InterruptBegin ==
    /\ intr.pc = "idle" /\ active /\ ~closing /\ interrupts < MaxInterrupt /\ interrupts' = interrupts + 1
    /\ intr' = [pc |-> "notify", msg |-> loop.msg] /\ cancel' = TRUE
    /\ UNCHANGED <<phase, replaying, closing, eof, active, queue, sentTo, loop, approvals, mapper, toAgent,
                   fromAgent, agent, terms, shown>>

\* ... and what it asked the user is answered `cancelled`.
InterruptNotify ==
    /\ intr.pc = "notify"
    /\ intr' = IF Writable THEN [intr EXCEPT !.pc = "drain"] ELSE NoInterrupt
    /\ Writes(<<[k |-> "cancel"]>>)
    /\ UNCHANGED <<conn, queue, sentTo, loop, approvals, mapper, fromAgent, agent, terms, shown, interrupts>>

InterruptDrain ==
    /\ intr.pc = "drain" /\ intr' = NoInterrupt /\ CancelPermissions
    /\ UNCHANGED <<conn, queue, sentTo, loop, mapper, fromAgent, agent, terms, shown, interrupts>>

KillAll == [t \in Term |-> IF terms[t].state = "running" THEN [terms[t] EXCEPT !.kill = TRUE] ELSE terms[t]]

\* shutdown: the agent's commands are killed and its input is closed.
Shutdown ==
    /\ phase = "ready" /\ ~closing /\ intr.pc = "idle" /\ closing' = TRUE /\ terms' = KillAll
    /\ agent' = [agent EXCEPT !.alive = FALSE]
    /\ UNCHANGED <<phase, replaying, eof, active, cancel, queue, sentTo, loop, intr, approvals, mapper,
                   toAgent, fromAgent, shown, interrupts>>
-----------------------------------------------------------------------------
(* read_loop and the Mapper: one line at a time.                           *)
Line(k) == ~eof /\ fromAgent # <<>> /\ Head(fromAgent).k = k /\ fromAgent' = Tail(fromAgent)

ReadResponse ==
    LET l == Head(fromAgent) IN
    /\ Line("response")
    /\ \/ l.to = "initialize" /\ Initialized(l.ok) /\ UNCHANGED loop
       \/ l.to = "open" /\ Opened(l.ok) /\ UNCHANGED <<loop, toAgent>>
       \/ /\ l.to = "prompt" /\ loop' = IF loop.pc = "await" THEN [loop EXCEPT !.reply = l.stop] ELSE loop
          /\ UNCHANGED <<phase, replaying, closing, agent, mapper, toAgent>>
    /\ UNCHANGED <<eof, active, cancel, queue, sentTo, intr, approvals, terms, shown, interrupts>>

\* The tool is announced the first time it is seen, which ends the message before it.
Announced(t) == t \in mapper.tools

\* As Say, for an announcement that drops the message before it.
SayFault(t) == 0

Say(t) == IF Announced(t) THEN 0 ELSE mapper.text

\* session/request_permission becomes an approval with an id of its own.
ReadPermission ==
    LET l == Head(fromAgent) IN
    /\ Line("ask") /\ approvals' = approvals \cup {l.rpc}
    /\ mapper' = [mapper EXCEPT !.tools = @ \cup {l.tool}, !.text = IF Announced(l.tool) THEN @ ELSE 0]
    /\ shown' = [shown EXCEPT !.said = @ + Say(l.tool),
                              !.called[l.tool] = IF Announced(l.tool) THEN @ ELSE @ + 1]
    /\ UNCHANGED <<conn, queue, sentTo, loop, intr, toAgent, agent, terms, interrupts>>

ReadUnsupported ==
    /\ Line("other") /\ Writes(<<[k |-> "answer", rpc |-> Head(fromAgent).rpc]>>)
    /\ UNCHANGED <<conn, queue, sentTo, loop, intr, approvals, mapper, agent, terms, shown, interrupts>>

\* session/update: dropped during a replay; a chunk of text, a plan, or a tool call with its status.
ReadUpdate ==
    LET l == Head(fromAgent) IN
    /\ Line("update")
    /\ IF replaying THEN UNCHANGED <<mapper, shown>>
       ELSE \/ /\ l.of = "text" /\ mapper' = [mapper EXCEPT !.text = @ + 1]
               /\ shown' = [shown EXCEPT !.deltas = @ + 1, !.replayed = @ \/ l.old]
            \/ /\ l.of = "plan" /\ mapper' = [mapper EXCEPT !.text = 0]
               /\ shown' = [shown EXCEPT !.said = @ + mapper.text, !.replayed = @ \/ l.old]
            \/ /\ l.of = "tool"
               /\ mapper' = [mapper EXCEPT !.tools = @ \cup {l.tool}, !.text = IF Announced(l.tool) THEN @ ELSE 0,
                                           !.done = IF l.final THEN @ \cup {l.tool} ELSE @]
               /\ shown' = [shown EXCEPT !.said = @ + Say(l.tool), !.replayed = @ \/ l.old,
                               !.called[l.tool] = IF Announced(l.tool) THEN @ ELSE @ + 1,
                               !.results = IF l.final /\ l.tool \notin mapper.done THEN @ \cup {l.tool} ELSE @]
    /\ UNCHANGED <<conn, queue, sentTo, loop, intr, approvals, toAgent, agent, terms, interrupts>>

EofFails == loop' = IF loop.pc = "await" /\ loop.reply = None THEN [loop EXCEPT !.reply = "error"] ELSE loop

\* End of output: waiting requests fail, and an exit outside a turn is reported here.
ReadEof ==
    /\ ~eof /\ ~agent.alive /\ fromAgent = <<>> /\ eof' = TRUE
    /\ phase' = IF phase = "ready" THEN phase ELSE "failed"
    /\ EofFails /\ approvals' = {} /\ terms' = KillAll
    /\ shown' = [shown EXCEPT !.error = @ \/ (~closing /\ ~active)]
    /\ UNCHANGED <<replaying, closing, active, cancel, queue, sentTo, intr, mapper, toAgent, fromAgent,
                   agent, interrupts>>
-----------------------------------------------------------------------------
(* Host: the commands of terminal/create, each with a driver of its own.   *)
(* A request is served in a task of its own: the command is started before *)
(* it is in the table.                                                     *)
ReadCreate ==
    LET t == Head(fromAgent).term IN
    /\ Line("create") /\ terms' = [terms EXCEPT ![t].state = "started"]
    /\ UNCHANGED <<conn, queue, sentTo, loop, intr, approvals, mapper, toAgent, agent, shown, interrupts>>

TermAdded(t) ==
    /\ terms[t].state = "started" /\ terms' = [terms EXCEPT ![t].state = "running"]
    /\ UNCHANGED <<conn, queue, sentTo, loop, intr, approvals, mapper, toAgent, fromAgent, agent, shown, interrupts>>

\* terminal/kill and terminal/release; the notification is kept for a driver that is not waiting yet.
ReadKill ==
    LET t == Head(fromAgent).term IN
    /\ Line("kill")
    /\ terms' = IF terms[t].state = "running" THEN [terms EXCEPT ![t].kill = TRUE] ELSE terms
    /\ UNCHANGED <<conn, queue, sentTo, loop, intr, approvals, mapper, toAgent, agent, shown, interrupts>>

TermExits(t) ==
    /\ terms[t].state \in {"started", "running"} /\ terms' = [terms EXCEPT ![t] = [state |-> "exited", kill |-> FALSE]]
    /\ UNCHANGED <<conn, queue, sentTo, loop, intr, approvals, mapper, toAgent, fromAgent, agent, shown, interrupts>>
-----------------------------------------------------------------------------
(* The agent (external), as the adapter uses it.                           *)
Out(ls) == fromAgent' = fromAgent \o ls

AgentHandles ==
    LET r == Head(toAgent) IN
    /\ agent.alive /\ toAgent # <<>> /\ toAgent' = Tail(toAgent)
    /\ \/ /\ r.k = "initialize" /\ UNCHANGED agent
          /\ \E ok \in BOOLEAN : Out(<<[k |-> "response", to |-> "initialize", ok |-> ok]>>)
       \/ /\ r.k = "open" /\ agent' = [agent EXCEPT !.opened = TRUE]
          /\ \E ok \in BOOLEAN :
               Out((IF Resume = "load" THEN <<[k |-> "update", of |-> "text", old |-> TRUE]>> ELSE <<>>)
                   \o <<[k |-> "response", to |-> "open", ok |-> ok]>>)
       \/ r.k = "prompt" /\ agent' = [agent EXCEPT !.turn = r.msg, !.cancelled = FALSE] /\ UNCHANGED fromAgent
       \/ r.k = "cancel" /\ agent' = [agent EXCEPT !.cancelled = (agent.turn # None)] /\ UNCHANGED fromAgent
       \/ r.k = "answer" /\ agent' = [agent EXCEPT !.asks = @ \ {r.rpc}] /\ UNCHANGED fromAgent
    /\ UNCHANGED <<conn, queue, sentTo, loop, intr, approvals, mapper, terms, shown, interrupts>>

\* Within a turn: permission requests, updates, terminals; then the response.
AgentWorks ==
    /\ agent.alive /\ agent.turn # None
    /\ \/ \E k \in {"ask", "other"}, t \in Tool :
            /\ agent.rpc < MaxAsk
            /\ agent' = [agent EXCEPT !.rpc = @ + 1, !.asks = @ \cup {agent.rpc + 1}]
            /\ Out(<<[k |-> k, rpc |-> agent.rpc + 1, tool |-> t]>>)
       \/ /\ agent.updates < MaxUpdate /\ agent' = [agent EXCEPT !.updates = @ + 1]
          /\ \/ \E of \in {"text", "plan"} : Out(<<[k |-> "update", of |-> of, old |-> FALSE]>>)
             \/ \E t \in Tool, final \in BOOLEAN :
                  Out(<<[k |-> "update", of |-> "tool", tool |-> t, final |-> final, old |-> FALSE]>>)
             \/ \E t \in Term : \/ terms[t].state = "none" /\ Out(<<[k |-> "create", term |-> t]>>)
                                \/ terms[t].state # "none" /\ Out(<<[k |-> "kill", term |-> t]>>)
       \/ /\ agent' = [agent EXCEPT !.turn = None, !.cancelled = FALSE, !.asks = {}]
          /\ Out(<<[k |-> "response", to |-> "prompt", stop |-> IF agent.cancelled THEN "cancelled" ELSE "end"]>>)
    /\ UNCHANGED <<conn, queue, sentTo, loop, intr, approvals, mapper, toAgent, terms, shown, interrupts>>

AgentExits ==
    /\ agent.alive /\ agent' = [agent EXCEPT !.alive = FALSE, !.turn = None, !.asks = {}]
    /\ UNCHANGED <<conn, queue, sentTo, loop, intr, approvals, mapper, toAgent, fromAgent, terms, shown, interrupts>>

LoopStep == LoopTake \/ LoopPrompt \/ LoopReply \/ LoopEnd \/ LoopIdle
Read ==
    \/ ReadResponse \/ ReadPermission \/ ReadUnsupported \/ ReadUpdate \/ ReadCreate \/ ReadKill \/ ReadEof

Next ==
    \/ LoopStep \/ Read
    \/ \E m \in Msg : Send(m)
    \/ \E r \in approvals : Answer(r)
    \/ InterruptBegin \/ InterruptNotify \/ InterruptDrain \/ Shutdown
    \/ \E t \in Term : TermAdded(t) \/ TermExits(t)
    \/ AgentHandles \/ AgentWorks \/ AgentExits

Spec == Init /\ [][Next]_vars

(* What keeps running: the prompt loop, and the reader of what the agent   *)
(* says. Weak fairness of each Going(k) is assumed where something must    *)
(* end.                                                                    *)
Going(k) == (k = 1 /\ LoopStep) \/ (k = 2 /\ Read)

-----------------------------------------------------------------------------
\* The types of the connection, the two tasks, the agent and what was shown.
TypeOK ==
    /\ phase \in {"initialize", "open", "ready", "failed"} /\ sentTo \subseteq Msg
    /\ {replaying, closing, eof, active, cancel} \subseteq BOOLEAN /\ interrupts \in 0..MaxInterrupt
    /\ {queue[n] : n \in DOMAIN queue} \subseteq sentTo /\ loop.msg \in sentTo \cup {None}
    /\ loop.pc \in {"idle", "prompt", "await", "end", "ended", "stopped"} /\ intr.pc \in {"idle", "notify", "drain"}
    /\ approvals \subseteq 1..MaxAsk /\ mapper.tools \subseteq Tool /\ mapper.done \subseteq Tool
    /\ agent.turn \in Msg \cup {None} /\ agent.asks \subseteq 1 .. agent.rpc /\ agent.updates \in 0..MaxUpdate
    /\ terms \in [Term -> [state : {"none", "started", "running", "exited"}, kill : BOOLEAN]]

(* "Permission requests the agent left open belong to the finished turn"   *)
(* (prompt_loop): between turns nothing waits for the user.                *)
NothingAskedBetweenTurns == loop.pc \in {"idle", "end", "ended"} => approvals = {}

(* A permission request that has been read is waiting for the user, or its *)
(* answer is on the way: the agent is never left waiting, whether it was   *)
(* answered, interrupted, or asked for something Ember does not serve.     *)
AgentNotLeftWaiting ==
    agent.alive /\ ~closing => \A r \in agent.asks :
        \/ r \in approvals
        \/ \E n \in DOMAIN fromAgent : fromAgent[n].k \in {"ask", "other"} /\ fromAgent[n].rpc = r
        \/ \E n \in DOMAIN toAgent : toAgent[n].k = "answer" /\ toAgent[n].rpc = r

(* "Ember already stored that history, so the replay is dropped".          *)
ReplayDropped == ~shown.replayed

(* Every chunk streamed as a delta is part of a message: none is left      *)
(* behind when the turn has ended, whatever tools and plans came between.  *)
StreamedTextIsSaid ==
    /\ loop.pc = "idle" => mapper.text = 0
    /\ mapper.text = 0 => shown.deltas = shown.said

(* "a running turn then fails in the prompt loop" (read_loop): an exit     *)
(* that nobody asked for is reported, here or by the turn.                 *)
ExitReported == eof /\ ~closing /\ phase = "ready" /\ loop.pc = "idle" => shown.error

(* Once the agent is gone every queued message gets its end: Due ~> Met.    *)
Due == ~agent.alive /\ ~closing /\ phase = "ready"
Met == closing \/ (queue = <<>> /\ loop.pc = "idle")
=============================================================================
