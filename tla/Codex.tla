------------------------------- MODULE Codex --------------------------------
(***************************************************************************)
(* The Codex adapter (agents/codex.rs): one `codex app-server` process     *)
(* behind a JSON-RPC connection. Three parties run concurrently: the       *)
(* process (external), the reader of its output (read_loop and its         *)
(* Mapper), and the one call of the run's owner that is in progress        *)
(* (start, send, answer, interrupt, shutdown), which may be waiting for a  *)
(* response.                                                               *)
(***************************************************************************)
EXTENDS Naturals, Sequences, FiniteSets

CONSTANTS Msg, Item, None, Remote,      \* Remote: the tools run on another computer
          MaxTurn, MaxAsk, MaxTimeout   \* bounds on the process's choices

VARIABLES
    call,     \* the call in progress: [op, method, msg, id, reply]
    sent,     \* messages handed to send so far
    nextId,   \* Conn.next_id
    pending,  \* Conn.pending: ids of requests waiting for a response
    closing,  \* Conn.closing
    mapper,   \* Mapper: [turn, finished, tools, approvals, errored]
    eof,      \* the reader has seen the end of the output
    toCodex, fromCodex,   \* the process's stdin and stdout
    codex,    \* the process: [alive, turn, turns, asks, items, got, rpc]
    shown,    \* events the session has got: [running, cards, called, results]
    timeouts

vars == <<call, sent, nextId, pending, closing, mapper, eof, toCodex, fromCodex, codex, shown, timeouts>>

NoCall == [op |-> None, method |-> None, msg |-> None, id |-> 0, reply |-> None]

Init ==
    /\ call = [NoCall EXCEPT !.op = "start", !.method = "spawn"]
    /\ sent = {} /\ nextId = 1 /\ pending = {} /\ closing = FALSE /\ eof = FALSE
    /\ mapper = [turn |-> None, finished |-> None, tools |-> {}, approvals |-> {}, errored |-> FALSE]
    /\ toCodex = <<>> /\ fromCodex = <<>>
    /\ codex = [alive |-> TRUE, turn |-> None, turns |-> 0, asks |-> {}, items |-> {},
                got |-> [m \in Msg |-> 0], rpc |-> 0]
    /\ shown = [running |-> FALSE, cards |-> {}, called |-> [i \in Item |-> 0], results |-> {}]
    /\ timeouts = 0
-----------------------------------------------------------------------------
(* Conn. *)

\* Conn::request up to its wait: a write to a process that is gone fails at once.
Request(op, method, msg, turn) ==
    LET c == [op |-> op, method |-> method, msg |-> msg, id |-> nextId, reply |-> None] IN
    IF codex.alive /\ ~closing
    THEN /\ nextId' = nextId + 1 /\ pending' = pending \cup {nextId} /\ call' = c
         /\ toCodex' = Append(toCodex, [k |-> method, id |-> nextId, msg |-> msg, turn |-> turn])
    ELSE call' = [c EXCEPT !.id = 0, !.reply = [ok |-> FALSE]] /\ UNCHANGED <<nextId, pending, toCodex>>

Answered == call.reply # None

\* The wait ends after REQUEST_TIMEOUT; a response that comes later finds no waiter.
Timeout ==
    /\ call.op # None /\ call.id \in pending /\ timeouts < MaxTimeout
    /\ pending' = pending \ {call.id} /\ timeouts' = timeouts + 1
    /\ call' = [call EXCEPT !.reply = [ok |-> FALSE]]
    /\ UNCHANGED <<sent, nextId, closing, mapper, eof, toCodex, fromCodex, codex, shown>>

\* The call returns.
Return == call' = NoCall /\ UNCHANGED <<nextId, pending, toCodex>>
-----------------------------------------------------------------------------
(* CodexAdapter::start: initialize, environment/add for another computer,  *)
(* then thread/start or thread/resume. A failed step drops the run.        *)
SetupAfter(method) ==
    CASE method = "spawn" -> "initialize"
      [] method = "initialize" /\ Remote -> "environment"
      [] method = "thread" -> None
      [] OTHER -> "thread"

Start ==
    /\ call.op = "start" /\ (call.method = "spawn" \/ Answered)
    /\ IF call.method # "spawn" /\ ~call.reply.ok
       THEN /\ closing' = TRUE /\ codex' = [codex EXCEPT !.alive = FALSE]  \* kill_on_drop
            /\ Return
       ELSE /\ UNCHANGED <<closing, codex>>
            /\ IF SetupAfter(call.method) = None THEN Return
               ELSE Request("start", SetupAfter(call.method), None, None)
    /\ UNCHANGED <<sent, mapper, eof, fromCodex, shown, timeouts>>
-----------------------------------------------------------------------------
(* CodexRun. *)

\* send: steer the running turn, or start one.
Send(m) ==
    /\ call = NoCall /\ ~closing /\ m \notin sent /\ sent' = sent \cup {m}
    /\ shown' = [shown EXCEPT !.running = TRUE]
    /\ Request("send", IF mapper.turn # None THEN "steer" ELSE "start", m, mapper.turn)
    /\ UNCHANGED <<closing, mapper, eof, fromCodex, codex, timeouts>>

\* "The turn ended between our check and the request: start a new one."
SendSteered ==
    /\ call.op = "send" /\ call.method = "steer" /\ Answered
    /\ IF call.reply.ok THEN Return ELSE Request("send", "start", call.msg, None)
    /\ UNCHANGED <<sent, closing, mapper, eof, fromCodex, codex, shown, timeouts>>

\* Mapper::turn_accepted: a late response does not revive a finished turn.
TurnAccepted(t) ==
    IF mapper.turn = None /\ mapper.finished # t THEN [mapper EXCEPT !.turn = t] ELSE mapper

\* An error of turn/start ends the turn the session has already recorded.
SendStarted ==
    /\ call.op = "send" /\ call.method = "start" /\ Answered /\ Return
    /\ IF call.reply.ok
       THEN mapper' = TurnAccepted(call.reply.turn) /\ UNCHANGED shown
       ELSE UNCHANGED mapper /\ shown' = [shown EXCEPT !.running = FALSE]
    /\ UNCHANGED <<sent, closing, eof, fromCodex, codex, timeouts>>

\* answer: the approval is taken out of the map before the reply is written.
Answer(a) ==
    /\ call = NoCall /\ ~closing /\ a.id \in shown.cards
    /\ shown' = [shown EXCEPT !.cards = @ \ {a.id}]
    /\ a \in mapper.approvals
    /\ mapper' = [mapper EXCEPT !.approvals = @ \ {a}]
    /\ toCodex' = IF codex.alive THEN Append(toCodex, [k |-> "answer", rpc |-> a.rpc]) ELSE toCodex
    /\ UNCHANGED <<call, sent, nextId, pending, closing, eof, fromCodex, codex, timeouts>>

Interrupt ==
    /\ call = NoCall /\ ~closing /\ mapper.turn # None
    /\ Request("interrupt", "interrupt", None, mapper.turn)
    /\ UNCHANGED <<sent, closing, mapper, eof, fromCodex, codex, shown, timeouts>>

InterruptEnd ==
    /\ call.op = "interrupt" /\ Answered /\ Return
    /\ UNCHANGED <<sent, closing, mapper, eof, fromCodex, codex, shown, timeouts>>

\* shutdown: closing stdin makes the process exit, or it is killed after EXIT_GRACE.
Shutdown ==
    /\ call = NoCall /\ ~closing /\ closing' = TRUE
    /\ codex' = [codex EXCEPT !.alive = FALSE]
    /\ UNCHANGED <<call, sent, nextId, pending, mapper, eof, toCodex, fromCodex, shown, timeouts>>
-----------------------------------------------------------------------------
(* read_loop: one line at a time. *)
Line(k) == ~eof /\ fromCodex # <<>> /\ Head(fromCodex).k = k /\ fromCodex' = Tail(fromCodex)

\* The approval id is the item's, or one made unique with the request's id.
ApprovalId(item, rpc) ==
    IF \E a \in mapper.approvals : a.id = <<item, 0>> THEN <<item, rpc>> ELSE <<item, 0>>

\* on_server_request: an approval is shown and kept under its id (HashMap::insert).
ReadApprovalRequest ==
    LET l == Head(fromCodex)  id == ApprovalId(l.item, l.rpc) IN
    /\ Line("ask")
    /\ mapper' = [mapper EXCEPT !.approvals = {a \in @ : a.id # id} \cup {[id |-> id, rpc |-> l.rpc]}]
    /\ shown' = [shown EXCEPT !.cards = @ \cup {id}]
    /\ UNCHANGED <<call, sent, nextId, pending, closing, eof, toCodex, codex, timeouts>>

\* A request Ember does not handle is answered with an error.
ReadOtherRequest ==
    /\ Line("other")
    /\ toCodex' = IF codex.alive /\ ~closing
                  THEN Append(toCodex, [k |-> "answer", rpc |-> Head(fromCodex).rpc]) ELSE toCodex
    /\ UNCHANGED <<call, sent, nextId, pending, closing, mapper, eof, codex, shown, timeouts>>

ReadTurnStarted ==
    /\ Line("started") /\ mapper' = [mapper EXCEPT !.turn = Head(fromCodex).turn]
    /\ UNCHANGED <<call, sent, nextId, pending, closing, eof, toCodex, codex, shown, timeouts>>

\* turn_completed: the turn's approvals and tools are forgotten with it.
ReadTurnCompleted ==
    /\ Line("completed")
    /\ mapper' = [turn |-> None, finished |-> Head(fromCodex).turn, tools |-> {}, approvals |-> {},
                  errored |-> FALSE]
    /\ shown' = [shown EXCEPT !.running = FALSE, !.cards = {}]
    /\ UNCHANGED <<call, sent, nextId, pending, closing, eof, toCodex, codex, timeouts>>

ReadError ==
    /\ Line("error") /\ mapper' = [mapper EXCEPT !.errored = TRUE]
    /\ UNCHANGED <<call, sent, nextId, pending, closing, eof, toCodex, codex, shown, timeouts>>

ReadItemStarted ==
    LET i == Head(fromCodex).item IN
    /\ Line("itemStarted")
    /\ mapper' = [mapper EXCEPT !.tools = @ \cup {i}]
    /\ shown' = [shown EXCEPT !.called[i] = @ + 1]
    /\ UNCHANGED <<call, sent, nextId, pending, closing, eof, toCodex, codex, timeouts>>

\* A tool item that completed without `item/started` still gets its call.
CallMissing(i) == i \notin mapper.tools

ReadItemCompleted ==
    LET i == Head(fromCodex).item IN
    /\ Line("itemCompleted")
    /\ mapper' = [mapper EXCEPT !.tools = @ \ {i}]
    /\ shown' = [shown EXCEPT !.called[i] = IF CallMissing(i) THEN @ + 1 ELSE @, !.results = @ \cup {i}]
    /\ UNCHANGED <<call, sent, nextId, pending, closing, eof, toCodex, codex, timeouts>>

\* serverRequest/resolved: Codex no longer waits for that approval.
ReadResolved ==
    /\ Line("resolved")
    /\ mapper' = [mapper EXCEPT !.approvals = {a \in @ : a.rpc # Head(fromCodex).rpc}]
    /\ UNCHANGED <<call, sent, nextId, pending, closing, eof, toCodex, codex, shown, timeouts>>

ReadResponse ==
    LET l == Head(fromCodex) IN
    /\ Line("response")
    /\ pending' = pending \ {l.id}
    /\ call' = IF l.id \in pending /\ call.id = l.id THEN [call EXCEPT !.reply = l.reply] ELSE call
    /\ UNCHANGED <<sent, nextId, closing, mapper, eof, toCodex, codex, shown, timeouts>>

\* End of output: waiting requests fail, and an exit nobody asked for ends the running turn.
ReadEof ==
    /\ ~eof /\ ~codex.alive /\ fromCodex = <<>> /\ eof' = TRUE
    /\ pending' = {}
    /\ call' = IF call.id \in pending THEN [call EXCEPT !.reply = [ok |-> FALSE]] ELSE call
    /\ IF closing THEN UNCHANGED <<mapper, shown>>
       ELSE /\ mapper' = [mapper EXCEPT !.turn = None, !.approvals = {}]
            /\ shown' = [shown EXCEPT !.running = IF mapper.turn # None THEN FALSE ELSE @]
    /\ UNCHANGED <<sent, nextId, closing, toCodex, fromCodex, codex, timeouts>>
-----------------------------------------------------------------------------
(* The app-server (external), as the adapter uses it: requests are handled *)
(* in order, one turn runs at a time, and it asks and reports within it.   *)
Out(ls) == fromCodex' = fromCodex \o ls
Response(id, ok, t) == [k |-> "response", id |-> id, reply |-> [ok |-> ok, turn |-> t]]

CodexHandles ==
    LET r == Head(toCodex)  t == codex.turns + 1 IN
    /\ codex.alive /\ toCodex # <<>> /\ toCodex' = Tail(toCodex)
    /\ \/ /\ r.k \in {"initialize", "environment", "thread"} /\ UNCHANGED codex
          /\ \E ok \in BOOLEAN : Out(<<Response(r.id, ok, None)>>)
       \/ /\ r.k = "start"
          /\ IF codex.turn = None /\ t <= MaxTurn
             THEN /\ codex' = [codex EXCEPT !.turn = t, !.turns = t, !.got[r.msg] = @ + 1]
                  /\ \/ Out(<<Response(r.id, TRUE, t), [k |-> "started", turn |-> t]>>)
                     \/ Out(<<[k |-> "started", turn |-> t], Response(r.id, TRUE, t)>>)
             ELSE UNCHANGED codex /\ Out(<<Response(r.id, FALSE, None)>>)
       \/ /\ r.k = "steer"
          /\ codex' = IF codex.turn = r.turn THEN [codex EXCEPT !.got[r.msg] = @ + 1] ELSE codex
          /\ Out(<<Response(r.id, codex.turn = r.turn, codex.turn)>>)
       \/ /\ r.k = "interrupt"
          /\ IF codex.turn = r.turn
             THEN /\ codex' = [codex EXCEPT !.turn = None, !.asks = {}]
                  /\ Out(<<Response(r.id, TRUE, None), [k |-> "completed", turn |-> r.turn]>>)
             ELSE UNCHANGED codex /\ Out(<<Response(r.id, FALSE, None)>>)
       \/ r.k = "answer" /\ codex' = [codex EXCEPT !.asks = @ \ {r.rpc}] /\ UNCHANGED fromCodex
    /\ UNCHANGED <<call, sent, nextId, pending, closing, mapper, eof, shown, timeouts>>

\* Within a turn it asks for an approval of an item, or for something else, and it reports items.
CodexWorks ==
    /\ codex.alive /\ codex.turn # None
    /\ \/ \E i \in Item, k \in {"ask", "other"} :
            /\ codex.rpc < MaxAsk
            /\ codex' = [codex EXCEPT !.rpc = @ + 1, !.asks = @ \cup {codex.rpc + 1}]
            /\ Out(<<[k |-> k, rpc |-> codex.rpc + 1, item |-> i]>>)
       \/ \E i \in Item \ codex.items :
            /\ codex' = [codex EXCEPT !.items = @ \cup {i}]
            /\ \E b \in BOOLEAN :
                 Out((IF b THEN <<[k |-> "itemStarted", item |-> i]>> ELSE <<>>)
                     \o <<[k |-> "itemCompleted", item |-> i]>>)
       \/ \E r \in codex.asks :
            /\ codex' = [codex EXCEPT !.asks = @ \ {r}]
            /\ Out(<<[k |-> "resolved", rpc |-> r]>>)
       \/ \E failed \in BOOLEAN :
            /\ codex' = [codex EXCEPT !.turn = None, !.asks = {}]
            /\ Out((IF failed THEN <<[k |-> "error"]>> ELSE <<>>)
                   \o <<[k |-> "completed", turn |-> codex.turn]>>)
    /\ UNCHANGED <<call, sent, nextId, pending, closing, mapper, eof, toCodex, shown, timeouts>>

CodexExits ==
    /\ codex.alive /\ codex' = [codex EXCEPT !.alive = FALSE, !.turn = None, !.asks = {}]
    /\ UNCHANGED <<call, sent, nextId, pending, closing, mapper, eof, toCodex, fromCodex, shown, timeouts>>

Read ==
    \/ ReadApprovalRequest \/ ReadOtherRequest \/ ReadTurnStarted \/ ReadTurnCompleted \/ ReadError
    \/ ReadItemStarted \/ ReadItemCompleted \/ ReadResolved \/ ReadResponse \/ ReadEof
CallStep == Start \/ SendSteered \/ SendStarted \/ InterruptEnd

Next ==
    \/ CallStep \/ Timeout \/ Read
    \/ \E m \in Msg : Send(m)
    \/ \E a \in mapper.approvals : Answer(a)
    \/ Interrupt \/ Shutdown
    \/ CodexHandles \/ CodexWorks \/ CodexExits

Spec == Init /\ [][Next]_vars
-----------------------------------------------------------------------------
\* The types of the connection, the mapper, the process and what was shown.
TypeOK ==
    /\ call.op \in {None, "start", "send", "interrupt"} /\ sent \subseteq Msg
    /\ pending \subseteq 1 .. nextId - 1 /\ closing \in BOOLEAN /\ eof \in BOOLEAN /\ timeouts \in 0..MaxTimeout
    /\ mapper.turn \in 1..MaxTurn \cup {None} /\ mapper.finished \in 1..MaxTurn \cup {None}
    /\ mapper.tools \subseteq Item /\ \A a \in mapper.approvals : a.rpc \in 1..MaxAsk
    /\ codex.turn \in 1..MaxTurn \cup {None} /\ codex.asks \subseteq 1 .. codex.rpc /\ codex.items \subseteq Item
    /\ shown.running \in BOOLEAN /\ shown.called \in [Item -> Nat] /\ shown.results \subseteq Item

(* "so a late `turn/start` response does not revive it" (Mapper): the      *)
(* turn the adapter takes for running is one whose end it has not read,    *)
(* however the reader and the call that waits for the response interleave. *)
Unread(k, t) == \E n \in DOMAIN fromCodex : fromCodex[n].k = k /\ fromCodex[n].turn = t
FinishedTurnStaysFinished ==
    codex.alive /\ mapper.turn # None => codex.turn = mapper.turn \/ Unread("completed", mapper.turn)

(* "so Codex never waits on us" (module comment): a request that has been  *)
(* read and that Codex still waits on can be answered from a card, or its  *)
(* answer is on the way.                                                   *)
CodexNotLeftWaiting ==
    codex.alive /\ ~closing => \A r \in codex.asks :
        \/ \E n \in DOMAIN fromCodex : fromCodex[n].k \in {"ask", "other"} /\ fromCodex[n].rpc = r
        \/ \E a \in mapper.approvals : a.rpc = r /\ a.id \in shown.cards
        \/ \E n \in DOMAIN toCodex : toCodex[n].k = "answer" /\ toCodex[n].rpc = r

(* "A tool item that completed without `item/started` still gets its       *)
(* call": every tool result follows its call, which is shown once.         *)
CallsShownOnce ==
    \A i \in Item : shown.called[i] <= 1 /\ (i \in shown.results => shown.called[i] = 1)

(* send: unless a request timed out, a message reaches Codex at most once, *)
(* and when send has returned and the session still runs it has reached    *)
(* it, whether the running turn was steered or had just ended.             *)
MessageReachesCodexOnce ==
    timeouts = 0 =>
        /\ \A m \in Msg : codex.got[m] <= 1
        /\ \A m \in sent : call = NoCall /\ shown.running => codex.got[m] = 1

=============================================================================
