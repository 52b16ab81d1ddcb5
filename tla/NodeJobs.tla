------------------------------ MODULE NodeJobs ------------------------------
(***************************************************************************)
(* Commands of ember node: background jobs and foreground commands of an   *)
(* exec socket (exec.rs, jobs.rs, api.rs), and the event log a server      *)
(* follows over a socket and resumes after a disconnect (client.rs).       *)
(* A command is a process, the pipe its output goes through, a waiter task *)
(* and a channel of events to the task that owns it.  A grandchild may     *)
(* hold the pipe open after the process is gone.                           *)
(***************************************************************************)
EXTENDS Naturals, Sequences, FiniteSets, SequencesExt

CONSTANTS
    Job, Exec,       \* background jobs and foreground commands
    EventHistory,    \* EVENT_HISTORY, also the broadcast channel's capacity
    Queue,           \* capacity of the channel of a command's events
    MaxOut,          \* bound: chunks of output of a process
    MaxConn,         \* bound: connections of the event stream
    MaxInput,        \* bound: messages with input for a command
    MaxWaitFail      \* bound: failed waits

VARIABLES
    proc,    \* process: "none", "alive", "dead"
    holder,  \* a grandchild holds the pipe
    piped,   \* chunks written and not yet read by the pump
    wrote,   \* chunks the process wrote
    chan,    \* events of the command, unread: "out", "exit", "error"
    waiter,  \* "none", "wait", "drain", "over"
    task,    \* owner of the command: "none", "starting", "run", "finished", "done"
    info,    \* jobs[id]: state and output_bytes
    socket,  \* exec socket: "none", "open", "closed", "over"
    input,   \* exec_session is in write_stdin, which waits for the command to read
    log,     \* EventLog: next_seq and history
    sub,     \* the event stream's task at the node, or Off
    wire,    \* events sent and not yet received
    server,  \* the subscriber: last seq seen, events received, events it may miss
    count

vars == <<proc, holder, piped, wrote, chan, waiter, task, info, socket, input, log, sub, wire, server, count>>

Cmd == Job \cup Exec
Off == [on |-> FALSE, last |-> 0, backlog |-> <<>>, rx |-> <<>>]
NoJob == [state |-> "none", bytes |-> 0]

\* The last message of a command is "exit" or "error".
ExecEvent == {"out", "exit", "error"}
JobInfo == [state : {"none", "running", "exited", "removed"}, bytes : Nat]
NodeEvent == [seq : Nat, kind : {"started", "finished"}, job : Job]

TypeOK ==
    /\ proc \in [Cmd -> {"none", "alive", "dead"}] /\ holder \in [Cmd -> BOOLEAN]
    /\ piped \in [Cmd -> Nat] /\ wrote \in [Cmd -> Nat]
    /\ waiter \in [Cmd -> {"none", "wait", "drain", "over"}]
    /\ task \in [Cmd -> {"none", "starting", "run", "finished", "done"}]
    /\ chan \in [Cmd -> Seq(ExecEvent)] /\ info \in [Job -> JobInfo]
    /\ socket \in [Exec -> {"none", "open", "closed", "over"}] /\ input \in [Exec -> BOOLEAN]
    /\ \A c \in Cmd : Len(chan[c]) <= Queue
    /\ log.history \in Seq(NodeEvent) /\ Len(log.history) <= EventHistory /\ wire \in Seq(NodeEvent)

Init ==
    /\ proc = [c \in Cmd |-> "none"] /\ holder = [c \in Cmd |-> FALSE] /\ piped = [c \in Cmd |-> 0]
    /\ wrote = [c \in Cmd |-> 0] /\ chan = [c \in Cmd |-> <<>>] /\ waiter = [c \in Cmd |-> "none"]
    /\ task = [c \in Cmd |-> "none"] /\ info = [j \in Job |-> NoJob] /\ socket = [x \in Exec |-> "none"]
    /\ input = [x \in Exec |-> FALSE]
    /\ log = [next |-> 1, history |-> <<>>] /\ sub = Off /\ wire = <<>>
    /\ server = [last |-> 0, seen |-> <<>>, missed |-> {}, conn |-> FALSE]
    /\ count = [conn |-> 0, waitfail |-> 0, input |-> 0]

-----------------------------------------------------------------------------
(* Starting a command *)

\* spawn_pipes: the process, its pumps and its waiter.
Spawned(c) ==
    /\ proc' = [proc EXCEPT ![c] = "alive"] /\ waiter' = [waiter EXCEPT ![c] = "wait"]

\* Jobs::start: the job is listed; a command that cannot be spawned is refused and leaves nothing.
StartJob(j) ==
    /\ task[j] = "none" /\ Spawned(j)
    /\ info' = [info EXCEPT ![j] = [state |-> "running", bytes |-> 0]]
    /\ task' = [task EXCEPT ![j] = "starting"]
    /\ UNCHANGED <<holder, piped, wrote, chan, socket, input, log, sub, wire, server, count>>

\* exec_session: the request is answered with `started`.
StartExec(x) ==
    /\ task[x] = "none" /\ Spawned(x)
    /\ task' = [task EXCEPT ![x] = "run"] /\ socket' = [socket EXCEPT ![x] = "open"]
    /\ UNCHANGED <<holder, piped, wrote, chan, info, input, log, sub, wire, server, count>>

-----------------------------------------------------------------------------
(* The event log *)

\* emit, under the log's lock: the history and every subscriber's channel get the event.
Emit(kind, j) ==
    LET e == [seq |-> log.next, kind |-> kind, job |-> j]
        h == Append(log.history, e)
    IN /\ log' = [next |-> log.next + 1, history |-> IF Len(h) > EventHistory THEN Tail(h) ELSE h]
       /\ sub' = IF sub.on THEN [sub EXCEPT !.rx = Append(@, e)] ELSE sub

\* JobStarted is logged before the task that can log JobFinished exists.
EmitStarted(j) ==
    /\ task[j] = "starting" /\ Emit("started", j) /\ task' = [task EXCEPT ![j] = "run"]
    /\ UNCHANGED <<proc, holder, piped, wrote, chan, waiter, info, socket, input, wire, server, count>>

EmitFinished(j) ==
    /\ j \in Job /\ task[j] = "finished" /\ Emit("finished", j) /\ task' = [task EXCEPT ![j] = "done"]
    /\ UNCHANGED <<proc, holder, piped, wrote, chan, waiter, info, socket, input, wire, server, count>>

-----------------------------------------------------------------------------
(* The process and its pipe *)

Writes(c) ==
    /\ proc[c] = "alive" /\ wrote[c] < MaxOut
    /\ wrote' = [wrote EXCEPT ![c] = @ + 1] /\ piped' = [piped EXCEPT ![c] = @ + 1]
    /\ UNCHANGED <<proc, holder, chan, waiter, task, info, socket, input, log, sub, wire, server, count>>

\* The process ends, perhaps leaving a grandchild with its output.
Ends(c, grandchild) ==
    /\ proc[c] = "alive" /\ proc' = [proc EXCEPT ![c] = "dead"] /\ holder' = [holder EXCEPT ![c] = grandchild]
    /\ UNCHANGED <<piped, wrote, chan, waiter, task, info, socket, input, log, sub, wire, server, count>>

\* pump: read and forward, as long as the owner receives; a full channel holds it up.
Receives(c) == task[c] \in {"starting", "run"}
Room(c) == Receives(c) => Len(chan[c]) < Queue
Sent(c, event) == IF Receives(c) THEN [chan EXCEPT ![c] = Append(@, event)] ELSE chan

Pump(c) ==
    /\ piped[c] > 0 /\ Room(c) /\ piped' = [piped EXCEPT ![c] = @ - 1]
    /\ chan' = Sent(c, "out")
    /\ UNCHANGED <<proc, holder, wrote, waiter, task, info, socket, input, log, sub, wire, server, count>>

\* child.wait(): the status, or an error.
Waited(c) ==
    /\ waiter[c] = "wait" /\ proc[c] = "dead" /\ waiter' = [waiter EXCEPT ![c] = "drain"]
    /\ UNCHANGED <<proc, holder, piped, wrote, chan, task, info, socket, input, log, sub, wire, server, count>>

\* The pumps are done, or DRAIN_GRACE is over; a pipe nobody holds is drained well within it, unless
\* the owner waits for the command to read.
Drained(c) == piped[c] = 0 \/ holder[c] \/ (c \in Exec /\ input[c])

SendExit(c) ==
    /\ waiter[c] = "drain" /\ Drained(c) /\ Room(c)
    /\ waiter' = [waiter EXCEPT ![c] = "over"] /\ chan' = Sent(c, "exit")
    /\ UNCHANGED <<proc, holder, piped, wrote, task, info, socket, input, log, sub, wire, server, count>>

SendWaitError(c) ==
    /\ waiter[c] = "drain" /\ Drained(c) /\ Room(c) /\ count.waitfail < MaxWaitFail
    /\ count' = [count EXCEPT !.waitfail = @ + 1]
    /\ waiter' = [waiter EXCEPT ![c] = "over"] /\ chan' = Sent(c, "error")
    /\ UNCHANGED <<proc, holder, piped, wrote, task, info, socket, input, log, sub, wire, server>>

-----------------------------------------------------------------------------
(* The owner of the command *)

\* The job's task: output is counted, an exit finishes the job, an error is only text.
JobTakes(j) ==
    /\ task[j] = "run" /\ chan[j] # <<>>
    /\ chan' = [chan EXCEPT ![j] = Tail(@)]
    /\ IF Head(chan[j]) = "exit"
       THEN /\ info' = [info EXCEPT ![j].state = "exited"] /\ task' = [task EXCEPT ![j] = "finished"]
       ELSE /\ info' = [info EXCEPT ![j].bytes = IF Head(chan[j]) = "out" THEN @ + 1 ELSE @] /\ UNCHANGED task
    /\ UNCHANGED <<proc, holder, piped, wrote, waiter, socket, input, log, sub, wire, server, count>>

\* Jobs::kill signals the process group while the job has a pid.
KillJob(j) ==
    /\ info[j].state = "running" /\ proc[j] = "alive"
    /\ proc' = [proc EXCEPT ![j] = "dead"]
    /\ UNCHANGED <<holder, piped, wrote, chan, waiter, task, info, socket, input, log, sub, wire, server, count>>

\* Jobs::remove: not while it runs.
RemoveJob(j) ==
    /\ info[j].state = "exited" /\ info' = [info EXCEPT ![j].state = "removed"]
    /\ UNCHANGED <<proc, holder, piped, wrote, chan, waiter, task, socket, input, log, sub, wire, server, count>>

\* A message with input: exec_session writes it within the arm of its select, and sees no event and
\* no close until the command has read enough, or is gone with everyone who could read.
ExecInput(x) ==
    /\ task[x] = "run" /\ socket[x] = "open" /\ ~input[x] /\ count.input < MaxInput
    /\ input' = [input EXCEPT ![x] = TRUE] /\ count' = [count EXCEPT !.input = @ + 1]
    /\ UNCHANGED <<proc, holder, piped, wrote, chan, waiter, task, info, socket, log, sub, wire, server>>

Written(x) == input[x] /\ input' = [input EXCEPT ![x] = FALSE]

ReadsInput(x) ==
    /\ proc[x] = "alive" /\ Written(x)
    /\ UNCHANGED <<proc, holder, piped, wrote, chan, waiter, task, info, socket, log, sub, wire, server, count>>

InputFails(x) ==
    /\ proc[x] = "dead" /\ ~holder[x] /\ Written(x)
    /\ UNCHANGED <<proc, holder, piped, wrote, chan, waiter, task, info, socket, log, sub, wire, server, count>>

\* exec_session forwards; the exit or an error ends it.
ExecTakes(x) ==
    /\ task[x] = "run" /\ ~input[x] /\ chan[x] # <<>> /\ socket[x] = "open"
    /\ chan' = [chan EXCEPT ![x] = Tail(@)]
    /\ IF Head(chan[x]) = "out" THEN UNCHANGED <<task, socket>>
       ELSE task' = [task EXCEPT ![x] = "done"] /\ socket' = [socket EXCEPT ![x] = "over"]
    /\ UNCHANGED <<proc, holder, piped, wrote, waiter, info, input, log, sub, wire, server, count>>

SocketCloses(x) ==
    /\ socket[x] = "open" /\ socket' = [socket EXCEPT ![x] = "closed"]
    /\ UNCHANGED <<proc, holder, piped, wrote, chan, waiter, task, info, input, log, sub, wire, server, count>>

\* The process group is killed, grandchildren with it.
Reap(x) == proc' = [proc EXCEPT ![x] = "dead"] /\ holder' = [holder EXCEPT ![x] = FALSE]

\* exec_session sees the socket go: a foreground command does not outlive it.
ExecAbandoned(x) ==
    /\ task[x] = "run" /\ ~input[x] /\ socket[x] = "closed" /\ task' = [task EXCEPT ![x] = "done"] /\ Reap(x)
    /\ UNCHANGED <<piped, wrote, chan, waiter, info, socket, input, log, sub, wire, server, count>>

-----------------------------------------------------------------------------
(* The event stream *)

\* As Backlog, for a subscription that resumes at the event it saw last.
BacklogFault(after) == SelectSeq(log.history, LAMBDA e : e.seq > after + 1)

Backlog(after) == SelectSeq(log.history, LAMBDA e : e.seq > after)

\* subscribe, under the log's lock: what is still in the history, and every event after it.
Subscribe ==
    /\ ~server.conn /\ ~sub.on /\ count.conn < MaxConn /\ count' = [count EXCEPT !.conn = @ + 1]
    /\ sub' = [on |-> TRUE, last |-> server.last, backlog |-> Backlog(server.last), rx |-> <<>>]
    /\ server' = [server EXCEPT !.conn = TRUE,
                    !.missed = @ \cup {s \in 1..(log.next - 1) : s > server.last /\ \A i \in DOMAIN log.history : log.history[i].seq > s}]
    /\ wire' = <<>>
    /\ UNCHANGED <<proc, holder, piped, wrote, chan, waiter, task, info, socket, input, log>>

SendBacklog ==
    /\ sub.on /\ sub.backlog # <<>>
    /\ wire' = Append(wire, Head(sub.backlog))
    /\ sub' = [sub EXCEPT !.last = Head(sub.backlog).seq, !.backlog = Tail(@)]
    /\ UNCHANGED <<proc, holder, piped, wrote, chan, waiter, task, info, socket, input, log, server, count>>

\* A receiver that fell more than the channel's capacity behind is closed, to reconnect and replay.
SendLive ==
    /\ sub.on /\ sub.backlog = <<>> /\ sub.rx # <<>>
    /\ IF Len(sub.rx) > EventHistory THEN sub' = Off /\ UNCHANGED wire
       ELSE /\ sub' = [sub EXCEPT !.rx = Tail(@), !.last = IF Head(sub.rx).seq <= @ THEN @ ELSE Head(sub.rx).seq]
            /\ wire' = IF Head(sub.rx).seq <= sub.last THEN wire ELSE Append(wire, Head(sub.rx))
    /\ UNCHANGED <<proc, holder, piped, wrote, chan, waiter, task, info, socket, input, log, server, count>>

ServerReads ==
    /\ server.conn /\ wire # <<>> /\ wire' = Tail(wire)
    /\ server' = [server EXCEPT !.last = Head(wire).seq, !.seen = Append(@, Head(wire))]
    /\ UNCHANGED <<proc, holder, piped, wrote, chan, waiter, task, info, socket, input, log, sub, count>>

\* The connection is lost with what it carried, or the node closed it and everything was read.
Disconnect ==
    /\ server.conn /\ server' = [server EXCEPT !.conn = FALSE] /\ wire' = <<>> /\ sub' = Off
    /\ UNCHANGED <<proc, holder, piped, wrote, chan, waiter, task, info, socket, input, log, count>>

-----------------------------------------------------------------------------
CmdStep(c) == Pump(c) \/ Waited(c) \/ SendExit(c) \/ (c \in Job /\ (EmitStarted(c) \/ JobTakes(c) \/ EmitFinished(c)))
              \/ (c \in Exec /\ (ExecTakes(c) \/ ExecAbandoned(c) \/ InputFails(c)))

Next ==
    \/ \E c \in Cmd : CmdStep(c) \/ Writes(c) \/ SendWaitError(c) \/ \E g \in BOOLEAN : Ends(c, g)
    \/ \E j \in Job : StartJob(j) \/ KillJob(j) \/ RemoveJob(j)
    \/ \E x \in Exec : StartExec(x) \/ SocketCloses(x) \/ ExecInput(x) \/ ReadsInput(x)
    \/ Subscribe \/ SendBacklog \/ SendLive \/ ServerReads \/ Disconnect

Spec == Init /\ [][Next]_vars

\* What keeps running: the tasks of each command.
Going(c) == CmdStep(c)

-----------------------------------------------------------------------------
\* A finished job's output is all its process wrote, unless a grandchild kept the pipe open past the grace.
OutputComplete == \A j \in Job : (info[j].state \in {"exited", "removed"} /\ ~holder[j]) => info[j].bytes = wrote[j]

\* The server receives every event once and in order, across disconnects, a lagging receiver and the switch from
\* backlog to live events; it misses only what had left the history when it reconnected.
EventsOnceInOrder ==
    /\ \A i, k \in DOMAIN server.seen : i < k => server.seen[i].seq < server.seen[k].seq
    /\ \A s \in 1..server.last : s \in server.missed \/ \E i \in DOMAIN server.seen : server.seen[i].seq = s

\* A command of a closed exec socket dies, and a job that ended is reported to its owner:
\* Due(c) ~> Met(c), unless input for the command is never read (Stuck): the close then waits for
\* the write, and the command lives on.
Due(c) == (c \in Exec /\ socket[c] = "closed") \/ (c \in Job /\ proc[c] = "dead")
Met(c) == IF c \in Exec THEN proc[c] = "dead" ELSE task[c] = "done"
Stuck(c) == c \in Exec /\ input[c]
=============================================================================
