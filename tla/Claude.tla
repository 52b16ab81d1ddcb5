------------------------------- MODULE Claude -------------------------------
(* The Claude Code adapter (server/src/agents/claude_code.rs) and the CLI it   *)
(* drives: the run handle's calls, one at a time, each changing the shared     *)
(* RunState and then writing a line; the reader of the CLI's stdout; the       *)
(* interrupt watchdogs. The CLI, from the protocol notes of the adapter,       *)
(* queues messages that reach it during a turn and may ignore an interrupt.    *)
EXTENDS Naturals, Sequences, FiniteSets

CONSTANTS Ask,           \* permission prompts of the CLI
          Tool, ToolOf,  \* tools, and the tool each prompt is about
          MaxSend,       \* user messages
          MaxInterrupt,
          Pipe           \* lines the CLI's stdin holds before a write waits

VARIABLES st,      \* RunState
          op,      \* the line a call of the run handle is about to write, or <<>>
          stdin, stdout,
          cli,     \* the CLI: idle, in a turn, or dead; messages queued; unanswered prompts
          dogs,    \* watchdogs: the turn_seq they were started for
          sends, interrupts,
          ends,    \* the outcomes of TurnEnded events, in order
          answers, \* responses written per prompt
          truth    \* what the CLI did: its results, whether it died in a turn, and the messages
                   \* that were sent while a turn still ran (history)

vars == <<st, op, stdin, stdout, cli, dogs, sends, interrupts, ends, answers, truth>>

Item == {<<"user">>, <<"interrupt">>} \cup ({"allow", "deny"} \X Ask)
Line == {<<"text">>, <<"ok">>, <<"error">>, <<"eof">>} \cup ({"ask", "cancel"} \X Ask)

TypeOK ==
  /\ st.pending \subseteq Ask /\ st.always \subseteq Tool /\ st.active \in BOOLEAN /\ st.intr \in BOOLEAN
  /\ st.seq \in 0..MaxSend /\ st.down \in BOOLEAN
  /\ op \in Item \cup {<<>>} /\ stdin \in Seq(Item) /\ stdout \in Seq(Line)
  /\ cli.s \in {"idle", "turn", "dead"} /\ cli.queue \in 0..MaxSend /\ cli.wait \subseteq Ask /\ cli.asked \subseteq Ask
  /\ dogs \subseteq 0..MaxSend /\ ends \in Seq({"completed", "failed", "interrupted"})
  /\ truth.results \in Seq({"ok", "error", "interrupted"}) /\ truth.cut \in BOOLEAN /\ truth.eof \in BOOLEAN
  /\ truth.early \subseteq 1..MaxSend

Init ==
  /\ st = [pending |-> {}, always |-> {}, active |-> FALSE, seq |-> 0, intr |-> FALSE, down |-> FALSE]
  /\ op = <<>> /\ stdin = <<>> /\ stdout = <<>> /\ dogs = {} /\ sends = 0 /\ interrupts = 0 /\ ends = <<>>
  /\ cli = [s |-> "idle", queue |-> 0, wait |-> {}, asked |-> {}]
  /\ answers = [a \in Ask |-> 0] /\ truth = [results |-> <<>>, cut |-> FALSE, eof |-> FALSE, early |-> {}]

Free == op = <<>> /\ ~st.down

-----------------------------------------------------------------------------
(* The run handle *)

\* send marks the turn active before it writes the message, and forgets an interrupt. A message
\* is early while an earlier one's end has not been read.
Early == IF sends > Len(ends) THEN {sends + 1} ELSE {}

Send ==
  /\ Free /\ sends < MaxSend
  /\ sends' = sends + 1 /\ truth' = [truth EXCEPT !.early = @ \cup Early]
  /\ st' = [st EXCEPT !.active = TRUE, !.seq = @ + 1, !.intr = FALSE]
  /\ op' = <<"user">>
  /\ UNCHANGED <<stdin, stdout, cli, dogs, interrupts, ends, answers>>

\* answer takes the prompt out of the pending ones, and remembers the tool for AllowAlways.
Taken(a) == st.pending \ {a}

Answer(a, decision) ==
  /\ Free /\ a \in st.pending
  /\ st' = [st EXCEPT !.pending = Taken(a), !.always = IF decision = "always" THEN @ \cup {ToolOf[a]} ELSE @]
  /\ op' = <<IF decision = "deny" THEN "deny" ELSE "allow", a>>
  /\ UNCHANGED <<stdin, stdout, cli, dogs, sends, interrupts, ends, answers, truth>>

\* interrupt does nothing when it finds no turn active.
Interrupt ==
  /\ Free /\ st.active /\ interrupts < MaxInterrupt
  /\ interrupts' = interrupts + 1
  /\ st' = [st EXCEPT !.intr = TRUE]
  /\ op' = <<"interrupt">>
  /\ UNCHANGED <<stdin, stdout, cli, dogs, sends, ends, answers, truth>>

\* write_line fails once the CLI is gone or stdin was closed.
Closed == cli.s = "dead" \/ st.down

\* Before that it waits for room in the pipe, with the lock of stdin held.
Room == Closed \/ Len(stdin) < Pipe

Responds(item) ==
  IF Len(item) = 2 THEN answers' = [answers EXCEPT ![item[2]] = @ + 1] ELSE UNCHANGED answers

\* The line is written, or fails because the CLI is gone; an interrupt then starts its watchdog.
WriteLine ==
  /\ op # <<>> /\ Room
  /\ IF Closed THEN UNCHANGED <<stdin, answers>> ELSE stdin' = Append(stdin, op) /\ Responds(op)
  /\ dogs' = IF op = <<"interrupt">> THEN dogs \cup {st.seq} ELSE dogs
  /\ op' = <<>>
  /\ UNCHANGED <<st, stdout, cli, sends, interrupts, ends, truth>>

\* After the grace, SIGINT for a turn that is still the interrupted one; the CLI exits on it.
StillRunning(d) == st.active /\ st.seq = d /\ st.intr

Died == [truth EXCEPT !.cut = cli.s = "turn" /\ ~st.down]

Watchdog(d) ==
  /\ d \in dogs
  /\ dogs' = dogs \ {d}
  /\ IF StillRunning(d) /\ cli.s # "dead"
     THEN cli' = [cli EXCEPT !.s = "dead"] /\ stdout' = Append(stdout, <<"eof">>) /\ truth' = Died
     ELSE UNCHANGED <<cli, stdout, truth>>
  /\ UNCHANGED <<st, op, stdin, sends, interrupts, ends, answers>>

\* shutdown closes stdin and waits for the exit, which comes after the current work, or kills.
Shutdown ==
  /\ Free
  /\ st' = [st EXCEPT !.down = TRUE]
  /\ UNCHANGED <<op, stdin, stdout, cli, dogs, sends, interrupts, ends, answers, truth>>

-----------------------------------------------------------------------------
(* The reader *)

Line1(l) == stdout # <<>> /\ Head(stdout) = l /\ stdout' = Tail(stdout)

\* Text, tool calls, results and usage become events one for one.
ReadText == Line1(<<"text">>) /\ UNCHANGED <<st, op, stdin, cli, dogs, sends, interrupts, ends, answers, truth>>

\* A prompt for a tool that is always allowed is answered at once; others wait for the user.
Auto(a) == ToolOf[a] \in st.always

ReadAsk(a) ==
  /\ Line1(<<"ask", a>>)
  /\ IF Auto(a) THEN /\ UNCHANGED st /\ Room
                     /\ IF Closed THEN UNCHANGED <<stdin, answers>>
                        ELSE stdin' = Append(stdin, <<"allow", a>>) /\ Responds(<<"allow", a>>)
     ELSE st' = [st EXCEPT !.pending = @ \cup {a}] /\ UNCHANGED <<stdin, answers>>
  /\ UNCHANGED <<op, cli, dogs, sends, interrupts, ends, truth>>

ReadCancel(a) ==
  /\ Line1(<<"cancel", a>>)
  /\ st' = [st EXCEPT !.pending = @ \ {a}]
  /\ UNCHANGED <<op, stdin, cli, dogs, sends, interrupts, ends, answers, truth>>

\* A result ends the turn; after an interrupt it is reported as interrupted, whatever it says.
ReadResult(l) ==
  /\ l \in {<<"ok">>, <<"error">>} /\ Line1(l)
  /\ st' = [st EXCEPT !.intr = FALSE, !.active = FALSE, !.pending = {}]
  /\ ends' = Append(ends, IF st.intr THEN "interrupted" ELSE IF l = <<"ok">> THEN "completed" ELSE "failed")
  /\ UNCHANGED <<op, stdin, cli, dogs, sends, interrupts, answers, truth>>

\* The end of stdout ends an active turn, unless it is our own shutdown.
ReadEof ==
  /\ Line1(<<"eof">>)
  /\ ends' = IF st.active /\ ~st.down THEN Append(ends, IF st.intr THEN "interrupted" ELSE "failed") ELSE ends
  /\ truth' = [truth EXCEPT !.eof = TRUE]
  /\ UNCHANGED <<st, op, stdin, cli, dogs, sends, interrupts, answers>>

Read == \/ ReadText \/ ReadEof
        \/ (\E a \in Ask : ReadAsk(a) \/ ReadCancel(a))
        \/ (\E l \in {<<"ok">>, <<"error">>} : ReadResult(l))

-----------------------------------------------------------------------------
(* The CLI (external) *)

Says(line) == stdout' = Append(stdout, line)
Quiet == UNCHANGED <<st, op, dogs, sends, interrupts, ends, answers>>

CliReads ==
  /\ cli.s # "dead" /\ stdin # <<>>
  /\ stdin' = Tail(stdin)
  /\ LET item == Head(stdin) IN
     \/ item = <<"user">> /\ cli' = [cli EXCEPT !.queue = @ + 1] /\ UNCHANGED <<stdout, truth>>
     \/ /\ item = <<"interrupt">> /\ cli.s = "turn"
        /\ cli' = [cli EXCEPT !.s = "idle", !.wait = {}] /\ Says(<<"error">>)
        /\ truth' = [truth EXCEPT !.results = Append(@, "interrupted")]
     \/ item = <<"interrupt">> /\ UNCHANGED <<cli, stdout, truth>>
     \/ Len(item) = 2 /\ cli' = [cli EXCEPT !.wait = @ \ {item[2]}] /\ UNCHANGED <<stdout, truth>>
  /\ Quiet

CliStarts ==
  /\ cli.s = "idle" /\ cli.queue > 0
  /\ cli' = [cli EXCEPT !.s = "turn", !.queue = @ - 1] /\ Says(<<"text">>)
  /\ UNCHANGED <<stdin, truth>> /\ Quiet

CliAsks(a) ==
  /\ cli.s = "turn" /\ a \notin cli.asked
  /\ cli' = [cli EXCEPT !.asked = @ \cup {a}, !.wait = @ \cup {a}] /\ Says(<<"ask", a>>)
  /\ UNCHANGED <<stdin, truth>> /\ Quiet

CliWithdraws(a) ==
  /\ cli.s = "turn" /\ a \in cli.wait
  /\ cli' = [cli EXCEPT !.wait = @ \ {a}] /\ Says(<<"cancel", a>>)
  /\ UNCHANGED <<stdin, truth>> /\ Quiet

CliResult(r) ==
  /\ cli.s = "turn" /\ cli.wait = {}
  /\ cli' = [cli EXCEPT !.s = "idle"] /\ Says(<<r>>)
  /\ truth' = [truth EXCEPT !.results = Append(@, r)]
  /\ UNCHANGED stdin /\ Quiet

CliDies ==
  /\ cli.s # "dead"
  /\ cli' = [cli EXCEPT !.s = "dead"] /\ Says(<<"eof">>) /\ truth' = Died
  /\ UNCHANGED stdin /\ Quiet

Cli == CliReads \/ CliStarts \/ CliDies \/ (\E r \in {"ok", "error"} : CliResult(r))
       \/ (\E a \in Ask : CliAsks(a) \/ CliWithdraws(a))

Next == \/ Send \/ Interrupt \/ WriteLine \/ Shutdown \/ Read \/ Cli
        \/ (\E a \in Ask, d \in {"once", "always", "deny"} : Answer(a, d)) \/ (\E d \in dogs : Watchdog(d))

Spec == Init /\ [][Next]_vars

\* What keeps running: the reader and the run handle, and every watchdog's grace passes.
Going(k) == (k = 1 /\ Read) \/ (k = 2 /\ WriteLine) \/ (k = 3 /\ \E d \in dogs : Watchdog(d))

-----------------------------------------------------------------------------
(* Properties *)

\* A prompt the CLI waits on is still to be read, waits for the user, or its answer is on the
\* way: a turn's end, a withdrawal or an always-allowed tool never leaves it unanswered.
CliNotLeftWaiting ==
  cli.s = "turn" /\ ~st.down => \A a \in cli.wait :
    \/ a \in st.pending \/ (Len(op) = 2 /\ op[2] = a)
    \/ \E i \in 1..Len(stdout) : stdout[i] = <<"ask", a>>
    \/ \E i \in 1..Len(stdin) : Len(stdin[i]) = 2 /\ stdin[i][2] = a

\* No prompt is answered twice, by the user, by an always-allowed tool, or by both.
AnsweredOnce == \A a \in Ask : answers[a] <= 1

\* A turn cut short by the CLI's exit is reported (read_stdout: "A turn cut short by anything
\* but our own shutdown is reported."), unless its message was sent while the turn before ran: the
\* result of that one cleared turn_active, and the queued message's turn goes on without it.
ExitReported ==
  truth.eof /\ truth.cut /\ ~st.down =>
    LET n == Len(truth.results) + 1 IN n \in truth.early \/ Len(ends) = n

\* The result of a turn that the CLI ended because of an interrupt is reported as interrupted
\* ("which the adapter reports as `TurnEnded { Interrupted }` without an `Error`"), unless it was
\* an early message's turn or the next message was sent before it: send forgets the interrupt.
InterruptedSaysSo ==
  \A i \in 1..Len(ends) :
    i <= Len(truth.results) /\ truth.results[i] = "interrupted" /\ {i, i + 1} \cap truth.early = {} =>
      ends[i] = "interrupted"

\* An interrupt of a running turn ends it, even if the CLI ignores the request, unless the next
\* message takes the interrupt back: Due ~> Met. While the CLI reads nothing and its pipe is full
\* (Stuck), the interrupt itself waits, and the watchdog starts only after it.
Due == st.active /\ st.intr
Met == ~st.active \/ ~st.intr \/ truth.eof \/ st.down
Stuck == ~Room /\ op # <<>>
=============================================================================
