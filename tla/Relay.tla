-------------------------------- MODULE Relay -------------------------------
(* The Codex path of remote execution: codex app-server talks WebSocket to a   *)
(* loopback relay in the server (server/src/computers/relay.rs), which talks   *)
(* bytes to the node (node/src/exec_server.rs), which runs a codex exec-server *)
(* child on its stdio. Requests go up one frame each; answers come down as     *)
(* bytes cut anywhere and are split into lines again. Relay and node each run  *)
(* two directions and end both when one ends.                                  *)
EXTENDS Naturals, Sequences

CONSTANTS MaxSend,  \* requests of codex
          MaxCrash, \* times the exec-server exits by itself
          Wire,     \* frames a WebSocket holds before a send waits
          Pipe      \* requests the child's stdin holds before a write waits

VARIABLES codex,   \* open, closed by codex or by the relay; requests sent; lines received
          up,      \* frames from codex to the relay and from the relay to the node
          relay, node, \* "open" or "ended"
          proc,    \* the child: alive, its stdin open
          stdin, stdout, \* its pipes: requests, and bytes of answers
          frames,  \* chunks from the node to the relay
          buf,     \* LineFramer
          written, \* answers the child wrote
          crashes

vars == <<codex, up, relay, node, proc, stdin, stdout, frames, buf, written, crashes>>

Req == 1..MaxSend
\* An answer on stdout: a byte, a carriage return and a newline; blank lines have answer 0.
Byte == (0..MaxSend) \X {"b", "cr", "nl"}

TypeOK ==
  /\ codex.s \in {"open", "closed", "ended"} /\ codex.sent \in 0..MaxSend /\ codex.got \in Seq(Req)
  /\ up.relay \in Seq(Req) /\ up.node \in Seq(Req) /\ stdin \in Seq(Req)
  /\ relay \in {"open", "ended"} /\ node \in {"open", "ended"}
  /\ proc.alive \in BOOLEAN /\ proc.stdin \in BOOLEAN
  /\ stdout \in Seq(Byte) /\ buf \in Seq(Byte) /\ frames \in Seq(Seq(Byte)) /\ written \in Seq(Req)

Init ==
  /\ codex = [s |-> "open", sent |-> 0, got |-> <<>>] /\ up = [relay |-> <<>>, node |-> <<>>]
  /\ relay = "open" /\ node = "open" /\ proc = [alive |-> TRUE, stdin |-> TRUE]
  /\ stdin = <<>> /\ stdout = <<>> /\ frames = <<>> /\ buf = <<>> /\ written = <<>> /\ crashes = 0

-----------------------------------------------------------------------------
(* codex app-server (external) *)

CodexSends ==
  /\ codex.s = "open" /\ relay = "open" /\ codex.sent < MaxSend
  /\ codex' = [codex EXCEPT !.sent = @ + 1] /\ up' = [up EXCEPT !.relay = Append(@, codex.sent + 1)]
  /\ UNCHANGED <<relay, node, proc, stdin, stdout, frames, buf, written, crashes>>

CodexCloses ==
  /\ codex.s = "open" /\ codex' = [codex EXCEPT !.s = "closed"]
  /\ UNCHANGED <<up, relay, node, proc, stdin, stdout, frames, buf, written, crashes>>

-----------------------------------------------------------------------------
(* The relay: serve *)

RelayUp ==
  /\ relay = "open" /\ up.relay # <<>> /\ (node = "open" => Len(up.node) < Wire)
  /\ up' = [relay |-> Tail(up.relay), node |-> Append(up.node, Head(up.relay))]
  /\ UNCHANGED <<codex, relay, node, proc, stdin, stdout, frames, buf, written, crashes>>

\* Codex's close, once its frames are through, ends both directions and closes the node's socket.
RelayUpEnds ==
  /\ relay = "open" /\ up.relay = <<>> /\ codex.s = "closed"
  /\ relay' = "ended"
  /\ UNCHANGED <<codex, up, node, proc, stdin, stdout, frames, buf, written, crashes>>

\* LineFramer::push: complete lines go out without their line end, blank ones are skipped, and a
\* partial last line waits.
Push(bytes) == buf \o bytes

NewLine(b, k) == b[k][2] = "nl"
LineEnds(b) ==
  SelectSeq([k \in 1..Len(b) |-> k],
            LAMBDA k : NewLine(b, k) /\ \E m \in 1..(k - 1) : b[m][2] = "b" /\ \A n \in m..(k - 1) : ~NewLine(b, n))
Lines(b) == [i \in 1..Len(LineEnds(b)) |-> b[LineEnds(b)[i]][1]]
Partial(b) ==
  LET ends == {k \in 1..Len(b) : NewLine(b, k)} IN
  IF ends = {} THEN b ELSE SubSeq(b, (CHOOSE k \in ends : \A j \in ends : j <= k) + 1, Len(b))

RelayDown ==
  /\ relay = "open" /\ frames # <<>>
  /\ LET b == Push(Head(frames)) IN
       /\ codex' = IF codex.s = "open" THEN [codex EXCEPT !.got = @ \o Lines(b)] ELSE codex
       /\ buf' = Partial(b)
  /\ frames' = Tail(frames)
  /\ UNCHANGED <<up, relay, node, proc, stdin, stdout, written, crashes>>

\* The node's close comes after its frames, and closes codex's socket.
RelayDownEnds ==
  /\ relay = "open" /\ frames = <<>> /\ node = "ended"
  /\ relay' = "ended" /\ codex' = [codex EXCEPT !.s = IF @ = "open" THEN "ended" ELSE @]
  /\ UNCHANGED <<up, node, proc, stdin, stdout, frames, buf, written, crashes>>

-----------------------------------------------------------------------------
(* The node: bridge *)

\* The end of either direction drops the other; dropping up closes the child's stdin.
NodeEnds == node' = "ended" /\ proc' = [proc EXCEPT !.stdin = FALSE]

\* A request is written to the child, once its pipe has room; a write to a child that is gone ends
\* the bridge. Until then this direction sees no close of the relay.
Takes == proc.alive => Len(stdin) < Pipe

NodeUp ==
  /\ node = "open" /\ up.node # <<>> /\ Takes
  /\ up' = [up EXCEPT !.node = Tail(@)]
  /\ IF proc.alive THEN stdin' = Append(stdin, Head(up.node)) /\ UNCHANGED <<node, proc>>
     ELSE NodeEnds /\ UNCHANGED stdin
  /\ UNCHANGED <<codex, relay, stdout, frames, buf, written, crashes>>

NodeUpEnds ==
  /\ node = "open" /\ up.node = <<>> /\ relay = "ended"
  /\ NodeEnds
  /\ UNCHANGED <<codex, up, relay, stdin, stdout, frames, buf, written, crashes>>

NodeDown(n) ==
  /\ node = "open" /\ n \in 1..Len(stdout) /\ (relay = "open" => Len(frames) < Wire)
  /\ frames' = Append(frames, SubSeq(stdout, 1, n)) /\ stdout' = SubSeq(stdout, n + 1, Len(stdout))
  /\ UNCHANGED <<codex, up, relay, node, proc, stdin, buf, written, crashes>>

Eof == ~proc.alive /\ stdout = <<>>

NodeDownEnds ==
  /\ node = "open" /\ Eof
  /\ NodeEnds
  /\ UNCHANGED <<codex, up, relay, stdin, stdout, frames, buf, written, crashes>>

\* After the bridge the child exits because its stdin closed, or is killed after EXIT_GRACE.
Reaps == node = "ended" /\ proc.alive

NodeReaps ==
  /\ Reaps /\ proc' = [proc EXCEPT !.alive = FALSE]
  /\ UNCHANGED <<codex, up, relay, node, stdin, stdout, frames, buf, written, crashes>>

-----------------------------------------------------------------------------
(* The child: codex exec-server (external) *)

ProcAnswers(blank) ==
  /\ proc.alive /\ stdin # <<>>
  /\ LET a == Head(stdin) IN
       /\ stdout' = stdout \o (IF blank THEN <<<<0, "nl">>>> ELSE <<>>) \o <<<<a, "b">>, <<a, "cr">>, <<a, "nl">>>>
       /\ written' = Append(written, a)
  /\ stdin' = Tail(stdin)
  /\ UNCHANGED <<codex, up, relay, node, proc, frames, buf, crashes>>

ProcExits ==
  /\ proc.alive /\ crashes < MaxCrash /\ crashes' = crashes + 1
  /\ proc' = [proc EXCEPT !.alive = FALSE]
  /\ UNCHANGED <<codex, up, relay, node, stdin, stdout, frames, buf, written>>

Codex == CodexSends \/ CodexCloses
Tasks == RelayUp \/ RelayUpEnds \/ RelayDown \/ RelayDownEnds \/ NodeUp \/ NodeUpEnds \/ NodeDownEnds \/ NodeReaps
         \/ (\E n \in 1..Len(stdout) : NodeDown(n))
Next == Codex \/ Tasks \/ (\E blank \in BOOLEAN : ProcAnswers(blank)) \/ ProcExits

Spec == Init /\ [][Next]_vars

\* What keeps running: the tasks of relay and node, and the exit grace passes.
Going(k) == k = 1 /\ Tasks

-----------------------------------------------------------------------------
(* Properties *)

\* What codex received are the answers the exec-server wrote, whole, once and in order, wherever
\* the bytes were cut ("A partial last line waits for the next chunk").
LinesWhole == Len(codex.got) <= Len(written) /\ codex.got = SubSeq(written, 1, Len(codex.got))

\* When the executor goes away by itself, codex has every answer it wrote before its socket closes.
AnswersArrive == codex.s = "ended" => codex.got = written

\* No exec-server outlives its connection ("Closing the socket closes the child's stdin; the
\* stdio transport ends and codex exits and is killed after [`EXIT_GRACE`] if it does not"):
\* Due ~> Met, unless the child reads no more while the node writes to it (Stuck).
Due == codex.s = "closed"
Met == ~proc.alive
Stuck == node = "open" /\ ~Takes
=============================================================================
