------------------------------- MODULE Egress -------------------------------
(* One proxied connection of the browser's egress (node/src/egress.rs): the    *)
(* client's TCP stream is carried by the server's `bridge` over a WebSocket to *)
(* the node's `pump_axum`, through an in-memory pipe to the SOCKS5 server task *)
(* and on to the destination. An empty frame stands for the end of one         *)
(* direction. Bytes are numbered; 0 is the end of a stream.                    *)
EXTENDS Naturals, Sequences

CONSTANTS MaxUp, MaxDown,  \* bytes the client and the destination send
          Pipe,            \* bytes the in-memory pipe holds
          Wire,            \* frames the WebSocket, or bytes a TCP connection, holds each way
          MaxFail          \* WebSocket failures

VARIABLES sent,    \* bytes each end has sent, and whether it has ended its stream
          got,     \* what each end has received
          chan,    \* bytes in flight: TCP to the bridge, frames, pipe, TCP at the destination
          bridge, pump, socks,   \* the three tasks
          failures

vars == <<sent, got, chan, bridge, pump, socks, failures>>

Up == {"cb", "wsUp", "pipeUp", "dst"}      \* client to destination, hop by hop
Down == {"pipeDown", "wsDown", "cli"}
End == 0
Refusal == MaxUp + MaxDown + 1
Item == 0..(MaxUp + MaxDown + 1)
\* A pump; hold: what an arm of its select has read and waits to write, and where to.
Task == [in_eof : BOOLEAN, out_eof : BOOLEAN, on : BOOLEAN, hold : {<<>>} \cup (Up \cup Down) \X Item]

TypeOK ==
  /\ sent.up \in 0..MaxUp /\ sent.down \in 0..MaxDown /\ sent.upEnd \in BOOLEAN /\ sent.downEnd \in BOOLEAN
  /\ \A c \in Up \cup Down \cup {"src"} : chan[c] \in Seq(Item)
  /\ bridge \in Task /\ pump \in Task /\ socks \in [s : {"handshake", "copy", "off"}, up : BOOLEAN, down : BOOLEAN]
  /\ failures \in 0..MaxFail

Init ==
  /\ sent = [up |-> 0, down |-> 0, upEnd |-> FALSE, downEnd |-> FALSE]
  /\ got = [up |-> <<>>, down |-> <<>>]
  /\ chan = [c \in Up \cup Down \cup {"src"} |-> <<>>]
  /\ bridge = [in_eof |-> FALSE, out_eof |-> FALSE, on |-> TRUE, hold |-> <<>>]
  /\ pump = [in_eof |-> FALSE, out_eof |-> FALSE, on |-> TRUE, hold |-> <<>>]
  /\ socks = [s |-> "handshake", up |-> FALSE, down |-> FALSE]
  /\ failures = 0

Move(from, to) == chan' = [chan EXCEPT ![from] = Tail(@), ![to] = Append(@, Head(chan[from]))]
Take(from) == chan' = [chan EXCEPT ![from] = Tail(@)]

\* Whether a write waits. The end of a TCP stream or of the pipe needs no room, that of a frame does.
Room(c, item) ==
  \/ Len(chan[c]) < IF c \in {"pipeUp", "pipeDown"} THEN Pipe ELSE Wire
  \/ item = End /\ c \notin {"wsUp", "wsDown"}

-----------------------------------------------------------------------------
(* Where the SOCKS5 task connects to: addresses are numbers of 2 bits (IPv4)   *)
(* and of 4 (IPv6, of which the second quarter are mapped IPv4 addresses), a   *)
(* range is an address and the length of its prefix.                           *)

Bits(v) == IF v = 4 THEN 2 ELSE 4
Address == UNION {[v : {v}, n : 0..(2 ^ Bits(v) - 1)] : v \in {4, 6}}
Mapped(a) == a.v = 6 /\ a.n \div 4 = 1

canonical(a) == IF Mapped(a) THEN [v |-> 4, n |-> a.n % 4] ELSE a

\* Cidr::parse: a bare address is a range of its own.
Cidr == UNION {[addr : {a}, prefix : 0..Bits(a.v)] : a \in Address}

\* The bits a mask keeps.
Masked(n, v, prefix) == n - (n % (2 ^ (Bits(v) - prefix)))
contains(c, a) ==
  LET ip == canonical(a) IN
  c.addr.v = ip.v /\ Masked(c.addr.n, ip.v, c.prefix) = Masked(ip.n, ip.v, c.prefix)

allows(policy, a) == policy.enabled /\ ~\E c \in policy.deny : contains(c, a)

\* connect: the first allowed address that answers, or the reply of the refusal; the last address
\* that was tried gives it if none does. `answering' are the addresses that answer.
connect(addrs, policy, answering) ==
  LET allowed == SelectSeq(addrs, LAMBDA a : allows(policy, a))
      answers == {i \in 1..Len(allowed) : allowed[i] \in answering}
      Refuse(code) == [code |-> code, at |-> <<>>]
  IN IF ~policy.enabled THEN Refuse("NOT_ALLOWED")
     ELSE IF addrs = <<>> THEN Refuse("HOST_UNREACHABLE")
     ELSE IF allowed = <<>> THEN Refuse("NOT_ALLOWED")
     ELSE IF answers = {} THEN Refuse("of the last")
     ELSE [code |-> "SUCCEEDED", at |-> <<allowed[CHOOSE i \in answers : \A j \in answers : i <= j]>>]

-----------------------------------------------------------------------------
(* The two ends: the client's TCP stream feeds "cb", the destination's "src". *)

ClientSends ==
  /\ ~sent.upEnd /\ sent.up < MaxUp
  /\ sent' = [sent EXCEPT !.up = @ + 1] /\ chan' = [chan EXCEPT !["cb"] = Append(@, sent.up + 1)]
  /\ UNCHANGED <<got, bridge, pump, socks, failures>>

ClientEnds ==
  /\ ~sent.upEnd
  /\ sent' = [sent EXCEPT !.upEnd = TRUE] /\ chan' = [chan EXCEPT !["cb"] = Append(@, End)]
  /\ UNCHANGED <<got, bridge, pump, socks, failures>>

DestinationSends ==
  /\ socks.s = "copy" /\ ~sent.downEnd /\ sent.down < MaxDown
  /\ sent' = [sent EXCEPT !.down = @ + 1] /\ chan' = [chan EXCEPT !["src"] = Append(@, sent.down + 1)]
  /\ UNCHANGED <<got, bridge, pump, socks, failures>>

DestinationEnds ==
  /\ socks.s = "copy" /\ ~sent.downEnd
  /\ sent' = [sent EXCEPT !.downEnd = TRUE] /\ chan' = [chan EXCEPT !["src"] = Append(@, End)]
  /\ UNCHANGED <<got, bridge, pump, socks, failures>>

Arrive(c, dir) ==
  /\ chan[c] # <<>>
  /\ got' = [got EXCEPT ![dir] = Append(@, Head(chan[c]))] /\ Take(c)
  /\ UNCHANGED <<sent, bridge, pump, socks, failures>>

-----------------------------------------------------------------------------
(* A pump: frames in, bytes out, and the other way, until both directions have *)
(* ended; the last thing it sends is a Close frame. One select reads both ways,*)
(* and the arm that has read writes, so that while the write waits nothing is  *)
(* read in either direction.                                                   *)

Ended(task) == task.in_eof /\ task.out_eof
Selects(task) == task.on /\ task.hold = <<>>

\* What an arm reads it holds for the side `to'; after the end of a direction frames are dropped.
Reads(task, from) ==
  /\ Selects(task) /\ ~Ended(task) /\ chan[from] # <<>> /\ Take(from)
HoldIn(task, from, to) ==
  [task EXCEPT !.in_eof = @ \/ Head(chan[from]) = End, !.hold = IF task.in_eof THEN @ ELSE <<to, Head(chan[from])>>]
HoldOut(task, from, to) ==
  [task EXCEPT !.out_eof = (Head(chan[from]) = End), !.hold = <<to, Head(chan[from])>>]

\* The write of the arm is done.
Writes(task) ==
  /\ task.on /\ task.hold # <<>> /\ Room(task.hold[1], task.hold[2])
  /\ chan' = [chan EXCEPT ![task.hold[1]] = Append(@, task.hold[2])]
Empty(task) == [task EXCEPT !.hold = <<>>]

BridgeOut ==
  /\ ~bridge.out_eof /\ Reads(bridge, "cb") /\ bridge' = HoldOut(bridge, "cb", "wsUp")
  /\ UNCHANGED <<sent, got, pump, socks, failures>>

BridgeIn ==
  /\ Reads(bridge, "wsDown") /\ bridge' = HoldIn(bridge, "wsDown", "cli")
  /\ UNCHANGED <<sent, got, pump, socks, failures>>

BridgeWrites ==
  /\ Writes(bridge) /\ bridge' = Empty(bridge)
  /\ UNCHANGED <<sent, got, pump, socks, failures>>

\* A frame for a WebSocket the other side has left fails.
SendFails(task, other, c) == task.on /\ task.hold # <<>> /\ task.hold[1] = c /\ ~other.on

\* It closes the WebSocket, or finds it closed by the other side when all frames are read.
BridgeStops ==
  /\ \/ Selects(bridge) /\ (Ended(bridge) \/ (~pump.on /\ chan["wsDown"] = <<>>))
     \/ SendFails(bridge, pump, "wsUp")
  /\ bridge' = [bridge EXCEPT !.on = FALSE, !.hold = <<>>]
  /\ chan' = [chan EXCEPT !["cb"] = <<>>, !["cli"] = IF bridge.in_eof THEN @ ELSE Append(@, End)]
  /\ UNCHANGED <<sent, got, pump, socks, failures>>

PumpIn ==
  /\ Reads(pump, "wsUp") /\ pump' = HoldIn(pump, "wsUp", "pipeUp")
  /\ UNCHANGED <<sent, got, bridge, socks, failures>>

PumpOut ==
  /\ ~pump.out_eof /\ Reads(pump, "pipeDown") /\ pump' = HoldOut(pump, "pipeDown", "wsDown")
  /\ UNCHANGED <<sent, got, bridge, socks, failures>>

\* A write into the pipe of a task that has gone fails.
SocketGone == socks.s = "off" /\ pump.on /\ pump.hold # <<>> /\ pump.hold[1] = "pipeUp" /\ pump.hold[2] # End

PumpWrites ==
  /\ ~SocketGone /\ Writes(pump) /\ pump' = Empty(pump)
  /\ UNCHANGED <<sent, got, bridge, socks, failures>>

\* When the pump stops, `ws` aborts the SOCKS5 task and drops the pipe: what the pipe still
\* holds is gone, and the destination sees its connection end.
PumpStops ==
  /\ \/ Selects(pump) /\ (Ended(pump) \/ (~bridge.on /\ chan["wsUp"] = <<>>))
     \/ SendFails(pump, bridge, "wsDown")
  /\ pump' = [pump EXCEPT !.on = FALSE, !.hold = <<>>] /\ socks' = [socks EXCEPT !.s = "off"]
  /\ chan' = [chan EXCEPT !["pipeUp"] = <<>>, !["pipeDown"] = <<>>, !["src"] = <<>>,
                          !["dst"] = IF socks.up \/ socks.s # "copy" THEN @ ELSE Append(@, End)]
  /\ UNCHANGED <<sent, got, bridge, failures>>

\* The WebSocket breaks: both sides stop, with what was in flight lost.
Break ==
  /\ failures < MaxFail /\ (bridge.on \/ pump.on)
  /\ failures' = failures + 1
  /\ bridge' = [bridge EXCEPT !.on = FALSE, !.hold = <<>>]
  /\ pump' = [pump EXCEPT !.on = FALSE, !.hold = <<>>]
  /\ socks' = [socks EXCEPT !.s = "off"]
  /\ chan' = [c \in DOMAIN chan |->
                IF c = "cli" /\ bridge.on /\ ~bridge.in_eof THEN Append(chan[c], End)
                ELSE IF c = "dst" /\ socks.s = "copy" /\ ~socks.up THEN Append(chan[c], End)
                ELSE IF c \in {"cli", "dst"} THEN chan[c] ELSE <<>>]
  /\ UNCHANGED <<sent, got>>

-----------------------------------------------------------------------------
(* The SOCKS5 task: the handshake ends in a refusal, which drops the pipe, or  *)
(* in a connection whose two directions are copied.                            *)

Connected ==
  /\ socks.s = "handshake"
  /\ socks' = [socks EXCEPT !.s = "copy"]
  /\ UNCHANGED <<sent, got, chan, bridge, pump, failures>>

\* The client's greeting, login or request is refused, or takes too long.
HandshakeFails ==
  /\ socks.s = "handshake"
  /\ socks' = [s |-> "off", up |-> TRUE, down |-> TRUE]
  /\ chan' = [chan EXCEPT !["pipeDown"] = Append(@, End), !["pipeUp"] = <<>>]
  /\ UNCHANGED <<sent, got, bridge, pump, failures>>

\* No address of the destination is allowed, or none answers; the client gets a reply first.
Refused ==
  /\ socks.s = "handshake"
  /\ socks' = [s |-> "off", up |-> TRUE, down |-> TRUE]
  /\ chan' = [chan EXCEPT !["pipeDown"] = @ \o <<Refusal, End>>, !["pipeUp"] = <<>>]
  /\ UNCHANGED <<sent, got, bridge, pump, failures>>

CopyUp ==
  /\ socks.s = "copy" /\ ~socks.up /\ chan["pipeUp"] # <<>> /\ Room("dst", Head(chan["pipeUp"]))
  /\ Move("pipeUp", "dst")
  /\ socks' = [socks EXCEPT !.up = (Head(chan["pipeUp"]) = End)]
  /\ UNCHANGED <<sent, got, bridge, pump, failures>>

CopyDown ==
  /\ socks.s = "copy" /\ ~socks.down /\ chan["src"] # <<>> /\ Room("pipeDown", Head(chan["src"]))
  /\ Move("src", "pipeDown")
  /\ socks' = [socks EXCEPT !.down = (Head(chan["src"]) = End)]
  /\ UNCHANGED <<sent, got, bridge, pump, failures>>

\* The pump stops on such a write.
PumpBroken ==
  /\ SocketGone
  /\ pump' = [pump EXCEPT !.on = FALSE, !.hold = <<>>]
  /\ chan' = [chan EXCEPT !["wsUp"] = <<>>, !["pipeUp"] = <<>>, !["pipeDown"] = <<>>]
  /\ UNCHANGED <<sent, got, bridge, socks, failures>>

Tasks == \/ BridgeOut \/ BridgeIn \/ BridgeWrites \/ BridgeStops \/ PumpIn \/ PumpOut \/ PumpWrites \/ PumpStops
         \/ PumpBroken
         \/ HandshakeFails \/ Refused \/ Connected \/ CopyUp \/ CopyDown

Next == \/ ClientSends \/ ClientEnds \/ DestinationSends \/ DestinationEnds
        \/ Arrive("cli", "down") \/ Arrive("dst", "up") \/ Tasks \/ Break

Spec == Init /\ [][Next]_vars

\* What keeps running: the tasks, as far as they can, and both ends read what reaches them.
Going(k) ==
  \/ k = 1 /\ (BridgeOut \/ BridgeIn \/ BridgeWrites \/ BridgeStops)
  \/ k = 2 /\ (PumpIn \/ PumpOut \/ PumpWrites \/ PumpStops \/ PumpBroken)
  \/ k = 3 /\ (Connected \/ CopyUp \/ CopyDown)
  \/ k = 4 /\ (Arrive("cli", "down") \/ Arrive("dst", "up"))

-----------------------------------------------------------------------------
(* Properties *)

Whole(s, n) == s = [i \in 1..(n + 1) |-> IF i <= n THEN i ELSE End]

\* A stream that breaks nowhere brings the client everything the destination sent before its
\* end: a half-close by either side cuts nothing off (bridge, pump_axum).
DownloadWhole ==
  failures = 0 /\ sent.downEnd /\ got.down # <<>> /\ got.down[Len(got.down)] = End => Whole(got.down, sent.down)

\* "A domain is resolved first and every resolved address is checked; denied addresses are skipped,
\* and if none is left the request is refused": a destination is reached at its first address that
\* answers and is in no denied range, whichever of its two spellings is resolved, and is refused as
\* denied only if all are. Compared bit by bit. Ranges among the mapped addresses are left out:
\* contains compares a mapped address as IPv4, so that they deny nothing.
DestinationsAsSaid ==
  LET Bit(a, k) == (a.n \div (2 ^ (Bits(a.v) - k))) % 2
      Same(a, b, n) == a.v = b.v /\ \A k \in 1..n : Bit(a, k) = Bit(b, k)
      Plain(a) == IF a.v = 6 /\ Bit(a, 1) = 0 /\ Bit(a, 2) = 1 THEN [v |-> 4, n |-> 2 * Bit(a, 3) + Bit(a, 4)] ELSE a
      Denied(a, deny) == \E c \in deny : Same(c.addr, Plain(a), c.prefix)
      Meets(c) == \E m \in Address : Mapped(m) /\ Same(c.addr, m, c.prefix)
      AsWritten == {c \in Cidr : ~Meets(c)}
      Other == {[addr |-> [v |-> 4, n |-> 2], prefix |-> 1], [addr |-> [v |-> 6, n |-> 2], prefix |-> 3]}
  IN \A c \in AsWritten, d \in Other, a, b \in Address :
       LET policy == [enabled |-> TRUE, deny |-> {c, d}]
           both == connect(<<a, b>>, policy, {a, b})
           second == connect(<<a, b>>, policy, {b})
       IN /\ both.code = "NOT_ALLOWED" <=> Denied(a, policy.deny) /\ Denied(b, policy.deny)
          /\ both.at = (IF ~Denied(a, policy.deny) THEN <<a>> ELSE IF ~Denied(b, policy.deny) THEN <<b>> ELSE <<>>)
          /\ second.at = (IF ~Denied(b, policy.deny) THEN <<b>> ELSE <<>>)
          /\ second.code = "of the last" <=> Denied(b, policy.deny) /\ ~Denied(a, policy.deny)

\* When both ends have ended their streams, every task of the connection stops: Due ~> Met, unless
\* each side waits to send a frame that the other, for that reason, does not read (Stuck).
Due == sent.upEnd /\ (sent.downEnd \/ socks.s = "off")
Met == ~bridge.on /\ ~pump.on /\ socks.s = "off"
Waits(task, c) == task.on /\ task.hold # <<>> /\ task.hold[1] = c /\ ~Room(c, task.hold[2])
Stuck == Waits(bridge, "wsUp") /\ Waits(pump, "wsDown")
=============================================================================
