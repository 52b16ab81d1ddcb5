----------------------------- MODULE EditorConn -----------------------------
(***************************************************************************)
(* The persistent connection of the editor to a Code-OSS server            *)
(* (editor-conn: protocol.rs, connection.rs, the reconnection half of      *)
(* handshake.rs).  A connection outlives its sockets: regular messages are *)
(* numbered, kept until the peer acknowledges them and replayed on the     *)
(* next socket.                                                            *)
(*                                                                         *)
(* The protocol state changes under a lock, but the frames it returns are  *)
(* handed to the writer after the lock is released; `pend` holds the       *)
(* frames of each thread between the two, so two threads may write in      *)
(* another order than they numbered, and a frame of the old socket may be  *)
(* written to the new one.                                                 *)
(*                                                                         *)
(* The peer is the server's own PersistentProtocol (external); protocol.rs *)
(* states that it mirrors it, so both ends use the same operators, but the *)
(* server is single-threaded and writes at once.  A payload is its id.     *)
(***************************************************************************)
EXTENDS Integers, Sequences, SequencesExt

CONSTANTS
    Sender,        \* threads that send regular messages through a handle
    MaxSend,       \* messages the senders send
    MaxPeer,       \* messages the server sends
    MaxLoss,       \* sockets lost, timeouts and failed handshakes
    MaxPause       \* Pause/Resume pairs of the server

Thread == Sender \cup {"reader", "ticker", "reconnect"}
Gens == 1 .. MaxLoss + 1

VARIABLES
    us,            \* our PersistentProtocol
    peer,          \* the server's PersistentProtocol
    pend,          \* frames a thread holds between the lock and the writer
    tx,            \* tx[g]: frames written to socket g and not yet read
    rx,            \* rx[g]: frames the server wrote to socket g, not yet read
    cut,           \* sockets that are dead
    gen,           \* our current socket (generation)
    pgen,          \* the socket the server reads
    phase,         \* "up", "dialing", "handshake": the owner's reconnect loop
    ctl,           \* control_rx holds the server's answer to the handshake
    lost,          \* losses so far
    pauses         \* Pause frames the server has sent

vars == <<us, peer, pend, tx, rx, cut, gen, pgen, phase, ctl, lost, pauses>>

-----------------------------------------------------------------------------
(* protocol.rs, as functions of the protocol state.                        *)

Frame(ty, id, ack) == [ty |-> ty, id |-> id, ack |-> ack]

\* auth, sign and connectionType, and the server's answer: one frame each way.
Handshake == <<Frame("Control", 0, 0)>>

Frames == [ty : {"Regular", "Control", "Ack", "KeepAlive", "ReplayRequest",
                 "Pause", "Resume"},
           id : 0 .. MaxSend + MaxPeer, ack : 0 .. MaxSend + MaxPeer]

PersistentProtocol ==
    [outId |-> 0, outAck |-> 0, unacked |-> <<>>, inId |-> 0, inAck |-> 0,
     asked |-> FALSE,              \* a replay was requested less than 10 s ago
     recon |-> FALSE, paused |-> FALSE, held |-> <<>>]

Emit(p, fs) ==
    IF p.paused THEN [p |-> [p EXCEPT !.held = @ \o fs], out |-> <<>>]
    ELSE [p |-> p, out |-> fs]

ProtocolSend(p) ==
    LET f == Frame("Regular", p.outId + 1, p.inId)
        q == [p EXCEPT !.outId = @ + 1, !.inAck = p.inId,
                       !.unacked = Append(@, f)]
    IN IF p.recon THEN [p |-> q, out |-> <<>>] ELSE Emit(q, <<f>>)

\* The acknowledgement on any frame trims the queue.
Trimmed(p, ack) ==
    [p EXCEPT !.outAck = ack,
              !.unacked = SelectSeq(@, LAMBDA f : f.id > ack)]

Acked(p, f) == IF f.ack > p.outAck THEN Trimmed(p, f.ack) ELSE p

\* A regular frame: the next one is delivered, a gap asks for a replay at
\* most once per interval, a duplicate is dropped.
ReceiveRegular(p, f) ==
    CASE f.id = p.inId + 1 -> [p |-> [p EXCEPT !.inId = f.id], out |-> <<>>]
      [] f.id > p.inId + 1 /\ ~p.asked ->
            Emit([p EXCEPT !.asked = TRUE], <<Frame("ReplayRequest", 0, 0)>>)
      [] OTHER -> [p |-> p, out |-> <<>>]

ProtocolReceive(p0, f) ==
    LET p == Acked(p0, f) IN
    CASE f.ty = "Regular" -> ReceiveRegular(p, f)
      [] f.ty = "ReplayRequest" -> Emit(p, p.unacked)
      [] f.ty = "Pause" -> [p |-> [p EXCEPT !.paused = TRUE], out |-> <<>>]
      [] f.ty = "Resume" ->
            [p |-> [p EXCEPT !.paused = FALSE, !.held = <<>>], out |-> p.held]
      [] OTHER -> [p |-> p, out |-> <<>>]

\* tick: the delayed acknowledgement.
ProtocolTick(p) ==
    Emit([p EXCEPT !.inAck = p.inId], <<Frame("Ack", 0, p.inId)>>)

KeepAlive(p) ==
    Emit([p EXCEPT !.inAck = p.inId], <<Frame("KeepAlive", 0, p.inId)>>)

BeginReconnect(p) ==
    [p EXCEPT !.recon = TRUE, !.paused = FALSE, !.held = <<>>, !.asked = FALSE]

EndReconnect(p) ==
    Emit([p EXCEPT !.recon = FALSE, !.inAck = p.inId],
         <<Frame("Ack", 0, p.inId)>> \o p.unacked)

-----------------------------------------------------------------------------
Init ==
    /\ us = PersistentProtocol
    /\ peer = PersistentProtocol
    /\ pend = [t \in Thread |-> <<>>]
    /\ tx = [g \in Gens |-> <<>>]
    /\ rx = [g \in Gens |-> <<>>]
    /\ cut = {}
    /\ gen = 1
    /\ pgen = 1
    /\ phase = "up"
    /\ ctl = FALSE
    /\ lost = 0
    /\ pauses = 0

\* Frames put on a socket; a dead socket takes nothing.
Put(wire, g, fs) == IF g \in cut THEN wire ELSE [wire EXCEPT ![g] = @ \o fs]

\* ConnectionHandle::send up to the release of the lock.
Send(s) ==
    LET r == ProtocolSend(us) IN
    /\ pend[s] = <<>>
    /\ us.outId < MaxSend
    /\ us' = r.p
    /\ pend' = [pend EXCEPT ![s] = r.out]
    /\ UNCHANGED <<peer, tx, rx, cut, gen, pgen, phase, ctl, lost, pauses>>

\* ConnectionHandle::write: the frames go to whatever writer is current.
Write(t) ==
    /\ pend[t] # <<>>
    /\ tx' = Put(tx, gen, pend[t])
    /\ pend' = [pend EXCEPT ![t] = <<>>]
    /\ UNCHANGED <<us, peer, rx, cut, gen, pgen, phase, ctl, lost, pauses>>

\* The reader task: one frame through the state machine.
Read ==
    /\ rx[gen] # <<>>
    /\ pend["reader"] = <<>>
    /\ rx' = [rx EXCEPT ![gen] = Tail(@)]
    /\ LET f == Head(rx[gen])
           r == ProtocolReceive(us, f)
       IN /\ us' = r.p
          /\ pend' = [pend EXCEPT !["reader"] = r.out]
          /\ ctl' = (ctl \/ f.ty = "Control")
    /\ UNCHANGED <<peer, tx, cut, gen, pgen, phase, lost, pauses>>

\* The ticker: an acknowledgement that is due.  It runs while reconnecting
\* too; a keep-alive does not.  One that would repeat an acknowledgement is
\* left out.
Tick ==
    /\ us.inId > us.inAck
    /\ pend["ticker"] = <<>>
    /\ \E r \in {ProtocolTick(us)} \cup
                IF us.recon THEN {} ELSE {KeepAlive(us)} :
            /\ us' = r.p
            /\ pend' = [pend EXCEPT !["ticker"] = r.out]
    /\ UNCHANGED <<peer, tx, rx, cut, gen, pgen, phase, ctl, lost, pauses>>

\* Ten seconds pass after a replay request of either side.
ReplayIntervalOver ==
    /\ us.asked \/ peer.asked
    /\ us' = [us EXCEPT !.asked = FALSE]
    /\ peer' = [peer EXCEPT !.asked = FALSE]
    /\ UNCHANGED <<pend, tx, rx, cut, gen, pgen, phase, ctl, lost, pauses>>

-----------------------------------------------------------------------------
(* Losing the socket and the reconnect loop.                               *)

\* The socket dies: what it carried and nobody read is gone.
SocketDies ==
    /\ lost < MaxLoss
    /\ gen \notin cut
    /\ lost' = lost + 1
    /\ cut' = cut \cup {gen}
    /\ tx' = [tx EXCEPT ![gen] = <<>>]
    /\ rx' = [rx EXCEPT ![gen] = <<>>]
    /\ UNCHANGED <<us, peer, pend, gen, pgen, phase, ctl, pauses>>

\* Lost(SocketClosed), or a handshake that fails because its socket died.
SocketLost ==
    /\ phase # "dialing"
    /\ gen \in cut
    /\ phase' = "dialing"
    /\ UNCHANGED <<us, peer, pend, tx, rx, cut, gen, pgen, ctl, lost, pauses>>

\* Lost(Timeout) and Timeout("handshake"): the socket may still be alive.
TimedOut ==
    /\ lost < MaxLoss
    /\ phase # "dialing"
    /\ gen \notin cut
    /\ lost' = lost + 1
    /\ phase' = "dialing"
    /\ UNCHANGED <<us, peer, pend, tx, rx, cut, gen, pgen, ctl, pauses>>

\* reconnect: drain_control, replace_transport, the handshake's messages.
Redial ==
    /\ phase = "dialing"
    /\ gen < MaxLoss + 1
    /\ ctl' = FALSE
    /\ us' = BeginReconnect(us)
    /\ gen' = gen + 1
    /\ tx' = [tx EXCEPT ![gen + 1] = Handshake]
    /\ rx' = [rx EXCEPT ![gen] = <<>>]
    /\ phase' = "handshake"
    /\ UNCHANGED <<peer, pend, cut, pgen, lost, pauses>>

\* The handshake succeeded: finish_reconnect.
FinishReconnect ==
    LET r == EndReconnect(us) IN
    /\ phase = "handshake"
    /\ ctl
    /\ pend["reconnect"] = <<>>
    /\ us' = r.p
    /\ pend' = [pend EXCEPT !["reconnect"] = r.out]
    /\ phase' = "up"
    /\ ctl' = FALSE
    /\ UNCHANGED <<peer, tx, rx, cut, gen, pgen, lost, pauses>>

-----------------------------------------------------------------------------
(* The server (external).                                                  *)

PeerSend ==
    LET r == ProtocolSend(peer) IN
    /\ peer.outId < MaxPeer
    /\ peer' = r.p
    /\ rx' = Put(rx, pgen, r.out)
    /\ UNCHANGED <<us, pend, tx, cut, gen, pgen, phase, ctl, lost, pauses>>

PeerRead ==
    LET r == ProtocolReceive(peer, Head(tx[pgen])) IN
    /\ tx[pgen] # <<>>
    /\ peer' = r.p
    /\ tx' = [tx EXCEPT ![pgen] = Tail(@)]
    /\ rx' = Put(rx, pgen, r.out)
    /\ UNCHANGED <<us, pend, cut, gen, pgen, phase, ctl, lost, pauses>>

PeerTick ==
    LET r == ProtocolTick(peer) IN
    /\ peer.inId > peer.inAck
    /\ peer' = r.p
    /\ rx' = Put(rx, pgen, r.out)
    /\ UNCHANGED <<us, pend, tx, cut, gen, pgen, phase, ctl, lost, pauses>>

\* A new socket: its first frame is the handshake's, which is answered, the old
\* socket dropped and the queue replayed.
PeerAccept(g) ==
    LET r == EndReconnect(BeginReconnect(peer)) IN
    /\ g > pgen
    /\ tx[g] # <<>> /\ Head(tx[g]).ty = "Control"
    /\ peer' = r.p
    /\ pgen' = g
    /\ tx' = [tx EXCEPT ![g] = Tail(@), ![pgen] = <<>>]
    /\ rx' = [Put(rx, g, Handshake \o r.out) EXCEPT ![pgen] = <<>>]
    /\ UNCHANGED <<us, pend, cut, gen, phase, ctl, lost, pauses>>

\* Flow control: the server pauses our writer and lets it go on.
PeerPause ==
    /\ pauses < MaxPause
    /\ pauses' = pauses + 1
    /\ rx' = Put(rx, pgen, <<Frame("Pause", 0, 0)>>)
    /\ UNCHANGED <<us, peer, pend, tx, cut, gen, pgen, phase, ctl, lost>>

PeerResume ==
    /\ us.paused
    /\ rx[pgen] = <<>>
    /\ rx' = Put(rx, pgen, <<Frame("Resume", 0, 0)>>)
    /\ UNCHANGED <<us, peer, pend, tx, cut, gen, pgen, phase, ctl, lost, pauses>>

PeerStep == PeerRead \/ PeerResume \/ \E g \in Gens : PeerAccept(g)

Next ==
    \/ \E s \in Sender : Send(s)
    \/ \E t \in Thread : Write(t)
    \/ Read \/ Tick \/ ReplayIntervalOver
    \/ SocketDies \/ SocketLost \/ TimedOut \/ Redial \/ FinishReconnect
    \/ PeerSend \/ PeerTick \/ PeerPause \/ PeerStep

Spec == Init /\ [][Next]_vars

\* What keeps running: threads write, both ends read what arrives, and the
\* owner reconnects.
Going(k) ==
    \/ k = 1 /\ \E s \in Sender : Write(s)
    \/ k = 2 /\ Write("reader")
    \/ k = 3 /\ Write("ticker")
    \/ k = 4 /\ Read
    \/ k = 5 /\ (SocketLost \/ Redial \/ Write("reconnect") \/ FinishReconnect)
    \/ k = 6 /\ PeerStep
FairSpec == Spec /\ \A k \in 1 .. 6 : WF_vars(Going(k))

-----------------------------------------------------------------------------
TypeOK ==
    /\ {us, peer} \subseteq
        [outId : Nat, outAck : Nat, inId : Nat, inAck : Nat,
         unacked : Seq(Frames), held : Seq(Frames),
         asked : BOOLEAN, recon : BOOLEAN, paused : BOOLEAN]
    /\ pend \in [Thread -> Seq(Frames)]
    /\ tx \in [Gens -> Seq(Frames)]
    /\ rx \in [Gens -> Seq(Frames)]
    /\ cut \subseteq Gens
    /\ gen \in Gens /\ pgen \in Gens
    /\ phase \in {"up", "dialing", "handshake"}
    /\ ctl \in BOOLEAN
    /\ lost \in 0 .. MaxLoss
    /\ pauses \in 0 .. MaxPause

\* A message the other end has not delivered is still in the sender's
\* unacknowledged queue, whatever sockets died in between: an
\* acknowledgement never covers a message that was not received
\* (PersistentProtocol::receive trims the queue by `ack`).
UndeliveredIsKept ==
    LET Keeps(a, b) ==
            \A i \in (b.inId + 1) .. a.outId :
                \E k \in 1 .. Len(a.unacked) : a.unacked[k].id = i
    IN Keeps(us, peer) /\ Keeps(peer, us)

\* Every message sent through a handle is delivered to the server, over as
\* many sockets as it takes (finish_reconnect, ReplayRequest).
Due(n) == us.outId >= n
Met(n) == peer.inId >= n
SentArrives == \A n \in 1 .. MaxSend : Due(n) ~> Met(n)
=============================================================================
