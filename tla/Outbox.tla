------------------------------- MODULE Outbox -------------------------------
(* The desktop app's message outbox (app/src/model.rs, services.rs, bridge.rs, *)
(* ui/conversation.rs) for one open conversation: messages typed while the     *)
(* agent is busy wait, and one goes out at each turn boundary the client's     *)
(* copy of the session shows. The user's clicks and the UI bridge's task both  *)
(* drive it, from different threads; the bridge learns of a boundary from a    *)
(* bounded broadcast of changes and a revision watch.                          *)
EXTENDS Naturals, Sequences, FiniteSets

CONSTANTS None,
          Buffer,      \* changes the broadcast keeps (256)
          MaxType,     \* messages the user types
          MaxForeign,  \* messages others send to the session
          MaxOther,    \* changes of other sessions
          MaxFetch,    \* fetches of events that overtake their pushes
          MaxFail,     \* requests that fail before the server has the message
          MaxLost      \* requests whose answer is lost

VARIABLES srv,      \* the session at the server: busy, last_seq
          log,      \* the typed messages the server has recorded, in its order
          feed,     \* pushes under way to the client
          view,     \* the client's copy: busy, last_seq
          chan, missed, rev, lagged,  \* the bridge's change receiver, revision watch and flag
          drive,    \* what each driver has read of the view and not yet acted on
          queue, flight,              \* the outbox
          posts,    \* messages being sent: recorded by the server or not yet
          typed, cleared, used

session == <<srv, log, feed>>
bridge  == <<chan, missed, rev, lagged>>
vars    == <<session, view, bridge, drive, queue, flight, posts, typed, cleared, used>>

Driver == {"ui", "bridge"}
Status == [busy : BOOLEAN, seq : Nat]

TypeOK ==
  /\ srv \in Status /\ view \in Status /\ \A i \in 1..Len(feed) : feed[i] \in Status
  /\ log \in Seq(1..typed) /\ queue \in Seq(1..typed)
  /\ chan \in Seq({"this", "other"}) /\ Len(chan) <= Buffer /\ {missed, rev, lagged} \subseteq BOOLEAN
  /\ \A d \in Driver : drive[d] \in Status \cup {None}
  /\ flight \in Nat \cup {None}
  /\ posts \subseteq [m : 1..typed, recorded : BOOLEAN]
  /\ cleared \subseteq 1..typed

Init ==
  /\ srv = [busy |-> FALSE, seq |-> 0] /\ view = srv /\ log = <<>> /\ feed = <<>>
  /\ chan = <<>> /\ missed = FALSE /\ rev = FALSE /\ lagged = FALSE
  /\ drive = [d \in Driver |-> None]
  /\ queue = <<>> /\ flight = None /\ posts = {} /\ typed = 0 /\ cleared = {}
  /\ used = [foreign |-> 0, other |-> 0, fetch |-> 0, fail |-> 0, lost |-> 0]

Spend(b, max) == used[b] < max /\ used' = [used EXCEPT ![b] = @ + 1]

-----------------------------------------------------------------------------
(* The outbox: one lock, one message in flight                                 *)

\* Outbox::next: busy counts as the delivery of what is in flight, and so does a later last_seq.
NextOf(at) ==
  IF at.busy THEN flight' = None /\ UNCHANGED <<queue, posts>>
  ELSE IF flight # None /\ at.seq <= flight THEN UNCHANGED <<flight, queue, posts>>
  ELSE IF queue = <<>> THEN flight' = None /\ UNCHANGED <<queue, posts>>
  ELSE /\ flight' = at.seq /\ queue' = Tail(queue)
       /\ posts' = posts \cup {[m |-> Head(queue), recorded |-> FALSE]}

FailedFault(m) == flight' = None /\ queue' = queue

\* Outbox::failed: the message is first again.
Failed(m) == flight' = None /\ queue' = <<m>> \o queue

-----------------------------------------------------------------------------
(* The user *)

\* drive_outbox reads the view under the client's lock, and asks the outbox under its own.
Reads(d) == drive' = [drive EXCEPT ![d] = view]

Type ==
  /\ typed < MaxType /\ drive["ui"] = None
  /\ typed' = typed + 1 /\ queue' = Append(queue, typed + 1) /\ Reads("ui")
  /\ UNCHANGED <<session, view, bridge, flight, posts, cleared, used>>

Retry ==
  /\ drive["ui"] = None /\ queue # <<>> /\ Reads("ui")
  /\ UNCHANGED <<session, view, bridge, queue, flight, posts, typed, cleared, used>>

Clear ==
  /\ queue # <<>> /\ queue' = <<>>
  /\ cleared' = cleared \cup {queue[i] : i \in 1..Len(queue)}
  /\ UNCHANGED <<session, view, bridge, drive, flight, posts, typed, used>>

Drives(d) ==
  /\ drive[d] # None /\ NextOf(drive[d])
  /\ drive' = [drive EXCEPT ![d] = None]
  /\ UNCHANGED <<session, view, bridge, typed, cleared, used>>

-----------------------------------------------------------------------------
(* The request and the server *)

ServerIs(busy) == srv' = [busy |-> busy, seq |-> srv.seq + 1] /\ feed' = Append(feed, srv')

\* The server records the message and the session runs.
Recorded(p) ==
  /\ ~p.recorded /\ log' = Append(log, p.m) /\ ServerIs(TRUE)
  /\ posts' = (posts \ {p}) \cup {[p EXCEPT !.recorded = TRUE]}
  /\ UNCHANGED <<view, bridge, drive, queue, flight, typed, cleared, used>>

Answered(p) ==
  /\ p.recorded /\ posts' = posts \ {p}
  /\ UNCHANGED <<session, view, bridge, drive, queue, flight, typed, cleared, used>>

SendFails(p) ==
  /\ IF p.recorded THEN Spend("lost", MaxLost) ELSE Spend("fail", MaxFail)
  /\ posts' = posts \ {p} /\ Failed(p.m)
  /\ UNCHANGED <<session, view, bridge, drive, typed, cleared>>

\* Another client, an agent or a schedule.
Foreign ==
  /\ Spend("foreign", MaxForeign) /\ ServerIs(TRUE)
  /\ UNCHANGED <<log, view, bridge, drive, queue, flight, posts, typed, cleared>>

TurnEnds ==
  /\ srv.busy /\ ServerIs(FALSE)
  /\ UNCHANGED <<log, view, bridge, drive, queue, flight, posts, typed, cleared, used>>

-----------------------------------------------------------------------------
(* The client's changes and the bridge *)

\* As Notify, for a broadcast that holds one change more than it may.
NotifyFault(c) ==
  /\ rev' = TRUE
  /\ IF Len(chan) <= Buffer THEN chan' = Append(chan, c) /\ UNCHANGED missed
     ELSE chan' = Append(Tail(chan), c) /\ missed' = TRUE
  /\ UNCHANGED lagged

\* A full broadcast drops its oldest change, and the receiver is told that it lagged.
Notify(c) ==
  /\ rev' = TRUE
  /\ IF Len(chan) < Buffer THEN chan' = Append(chan, c) /\ UNCHANGED missed
     ELSE chan' = Append(Tail(chan), c) /\ missed' = TRUE
  /\ UNCHANGED lagged

\* on_event of a push: its status counts only if its event is newer than all the client has.
Apply ==
  /\ feed # <<>> /\ feed' = Tail(feed)
  /\ IF Head(feed).seq > view.seq THEN view' = Head(feed) /\ Notify("this") ELSE UNCHANGED <<view, bridge>>
  /\ UNCHANGED <<srv, log, drive, queue, flight, posts, typed, cleared, used>>

\* fetch_session: events that come without a status, and may overtake their pushes.
Fetch ==
  /\ Spend("fetch", MaxFetch)
  /\ \E n \in view.seq + 1..srv.seq : view' = [view EXCEPT !.seq = n]
  /\ Notify("this")
  /\ UNCHANGED <<session, drive, queue, flight, posts, typed, cleared>>

OtherChange ==
  /\ Spend("other", MaxOther) /\ Notify("other")
  /\ UNCHANGED <<session, view, drive, queue, flight, posts, typed, cleared>>

\* on_changes: turn boundaries show up as changes of the session.
OnChanges(c) == IF c = "this" THEN Reads("bridge") ELSE UNCHANGED drive

Receive ==
  /\ drive["bridge"] = None /\ ~missed /\ chan # <<>>
  /\ chan' = Tail(chan) /\ OnChanges(Head(chan))
  /\ UNCHANGED <<session, view, missed, rev, lagged, queue, flight, posts, typed, cleared, used>>

ReceiveLagged ==
  /\ drive["bridge"] = None /\ missed /\ missed' = FALSE /\ lagged' = TRUE
  /\ UNCHANGED <<session, view, chan, rev, drive, queue, flight, posts, typed, cleared, used>>

\* The revision counts only while the receiver is known to have lagged.
Revised ==
  /\ drive["bridge"] = None /\ rev /\ rev' = FALSE /\ lagged' = FALSE
  /\ IF lagged THEN Reads("bridge") ELSE UNCHANGED drive
  /\ UNCHANGED <<session, view, chan, missed, queue, flight, posts, typed, cleared, used>>

Next ==
  \/ Type \/ Retry \/ Clear \/ (\E d \in Driver : Drives(d))
  \/ (\E p \in posts : Recorded(p) \/ Answered(p) \/ SendFails(p))
  \/ Foreign \/ TurnEnds \/ Apply \/ Fetch \/ OtherChange
  \/ Receive \/ ReceiveLagged \/ Revised

Spec == Init /\ [][Next]_vars

\* What keeps running: both drivers, requests, turns and pushes, and the bridge's receiver; the
\* user need not do anything.
Going(k) ==
  \/ k = 1 /\ Drives("ui")
  \/ k = 2 /\ Drives("bridge")
  \/ k = 3 /\ \E p \in posts : Recorded(p)
  \/ k = 4 /\ (TurnEnds \/ Apply)
  \/ k = 5 /\ (Receive \/ ReceiveLagged)
  \/ k = 6 /\ Revised

-----------------------------------------------------------------------------
(* Properties *)

\* A typed message is recorded, waits, is being sent, or was cleared by the user: a failed send
\* never loses it, whoever drives the outbox meanwhile.
TypedIsKept ==
  \A m \in 1..typed :
    \/ m \in cleared \/ (\E p \in posts : p.m = m)
    \/ (\E i \in 1..Len(log) : log[i] = m) \/ (\E i \in 1..Len(queue) : queue[i] = m)

\* No message is recorded twice while answers are not lost: two drivers never send the same one.
RecordedOnce == \A i, j \in 1..Len(log) : log[i] = log[j] => i = j

\* A waiting message goes out without the user's help once the turns before it end (Due ~> Met),
\* unless the push that ended the last one was overtaken by a fetch: its status is ignored, and the
\* client's copy runs on (Stuck) until the session's next event.
Due == queue # <<>>
Met == queue = <<>>
Stuck == view = [srv EXCEPT !.busy = TRUE] /\ ~srv.busy
=============================================================================
