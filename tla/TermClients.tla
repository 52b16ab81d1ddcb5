---------------------------- MODULE TermClients ----------------------------
(***************************************************************************)
(* The clients of one terminal session of ember node (term/session.rs,     *)
(* api.rs term_attach_session): several devices watch one program, each    *)
(* through a bounded queue; one of them may control it, one owns its size. *)
(* Every operation runs under the session's lock; a client that falls      *)
(* behind is dropped in the middle of whatever operation finds its queue   *)
(* full.  Output is counted; a snapshot is the count at which it is taken. *)
(***************************************************************************)
EXTENDS Naturals, Sequences, SequencesExt

CONSTANTS
    Client, ReadOnly,   \* devices; those that attach read-only
    Size,               \* terminal sizes; the first is Default
    Default,
    Queue,              \* CLIENT_QUEUE; `attached`, `snapshot` and `control` of an attach count as one entry
    None, Gone,         \* no client; the id of a client of an earlier attach
    MaxAttach, MaxOut, MaxOp   \* bounds: attaches, chunks of output, client operations

VARIABLES
    g,       \* Session::inner
    view,    \* what each client has been told: screen, size, controller
    count

vars == <<g, view, count>>

NoView == [screen |-> 0, size |-> None, controller |-> None, over |-> TRUE]

\* What a client is sent; its `attached` and `snapshot` are one "hello".
TermEvent == {"hello", "output", "resized", "control", "refused", "clients", "exit"}

TypeOK ==
    /\ ToSet(g.clients) \subseteq Client /\ g.ready \subseteq Client /\ g.state \in {"running", "exited"}
    /\ {g.controller, g.active} \subseteq Client \cup {None, Gone} /\ g.size \in Size
    /\ g.csize \in [Client -> Size \cup {None}]
    /\ \A c \in Client : Len(g.queue[c]) <= Queue /\ \A i \in DOMAIN g.queue[c] : g.queue[c][i].kind \in TermEvent

Init ==
    /\ g = [state |-> "running", clients |-> <<>>, ready |-> {}, controller |-> None, active |-> None,
            csize |-> [c \in Client |-> None], size |-> Default, screen |-> 0, queue |-> [c \in Client |-> <<>>]]
    /\ view = [c \in Client |-> NoView]
    /\ count = [attach |-> 0, op |-> 0]

-----------------------------------------------------------------------------
(* Inner *)

Attached(s) == ToSet(s.clients)

Has(s, id) == id \in Attached(s)

Sized(s) == SelectSeq(s.clients, LAMBDA c : s.csize[c] # None)

\* owner_id: the controller, else the most recently active client, else the last attached with a size.
Owner(s) ==
    IF Has(s, s.controller) THEN s.controller
    ELSE IF Has(s, s.active) THEN s.active
    ELSE IF Sized(s) # <<>> THEN Last(Sized(s)) ELSE None

ControllerClient(s) == IF Has(s, s.controller) THEN s.controller ELSE None

\* As Full, one event too late.
FullFault(s, c) == Len(s.queue[c]) > Queue

Full(s, c) == Len(s.queue[c]) = Queue

\* As SendAll, for a slow client that keeps its place and misses the event.
SendAllFault(s, ev) ==
    [s EXCEPT !.queue = [c \in Client |-> IF c \in s.ready /\ ~Full(s, c) THEN Append(s.queue[c], ev) ELSE s.queue[c]]]

\* send_all: a ready client whose queue is full is dropped.
SendAll(s, ev) ==
    LET gone == {c \in s.ready : Full(s, c)}
    IN [s EXCEPT !.queue = [c \in Client |-> IF c \in s.ready \ gone THEN Append(s.queue[c], ev) ELSE s.queue[c]],
                 !.clients = SelectSeq(s.clients, LAMBDA c : c \notin gone), !.ready = @ \ gone]

RECURSIVE MembershipChanged(_)

Broadcast(s, ev) ==
    LET sent == SendAll(s, ev) IN IF Len(sent.clients) # Len(s.clients) THEN MembershipChanged(sent) ELSE sent

ApplySize(s) ==
    LET owner == Owner(s)
    IN IF s.state # "running" \/ owner = None \/ (owner # None /\ s.csize[owner] \in {None, s.size}) THEN s
       ELSE Broadcast([s EXCEPT !.size = s.csize[owner]], [kind |-> "resized", size |-> s.csize[owner]])

ControlLost(s) == s.controller # None /\ ~Has(s, s.controller)

\* membership_changed, its first half: control and activity of clients that left.
MembershipFixed(s) ==
    LET told == IF ControlLost(s) THEN SendAll([s EXCEPT !.controller = None], [kind |-> "control", controller |-> None]) ELSE s
    IN [told EXCEPT !.active = IF Has(told, @) THEN @ ELSE None]

MembershipChanged(s) == ApplySize(SendAll(MembershipFixed(s), [kind |-> "clients"]))

-----------------------------------------------------------------------------
(* Operations of the clients *)

Op == count.op < MaxOp /\ count' = [count EXCEPT !.op = @ + 1]

Hello(s) == [kind |-> "hello", size |-> s.size, screen |-> s.screen, controller |-> ControllerClient(s)]

\* Client ids are never reused: a device that attaches again is another client.
Renewed(c) == [g EXCEPT !.controller = IF @ = c THEN Gone ELSE @, !.active = IF @ = c THEN Gone ELSE @]

\* attach to a running session: the size first, then the snapshot, then the live stream.
Attach(c, active) ==
    /\ g.state = "running" /\ view[c].over /\ c \notin Attached(g) /\ count.attach < MaxAttach
    /\ count' = [count EXCEPT !.attach = @ + 1]
    /\ view' = [view EXCEPT ![c] = [NoView EXCEPT !.over = FALSE]]
    /\ \E sz \in Size \cup {None} :
          LET joined == ApplySize([Renewed(c) EXCEPT !.clients = Append(@, c), !.csize[c] = sz, !.queue[c] = <<>>,
                                            !.active = IF active /\ c \notin ReadOnly THEN c ELSE @])
          IN g' = Broadcast([joined EXCEPT !.queue[c] = <<Hello(joined)>>, !.ready = @ \cup {c}], [kind |-> "clients"])

\* attach to a finished one: `attached`, `snapshot`, `exit`.
AttachFinished(c) ==
    /\ g.state = "exited" /\ view[c].over /\ count.attach < MaxAttach /\ count' = [count EXCEPT !.attach = @ + 1]
    /\ view' = [view EXCEPT ![c] = [NoView EXCEPT !.over = FALSE]]
    /\ g' = [g EXCEPT !.queue[c] = <<Hello(g), [kind |-> "exit"]>>]

Refused(c) == c \in ReadOnly \/ (g.controller # None /\ g.controller # c)

\* input: a refusal goes to its own stream, if there is room for it.  A terminal's answer to a query, from a client
\* that does not own the size, changes nothing.
Input(c) ==
    /\ ~view[c].over /\ c \in Attached(g) /\ Op /\ UNCHANGED view
    /\ g' = IF Refused(c)
            THEN IF Full(g, c) THEN g ELSE [g EXCEPT !.queue[c] = Append(@, [kind |-> "refused"])]
            ELSE ApplySize([g EXCEPT !.active = c])

Resize(c, sz) ==
    /\ ~view[c].over /\ c \in Attached(g) /\ sz # g.csize[c] /\ Op /\ UNCHANGED view
    /\ g' = ApplySize([g EXCEPT !.csize[c] = sz])

TakeControl(c) ==
    /\ ~view[c].over /\ c \in Attached(g) \ ReadOnly /\ Op /\ UNCHANGED view
    /\ g' = ApplySize(Broadcast([g EXCEPT !.controller = c, !.active = c], [kind |-> "control", controller |-> c]))

ReleaseControl(c) ==
    /\ ~view[c].over /\ c \in Attached(g) /\ g.controller = c /\ Op /\ UNCHANGED view
    /\ g' = ApplySize(Broadcast([g EXCEPT !.controller = None], [kind |-> "control", controller |-> None]))

\* detach: by the client, by a lost socket, or after the end of the client's stream, when it is already gone.
Detach(c) ==
    /\ ~view[c].over /\ view' = [view EXCEPT ![c].over = TRUE]
    /\ LET left == [g EXCEPT !.clients = SelectSeq(@, LAMBDA d : d # c), !.ready = @ \ {c}, !.queue[c] = <<>>]
       IN g' = IF c \in Attached(g) THEN MembershipChanged(left) ELSE left
    /\ UNCHANGED count

-----------------------------------------------------------------------------
(* The program and the clients' streams *)

Output ==
    /\ g.state = "running" /\ g.screen < MaxOut
    /\ g' = Broadcast([g EXCEPT !.screen = @ + 1], [kind |-> "output"])
    /\ UNCHANGED <<view, count>>

\* on_exit: the last event of every client that has room for it.
Exit ==
    /\ g.state = "running"
    /\ g' = [SendAll([g EXCEPT !.state = "exited"], [kind |-> "exit"])
                EXCEPT !.clients = <<>>, !.ready = {}, !.controller = None, !.active = None]
    /\ UNCHANGED <<view, count>>

\* How a client's picture of the session follows its stream.
Told(v, ev) ==
    CASE ev.kind = "hello" -> [v EXCEPT !.screen = ev.screen, !.size = ev.size, !.controller = ev.controller]
      [] ev.kind = "output" -> [v EXCEPT !.screen = @ + 1]
      [] ev.kind = "resized" -> [v EXCEPT !.size = ev.size]
      [] ev.kind = "control" -> [v EXCEPT !.controller = ev.controller]
      [] OTHER -> v

Read(c) ==
    /\ ~view[c].over /\ g.queue[c] # <<>>
    /\ view' = [view EXCEPT ![c] = [Told(@, Head(g.queue[c])) EXCEPT !.over = Head(g.queue[c]).kind = "exit"]]
    /\ g' = [g EXCEPT !.queue[c] = Tail(@)]
    /\ UNCHANGED count

Next ==
    \/ \E c \in Client : Detach(c) \/ Read(c) \/ Input(c) \/ TakeControl(c) \/ ReleaseControl(c) \/ AttachFinished(c)
    \/ \E c \in Client : (\E a \in BOOLEAN : Attach(c, a)) \/ (\E sz \in Size : Resize(c, sz))
    \/ Output \/ Exit

Spec == Init /\ [][Next]_vars

-----------------------------------------------------------------------------
CaughtUp(c) == FoldLeft(Told, view[c], g.queue[c])

\* An attached client that reads its stream sees the terminal's whole screen: snapshot and live output join without a
\* gap or an overlap, whoever is dropped in between.
ScreenWhole == \A c \in Attached(g) : CaughtUp(c).screen = g.screen

\* An attached client that reads its stream knows the size and who controls, whatever ended another client.
StateKnown == \A c \in Attached(g) :
    /\ CaughtUp(c).size = g.size
    /\ (g.controller = None \/ Has(g, g.controller)) => CaughtUp(c).controller = g.controller

\* The terminal has the size of the client that owns it.
SizeOfOwner == LET o == Owner(g) IN o # None => g.csize[o] \in {None, g.size}

=============================================================================
