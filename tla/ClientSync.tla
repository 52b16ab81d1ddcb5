----------------------------- MODULE ClientSync -----------------------------
(* The client library's sync engine (ember/client: client.rs, state.rs,        *)
(* transcript.rs, push.rs, cache.rs) for one session and one project of one    *)
(* main server. The push loop holds a WebSocket, subscribed before its upgrade *)
(* is answered; the resync worker asks for lists and events over HTTP,   *)
(* whose answers pushes can overtake; both feed one reducer. Teams are loaded  *)
(* and pushed as whole values, like projects, and are left out.                *)
EXTENDS Naturals, Sequences, FiniteSets

CONSTANTS None,
          Buffer,      \* the server's broadcast buffer per push socket
          MaxSeq,      \* events the session records
          MaxMeta,     \* renames, pins and archives of the session
          MaxProj,     \* changes of the project's computers
          MaxView,     \* times the conversation is opened
          MaxDrop,     \* connection attempts and sockets that fail
          MaxFail,     \* requests of the resync worker that fail
          MaxPause,    \* pauses of the push connection
          MaxRestart   \* restarts of the app

VARIABLES srv,      \* the server: session made, events recorded, title, project
          mode, news, loop, permit,    \* the push loop, its mode, a change it has not seen, reconnect
          sock,     \* the push socket: subscribed, messages under way, settle task
          want, work,                  \* the resync worker: requests, request under way
          rec, seen, based, proj,      \* the client's state
          open, tr, held,              \* the conversation view and its transcript
          dirty, saving, cache,        \* the cache writer and the snapshot on disk
          used,                        \* budgets spent
          viewed                       \* the highest sequence the user was shown, or was there at baseline

client == <<rec, seen, based, proj, open, tr, held, viewed>>
push   == <<mode, news, loop, permit, sock>>
disk   == <<dirty, saving, cache>>
vars   == <<srv, push, want, work, client, disk, used>>

\* A session's status after its n-th event: a message, then the end of its turn.
StatusAt(n) == IF n = 0 THEN "idle" ELSE IF n % 2 = 1 THEN "running" ELSE "finished"

Record == [seq : 0..MaxSeq, status : {"idle", "running", "finished"}, title : 0..MaxMeta]

Opt(S) == S \cup {None}

Closed == [sub |-> FALSE, chan |-> <<>>, settle |-> FALSE]
NoWork == [pc |-> "idle", ans |-> None]
NoCache == [rec |-> None, seen |-> None, based |-> FALSE, proj |-> None]

Top(S) == CHOOSE x \in S : \A y \in S : y <= x
Num(x) == IF x = None THEN 0 ELSE x

\* What the server pushes; of each, what the client reads.
Push ==
  {[k |-> "lagged"]} \cup [k : {"created"}, rec : Record] \cup [k : {"updated"}, title : 0..MaxMeta]
  \cup [k : {"event"}, seq : 1..MaxSeq, status : {"running", "finished"}] \cup [k : {"project"}, proj : 0..MaxProj]

TypeOK ==
  /\ srv \in [made : BOOLEAN, n : 0..MaxSeq, title : 0..MaxMeta, proj : 0..MaxProj]
  /\ mode \in {"run", "paused"} /\ news \in BOOLEAN /\ permit \in BOOLEAN
  /\ loop \in {"start", "connecting", "connected", "backoff", "offline", "incompatible"}
  /\ sock.sub \in BOOLEAN /\ sock.settle \in BOOLEAN /\ Len(sock.chan) <= Buffer + 1
  /\ \A i \in DOMAIN sock.chan : sock.chan[i] \in Push
  /\ want \subseteq {"all", "one"}
  /\ work.pc \in {"idle", "list", "listed", "projects", "projected", "events", "fetched", "fetchOne", "fetchedOne"}
  /\ rec \in Opt(Record) /\ seen \in Opt(0..MaxSeq) /\ based \in BOOLEAN /\ proj \in Opt(0..MaxProj)
  /\ open \in BOOLEAN /\ tr \in Opt(0..MaxSeq) /\ held \subseteq 1..MaxSeq
  /\ dirty \in BOOLEAN /\ viewed \in 0..MaxSeq

Init ==
  /\ srv \in [made : BOOLEAN, n : {0}, title : {0}, proj : {0}]
  /\ mode = "run" /\ news = FALSE /\ loop = "start" /\ permit = FALSE /\ sock = Closed
  /\ want = {} /\ work = NoWork
  /\ rec = None /\ seen = None /\ based = FALSE /\ proj = None
  /\ open = FALSE /\ tr = None /\ held = {}
  /\ dirty = FALSE /\ saving = None /\ cache = NoCache
  /\ used = [view |-> 0, drop |-> 0, fail |-> 0, pause |-> 0, restart |-> 0]
  /\ viewed = 0

Spend(b, max) == used[b] < max /\ used' = [used EXCEPT ![b] = @ + 1]

-----------------------------------------------------------------------------
(* The server: what it stores, it broadcasts to the subscribed sockets         *)

Lagged == [k |-> "lagged"]

\* A socket that reads too slowly loses its oldest messages and is told so.
Send(m) ==
  IF ~sock.sub THEN sock' = sock
  ELSE IF Len(sock.chan) < Buffer THEN sock' = [sock EXCEPT !.chan = Append(@, m)]
  ELSE sock' = [sock EXCEPT !.chan =
                  <<Lagged>> \o Append(SubSeq(@, IF Head(@) = Lagged THEN 3 ELSE 2, Len(@)), m)]

\* SessionRecord, of which the client merges three fields.
ServerRecord == [seq |-> srv.n, status |-> StatusAt(srv.n), title |-> srv.title]

Changed == UNCHANGED <<mode, news, loop, permit, want, work, client, disk, used>>

\* create_with_account: stored, then broadcast.
Create ==
  /\ ~srv.made
  /\ srv' = [srv EXCEPT !.made = TRUE]
  /\ Send([k |-> "created", rec |-> ServerRecord])
  /\ Changed

Append1 ==
  /\ srv.made /\ srv.n < MaxSeq
  /\ srv' = [srv EXCEPT !.n = @ + 1]
  /\ Send([k |-> "event", seq |-> srv.n + 1, status |-> StatusAt(srv.n + 1)])
  /\ Changed

Retitle ==
  /\ srv.made /\ srv.title < MaxMeta
  /\ srv' = [srv EXCEPT !.title = @ + 1]
  /\ Send([k |-> "updated", title |-> srv.title + 1])
  /\ Changed

Assign ==
  /\ srv.proj < MaxProj
  /\ srv' = [srv EXCEPT !.proj = @ + 1]
  /\ Send([k |-> "project", proj |-> srv.proj + 1])
  /\ Changed

\* The push route subscribes before the upgrade response goes out.
Upgrade ==
  /\ loop = "connecting" /\ ~sock.sub
  /\ sock' = [sock EXCEPT !.sub = TRUE]
  /\ UNCHANGED <<srv, mode, news, loop, permit, want, work, client, disk, used>>

-----------------------------------------------------------------------------
(* The reducer. Each operator gives the state the input leaves                 *)

Now == [rec |-> rec, seen |-> seen, based |-> based, proj |-> proj, open |-> open, tr |-> tr,
        held |-> held, resync |-> {}, persist |-> FALSE]

MarkSeen(s) ==
  IF s.open /\ s.rec # None /\ Num(s.seen) < s.rec.seq
  THEN [s EXCEPT !.seen = s.rec.seq, !.persist = TRUE] ELSE s

\* Take a record unless a newer one is held.
Upsert(s, r) ==
  LET first == IF s.seen = None THEN [s EXCEPT !.seen = IF s.based THEN 0 ELSE r.seq] ELSE s
      taken == MarkSeen([first EXCEPT !.rec = r, !.persist = TRUE])
  IN IF first.rec # None /\ (first.rec.seq > r.seq \/ first.rec = r) THEN first
     ELSE IF taken.open /\ taken.tr # None /\ taken.tr < r.seq
          THEN [taken EXCEPT !.resync = @ \cup {"one"}] ELSE taken

\* apply_seq: in order, or held until the gap is filled. Transcripts are not bounded.
TranscriptTake(s, q) ==
  CASE s.tr = None \/ q <= Num(s.tr) \/ q \in s.held -> s
    [] q = s.tr + 1 ->
         LET upto == Top({x \in q..MaxSeq : (q + 1)..x \subseteq s.held})
         IN [s EXCEPT !.tr = upto, !.held = @ \ (q..upto)]
    [] OTHER -> [s EXCEPT !.held = @ \cup {q}, !.resync = IF s.open THEN @ \cup {"one"} ELSE @]

\* One stored event, from a push (with the status) or from a fetch (without).
OnEvent(s, q, status) ==
  LET known == CASE s.rec = None -> [s EXCEPT !.resync = @ \cup {"all"}]
                 [] s.rec # None /\ q > s.rec.seq ->
                      [s EXCEPT !.rec = [@ EXCEPT !.seq = q, !.status = IF status = None THEN @ ELSE status],
                                !.persist = TRUE]
                 [] OTHER -> s
  IN MarkSeen(TranscriptTake(known, q))

Fetched(s, after, upto) ==
  LET f[q \in after..upto] == IF q = after THEN s ELSE OnEvent(f[q - 1], q, None)
  IN f[upto]

\* Fault: a lagged message is ignored.
OnPushFault(s, m) ==
  CASE m.k = "created" -> Upsert([s EXCEPT !.seen = IF s.rec = None /\ @ = None THEN 0 ELSE @], m.rec)
    [] m.k = "event" -> OnEvent(s, m.seq, m.status)
    [] OTHER -> s

OnPush(s, m) ==
  CASE m.k = "created" -> Upsert([s EXCEPT !.seen = IF s.rec = None /\ @ = None THEN 0 ELSE @], m.rec)
    [] m.k = "event" -> OnEvent(s, m.seq, m.status)
    [] m.k = "updated" -> IF s.rec = None THEN [s EXCEPT !.resync = @ \cup {"all"}]
                          ELSE [s EXCEPT !.rec.title = m.title, !.persist = @ \/ s.rec.title # m.title]
    [] m.k = "project" -> [s EXCEPT !.proj = m.proj, !.persist = @ \/ s.proj # m.proj]
    [] m.k = "lagged" -> [s EXCEPT !.resync = @ \cup {"all"}]

SessionsLoaded(s, r) ==
  LET t == IF r = None THEN s ELSE Upsert(s, r)
  IN [t EXCEPT !.based = TRUE, !.persist = @ \/ ~s.based]

ProjectsLoaded(s, p) == [s EXCEPT !.proj = p, !.persist = @ \/ s.proj # p]

OpenedView(s) ==
  LET t == [s EXCEPT !.open = TRUE, !.tr = IF @ = None THEN 0 ELSE @]
  IN [MarkSeen(t) EXCEPT !.resync = @ \cup {"one"}]

ClosedView(s) == [MarkSeen(s) EXCEPT !.open = FALSE]

\* Inner::apply: the new state, and the requests and the save it asks for.
Apply(new) == \E s \in {new} :
  /\ want' = want \cup s.resync
  /\ rec' = s.rec /\ seen' = s.seen /\ based' = s.based /\ proj' = s.proj
  /\ open' = s.open /\ tr' = s.tr /\ held' = s.held
  /\ viewed' = LET n == Num(viewed)
                   now == IF (open \/ s.open) /\ s.rec # None THEN s.rec.seq ELSE 0
                   base == IF s.based /\ ~based THEN srv.n ELSE 0
               IN Top({n, now, base})
  /\ dirty' = (dirty \/ (s.persist /\ used.restart < MaxRestart))

-----------------------------------------------------------------------------
(* The push loop                                                               *)

\* The head of the loop: read the mode and connect, or wait for the mode to change.
LoopStart ==
  /\ loop \in {"start", "backoff"} \/ (loop \in {"offline", "incompatible"} /\ news)
  /\ news' = FALSE
  /\ loop' = IF mode = "paused" THEN "offline" ELSE "connecting"
  /\ UNCHANGED <<srv, mode, permit, sock, want, work, client, disk, used>>

\* health and open_push answered: catch up now, and once more when the settle time is over.
Connect ==
  /\ loop = "connecting" /\ sock.sub
  /\ loop' = "connected"
  /\ sock' = [sock EXCEPT !.settle = TRUE]
  /\ want' = want \cup {"all"}
  /\ UNCHANGED <<srv, mode, news, permit, work, client, disk, used>>

ConnectFails ==
  /\ loop = "connecting"
  /\ Spend("drop", MaxDrop)
  /\ loop' \in {"backoff", "incompatible"}
  /\ sock' = Closed
  /\ UNCHANGED <<srv, mode, news, permit, want, work, client, disk>>

\* The settle task, aborted when its socket ends.
Settle ==
  /\ loop = "connected" /\ sock.settle
  /\ sock' = [sock EXCEPT !.settle = FALSE]
  /\ want' = want \cup {"all"}
  /\ UNCHANGED <<srv, mode, news, loop, permit, work, client, disk, used>>

Receive ==
  /\ loop = "connected" /\ sock.chan # <<>>
  /\ Apply(OnPush(Now, Head(sock.chan)))
  /\ sock' = [sock EXCEPT !.chan = Tail(@)]
  /\ UNCHANGED <<srv, mode, news, loop, permit, work, saving, cache, used>>

\* The socket ends: messages under way are lost with it.
Lost ==
  /\ loop = "connected"
  /\ Spend("drop", MaxDrop)
  /\ loop' = "backoff" /\ sock' = Closed
  /\ UNCHANGED <<srv, mode, news, permit, want, work, client, disk>>

\* A stored permit of the reconnect signal drops the socket, also one opened after it was asked for.
Reconnect ==
  /\ loop = "connected" /\ permit
  /\ permit' = FALSE
  /\ loop' = "backoff" /\ sock' = Closed
  /\ UNCHANGED <<srv, mode, news, want, work, client, disk, used>>

\* A connected loop hears of a change of mode; only a pause ends the connection.
ModeHeard ==
  /\ loop = "connected" /\ news
  /\ news' = FALSE
  /\ IF mode = "paused" THEN loop' = "start" /\ sock' = Closed ELSE UNCHANGED <<loop, sock>>
  /\ UNCHANGED <<srv, mode, permit, want, work, client, disk, used>>

Pause ==
  /\ mode = "run"
  /\ Spend("pause", MaxPause)
  /\ mode' = "paused" /\ news' = TRUE
  /\ UNCHANGED <<srv, loop, permit, sock, want, work, client, disk>>

Resume ==
  /\ mode = "paused"
  /\ mode' = "run" /\ news' = TRUE
  /\ UNCHANGED <<srv, loop, permit, sock, want, work, client, disk, used>>

-----------------------------------------------------------------------------
(* The resync worker: an answer is taken on the server, and applied later      *)

Take ==
  /\ work.pc = "idle" /\ want # {}
  /\ work' = [pc |-> IF "all" \in want THEN "list" ELSE "fetchOne", ans |-> None]
  /\ want' = {}
  /\ UNCHANGED <<srv, push, client, disk, used>>

Answer(pc, next, ans) ==
  /\ work.pc = pc
  /\ work' = [pc |-> next, ans |-> ans]
  /\ UNCHANGED <<srv, push, want, client, disk, used>>

AnswerList == Answer("list", "listed", IF srv.made THEN ServerRecord ELSE None)
AnswerProjects == Answer("projects", "projected", srv.proj)

\* fetch_session: only an open conversation; the events after the last one applied.
AnswerEvents(pc, next) ==
  /\ work.pc = pc
  /\ work' = IF open /\ tr # None /\ srv.made THEN [pc |-> next, ans |-> [after |-> tr, upto |-> srv.n]]
             ELSE NoWork
  /\ UNCHANGED <<srv, push, want, client, disk, used>>

Applies(s, next) ==
  /\ Apply(s)
  /\ work' = [pc |-> next, ans |-> None]
  /\ UNCHANGED <<srv, push, saving, cache, used>>

ApplyList == work.pc = "listed" /\ Applies(SessionsLoaded(Now, work.ans), "projects")
ApplyProjects == work.pc = "projected" /\ Applies(ProjectsLoaded(Now, work.ans), "events")
ApplyEvents ==
  /\ work.pc \in {"fetched", "fetchedOne"}
  /\ Applies(Fetched(Now, work.ans.after, work.ans.upto), "idle")

\* Fault: a failed catch-up is only logged.
ResyncFailsFault ==
  /\ work.pc \in {"list", "projects", "events", "fetchOne"}
  /\ Spend("fail", MaxFail)
  /\ work' = NoWork
  /\ UNCHANGED <<srv, push, want, client, disk>>

\* Any request may fail: the push connection is dropped, and connecting again resyncs everything.
ResyncFails ==
  /\ work.pc \in {"list", "projects", "events", "fetchOne"}
  /\ Spend("fail", MaxFail)
  /\ work' = NoWork
  /\ permit' = TRUE
  /\ UNCHANGED <<srv, mode, news, loop, sock, want, client, disk>>

WorkerStep ==
  \/ Take \/ AnswerList \/ AnswerProjects
  \/ AnswerEvents("events", "fetched") \/ AnswerEvents("fetchOne", "fetchedOne")
  \/ ApplyList \/ ApplyProjects \/ ApplyEvents

-----------------------------------------------------------------------------
(* The conversation view, the cache and a restart of the app                   *)

View(s) ==
  /\ Apply(s)
  /\ UNCHANGED <<srv, push, work, saving, cache>>

OpenSession == ~open /\ Spend("view", MaxView) /\ View(OpenedView(Now))
CloseSession == open /\ View(ClosedView(Now)) /\ UNCHANGED used

\* cache_writer: a snapshot is taken, and written beside the old one before it replaces it.
Snapshot ==
  /\ saving = None /\ dirty
  /\ used.restart < MaxRestart   \* a snapshot no restart will read is left out
  /\ dirty' = FALSE
  /\ saving' = [rec |-> rec, seen |-> seen, based |-> based, proj |-> proj]
  /\ UNCHANGED <<srv, push, want, work, client, cache, used>>

Saved ==
  /\ saving # None
  /\ cache' = saving /\ saving' = None
  /\ UNCHANGED <<srv, push, want, work, client, dirty, used>>

Restart ==
  /\ Spend("restart", MaxRestart)
  /\ rec' = cache.rec /\ seen' = cache.seen /\ based' = cache.based /\ proj' = cache.proj
  /\ open' = FALSE /\ tr' = None /\ held' = {} /\ viewed' = viewed
  /\ dirty' = FALSE /\ saving' = None
  /\ mode' = "run" /\ news' = FALSE /\ loop' = "start" /\ permit' = FALSE /\ sock' = Closed
  /\ want' = {} /\ work' = NoWork
  /\ UNCHANGED <<srv, cache>>

PushStep == LoopStart \/ Connect \/ Settle \/ Receive \/ Reconnect \/ ModeHeard \/ Upgrade

Next ==
  \/ Create \/ Append1 \/ Retitle \/ Assign
  \/ PushStep \/ WorkerStep
  \/ ConnectFails \/ Lost \/ Pause \/ Resume \/ ResyncFails
  \/ OpenSession \/ CloseSession \/ Snapshot \/ Saved \/ Restart

Spec == Init /\ [][Next]_vars

\* What keeps running: the push loop's task and the worker's, and the server answers.
Going(k) == (k = 1 /\ PushStep) \/ (k = 2 /\ WorkerStep)
FairSpec == Spec /\ \A k \in 1..2 : WF_vars(Going(k))

-----------------------------------------------------------------------------
\* Nothing is under way: the socket is subscribed, read and settled, and no catch-up is asked for.
Quiet ==
  /\ loop = "connected" /\ sock.chan = <<>> /\ ~sock.settle /\ ~permit
  /\ mode = "run" /\ ~news /\ want = {} /\ work.pc = "idle"

\* Whatever was lost, overtaken or delivered twice, once the engine is quiet an open
\* conversation shows every event the server has and holds none back.
OpenIsComplete == Quiet /\ open /\ srv.made => tr = srv.n /\ held = {}

\* Once the engine is quiet the launcher knows the session and its last event.
ListIsComplete == Quiet /\ srv.made => rec # None /\ rec.seq = srv.n

\* Nothing counts as read that the user never had open and that was not there before the first list.
UnreadIsKept == seen # None => seen <= viewed

\* A conversation that stays open gets every event the server records, however often the
\* connection fails: Due ~> Met.
Due == open /\ mode = "run"
Met == tr = srv.n \/ ~open \/ mode = "paused" \/ loop = "incompatible"
=============================================================================
