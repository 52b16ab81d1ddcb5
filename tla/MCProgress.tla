------------------------------ MODULE MCProgress ------------------------------
(* Model checking that what is under way ends and what is new arrives, under   *)
(* the fairness of each component: small instances of the components. They     *)
(* share no state, so a behaviour of this module runs one of them (`part'),    *)
(* and the instances take turns with the variables v1, v2, ...                 *)
EXTENDS Naturals, Sequences, FiniteSets

CONSTANTS None  \* model values

VARIABLES part,  \* the instance this behaviour is of
          v1, v2, v3, v4, v5, v6, v7, v8, v9, v10, v11, v12, v13, v14, v15, v16, v17, v18, v19,
          v20  \* its variables

P == INSTANCE Acp WITH Msg <- {"m1", "m2"}, Tool <- {"t1"}, Term <- {"x1"}, Resume <- "resume", MaxAsk <- 0,
                       MaxUpdate <- 1, MaxInterrupt <- 1, phase <- v1, replaying <- v2, closing <- v3,
                       eof <- v4, active <- v5, cancel <- v6, queue <- v7, sentTo <- v8, loop <- v9,
                       intr <- v10, approvals <- v11, mapper <- v12, toAgent <- v13, fromAgent <- v14,
                       agent <- v15, terms <- v16, shown <- v17, interrupts <- v18

Y == INSTANCE Antigravity WITH Hook <- {}, Step <- {"s1"}, MaxTurn <- 2, MaxLine <- 1, st <- v1, appr <- v2,
         policy <- v3, registered <- v4, call <- v5, proc <- v6, task <- v7, timers <- v8, hooks <- v9,
         user <- v10, shown <- v11

C == INSTANCE Claude WITH Ask <- {"a"}, Tool <- {"bash"}, ToolOf <- [a \in {"a"} |-> "bash"], MaxSend <- 2,
                          MaxInterrupt <- 1, Pipe <- 1, st <- v1, op <- v2, stdin <- v3, stdout <- v4, cli <- v5,
                          dogs <- v6, sends <- v7, interrupts <- v8, ends <- v9, answers <- v10,
                          truth <- v11

J == INSTANCE NodeJobs WITH Job <- {"j1"}, Exec <- {"x1"}, EventHistory <- 1, MaxOut <- 1, MaxConn <- 0,
                            Queue <- 1, MaxInput <- 1, MaxWaitFail <- 0, proc <- v1, holder <- v2, piped <- v3, wrote <- v4,
                            chan <- v5, waiter <- v6, task <- v7, info <- v8, socket <- v9, log <- v10,
                            sub <- v11, wire <- v12, server <- v13, count <- v14, input <- v15

R == INSTANCE Relay WITH MaxSend <- 2, MaxCrash <- 1, Wire <- 1, Pipe <- 1, codex <- v1, up <- v2, relay <- v3, node <- v4,
                         proc <- v5, stdin <- v6, stdout <- v7, frames <- v8, buf <- v9, written <- v10,
                         crashes <- v11

E == INSTANCE Egress WITH MaxUp <- 1, MaxDown <- 1, Pipe <- 1, Wire <- 1, MaxFail <- 1, sent <- v1, got <- v2,
                          chan <- v3, bridge <- v4, pump <- v5, socks <- v6, failures <- v7

T == INSTANCE TermLife WITH Term <- 2..3, Key <- {"k"}, KeyOf <- [t \in 2..3 |-> "k"], MaxFinished <- 1,
                            MaxCrash <- 1, node <- v1, lock <- v2, mem <- v3, disk <- v4, proc <- v5,
                            keeper <- v6, child <- v7, exitSave <- v8, stopSave <- v9, loaded <- v10,
                            removed <- v11, crashes <- v12

K == INSTANCE EditorRpc WITH Call <- {"c1", "c2"}, Fired <- {}, Cancelled <- {"c1"}, Request <- {"r"},
                             MaxDisconnect <- 0, boot <- v1, call <- v2, pending <- v3, task <- v4,
                             event <- v5, answered <- v6, toHost <- v7, toUs <- v8, got <- v9, req <- v10

H == INSTANCE HubLink WITH Link <- 1..2, Overlap <- FALSE, MaxRemove <- 1, MaxCrash <- 1, MaxCancel <- 0,
                           MaxLost <- 1, MaxCheck <- 0, hub <- v1, links <- v2, late <- v3, reg <- v4,
                           row <- v5, view <- v6, handle <- v7, call <- v8, task <- v9, got <- v10,
                           copy <- v11, up <- v12, used <- v13

L == INSTANCE HubWatch WITH Peer <- {"p"}, EarlyLimit <- 3, MaxChange <- 2, MaxFail <- 1, MaxApi <- 0,
                            kind <- v1, list <- v2, version <- v3, removed <- v4, watcher <- v5,
                            answer <- v6, pc <- v7, rows <- v8, revoked <- v9, api <- v10, fails <- v11,
                            spins <- v12

V == INSTANCE ClientSync WITH Buffer <- 1, MaxSeq <- 1, MaxMeta <- 0, MaxProj <- 0, MaxView <- 1,
         MaxDrop <- 1, MaxFail <- 1, MaxPause <- 0, MaxRestart <- 0, srv <- v1, mode <- v2, news <- v3,
         loop <- v4, permit <- v5, sock <- v6, want <- v7, work <- v8, rec <- v9, seen <- v10, based <- v11,
         proj <- v12, open <- v13, tr <- v14, held <- v15, dirty <- v16, saving <- v17, cache <- v18,
         used <- v19, viewed <- v20

B == INSTANCE Outbox WITH Buffer <- 8, MaxType <- 2, MaxForeign <- 1, MaxOther <- 0, MaxFetch <- 1, MaxFail <- 0,
                          MaxLost <- 0, srv <- v1, log <- v2, feed <- v3, view <- v4, chan <- v5,
                          missed <- v6, rev <- v7, lagged <- v8, drive <- v9, queue <- v10, flight <- v11,
                          posts <- v12, typed <- v13, cleared <- v14, used <- v15

N == INSTANCE EditorConn WITH Sender <- {"a"}, MaxSend <- 2, MaxPeer <- 0, MaxLoss <- 1, MaxPause <- 0,
         us <- v1, peer <- v2, pend <- v3, tx <- v4, rx <- v5, cut <- v6, gen <- v7, pgen <- v8,
         phase <- v9, ctl <- v10, lost <- v11, pauses <- v12

\* An instance with n variables leaves those after vn alone (Offn; Keepn of its steps).
Off20 == TRUE
Off19 == v20 = None
Off18 == v19 = None /\ Off19
Off17 == v18 = None /\ Off18
Off16 == v17 = None /\ Off17
Off15 == v16 = None /\ Off16
Off14 == v15 = None /\ Off15
Off13 == v14 = None /\ Off14
Off12 == v13 = None /\ Off13
Off11 == v12 = None /\ Off12
Off10 == v11 = None /\ Off11
Off9 == v10 = None /\ Off10
Off8 == v9 = None /\ Off9
Off7 == v8 = None /\ Off8

Keep20 == UNCHANGED part
Keep19 == UNCHANGED v20 /\ Keep20
Keep18 == UNCHANGED v19 /\ Keep19
Keep17 == UNCHANGED v18 /\ Keep18
Keep16 == UNCHANGED v17 /\ Keep17
Keep15 == UNCHANGED v16 /\ Keep16
Keep14 == UNCHANGED v15 /\ Keep15
Keep13 == UNCHANGED v14 /\ Keep14
Keep12 == UNCHANGED v13 /\ Keep13
Keep11 == UNCHANGED v12 /\ Keep12
Keep10 == UNCHANGED v11 /\ Keep11
Keep9 == UNCHANGED v10 /\ Keep10
Keep8 == UNCHANGED v9 /\ Keep9
Keep7 == UNCHANGED v8 /\ Keep8

Init ==
    \/ part = "acp" /\ P!Init /\ Off18
    \/ part = "antigravity" /\ Y!Init /\ Off11
    \/ part = "claude" /\ C!Init /\ Off11
    \/ part = "commands" /\ J!Init /\ Off15
    \/ part = "relay" /\ R!Init /\ Off11
    \/ part = "egress" /\ E!Init /\ Off7
    \/ part = "terminals" /\ T!Init /\ Off12
    \/ part = "calls" /\ K!Init /\ Off10
    \/ part = "links" /\ H!Init /\ Off13
    \/ part = "watch" /\ L!Init /\ Off12
    \/ part = "client" /\ V!Init /\ Off20
    \/ part = "outbox" /\ B!Init /\ Off15
    \/ part = "connection" /\ N!Init /\ Off12

Next ==
    \/ part = "acp" /\ P!Next /\ Keep18
    \/ part = "antigravity" /\ Y!Next /\ Keep11
    \/ part = "claude" /\ C!Next /\ Keep11
    \/ part = "commands" /\ J!Next /\ Keep15
    \/ part = "relay" /\ R!Next /\ Keep11
    \/ part = "egress" /\ E!Next /\ Keep7
    \/ part = "terminals" /\ T!Next /\ Keep12
    \/ part = "calls" /\ K!Next /\ Keep10
    \/ part = "links" /\ H!Next /\ Keep13
    \/ part = "watch" /\ L!Next /\ Keep12
    \/ part = "client" /\ V!Next /\ Keep20
    \/ part = "outbox" /\ B!Next /\ Keep15
    \/ part = "connection" /\ N!Next /\ Keep12

vars == <<part, v1, v2, v3, v4, v5, v6, v7, v8, v9, v10, v11, v12, v13, v14, v15, v16, v17, v18, v19, v20>>
Spec == Init /\ [][Next]_vars

\* What keeps running, part by part (Going of each module). A part has at most six; as a behaviour
\* is of one part, fairness of Task(k) is fairness of that part's k-th.
Task(k) ==
    \/ part = "acp" /\ P!Going(k) /\ Keep18
    \/ part = "antigravity" /\ Y!Going(k) /\ Keep11
    \/ part = "claude" /\ C!Going(k) /\ Keep11
    \/ part = "commands" /\ k \in 1..2 /\ J!Going(<<"j1", "x1">>[k]) /\ Keep15
    \/ part = "relay" /\ R!Going(k) /\ Keep11
    \/ part = "egress" /\ E!Going(k) /\ Keep7
    \/ part = "terminals" /\ T!Going(k) /\ Keep12
    \/ part = "calls" /\ K!Going(k) /\ Keep10
    \/ part = "links" /\ k \in 1..2 /\ H!Going(k) /\ Keep13
    \/ part = "watch" /\ L!Going(k) /\ Keep12
    \/ part = "client" /\ V!Going(k) /\ Keep20
    \/ part = "outbox" /\ B!Going(k) /\ Keep15
    \/ part = "connection" /\ N!Going(k) /\ Keep12

Fairness == \A k \in 1..6 : WF_vars(Task(k))
FairSpec == Spec /\ Fairness
-------------------------------------------------------------------------------
(* What is checked: the properties of the modules, each of its own instance.   *)

\* What is under way ends: queued messages when an agent exits, an interrupted turn, a command whose
\* socket closed, an executor whose client left, a tunnel that ended at both sides, a terminal whose
\* process died, a call of the editor, a link that waits for its approval. (Two of some.)
WorkDue(k) ==
    \/ part = "acp" /\ k = 1 /\ P!Due
    \/ part = "antigravity" /\ k = 1 /\ Y!Due
    \/ part = "claude" /\ k = 1 /\ C!Due
    \/ part = "commands" /\ J!Due(<<"j1", "x1">>[k])
    \/ part = "relay" /\ k = 1 /\ R!Due
    \/ part = "egress" /\ k = 1 /\ E!Due
    \/ part = "terminals" /\ T!Due(k + 1)
    \/ part = "calls" /\ K!Due(<<"c1", "c2">>[k])
    \/ part = "links" /\ H!Due(k)

WorkOver(k) ==
    \/ part = "acp" /\ P!Met
    \/ part = "antigravity" /\ Y!Met
    \/ part = "claude" /\ C!Met
    \/ part = "commands" /\ J!Met(<<"j1", "x1">>[k])
    \/ part = "relay" /\ R!Met
    \/ part = "egress" /\ E!Met
    \/ part = "terminals" /\ T!Met(k + 1)
    \/ part = "calls" /\ K!Met(<<"c1", "c2">>[k])
    \/ part = "links" /\ H!Met(k)

\* What may hold it up for good: a child or a peer that reads nothing more, while the task that would
\* see the end waits to write to it.
WorkStuck(k) ==
    \/ part = "claude" /\ C!Stuck
    \/ part = "commands" /\ J!Stuck(<<"j1", "x1">>[k])
    \/ part = "relay" /\ R!Stuck
    \/ part = "egress" /\ E!Stuck

WorkEnds == \A k \in 1..2 : (WorkDue(k) ~> WorkOver(k)) \/ <>[]WorkStuck(k)

\* What is new arrives: the hub's list and a removal at the server, the session's events at an open
\* client, a typed message at the session, two sent messages at the editor's server.
NewsDue(k) ==
    \/ part = "watch" /\ L!Due(k)
    \/ part = "client" /\ k = 1 /\ V!Due
    \/ part = "outbox" /\ k = 1 /\ B!Due
    \/ part = "connection" /\ N!Due(k)

NewsHere(k) ==
    \/ part = "watch" /\ L!Met(k)
    \/ part = "client" /\ V!Met
    \/ part = "outbox" /\ B!Met
    \/ part = "connection" /\ N!Met(k)

\* What may hold it up for good: a client that took an event before the push with its status.
NewsStuck == part = "outbox" /\ B!Stuck

NewsArrives == \A k \in 1..2 : (NewsDue(k) ~> NewsHere(k)) \/ <>[]NewsStuck
===============================================================================
