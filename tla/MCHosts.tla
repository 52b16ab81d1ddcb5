------------------------------- MODULE MCHosts --------------------------------
(* Model checking what runs on a session's host and between the devices: the  *)
(* adapters of the agents, the node's jobs, commands, files and terminals, the*)
(* command shim, the executor's relay and the egress stream, the admission of *)
(* devices, a node's registration with the hub and the dialer. They share no  *)
(* state, so a behaviour of this module is one of one instance of one of them *)
(* (`part').                                                                  *)
EXTENDS Naturals, Sequences, FiniteSets

CONSTANTS None, Gone, Any  \* model values

VARIABLES part,  \* the instance this behaviour is of
          v1, v2, v3, v4, v5, v6, v7, v8, v9, v10, v11, v12, v13, v14, v15, v16, v17,
          v18  \* its variables

X1 == INSTANCE Codex WITH Msg <- {"m1", "m2"}, Item <- {"i1"}, Remote <- FALSE, MaxTurn <- 2, MaxAsk <- 1,
                          MaxTimeout <- 0, call <- v1, sent <- v2, nextId <- v3, pending <- v4,
                          closing <- v5, mapper <- v6, eof <- v7, toCodex <- v8, fromCodex <- v9,
                          codex <- v10, shown <- v11, timeouts <- v12
X3 == INSTANCE Codex WITH Msg <- {"m1"}, Item <- {"i1"}, Remote <- FALSE, MaxTurn <- 1, MaxAsk <- 2,
                          MaxTimeout <- 0, call <- v1, sent <- v2, nextId <- v3, pending <- v4,
                          closing <- v5, mapper <- v6, eof <- v7, toCodex <- v8, fromCodex <- v9,
                          codex <- v10, shown <- v11, timeouts <- v12
X2 == INSTANCE Codex WITH Msg <- {"m1", "m2"}, Item <- {"i1"}, Remote <- TRUE, MaxTurn <- 2, MaxAsk <- 0,
                          MaxTimeout <- 1, call <- v1, sent <- v2, nextId <- v3, pending <- v4,
                          closing <- v5, mapper <- v6, eof <- v7, toCodex <- v8, fromCodex <- v9,
                          codex <- v10, shown <- v11, timeouts <- v12

P1 == INSTANCE Acp WITH Msg <- {"m1", "m2"}, Tool <- {"t1"}, Term <- {}, Resume <- "load", MaxAsk <- 1,
                        MaxUpdate <- 1, MaxInterrupt <- 1, phase <- v1, replaying <- v2, closing <- v3,
                        eof <- v4, active <- v5, cancel <- v6, queue <- v7, sentTo <- v8, loop <- v9,
                        intr <- v10, approvals <- v11, mapper <- v12, toAgent <- v13, fromAgent <- v14,
                        agent <- v15, terms <- v16, shown <- v17, interrupts <- v18
P2 == INSTANCE Acp WITH Msg <- {"m1"}, Tool <- {"t1"}, Term <- {"x1"}, Resume <- "new", MaxAsk <- 0,
                        MaxUpdate <- 2, MaxInterrupt <- 1, phase <- v1, replaying <- v2, closing <- v3,
                        eof <- v4, active <- v5, cancel <- v6, queue <- v7, sentTo <- v8, loop <- v9,
                        intr <- v10, approvals <- v11, mapper <- v12, toAgent <- v13, fromAgent <- v14,
                        agent <- v15, terms <- v16, shown <- v17, interrupts <- v18

Y1 == INSTANCE Antigravity WITH Hook <- {}, Step <- {"s1"}, MaxTurn <- 2, MaxLine <- 2, st <- v1,
         appr <- v2, policy <- v3, registered <- v4, call <- v5, proc <- v6, task <- v7, timers <- v8,
         hooks <- v9, user <- v10, shown <- v11
Y2 == INSTANCE Antigravity WITH Hook <- {"h1"}, Step <- {"s1"}, MaxTurn <- 1, MaxLine <- 1, st <- v1,
         appr <- v2, policy <- v3, registered <- v4, call <- v5, proc <- v6, task <- v7, timers <- v8,
         hooks <- v9, user <- v10, shown <- v11

L1 == INSTANCE Claude WITH Ask <- {"a", "b"}, Tool <- {"bash"}, ToolOf <- [a \in {"a", "b"} |-> "bash"],
                           MaxSend <- 2, MaxInterrupt <- 1, Pipe <- 2, st <- v1, op <- v2, stdin <- v3, stdout <- v4,
                           cli <- v5, dogs <- v6, sends <- v7, interrupts <- v8, ends <- v9, answers <- v10,
                           truth <- v11

J1 == INSTANCE NodeJobs WITH Job <- {"j1", "j2"}, Exec <- {}, EventHistory <- 2, MaxOut <- 1, MaxConn <- 2,
                             Queue <- 2, MaxInput <- 0, MaxWaitFail <- 0, proc <- v1, holder <- v2, piped <- v3, wrote <- v4,
                             chan <- v5, waiter <- v6, task <- v7, info <- v8, socket <- v9, log <- v10,
                             sub <- v11, wire <- v12, server <- v13, count <- v14, input <- v15
J2 == INSTANCE NodeJobs WITH Job <- {"j1"}, Exec <- {"x1"}, EventHistory <- 1, MaxOut <- 1, MaxConn <- 1,
                             Queue <- 1, MaxInput <- 1, MaxWaitFail <- 1, proc <- v1, holder <- v2, piped <- v3, wrote <- v4,
                             chan <- v5, waiter <- v6, task <- v7, info <- v8, socket <- v9, log <- v10,
                             sub <- v11, wire <- v12, server <- v13, count <- v14, input <- v15

N1 == INSTANCE NodeFs WITH Op <- {"a", "b"}, Path <- {"p", "q"}, MaxInode <- 4, MaxDrop <- 0, entry <- v1,
                           temp <- v2, data <- v3, patched <- v4, op <- v5, lock <- v6, dropped <- v7
N3 == INSTANCE NodeFs WITH Op <- {"a", "b", "c"}, Path <- {"p"}, MaxInode <- 4, MaxDrop <- 0, entry <- v1,
                           temp <- v2, data <- v3, patched <- v4, op <- v5, lock <- v6, dropped <- v7
N2 == INSTANCE NodeFs WITH Op <- {"a", "b"}, Path <- {"p"}, MaxInode <- 3, MaxDrop <- 1, entry <- v1,
                           temp <- v2, data <- v3, patched <- v4, op <- v5, lock <- v6, dropped <- v7

S == INSTANCE Shim WITH MaxBody <- 3, MaxSignal <- 1, Slow <- FALSE, run <- v1, left <- v2, written <- v3,
                        wire <- v4, filter <- v5, out <- v6, file <- v7, cmd <- v8, code <- v9,
                        signals <- v10

R1 == INSTANCE Relay WITH MaxSend <- 2, MaxCrash <- 1, Wire <- 1, Pipe <- 1, codex <- v1, up <- v2, relay <- v3, node <- v4,
                          proc <- v5, stdin <- v6, stdout <- v7, frames <- v8, buf <- v9, written <- v10,
                          crashes <- v11
R2 == INSTANCE Relay WITH MaxSend <- 1, MaxCrash <- 1, Wire <- 1, Pipe <- 1, codex <- v1, up <- v2, relay <- v3, node <- v4,
                          proc <- v5, stdin <- v6, stdout <- v7, frames <- v8, buf <- v9, written <- v10,
                          crashes <- v11

E == INSTANCE Egress WITH MaxUp <- 2, MaxDown <- 2, Pipe <- 2, Wire <- 2, MaxFail <- 1, sent <- v1, got <- v2,
                          chan <- v3, bridge <- v4, pump <- v5, socks <- v6, failures <- v7

K == INSTANCE TermClients WITH Client <- {"a", "b"}, ReadOnly <- {"b"}, Size <- {"s1", "s2"},
         Default <- "s1", Queue <- 2, MaxAttach <- 3, MaxOut <- 1, MaxOp <- 1, g <- v1, view <- v2,
         count <- v3

T == INSTANCE TermLife WITH Term <- {"a", "b"}, Key <- {"k"}, KeyOf <- [t \in {"a", "b"} |-> "k"],
                            MaxFinished <- 1, MaxCrash <- 1, node <- v1, lock <- v2, mem <- v3, disk <- v4,
                            proc <- v5, keeper <- v6, child <- v7, exitSave <- v8, stopSave <- v9,
                            loaded <- v10, removed <- v11, crashes <- v12

G1 == INSTANCE Gate WITH Peer <- {"p", "q"}, Conn <- {"c", "d"}, Op <- {"a"}, MaxChange <- 4,
                         MaxRestart <- 1, table <- v1, allowed <- v2, conn <- v3, op <- v4, changes <- v5,
                         restarts <- v6, crossed <- v7
G2 == INSTANCE Gate WITH Peer <- {"p", "q"}, Conn <- {"c"}, Op <- {"a", "b"}, MaxChange <- 3,
                         MaxRestart <- 1, table <- v1, allowed <- v2, conn <- v3, op <- v4, changes <- v5,
                         restarts <- v6, crossed <- v7

D == INSTANCE Dialer WITH Call <- {"a", "b"}, MaxConn <- 4, MaxLoss <- 2, cache <- v1, conn <- v2, pc <- v3,
                          has <- v4, dialled <- v5, lost <- v6, latest <- v7

H1 == INSTANCE NodeHub WITH MaxLink <- 2, Issues <- TRUE, LongPoll <- FALSE, Overlap <- FALSE, MaxRemove <- 1,
                            MaxStop <- 1, MaxLost <- 1, MaxStart <- 1, MaxHup <- 0, MaxCommand <- 3,
                            MaxLocal <- 0, hub <- v1, links <- v2, late <- v3, file <- v4, pending <- v5,
                            job <- v6, on <- v7, directory <- v8, servers <- v9, removed <- v10, lapped <- v11,
                            used <- v12
H2 == INSTANCE NodeHub WITH MaxLink <- 1, Issues <- FALSE, LongPoll <- TRUE, Overlap <- FALSE, MaxRemove <- 1,
                            MaxStop <- 1, MaxLost <- 0, MaxStart <- 2, MaxHup <- 1, MaxCommand <- 2,
                            MaxLocal <- 1, hub <- v1, links <- v2, late <- v3, file <- v4, pending <- v5,
                            job <- v6, on <- v7, directory <- v8, servers <- v9, removed <- v10, lapped <- v11,
                            used <- v12
H3 == INSTANCE NodeHub WITH MaxLink <- 2, Issues <- TRUE, LongPoll <- TRUE, Overlap <- TRUE, MaxRemove <- 1,
                            MaxStop <- 0, MaxLost <- 0, MaxStart <- 1, MaxHup <- 1, MaxCommand <- 3,
                            MaxLocal <- 0, hub <- v1, links <- v2, late <- v3, file <- v4, pending <- v5,
                            job <- v6, on <- v7, directory <- v8, servers <- v9, removed <- v10, lapped <- v11,
                            used <- v12

\* An instance with n variables leaves those after vn alone (Offn; Keepn of its steps).
Off18 == TRUE
Off17 == v18 = None
Off16 == v17 = None /\ Off17
Off15 == v16 = None /\ Off16
Off14 == v15 = None /\ Off15
Off13 == v14 = None /\ Off14
Off12 == v13 = None /\ Off13
Off11 == v12 = None /\ Off12
Off10 == v11 = None /\ Off11
Off9 == v10 = None /\ Off10
Off8 == v9 = None /\ Off9
Off7 == v8 = None /\ Off8
Off6 == v7 = None /\ Off7
Off5 == v6 = None /\ Off6
Off4 == v5 = None /\ Off5
Off3 == v4 = None /\ Off4

Keep18 == UNCHANGED part
Keep17 == UNCHANGED v18 /\ Keep18
Keep16 == UNCHANGED v17 /\ Keep17
Keep15 == UNCHANGED v16 /\ Keep16
Keep14 == UNCHANGED v15 /\ Keep15
Keep13 == UNCHANGED v14 /\ Keep14
Keep12 == UNCHANGED v13 /\ Keep13
Keep11 == UNCHANGED v12 /\ Keep12
Keep10 == UNCHANGED v11 /\ Keep11
Keep9 == UNCHANGED v10 /\ Keep10
Keep8 == UNCHANGED v9 /\ Keep9
Keep7 == UNCHANGED v8 /\ Keep8
Keep6 == UNCHANGED v7 /\ Keep7
Keep5 == UNCHANGED v6 /\ Keep6
Keep4 == UNCHANGED v5 /\ Keep5
Keep3 == UNCHANGED v4 /\ Keep4

Init ==
    \/ part = "codex" /\ X1!Init /\ Off12
    \/ part = "two requests" /\ X3!Init /\ Off12
    \/ part = "codex timeout" /\ X2!Init /\ Off12
    \/ part = "acp load" /\ P1!Init /\ Off18
    \/ part = "acp commands" /\ P2!Init /\ Off18
    \/ part = "agy turns" /\ Y1!Init /\ Off11
    \/ part = "agy hooks" /\ Y2!Init /\ Off11
    \/ part = "claude" /\ L1!Init /\ Off11
    \/ part = "jobs" /\ J1!Init /\ Off15
    \/ part = "commands" /\ J2!Init /\ Off15
    \/ part = "files" /\ N1!Init /\ Off7
    \/ part = "one file" /\ N3!Init /\ Off7
    \/ part = "dropped files" /\ N2!Init /\ Off7
    \/ part = "shim" /\ S!Init /\ Off10
    \/ part = "relay" /\ R1!Init /\ Off11
    \/ part = "one request" /\ R2!Init /\ Off11
    \/ part = "egress" /\ E!Init /\ Off7
    \/ part = "viewers" /\ K!Init /\ Off3
    \/ part = "terminals" /\ T!Init /\ Off12
    \/ part = "gate" /\ G1!Init /\ Off7
    \/ part = "two operations" /\ G2!Init /\ Off7
    \/ part = "dialer" /\ D!Init /\ Off7
    \/ part = "registration" /\ H1!Init /\ Off12
    \/ part = "older hub" /\ H2!Init /\ Off12
    \/ part = "overlapping" /\ H3!Init /\ Off12

Next ==
    \/ part = "codex" /\ X1!Next /\ Keep12
    \/ part = "two requests" /\ X3!Next /\ Keep12
    \/ part = "codex timeout" /\ X2!Next /\ Keep12
    \/ part = "acp load" /\ P1!Next /\ Keep18
    \/ part = "acp commands" /\ P2!Next /\ Keep18
    \/ part = "agy turns" /\ Y1!Next /\ Keep11
    \/ part = "agy hooks" /\ Y2!Next /\ Keep11
    \/ part = "claude" /\ L1!Next /\ Keep11
    \/ part = "jobs" /\ J1!Next /\ Keep15
    \/ part = "commands" /\ J2!Next /\ Keep15
    \/ part = "files" /\ N1!Next /\ Keep7
    \/ part = "one file" /\ N3!Next /\ Keep7
    \/ part = "dropped files" /\ N2!Next /\ Keep7
    \/ part = "shim" /\ S!Next /\ Keep10
    \/ part = "relay" /\ R1!Next /\ Keep11
    \/ part = "one request" /\ R2!Next /\ Keep11
    \/ part = "egress" /\ E!Next /\ Keep7
    \/ part = "viewers" /\ K!Next /\ Keep3
    \/ part = "terminals" /\ T!Next /\ Keep12
    \/ part = "gate" /\ G1!Next /\ Keep7
    \/ part = "two operations" /\ G2!Next /\ Keep7
    \/ part = "dialer" /\ D!Next /\ Keep7
    \/ part = "registration" /\ H1!Next /\ Keep12
    \/ part = "older hub" /\ H2!Next /\ Keep12
    \/ part = "overlapping" /\ H3!Next /\ Keep12

vars == <<part, v1, v2, v3, v4, v5, v6, v7, v8, v9, v10, v11, v12, v13, v14, v15, v16, v17, v18>>
Spec == Init /\ [][Next]_vars
-------------------------------------------------------------------------------
(* What is checked: the properties of the modules, each of its own instance.   *)

\* The types of every module's state.
TypeOK ==
    /\ part = "codex" => X1!TypeOK
    /\ part = "two requests" => X3!TypeOK
    /\ part = "codex timeout" => X2!TypeOK
    /\ part = "acp load" => P1!TypeOK
    /\ part = "acp commands" => P2!TypeOK
    /\ part = "agy turns" => Y1!TypeOK
    /\ part = "agy hooks" => Y2!TypeOK
    /\ part = "claude" => L1!TypeOK
    /\ part = "jobs" => J1!TypeOK
    /\ part = "commands" => J2!TypeOK
    /\ part = "files" => N1!TypeOK
    /\ part = "one file" => N3!TypeOK
    /\ part = "dropped files" => N2!TypeOK
    /\ part = "shim" => S!TypeOK
    /\ part = "relay" => R1!TypeOK
    /\ part = "one request" => R2!TypeOK
    /\ part = "egress" => E!TypeOK
    /\ part = "viewers" => K!TypeOK
    /\ part = "terminals" => T!TypeOK
    /\ part = "gate" => G1!TypeOK
    /\ part = "two operations" => G2!TypeOK
    /\ part = "dialer" => D!TypeOK
    /\ part = "registration" => H1!TypeOK
    /\ part = "older hub" => H2!TypeOK
    /\ part = "overlapping" => H3!TypeOK

\* An agent that asked for a permission is not left waiting: the request is before the user, or
\* its answer is on the way, whatever interrupts, exits and other answers come between.
NoneLeftWaiting ==
    /\ part = "codex" => X1!CodexNotLeftWaiting
    /\ part = "two requests" => X3!CodexNotLeftWaiting
    /\ part = "codex timeout" => X2!CodexNotLeftWaiting
    /\ part = "acp load" => P1!AgentNotLeftWaiting
    /\ part = "acp commands" => P2!AgentNotLeftWaiting
    /\ part = "claude" => L1!CliNotLeftWaiting

\* A turn that ended has ended once and for all: no late response revives it, its end says what
\* became of it, and no permission request outlives it but one that was being asked as it closed.
\* Of Claude Code's queued messages only what holds of them is asked (their turns' ends may be lost).
TurnsEndOnce ==
    /\ part = "codex" => X1!FinishedTurnStaysFinished
    /\ part = "two requests" => X3!FinishedTurnStaysFinished
    /\ part = "codex timeout" => X2!FinishedTurnStaysFinished
    /\ part = "acp load" => P1!NothingAskedBetweenTurns
    /\ part = "acp commands" => P2!NothingAskedBetweenTurns
    /\ part = "agy turns" => Y1!TurnsEndOnceInOrder
    /\ part = "agy hooks" => Y2!TurnsEndOnceInOrder /\ Y2!CardsCloseWithTurn
    /\ part = "claude" => L1!AnsweredOnce /\ L1!ExitReported /\ L1!InterruptedSaysSo

\* The session shows what the agent said and did: a message reaches it once, each call is shown
\* once and before its result, streamed text is kept, what is replayed at a resume is not shown.
ShownAsSaid ==
    /\ part = "codex" => X1!CallsShownOnce /\ X1!MessageReachesCodexOnce
    /\ part = "two requests" => X3!CallsShownOnce
    /\ part = "codex timeout" => X2!CallsShownOnce
    /\ part = "acp load" => P1!StreamedTextIsSaid /\ P1!ReplayDropped
    /\ part = "acp commands" => P2!StreamedTextIsSaid
    /\ part = "agy turns" => Y1!ResultsFollowCalls /\ Y1!ChangesAllowedByUser
    /\ part = "agy hooks" => Y2!ResultsFollowCalls /\ Y2!ChangesAllowedByUser

\* Output, files and streams arrive whole and in order, whatever stops in between.
BytesWhole ==
    /\ part = "jobs" => J1!OutputComplete /\ J1!EventsOnceInOrder
    /\ part = "commands" => J2!OutputComplete /\ J2!EventsOnceInOrder
    /\ part = "files" => N1!ReadWhole /\ N1!NoTempLeft
    /\ part = "one file" => N3!ReadWhole /\ N3!NoTempLeft
    /\ part = "shim" => S!StderrWhole /\ S!CwdFollows /\ S!CommandsRead
    /\ part = "relay" => R1!LinesWhole
    /\ part = "one request" => R2!LinesWhole /\ R2!AnswersArrive
    /\ part = "egress" => E!DownloadWhole /\ E!DestinationsAsSaid

\* A node's file changes only as the operation that was checked: a guarded write replaces what its
\* caller saw and a rename nothing.
FilesChangeAsChecked ==
    [][/\ part = "files" => N1!GuardedWriteExact /\ N1!RenameKeepsTarget
       /\ part = "one file" => N3!GuardedWriteExact]_vars

\* Terminals: viewers hold the whole screen in the owner's size, one runs per key, the dead are told.
TerminalsAgree ==
    /\ part = "viewers" => K!ScreenWhole /\ K!StateKnown /\ K!SizeOfOwner
    /\ part = "terminals" => T!OneRunningPerKey /\ T!ExitedIsDead

\* Only devices of the table are admitted, a revoked one is cut off, and a node's own registration
\* is kept and given up as the hub has it; the dialer keeps the latest connection.
DevicesAdmitted ==
    /\ part = "gate" => G1!GateIsTable /\ G1!RevokedIsCut
    /\ part = "two operations" => G2!GateIsTable /\ G2!RevokedIsCut
    /\ part = "dialer" => D!LatestOpenIsCached
    /\ part = "registration" => H1!TokensKept /\ H1!WaitsForStoredLink /\ H1!RevokedWasRemoved /\ H1!RevokedIsUnused
    /\ part = "older hub" => H2!RevokedWasRemoved /\ H2!RevokedIsUnused /\ H2!ResolveTokenIsCurrent
    /\ part = "overlapping" => H3!TokensKept /\ H3!RevokedWasRemoved
===============================================================================
