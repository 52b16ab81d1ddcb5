------------------------------- MODULE MCServer -------------------------------
(* Model checking the services of the main server that keep their own state   *)
(* beside the sessions: A2A's limits, teams, computers and mounts, ChatGPT     *)
(* sign-ins, accounts, MCP servers, browsers and the link to the hub. They     *)
(* share no state, so a behaviour of this module is one of one instance of     *)
(* one of them (`part'), and the instances take turns with v1, v2, ...         *)
EXTENDS Naturals, Sequences, FiniteSets

CONSTANTS None  \* model values

VARIABLES part,  \* the instance this behaviour is of
          v1, v2, v3, v4, v5, v6, v7, v8, v9, v10, v11, v12, v13, v14, v15, v16, v17, v18, v19, v20,
          v21, v22, v23  \* its variables

\* The project of s1 contains that of s2.
Cwd == [s \in {"s1", "s2"} |-> IF s = "s1" THEN "pa" ELSE "pb"]
Under == {<<"pa", "pa">>, <<"pb", "pb">>, <<"pb", "pa">>}

\* A mount with two files in its root.
Flat == {<<>>, <<"a">>, <<"b">>}

\* Names without their case: "na" and "nA" differ in nothing else.
Lower == [n \in {"lead", "na", "nA"} |-> IF n = "nA" THEN "na" ELSE n]

A == INSTANCE A2A WITH Session <- {"a", "b"}, Sender <- {"k1", "k2"}, Flusher <- {}, PerSession <- 2,
                       PerPair <- 1, PushCap <- 1, Faults <- {}, Target <- {"a", "b"}, MaxMsg <- 3,
                       MaxAge <- 1, MaxUser <- 0, MaxMention <- 1, MaxNotice <- 1, MaxToggle <- 1,
                       MaxFault <- 0, MaxRestart <- 0, msgs <- v1, delivered <- v2, off <- v3, log <- v4,
                       status <- v5, aged <- v6, snd <- v7, sendLock <- v8, want <- v9, fl <- v10,
                       flushLock <- v11, awaiting <- v12, pushes <- v13, lagged <- v14, owed <- v15,
                       user <- v16, chan <- v17, agent <- v18, inbox <- v19, active <- v20, working <- v21,
                       got <- v22, count <- v23

T1 == INSTANCE Teams WITH Leader <- {"l1"}, Mate <- {"s1", "s2"}, Name <- {"na", "nA"}, Lower <- Lower,
                          Request <- {"r1", "r2"}, MaxTeammates <- 2, SpawnRate <- 3, MailPage <- 1,
                          MaxRequest <- 4, MaxTask <- 1,
                          MaxMail <- 0, MaxRead <- 0, led <- v1, row <- v2, made <- v3, archived <- v4,
                          agent <- v5, notices <- v6, tasks <- v7, mail <- v8, msgs <- v9, box <- v10,
                          req <- v11, count <- v12
T2 == INSTANCE Teams WITH Leader <- {"l1", "l2"}, Mate <- {"s1", "s2"}, Name <- {"na"}, Lower <- Lower,
                          Request <- {"r1", "r2"}, MaxTeammates <- 2, SpawnRate <- 3, MailPage <- 1,
                          MaxRequest <- 4, MaxTask <- 0, MaxMail <- 1, MaxRead <- 0, led <- v1, row <- v2,
                          made <- v3, archived <- v4, agent <- v5, notices <- v6, tasks <- v7, mail <- v8,
                          msgs <- v9, box <- v10, req <- v11, count <- v12
T3 == INSTANCE Teams WITH Leader <- {"l1"}, Mate <- {"s1"}, Name <- {"na"}, Lower <- Lower, Request <- {"r1", "r2"},
                          MaxTeammates <- 2, SpawnRate <- 3, MailPage <- 1, MaxRequest <- 4, MaxTask <- 0,
                          MaxMail <- 3, MaxRead <- 2, led <- v1, row <- v2, made <- v3, archived <- v4,
                          agent <- v5, notices <- v6, tasks <- v7, mail <- v8, msgs <- v9, box <- v10,
                          req <- v11, count <- v12

C1 == INSTANCE Computers WITH Session <- {"s1", "s2"}, Computer <- {"c1", "c2"}, Path <- {"pa", "pb"},
         Local <- "local", Cwd <- Cwd, Under <- Under, Mounting <- {"s1", "s2"}, MaxSend <- 2,
         MaxSwitch <- 2, MaxRemove <- 0, MaxSweep <- 0, MaxFault <- 0, MaxEgress <- 0, MaxRestart <- 0,
         reg <- v1, rec <- v2, egress <- v3, native <- v4, busy <- v5, agent <- v6, lock <- v7, mlock <- v8,
         mounts <- v9, kernel <- v10, snd <- v11, sw <- v12, swp <- v13, bare <- v14, rm <- v15,
         count <- v16
C2 == INSTANCE Computers WITH Session <- {"s1", "s2"}, Computer <- {"c1", "c2"}, Path <- {"pa", "pb"},
         Local <- "local", Cwd <- Cwd, Under <- Under, Mounting <- {"s1"}, MaxSend <- 1, MaxSwitch <- 1,
         MaxRemove <- 1, MaxSweep <- 2, MaxFault <- 1, MaxEgress <- 1, MaxRestart <- 1, reg <- v1,
         rec <- v2, egress <- v3, native <- v4, busy <- v5, agent <- v6, lock <- v7, mlock <- v8,
         mounts <- v9, kernel <- v10, snd <- v11, sw <- v12, swp <- v13, bare <- v14, rm <- v15,
         count <- v16

F1 == INSTANCE RemoteFs WITH Caller <- {"c1", "c2"}, Path <- Flat, Ttl <- 1, Deadline <- 1, Budget <- 2,
                             MaxId <- 4, MaxOp <- 2, MaxChange <- 0, MaxNow <- 1, node <- v1, version <- v2,
                             until <- v3, fs <- v4, outage <- v5, ops <- v6, acked <- v7, now <- v8,
                             count <- v9
F3 == INSTANCE RemoteFs WITH Caller <- {"c1"}, Path <- Flat, Ttl <- 1, Deadline <- 1, Budget <- 2,
                             MaxId <- 5, MaxOp <- 3, MaxChange <- 0, MaxNow <- 1, node <- v1, version <- v2,
                             until <- v3, fs <- v4, outage <- v5, ops <- v6, acked <- v7, now <- v8,
                             count <- v9
F2 == INSTANCE RemoteFs WITH Caller <- {"c1"}, Path <- Flat, Ttl <- 1, Deadline <- 1, Budget <- 2,
                             MaxId <- 5, MaxOp <- 2, MaxChange <- 1, MaxNow <- 3, node <- v1, version <- v2,
                             until <- v3, fs <- v4, outage <- v5, ops <- v6, acked <- v7, now <- v8,
                             count <- v9

G1 == INSTANCE ChatGpt WITH Caller <- {"a", "b"}, SignIn <- {}, Reauth <- {}, Callback <- {}, MaxCall <- 3,
                            MaxExpire <- 2, MaxLost <- 1, MaxFail <- 1, row <- v1, lock <- v2, call <- v3,
                            live <- v4, used <- v5, reused <- v6, issued <- v7, pending <- v8,
                            outcome <- v9, target <- v10, cb <- v11, saved <- v12, out <- v13, panic <- v14,
                            count <- v15
G2 == INSTANCE ChatGpt WITH Caller <- {"a", "b"}, SignIn <- {"r"}, Reauth <- {"r"},
                            Callback <- {"k1", "k2"}, MaxCall <- 1, MaxExpire <- 1, MaxLost <- 0,
                            MaxFail <- 1, row <- v1, lock <- v2, call <- v3, live <- v4, used <- v5,
                            reused <- v6, issued <- v7, pending <- v8, outcome <- v9, target <- v10,
                            cb <- v11, saved <- v12, out <- v13, panic <- v14, count <- v15

U == INSTANCE Accounts WITH MaxAccount <- 2, Session <- {"s"}, Request <- {"p", "q"}, Cooldown <- 2,
                            MaxNow <- 2, MaxEvent <- 2, row <- v1, dir <- v2, sess <- v3, hook <- v4,
                            req <- v5, used <- v6, now <- v7, events <- v8

U2 == INSTANCE Accounts WITH MaxAccount <- 1, Session <- {"s", "t"}, Request <- {"p"}, Cooldown <- 2,
                             MaxNow <- 2, MaxEvent <- 3, row <- v1, dir <- v2, sess <- v3, hook <- v4,
                             req <- v5, used <- v6, now <- v7, events <- v8

M1 == INSTANCE Mcp WITH Id <- {"i", "j"}, Name <- {"m", "n"}, Var <- {"v"}, Add <- {"a", "b"},
                        Update <- {"u"}, Start <- {}, Scope <- {"all", "ours", "other"},
                        MaxDelete <- 1, rows <- v1, req <- v2, given <- v3, deletes <- v4
M2 == INSTANCE Mcp WITH Id <- {"i"}, Name <- {"m"}, Var <- {"v"}, Add <- {"a"}, Update <- {"u"},
                        Start <- {"s"}, Scope <- {"all", "ours", "other"}, MaxDelete <- 1, rows <- v1,
                        req <- v2, given <- v3, deletes <- v4
M3 == INSTANCE Mcp WITH Id <- {"i"}, Name <- {"m"}, Var <- {"v"}, Add <- {"a"}, Update <- {"u", "w"},
                        Start <- {}, Scope <- {"all", "ours"}, MaxDelete <- 0, rows <- v1, req <- v2,
                        given <- v3, deletes <- v4

B1 == INSTANCE Browser WITH Op <- {"o1", "o2", "o3"}, Agent <- {}, Egress <- {"d", "e"}, Default <- "d",
                            MaxChrome <- 2, MaxCrash <- 1, MaxTake <- 0, pc <- v1, req <- v2, mine <- v3,
                            lock <- v4, run <- v5, chrome <- v6, choice <- v7, saved <- v8, shown <- v9,
                            wiped <- v10, profile <- v11, used <- v12, takeover <- v13, relay <- v14,
                            late <- v15
B2 == INSTANCE Browser WITH Op <- {"o1"}, Agent <- {"a", "b"}, Egress <- {"d", "e"}, Default <- "d",
                            MaxChrome <- 1, MaxCrash <- 0, MaxTake <- 2, pc <- v1, req <- v2, mine <- v3,
                            lock <- v4, run <- v5, chrome <- v6, choice <- v7, saved <- v8, shown <- v9,
                            wiped <- v10, profile <- v11, used <- v12, takeover <- v13, relay <- v14,
                            late <- v15

W == INSTANCE BrowserTabs WITH MaxTab <- 3, MaxSelect <- 1, MaxView <- 2, MaxMiss <- 1,
         MaxFault <- 1, live <- v1, opened <- v2, events <- v3, casting <- v4, pc <- v5, tabs <- v6,
         page <- v7, follow <- v8, followNews <- v9, viewers <- v10, want <- v11, used <- v12,
         unsure <- v13

H1 == INSTANCE HubLink WITH Link <- {"l1"}, Overlap <- FALSE, MaxRemove <- 1, MaxCrash <- 0, MaxCancel <- 0,
                            MaxLost <- 0, MaxCheck <- 2, hub <- v1, links <- v2, late <- v3, reg <- v4,
                            row <- v5, view <- v6, handle <- v7, call <- v8, task <- v9, got <- v10,
                            copy <- v11, up <- v12, used <- v13
H2 == INSTANCE HubLink WITH Link <- {"l1", "l2"}, Overlap <- FALSE, MaxRemove <- 1, MaxCrash <- 1,
                            MaxCancel <- 0, MaxLost <- 1, MaxCheck <- 1, hub <- v1, links <- v2, late <- v3,
                            reg <- v4, row <- v5, view <- v6, handle <- v7, call <- v8, task <- v9,
                            got <- v10, copy <- v11, up <- v12, used <- v13
H3 == INSTANCE HubLink WITH Link <- {"l1"}, Overlap <- TRUE, MaxRemove <- 1, MaxCrash <- 1, MaxCancel <- 1,
                            MaxLost <- 1, MaxCheck <- 2, hub <- v1, links <- v2, late <- v3, reg <- v4,
                            row <- v5, view <- v6, handle <- v7, call <- v8, task <- v9, got <- v10,
                            copy <- v11, up <- v12, used <- v13

L1 == INSTANCE HubWatch WITH Peer <- {"p", "q"}, EarlyLimit <- 3, MaxChange <- 3, MaxFail <- 2, MaxApi <- 0,
                             kind <- v1, list <- v2, version <- v3, removed <- v4, watcher <- v5,
                             answer <- v6, pc <- v7, rows <- v8, revoked <- v9, api <- v10, fails <- v11,
                             spins <- v12
L2 == INSTANCE HubWatch WITH Peer <- {"p"}, EarlyLimit <- 3, MaxChange <- 1, MaxFail <- 0, MaxApi <- 1,
                             kind <- v1, list <- v2, version <- v3, removed <- v4, watcher <- v5,
                             answer <- v6, pc <- v7, rows <- v8, revoked <- v9, api <- v10, fails <- v11,
                             spins <- v12

\* An instance with n variables leaves those after vn alone (Offn; Keepn of its steps).
Off23 == TRUE
Off22 == v23 = None
Off21 == v22 = None /\ Off22
Off20 == v21 = None /\ Off21
Off19 == v20 = None /\ Off20
Off18 == v19 = None /\ Off19
Off17 == v18 = None /\ Off18
Off16 == v17 = None /\ Off17
Off15 == v16 = None /\ Off16
Off14 == v15 = None /\ Off15
Off13 == v14 = None /\ Off14
Off12 == v13 = None /\ Off13
Off11 == v12 = None /\ Off12
Off10 == v11 = None /\ Off11
Off9 == v10 = None /\ Off10
Off8 == v9 = None /\ Off9
Off7 == v8 = None /\ Off8
Off6 == v7 = None /\ Off7
Off5 == v6 = None /\ Off6
Off4 == v5 = None /\ Off5

Keep23 == UNCHANGED part
Keep22 == UNCHANGED v23 /\ Keep23
Keep21 == UNCHANGED v22 /\ Keep22
Keep20 == UNCHANGED v21 /\ Keep21
Keep19 == UNCHANGED v20 /\ Keep20
Keep18 == UNCHANGED v19 /\ Keep19
Keep17 == UNCHANGED v18 /\ Keep18
Keep16 == UNCHANGED v17 /\ Keep17
Keep15 == UNCHANGED v16 /\ Keep16
Keep14 == UNCHANGED v15 /\ Keep15
Keep13 == UNCHANGED v14 /\ Keep14
Keep12 == UNCHANGED v13 /\ Keep13
Keep11 == UNCHANGED v12 /\ Keep12
Keep10 == UNCHANGED v11 /\ Keep11
Keep9 == UNCHANGED v10 /\ Keep10
Keep8 == UNCHANGED v9 /\ Keep9
Keep7 == UNCHANGED v8 /\ Keep8
Keep6 == UNCHANGED v7 /\ Keep7
Keep5 == UNCHANGED v6 /\ Keep6
Keep4 == UNCHANGED v5 /\ Keep5

Init ==
    \/ part = "limits" /\ A!Init /\ Off23
    \/ part = "tasks" /\ T1!Init /\ Off12
    \/ part = "two teams" /\ T2!Init /\ Off12
    \/ part = "mail" /\ T3!Init /\ Off12
    \/ part = "switches" /\ C1!Init /\ Off16
    \/ part = "sweeps" /\ C2!Init /\ Off16
    \/ part = "two callers" /\ F1!Init /\ Off9
    \/ part = "renames" /\ F3!Init /\ Off9
    \/ part = "one caller" /\ F2!Init /\ Off9
    \/ part = "refresh" /\ G1!Init /\ Off15
    \/ part = "sign in" /\ G2!Init /\ Off15
    \/ part = "accounts" /\ U!Init /\ Off8
    \/ part = "two hooks" /\ U2!Init /\ Off8
    \/ part = "two patches" /\ M3!Init /\ Off4
    \/ part = "mcp" /\ M1!Init /\ Off4
    \/ part = "mcp start" /\ M2!Init /\ Off4
    \/ part = "chrome" /\ B1!Init /\ Off15
    \/ part = "takeover" /\ B2!Init /\ Off15
    \/ part = "tabs" /\ W!Init /\ Off13
    \/ part = "tokens" /\ H1!Init /\ Off13
    \/ part = "two links" /\ H2!Init /\ Off13
    \/ part = "cancel" /\ H3!Init /\ Off13
    \/ part = "watch" /\ L1!Init /\ Off12
    \/ part = "api" /\ L2!Init /\ Off12

Next ==
    \/ part = "limits" /\ A!Next /\ Keep23
    \/ part = "tasks" /\ T1!Next /\ Keep12
    \/ part = "two teams" /\ T2!Next /\ Keep12
    \/ part = "mail" /\ T3!Next /\ Keep12
    \/ part = "switches" /\ C1!Next /\ Keep16
    \/ part = "sweeps" /\ C2!Next /\ Keep16
    \/ part = "two callers" /\ F1!Next /\ Keep9
    \/ part = "renames" /\ F3!Next /\ Keep9
    \/ part = "one caller" /\ F2!Next /\ Keep9
    \/ part = "refresh" /\ G1!Next /\ Keep15
    \/ part = "sign in" /\ G2!Next /\ Keep15
    \/ part = "accounts" /\ U!Next /\ Keep8
    \/ part = "two hooks" /\ U2!Next /\ Keep8
    \/ part = "two patches" /\ M3!Next /\ Keep4
    \/ part = "mcp" /\ M1!Next /\ Keep4
    \/ part = "mcp start" /\ M2!Next /\ Keep4
    \/ part = "chrome" /\ B1!Next /\ Keep15
    \/ part = "takeover" /\ B2!Next /\ Keep15
    \/ part = "tabs" /\ W!Next /\ Keep13
    \/ part = "tokens" /\ H1!Next /\ Keep13
    \/ part = "two links" /\ H2!Next /\ Keep13
    \/ part = "cancel" /\ H3!Next /\ Keep13
    \/ part = "watch" /\ L1!Next /\ Keep12
    \/ part = "api" /\ L2!Next /\ Keep12

vars == <<part, v1, v2, v3, v4, v5, v6, v7, v8, v9, v10, v11, v12, v13, v14, v15, v16, v17, v18, v19, v20,
          v21, v22, v23>>
Spec == Init /\ [][Next]_vars
-------------------------------------------------------------------------------
(* What is checked: the properties of the modules, each of its own instance.   *)

\* The types of every module's state.
TypeOK ==
    /\ part = "limits" => A!TypeOK
    /\ part = "tasks" => T1!TypeOK
    /\ part = "two teams" => T2!TypeOK
    /\ part = "mail" => T3!TypeOK
    /\ part = "switches" => C1!TypeOK
    /\ part = "sweeps" => C2!TypeOK
    /\ part = "two callers" => F1!TypeOK
    /\ part = "renames" => F3!TypeOK
    /\ part = "one caller" => F2!TypeOK
    /\ part = "refresh" => G1!TypeOK
    /\ part = "sign in" => G2!TypeOK
    /\ part = "accounts" => U!TypeOK
    /\ part = "two hooks" => U2!TypeOK
    /\ part = "two patches" => M3!TypeOK
    /\ part = "mcp" => M1!TypeOK
    /\ part = "mcp start" => M2!TypeOK
    /\ part = "chrome" => B1!TypeOK
    /\ part = "takeover" => B2!TypeOK
    /\ part = "tabs" => W!TypeOK
    /\ part = "tokens" => H1!TypeOK
    /\ part = "two links" => H2!TypeOK
    /\ part = "cancel" => H3!TypeOK
    /\ part = "watch" => L1!TypeOK
    /\ part = "api" => L2!TypeOK

\* Agents talk in bounds: loop protection holds whatever order sends, mentions and switches take;
\* a name means one active member of a team, however spelled to those its spawn saw, a member
\* leaves once, messages stay inside the team, and a member that pages through its mail sees each
\* of them once.
TalkInBounds ==
    /\ part = "limits" => A!WithinLimits
    /\ part = "tasks" => T1!NamesApart /\ T1!EndedOnce /\ T1!MessagesStayInTeam /\ T1!MailReadWhole
    /\ part = "two teams" => T2!NamesApart /\ T2!EndedOnce /\ T2!MessagesStayInTeam /\
                             T2!MailReadWhole
    /\ part = "mail" => T3!NamesApart /\ T3!EndedOnce /\ T3!MessagesStayInTeam /\ T3!MailReadWhole

\* An update takes nothing that another one, or a session, holds: a task's assignment, a server's
\* unnamed fields, an account in use, a limit whose reset is known. Two updates of one server, or
\* two hooks of one account, may cross; what they may then take back is named in the properties.
UpdatesKeepTheRest ==
    [][/\ part = "tasks" => T1!AssignmentKept
       /\ part = "mcp" => M1!PatchExact
       /\ part = "two patches" => M3!PatchExact
       /\ part = "accounts" => U!SessionKeepsAccount /\ U!StructuredWins
       /\ part = "two hooks" => U2!SessionKeepsAccount /\ U2!StructuredWins]_vars

\* An agent runs on the computer its session names, its directory in a mount of that computer, and
\* no mount lies in another, however switches, sweeps and sends interleave; the last step of the
\* session's own switch alone may take the mount of an agent that was started meanwhile.
AgentsSeeTheirComputer ==
    /\ part = "switches" => C1!AgentOnItsComputer /\ C1!MountsApart /\ C1!MountOfItsComputer
    /\ part = "sweeps" => C2!AgentOnItsComputer /\ C2!MountsApart /\ C2!MountOfItsComputer

\* The mounted file system answers from caches that agree with each other and are no older than
\* their time to live; the one caller sees its own changes at once.
RemoteFilesAgree ==
    /\ part = "two callers" => F1!InodesAgree /\ F1!ContentWithinBudget
    /\ part = "one caller" => F2!InodesAgree /\ F2!ContentWithinBudget /\ F2!BoundedStaleness /\
         F2!SeesOwnChanges
    /\ part = "renames" => F3!InodesAgree /\ F3!ContentWithinBudget /\ F3!SeesOwnChanges

\* Sign-ins and names: a refresh token is presented once, the stored one is live, a waiting
\* sign-in ends with what became of it; no two MCP servers share a name.
SignInsHold ==
    /\ part = "refresh" => G1!PresentedOnce /\ G1!StoredTokenLives
    /\ part = "sign in" => G2!OutcomeTrue
    /\ part = "mcp" => M1!NamesUnique
    /\ part = "mcp start" => M2!NamesUnique


\* What the hub gave this device is stored, and the peers it names are those synchronised last.
HubIsFollowed ==
    /\ part = "tokens" => H1!TokensKept
    /\ part = "two links" => H2!ShownLinkIsStored
    /\ part = "watch" => L1!HeldMeansSynced /\ L1!NeverSpins /\ L1!RemovedAdmitsNone
===============================================================================
