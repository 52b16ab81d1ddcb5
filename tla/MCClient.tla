------------------------------- MODULE MCClient -------------------------------
(* Model checking the clients: the connection of a client to the server and    *)
(* what it shows of a session, the app's composer, mentions and launcher, the  *)
(* editor's documents, bridges, connection and calls, and tabs that move to    *)
(* windows. They share no state, so a behaviour of this module is one of one   *)
(* instance of one of them (`part').                                           *)
EXTENDS Naturals, Sequences, FiniteSets

CONSTANTS None  \* model values

VARIABLES part,  \* the instance this behaviour is of
          v1, v2, v3, v4, v5, v6, v7, v8, v9, v10, v11, v12, v13, v14, v15, v16, v17, v18, v19,
          v20  \* its variables

\* The mention tokens of the two sessions; two titles of which one begins like the other.
Ids == [s \in {"s1", "s2"} |-> IF s = "s1" THEN <<"1", "1", "1", "1">> ELSE <<"1", "1", "2", "2">>]
Titles == {<<"a">>, <<"b">>, <<"a", " ", "b">>}

\* Texts of one and two lines, and what edits insert.
Docs == {<<<<"w">>, <<"x">>>>, <<<<"x", "w">>>>, <<<<>>, <<"w">>>>}
Texts == {<<<<>>>>, <<<<"y">>>>, <<<<"y">>, <<>>>>}

C1 == INSTANCE ClientSync WITH Buffer <- 1, MaxSeq <- 1, MaxMeta <- 1, MaxProj <- 1, MaxView <- 1,
         MaxDrop <- 1, MaxFail <- 0, MaxPause <- 0, MaxRestart <- 0, srv <- v1, mode <- v2, news <- v3,
         loop <- v4, permit <- v5, sock <- v6, want <- v7, work <- v8, rec <- v9, seen <- v10, based <- v11,
         proj <- v12, open <- v13, tr <- v14, held <- v15, dirty <- v16, saving <- v17, cache <- v18,
         used <- v19, viewed <- v20
C2 == INSTANCE ClientSync WITH Buffer <- 1, MaxSeq <- 1, MaxMeta <- 0, MaxProj <- 0, MaxView <- 1,
         MaxDrop <- 1, MaxFail <- 1, MaxPause <- 1, MaxRestart <- 0, srv <- v1, mode <- v2, news <- v3,
         loop <- v4, permit <- v5, sock <- v6, want <- v7, work <- v8, rec <- v9, seen <- v10, based <- v11,
         proj <- v12, open <- v13, tr <- v14, held <- v15, dirty <- v16, saving <- v17, cache <- v18,
         used <- v19, viewed <- v20
C3 == INSTANCE ClientSync WITH Buffer <- 2, MaxSeq <- 2, MaxMeta <- 0, MaxProj <- 0, MaxView <- 1,
         MaxDrop <- 0, MaxFail <- 0, MaxPause <- 0, MaxRestart <- 1, srv <- v1, mode <- v2, news <- v3,
         loop <- v4, permit <- v5, sock <- v6, want <- v7, work <- v8, rec <- v9, seen <- v10, based <- v11,
         proj <- v12, open <- v13, tr <- v14, held <- v15, dirty <- v16, saving <- v17, cache <- v18,
         used <- v19, viewed <- v20

T == INSTANCE Transcript WITH Call <- {"c1"}, Approval <- {"a1"}, MaxLog <- 5, log <- v1, items <- v2,
         streaming <- v3, toolIndex <- v4, approvalIndex <- v5

B == INSTANCE Outbox WITH Buffer <- 2, MaxType <- 2, MaxForeign <- 1, MaxOther <- 1, MaxFetch <- 1, MaxFail <- 1,
                          MaxLost <- 0, srv <- v1, log <- v2, feed <- v3, view <- v4, chan <- v5,
                          missed <- v6, rev <- v7, lagged <- v8, drive <- v9, queue <- v10, flight <- v11,
                          posts <- v12, typed <- v13, cleared <- v14, used <- v15
B2 == INSTANCE Outbox WITH Buffer <- 2, MaxType <- 1, MaxForeign <- 0, MaxOther <- 0, MaxFetch <- 1, MaxFail <- 1,
                           MaxLost <- 1, srv <- v1, log <- v2, feed <- v3, view <- v4, chan <- v5,
                           missed <- v6, rev <- v7, lagged <- v8, drive <- v9, queue <- v10, flight <- v11,
                           posts <- v12, typed <- v13, cleared <- v14, used <- v15

M == INSTANCE Mentions WITH Session <- {"s1", "s2"}, Id <- Ids, Titles <- Titles,
                            Alphabet <- {"a", "b", " "}, MaxLen <- 5, MaxPick <- 1, title <- v1, all <- v2,
                            draft <- v3, picks <- v4, sent <- v5

A == INSTANCE Launcher WITH Session <- {"s", "t"}, Shown <- 1..2, Buffer <- 2, MaxChange <- 3,
                            MaxDelta <- 2, view <- v1, due <- v2, chan <- v3, missed <- v4, rev <- v5,
                            lagged <- v6, prints <- v7, dirty <- v8, drawn <- v9, back <- v10, count <- v11

E1 == INSTANCE EditorDoc WITH MaxEdit <- 2, MaxSave <- 1, MaxExternal <- 1, MaxLost <- 0, MaxOpen <- 2,
         MaxTryOpen <- 0, doc <- v1, opening <- v2, ehOnly <- v3, nextGen <- v4, host <- v5, widget <- v6,
         events <- v7, updates <- v8, desync <- v9, disk <- v10, tasks <- v11, changed <- v12, last <- v13,
         past <- v14, count <- v15
E2 == INSTANCE EditorDoc WITH MaxEdit <- 2, MaxSave <- 1, MaxExternal <- 0, MaxLost <- 1, MaxOpen <- 2,
         MaxTryOpen <- 1, doc <- v1, opening <- v2, ehOnly <- v3, nextGen <- v4, host <- v5, widget <- v6,
         events <- v7, updates <- v8, desync <- v9, disk <- v10, tasks <- v11, changed <- v12, last <- v13,
         past <- v14, count <- v15

I1 == INSTANCE EditorBridges WITH LensHandle <- <<"l1">>, InlineHandle <- <<"p1">>, HoverHandle <- <<>>,
         MaxToken <- 3, MaxChange <- 2, core <- v1, net <- v2, reg <- v3, gone <- v4, got <- v5, count <- v6
I2 == INSTANCE EditorBridges WITH LensHandle <- <<"l1">>, InlineHandle <- <<>>, HoverHandle <- <<"v1">>,
         MaxToken <- 3, MaxChange <- 3, core <- v1, net <- v2, reg <- v3, gone <- v4, got <- v5, count <- v6
I3 == INSTANCE EditorBridges WITH LensHandle <- <<>>, InlineHandle <- <<"p1", "p2">>, HoverHandle <- <<>>,
         MaxToken <- 4, MaxChange <- 1, core <- v1, net <- v2, reg <- v3, gone <- v4, got <- v5, count <- v6

D == INSTANCE DocText WITH Docs <- Docs, Texts <- Texts, MaxEdits <- 2, MaxOp <- 1, lines <- v1, eol <- v2,
                           version <- v3, dirty <- v4, copy <- v5, ops <- v6

N == INSTANCE EditorConn WITH Sender <- {"a", "b"}, MaxSend <- 2, MaxPeer <- 0, MaxLoss <- 1, MaxPause <- 1,
         us <- v1, peer <- v2, pend <- v3, tx <- v4, rx <- v5, cut <- v6, gen <- v7, pgen <- v8,
         phase <- v9, ctl <- v10, lost <- v11, pauses <- v12
N2 == INSTANCE EditorConn WITH Sender <- {"a"}, MaxSend <- 1, MaxPeer <- 1, MaxLoss <- 1, MaxPause <- 1,
         us <- v1, peer <- v2, pend <- v3, tx <- v4, rx <- v5, cut <- v6, gen <- v7, pgen <- v8,
         phase <- v9, ctl <- v10, lost <- v11, pauses <- v12

R == INSTANCE EditorRpc WITH Call <- {"c1", "c2"}, Fired <- {"c2"}, Cancelled <- {"c1"}, Request <- {"r"},
                             MaxDisconnect <- 1, boot <- v1, call <- v2, pending <- v3, task <- v4,
                             event <- v5, answered <- v6, toHost <- v7, toUs <- v8, got <- v9, req <- v10

X1 == INSTANCE Detach WITH Native <- FALSE, MaxDrag <- 2, MaxEdit <- 1, LateEdit <- FALSE, MaxFail <- 0,
                           MaxBlock <- 1, Skewed <- FALSE, pointer <- v1, drag <- v2, tab <- v3,
                           toasts <- v4, wire <- v5, windows <- v6, vs <- v7, drags <- v8, edits <- v9,
                           fails <- v10, blocks <- v11, done <- v12
X2 == INSTANCE Detach WITH Native <- TRUE, MaxDrag <- 2, MaxEdit <- 1, LateEdit <- FALSE, MaxFail <- 0,
                           MaxBlock <- 0, Skewed <- FALSE, pointer <- v1, drag <- v2, tab <- v3,
                           toasts <- v4, wire <- v5, windows <- v6, vs <- v7, drags <- v8, edits <- v9,
                           fails <- v10, blocks <- v11, done <- v12
X3 == INSTANCE Detach WITH Native <- TRUE, MaxDrag <- 2, MaxEdit <- 1, LateEdit <- TRUE, MaxFail <- 1,
                           MaxBlock <- 0, Skewed <- TRUE, pointer <- v1, drag <- v2, tab <- v3,
                           toasts <- v4, wire <- v5, windows <- v6, vs <- v7, drags <- v8, edits <- v9,
                           fails <- v10, blocks <- v11, done <- v12

\* An instance with n variables leaves those after vn alone (Offn; Keepn of its steps).
Off20 == TRUE
Off19 == v20 = None
Off18 == v19 = None /\ Off19
Off17 == v18 = None /\ Off18
Off16 == v17 = None /\ Off17
Off15 == v16 = None /\ Off16
Off14 == v15 = None /\ Off15
Off13 == v14 = None /\ Off14
Off12 == v13 = None /\ Off13
Off11 == v12 = None /\ Off12
Off10 == v11 = None /\ Off11
Off9 == v10 = None /\ Off10
Off8 == v9 = None /\ Off9
Off7 == v8 = None /\ Off8
Off6 == v7 = None /\ Off7
Off5 == v6 = None /\ Off6

Keep20 == UNCHANGED part
Keep19 == UNCHANGED v20 /\ Keep20
Keep18 == UNCHANGED v19 /\ Keep19
Keep17 == UNCHANGED v18 /\ Keep18
Keep16 == UNCHANGED v17 /\ Keep17
Keep15 == UNCHANGED v16 /\ Keep16
Keep14 == UNCHANGED v15 /\ Keep15
Keep13 == UNCHANGED v14 /\ Keep14
Keep12 == UNCHANGED v13 /\ Keep13
Keep11 == UNCHANGED v12 /\ Keep12
Keep10 == UNCHANGED v11 /\ Keep11
Keep9 == UNCHANGED v10 /\ Keep10
Keep8 == UNCHANGED v9 /\ Keep9
Keep7 == UNCHANGED v8 /\ Keep8
Keep6 == UNCHANGED v7 /\ Keep7
Keep5 == UNCHANGED v6 /\ Keep6

Init ==
    \/ part = "pushes" /\ C1!Init /\ Off20
    \/ part = "pauses" /\ C2!Init /\ Off20
    \/ part = "restarts" /\ C3!Init /\ Off20
    \/ part = "transcript" /\ T!Init /\ Off5
    \/ part = "outbox" /\ B!Init /\ Off15
    \/ part = "lost answers" /\ B2!Init /\ Off15
    \/ part = "mentions" /\ M!Init /\ Off5
    \/ part = "launcher" /\ A!Init /\ Off11
    \/ part = "document" /\ E1!Init /\ Off15
    \/ part = "lost updates" /\ E2!Init /\ Off15
    \/ part = "lenses" /\ I1!Init /\ Off6
    \/ part = "hover" /\ I2!Init /\ Off6
    \/ part = "inline" /\ I3!Init /\ Off6
    \/ part = "text" /\ D!Init /\ Off6
    \/ part = "connection" /\ N!Init /\ Off12
    \/ part = "both ways" /\ N2!Init /\ Off12
    \/ part = "calls" /\ R!Init /\ Off10
    \/ part = "tabs" /\ X1!Init /\ Off12
    \/ part = "native tabs" /\ X2!Init /\ Off12
    \/ part = "host fails" /\ X3!Init /\ Off12

Next ==
    \/ part = "pushes" /\ C1!Next /\ Keep20
    \/ part = "pauses" /\ C2!Next /\ Keep20
    \/ part = "restarts" /\ C3!Next /\ Keep20
    \/ part = "transcript" /\ T!Next /\ Keep5
    \/ part = "outbox" /\ B!Next /\ Keep15
    \/ part = "lost answers" /\ B2!Next /\ Keep15
    \/ part = "mentions" /\ M!Next /\ Keep5
    \/ part = "launcher" /\ A!Next /\ Keep11
    \/ part = "document" /\ E1!Next /\ Keep15
    \/ part = "lost updates" /\ E2!Next /\ Keep15
    \/ part = "lenses" /\ I1!Next /\ Keep6
    \/ part = "hover" /\ I2!Next /\ Keep6
    \/ part = "inline" /\ I3!Next /\ Keep6
    \/ part = "text" /\ D!Next /\ Keep6
    \/ part = "connection" /\ N!Next /\ Keep12
    \/ part = "both ways" /\ N2!Next /\ Keep12
    \/ part = "calls" /\ R!Next /\ Keep10
    \/ part = "tabs" /\ X1!Next /\ Keep12
    \/ part = "native tabs" /\ X2!Next /\ Keep12
    \/ part = "host fails" /\ X3!Next /\ Keep12

vars == <<part, v1, v2, v3, v4, v5, v6, v7, v8, v9, v10, v11, v12, v13, v14, v15, v16, v17, v18, v19, v20>>
Spec == Init /\ [][Next]_vars
-------------------------------------------------------------------------------
(* What is checked: the properties of the modules, each of its own instance.   *)

\* The types of every module's state.
TypeOK ==
    /\ part = "pushes" => C1!TypeOK
    /\ part = "pauses" => C2!TypeOK
    /\ part = "restarts" => C3!TypeOK
    /\ part = "transcript" => T!TypeOK
    /\ part = "outbox" => B!TypeOK
    /\ part = "lost answers" => B2!TypeOK
    /\ part = "mentions" => M!TypeOK
    /\ part = "launcher" => A!TypeOK
    /\ part = "document" => E1!TypeOK
    /\ part = "lost updates" => E2!TypeOK
    /\ part = "lenses" => I1!TypeOK
    /\ part = "hover" => I2!TypeOK
    /\ part = "inline" => I3!TypeOK
    /\ part = "connection" => N!TypeOK
    /\ part = "both ways" => N2!TypeOK
    /\ part = "calls" => R!TypeOK
    /\ part = "tabs" => X1!TypeOK
    /\ part = "native tabs" => X2!TypeOK
    /\ part = "host fails" => X3!TypeOK

\* A client shows the server's sessions whole: an opened transcript has every event, the list every
\* session, an unread mark stays until it is viewed; text is shown once and with its results.
ClientIsComplete ==
    /\ part = "pushes" => C1!OpenIsComplete /\ C1!ListIsComplete /\ C1!UnreadIsKept
    /\ part = "pauses" => C2!OpenIsComplete /\ C2!ListIsComplete /\ C2!UnreadIsKept
    /\ part = "restarts" => C3!OpenIsComplete /\ C3!ListIsComplete /\ C3!UnreadIsKept
    /\ part = "transcript" => T!TextShownOnce /\ T!ResultsShown /\ T!AnswerableIsPending

\* What the user types is recorded once and not lost, picked names reach the server as mentions,
\* and the launcher shows the sessions as they are (but one whose display came back unseen).
AppKeepsWhatIsTyped ==
    /\ part = "outbox" => B!TypedIsKept /\ B!RecordedOnce
    /\ part = "lost answers" => B2!TypedIsKept
    /\ part = "mentions" => M!PickedAreMentioned
    /\ part = "launcher" => A!LauncherIsCurrent

\* The extension host, the widget and the session hold the same text once what is under way has
\* arrived, a document counts as clean only with a text its file has held, and every offset, edit,
\* decoration, ghost text and snippet means the same in it.
EditorAgrees ==
    /\ part = "document" => E1!HostAgrees /\ E1!WidgetAgrees /\ E1!CleanWasSaved
    /\ part = "lost updates" => E2!HostAgrees /\ E2!WidgetAgrees /\ E2!CleanWasSaved
    /\ part = "text" => D!CopyIsText /\ D!EditsMeanPreEdit /\ D!DecorationsFollow
                        /\ D!GhostMeansItem /\ D!SnippetReads
    /\ part = "lenses" => I1!ShownNotFreed /\ I1!HoverWaitsForItsCalls /\ I1!CommandsFitLens
    /\ part = "hover" => I2!ShownNotFreed /\ I2!HoverWaitsForItsCalls
    /\ part = "inline" => I3!ShownNotFreed /\ I3!HoverWaitsForItsCalls

\* A change of the text takes a new version, and no answer is shown for another text than its own.
AnswersFitVersions ==
    [][/\ part = "document" => E1!VersionsGrow
       /\ part = "lost updates" => E2!VersionsGrow
       /\ part = "lenses" => I1!AnswersFitText
       /\ part = "hover" => I2!AnswersFitText
       /\ part = "inline" => I3!AnswersFitText]_vars

\* What was sent and not acknowledged is kept for the next connection, and a reply meets its call.
EditorCallsMeet ==
    /\ part = "connection" => N!UndeliveredIsKept
    /\ part = "both ways" => N2!UndeliveredIsKept
    /\ part = "calls" => R!RepliesMeetTheirCall /\ R!AcknowledgedFirst /\ R!CodecExact

\* A tab dragged out becomes a window or stays, and VS Code does not move it as well: lost only to a
\* host that opened no window, in two windows only after a drag that ended without coordinates.
TabsMoveWhole ==
    /\ part = "tabs" => X1!DetachIsOfThisDrag /\ X1!NeverBoth /\ X1!DirtyNeverDetached /\
                        X1!TabNotLost
    /\ part = "native tabs" => X2!DetachIsOfThisDrag /\ X2!NeverBoth /\ X2!DirtyNeverDetached /\
         X2!TabNotLost
    /\ part = "host fails" => X3!DetachIsOfThisDrag /\ X3!NeverBoth /\ X3!TabNotLost
===============================================================================
