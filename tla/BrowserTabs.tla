---------------------------- MODULE BrowserTabs ----------------------------
(* The driver of one Chrome (server/src/browser/instance.rs, drive_inner):     *)
(* it keeps one tab attached for streaming and input, follows the tab the      *)
(* user selected or the newest one, and casts the screen while anyone watches. *)
(* Tabs open and close in Chrome at any time; the driver hears of it through   *)
(* a bounded queue of events, which frames and other events overrun, and acts  *)
(* through calls that can fail, or meet a tab already gone.                    *)
EXTENDS Naturals, Sequences, FiniteSets

CONSTANTS MaxTab,     \* tabs that are ever opened
          MaxSelect,  \* selections by the user
          MaxView,    \* viewers that join
          MaxMiss,    \* events that are overrun before the driver reads them
          MaxFault    \* calls to Chrome that fail or time out

VARIABLES live,       \* Chrome's tabs, numbered in the order they were opened
          opened, events, casting,
          pc, tabs, page,              \* the driver: the tabs it knows, the tab it is attached to
          follow, followNews,          \* the tab selected, or 0; a selection not seen yet
          viewers, want, used,
          unsure                       \* history: tabs of which an event was missed, or whose attach failed

vars == <<live, opened, events, casting, pc, tabs, page, follow, followNews, viewers, want, used, unsure>>
chromeSide == <<live, opened>>

Tab == 1..MaxTab

TypeOK ==
  /\ live \subseteq Tab /\ opened \in 0..MaxTab /\ casting \in BOOLEAN
  /\ pc \in {"start", "list", "pick", "create", "attach", "attached", "ended"}
  /\ page \in 0..MaxTab /\ follow \in 0..MaxTab /\ followNews \in BOOLEAN
  /\ viewers \in 0..MaxView /\ want \in BOOLEAN
  /\ \A i \in DOMAIN tabs : tabs[i] \in Tab
  /\ unsure \subseteq Tab

Init ==
  /\ live = {1} /\ opened = 1 /\ events = <<>> /\ casting = FALSE
  /\ pc = "start" /\ tabs = <<>> /\ page = 0
  /\ follow = 0 /\ followNews = FALSE /\ viewers = 0 /\ want = FALSE
  /\ used = [select |-> 0, view |-> 0, miss |-> 0, fault |-> 0] /\ unsure = {}

Has(s, x) == \E i \in DOMAIN s : s[i] = x
Without(s, x) == SelectSeq(s, LAMBDA y : y # x)
Newest(s) == IF s = <<>> THEN 0 ELSE s[Len(s)]
Spend(k, n) == used[k] < n /\ used' = [used EXCEPT ![k] = @ + 1]

-----------------------------------------------------------------------------
(* Chrome (external) and the viewers                                           *)

\* Events are sent once the driver has asked to discover targets.
Tell(k, t) == events' = IF pc = "start" THEN events ELSE Append(events, [k |-> k, t |-> t])

OpenTab ==
  /\ opened < MaxTab
  /\ opened' = opened + 1 /\ live' = live \cup {opened + 1}
  /\ Tell("created", opened + 1)
  /\ UNCHANGED <<casting, pc, tabs, page, follow, followNews, viewers, want, used, unsure>>

CloseTab(t) ==
  /\ t \in live
  /\ live' = live \ {t}
  /\ Tell("destroyed", t)
  /\ casting' = (casting /\ page # t)
  /\ UNCHANGED <<opened, pc, tabs, page, follow, followNews, viewers, want, used, unsure>>

\* While the driver waits for a call, frames and other events push the oldest one out of its queue.
Overrun ==
  /\ pc # "ended" /\ events # <<>> /\ Spend("miss", MaxMiss)
  /\ events' = Tail(events) /\ unsure' = unsure \cup {Head(events).t}
  /\ UNCHANGED <<live, opened, casting, pc, tabs, page, follow, followNews, viewers, want>>

\* The user selects a tab that was listed, or none.
Select(t) ==
  /\ t = 0 \/ Has(tabs, t)
  /\ Spend("select", MaxSelect)
  /\ follow' = t /\ followNews' = TRUE
  /\ UNCHANGED <<live, opened, events, casting, pc, tabs, page, viewers, want, unsure>>

Join ==
  /\ Spend("view", MaxView)
  /\ viewers' = viewers + 1
  /\ UNCHANGED <<live, opened, events, casting, pc, tabs, page, follow, followNews, want, unsure>>

Leave ==
  /\ viewers > 0
  /\ viewers' = viewers - 1
  /\ UNCHANGED <<live, opened, events, casting, pc, tabs, page, follow, followNews, want, used, unsure>>

-----------------------------------------------------------------------------
(* The driver                                                                  *)

Discover ==
  /\ pc = "start"
  /\ pc' = "list"
  /\ UNCHANGED <<live, opened, events, casting, tabs, page, follow, followNews, viewers, want, used, unsure>>

\* The tabs there are, newest last.
GetTargets ==
  /\ pc = "list"
  /\ tabs' = SelectSeq([i \in 1..opened |-> i], LAMBDA t : t \in live)
  /\ pc' = "pick"
  /\ UNCHANGED <<live, opened, events, casting, page, follow, followNews, viewers, want, used, unsure>>

\* The selected tab if it is still there, else the newest, else a new one.
Pick ==
  /\ pc = "pick"
  /\ followNews' = FALSE
  /\ LET t == IF follow # 0 /\ Has(tabs, follow) THEN follow ELSE Newest(tabs)
     IN page' = t /\ pc' = IF t = 0 THEN "create" ELSE "attach"
  /\ UNCHANGED <<live, opened, events, casting, tabs, follow, viewers, want, used, unsure>>

CreateTarget ==
  /\ pc = "create" /\ opened < MaxTab
  /\ opened' = opened + 1 /\ live' = live \cup {opened + 1}
  /\ Tell("created", opened + 1)
  /\ tabs' = Append(tabs, opened + 1) /\ page' = opened + 1
  /\ pc' = "attach"
  /\ UNCHANGED <<casting, follow, followNews, viewers, want, used, unsure>>

\* A tab that is gone by then, or cannot be attached in time, is forgotten, and another one picked.
Attach ==
  /\ pc = "attach"
  /\ \/ page \in live /\ pc' = "attached" /\ UNCHANGED <<tabs, page, used, unsure>>
     \/ /\ pc' = "pick" /\ tabs' = Without(tabs, page) /\ page' = 0
        /\ \/ page \notin live /\ UNCHANGED <<used, unsure>>
           \/ page \in live /\ Spend("fault", MaxFault) /\ unsure' = unsure \cup {page}
  /\ want' = FALSE /\ casting' = FALSE
  /\ UNCHANGED <<live, opened, events, follow, followNews, viewers>>

\* Any other call of the driver that fails ends it, with Chrome still running.
DriverFails ==
  /\ pc \in {"start", "list", "create"} /\ Spend("fault", MaxFault)
  /\ pc' = "ended"
  /\ UNCHANGED <<live, opened, events, casting, tabs, page, follow, followNews, viewers, want, unsure>>

\* The screencast is started for the first viewer and stopped after the last.
Cast ==
  /\ pc = "attached" /\ want # (viewers > 0)
  /\ want' = (viewers > 0)
  /\ casting' = (viewers > 0 /\ page \in live)
  /\ UNCHANGED <<live, opened, events, pc, tabs, page, follow, followNews, viewers, used, unsure>>

\* Leaving the tab: detached when it is still there.
Leaves == pc' = "pick" /\ page' = 0 /\ casting' = FALSE /\ want' = FALSE
Stays == UNCHANGED <<pc, page, casting, want>>

FollowChanged ==
  /\ pc = "attached" /\ followNews
  /\ followNews' = FALSE
  /\ IF (follow # 0 /\ follow # page) \/ (follow = 0 /\ Newest(tabs) # page) THEN Leaves ELSE Stays
  /\ UNCHANGED <<live, opened, events, tabs, follow, viewers, used, unsure>>

\* A new tab is followed when none is selected.
TargetCreated(t) ==
  /\ tabs' = IF Has(tabs, t) THEN tabs ELSE Append(tabs, t)
  /\ IF ~Has(tabs, t) /\ follow = 0 THEN Leaves ELSE Stays

TargetDestroyed(t) ==
  /\ tabs' = Without(tabs, t)
  /\ IF t = page THEN Leaves ELSE Stays

Event ==
  /\ pc = "attached" /\ events # <<>>
  /\ events' = Tail(events)
  /\ IF Head(events).k = "created" THEN TargetCreated(Head(events).t) ELSE TargetDestroyed(Head(events).t)
  /\ UNCHANGED <<live, opened, follow, followNews, viewers, used, unsure>>

Next ==
  \/ OpenTab \/ Join \/ Leave \/ (\E t \in Tab : CloseTab(t)) \/ (\E t \in 0..opened : Select(t))
  \/ Discover \/ GetTargets \/ Pick \/ CreateTarget \/ Attach \/ DriverFails \/ Overrun
  \/ Cast \/ FollowChanged \/ Event

Spec == Init /\ [][Next]_vars

-----------------------------------------------------------------------------
Quiet == pc = "attached" /\ events = <<>> /\ ~followNews /\ want = (viewers > 0)

\* With nothing left to hear, the driver lists the tabs Chrome has, and is attached to the one
\* selected while that exists, or to the one it heard of last when none is selected. Of a tab whose
\* event was overrun, or which could not be attached, it knows nothing more; that changes neither
\* what it knows of the others nor that it follows a selected one of those.
FollowsSelection ==
  Quiet => /\ \A t \in Tab \ unsure : Has(tabs, t) <=> t \in live
           /\ Has(tabs, page) /\ (page \in live \/ page \in unsure)
           /\ follow \in live \ unsure => page = follow
           /\ follow = 0 => page = Newest(tabs)

\* The screen of the tab it is attached to is cast exactly while somebody watches.
CastsForViewers == Quiet /\ page \in live => (casting <=> viewers > 0)

=============================================================================
