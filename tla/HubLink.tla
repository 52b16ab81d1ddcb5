------------------------------ MODULE HubLink ------------------------------
(* Joining and leaving the user's hub account: the server's link flow         *)
(* (server/src/hub/mod.rs, hub/src/link.rs, the same flow in node/src/hub.rs) *)
(* against the hub's side of it (hub/src/fake.rs).                            *)
(*                                                                            *)
(* A link is created by POST, decided by the account's owner, and claimed by  *)
(* a background task that polls; the claim's answer carries the device token  *)
(* exactly once. What survives a crash is the registration row `reg' and the  *)
(* pending-link row `row'; `view' and `handle' are the in-memory LinkState.   *)
(* A call that has read the registration and awaits the hub keeps its own     *)
(* copy of it in `copy'.                                                      *)
EXTENDS Naturals

CONSTANTS Link,       \* the links that are ever created, one per start_link call
          None,
          Overlap,    \* TRUE: two start_link calls may be in flight at once
          MaxRemove,  \* removals of this device by the account's owner
          MaxCrash,   \* crashes of the server
          MaxCancel,  \* calls of cancel_link and of leave
          MaxLost,    \* answers of the hub that never arrive
          MaxCheck    \* calls of check

VARIABLES hub, links, late, reg, row, view, handle, call, task, got, copy, up, used

net  == <<hub, links, late>>
disk == <<reg, row>>
mem  == <<view, handle, call, task, got, copy, up>>
vars == <<hub, links, late, reg, row, view, handle, call, task, got, copy, up, used>>

Asker == {"publish", "check", "leave"}
Budget == [remove |-> MaxRemove, crash |-> MaxCrash, cancel |-> MaxCancel, lost |-> MaxLost, check |-> MaxCheck]
Spend(k) == used[k] < Budget[k] /\ used' = [used EXCEPT ![k] = @ + 1]

LinkState == [status : {"none", "pending", "approved", "denied", "claimed"}, readmit : BOOLEAN]
NoRegistration == [token |-> 0, revoked |-> FALSE, app |-> FALSE]

TypeOK ==
  /\ hub \in [row : {"none", "live", "removed"}, token : Nat, readmit : BOOLEAN]
  /\ links \in [Link -> LinkState]
  /\ late \subseteq Link
  /\ reg \in [token : Nat, revoked : BOOLEAN, app : BOOLEAN]
  /\ {row, view, handle} \subseteq Link \cup {None}
  /\ call \in [Link -> {"idle", "asking", "started", "following", "done"}]
  /\ task \in [Link -> {"none", "wait", "answered", "publish", "ended"}]
  /\ got \in [Link -> Nat]
  /\ copy \in [Asker -> [reg : {NoRegistration} \cup [token : Nat, revoked : BOOLEAN, app : BOOLEAN], answer : {"none", "sent", "ok", "removed", "invalid"}]]
  /\ up \in BOOLEAN

NotAsking == [reg |-> NoRegistration, answer |-> "none"]

Init ==
  /\ hub = [row |-> "none", token |-> 0, readmit |-> FALSE]
  /\ links = [l \in Link |-> [status |-> "none", readmit |-> FALSE]]
  /\ late = {} /\ reg = NoRegistration
  /\ row = None /\ view = None /\ handle = None
  /\ call = [l \in Link |-> "idle"] /\ task = [l \in Link |-> "none"] /\ got = [l \in Link |-> 0]
  /\ copy = [a \in Asker |-> NotAsking]
  /\ up = TRUE
  /\ used = [k \in DOMAIN Budget |-> 0]

Registered == reg.token > 0 /\ ~reg.revoked                  \* is_registered

-----------------------------------------------------------------------------
(* The hub.                                                                   *)

\* `principal': who a token is. A removed device's token is told apart.
Principal(t) == IF hub.token # t \/ hub.row = "none" THEN "invalid"
                ELSE IF hub.row = "live" THEN "ok" ELSE "removed"

Decide(l, status) ==
  /\ links[l].status = "pending" /\ l \notin late
  /\ links' = [links EXCEPT ![l].status = status]
  /\ UNCHANGED <<hub, late, disk, mem, used>>

Expire(l) ==
  /\ links[l].status # "none" /\ l \notin late
  /\ late' = late \cup {l}
  /\ UNCHANGED <<hub, links, disk, mem, used>>

Remove ==
  /\ hub.row = "live" /\ Spend("remove")
  /\ hub' = [hub EXCEPT !.row = "removed"]
  /\ UNCHANGED <<links, late, disk, mem>>

Readmit ==
  /\ hub.row = "removed" /\ ~hub.readmit
  /\ hub' = [hub EXCEPT !.readmit = TRUE]
  /\ UNCHANGED <<links, late, disk, mem, used>>

\* insert_device: a new device, or a re-admitted one restored, with new tokens.
InsertDevice == [row |-> "live", token |-> hub.token + 1, readmit |-> FALSE]

\* create_link: refused while the key is registered, or removed and not re-admitted.
MayCreate == hub.row = "none" \/ (hub.row = "removed" /\ hub.readmit)

\* claim_link: an approved link is spent whether or not the key may then be inserted.
MayInsert(l) == hub.row = "none" \/ (hub.row = "removed" /\ links[l].readmit)

-----------------------------------------------------------------------------
(* start_link and follow_link.                                                *)

\* A link in progress is returned as it is.
InProgress == view # None /\ view \notin late

StartLink(l) ==
  /\ up /\ call[l] = "idle" /\ ~Registered /\ ~InProgress
  /\ Overlap \/ \A k \in Link : call[k] \in {"idle", "done"}
  /\ call' = [call EXCEPT ![l] = "asking"]
  /\ UNCHANGED <<net, disk, view, handle, task, got, copy, up, used>>

CreateLink(l) ==
  /\ call[l] = "asking"
  /\ IF MayCreate
     THEN /\ links' = [links EXCEPT ![l] = [status |-> "pending", readmit |-> hub.row = "removed"]]
          /\ call' = [call EXCEPT ![l] = "started"]
     ELSE call' = [call EXCEPT ![l] = "done"] /\ UNCHANGED links
  /\ UNCHANGED <<hub, late, disk, view, handle, task, got, copy, up, used>>

\* The task behind the handle is aborted where it awaits.
Aborted == IF handle = None THEN task ELSE [task EXCEPT ![handle] = "ended"]

\* The pending row lets a restarted server go on with the link; it is one row, saved and cleared.
SavePendingLink(l) == row' = l
ClearPendingLink == row' = None

Follow(l) ==
  /\ call[l] = "started"
  /\ SavePendingLink(l) /\ view' = l /\ handle' = None
  /\ task' = [Aborted EXCEPT ![l] = "wait"]
  /\ call' = [call EXCEPT ![l] = "following"]
  /\ UNCHANGED <<net, reg, got, copy, up, used>>

\* The handle is kept only if the task has not ended (or been cancelled) already.
FollowKeeps(l) ==
  /\ call[l] = "following"
  /\ handle' = IF view # None THEN l ELSE handle
  /\ call' = [call EXCEPT ![l] = "done"]
  /\ UNCHANGED <<net, disk, view, task, got, copy, up, used>>

-----------------------------------------------------------------------------
(* The background task of one link: DeviceLink::wait, then complete.          *)

\* The end of the task clears the pending row and the shown link, whoever's they are.
TaskEnds(l) ==
  /\ ClearPendingLink /\ view' = None /\ handle' = None
  /\ task' = [task EXCEPT ![l] = "ended"]

Ended(l) == links[l].status \in {"denied", "claimed"} \/ l \in late
            \/ (links[l].status = "approved" /\ ~MayInsert(l))

\* A poll the hub answers: still pending, a token, or the end of the link.
Poll(l) ==
  /\ task[l] = "wait"
  /\ \/ /\ Ended(l) /\ TaskEnds(l)
        /\ links' = IF links[l].status = "approved" /\ l \notin late
                    THEN [links EXCEPT ![l].status = "claimed"] ELSE links
        /\ UNCHANGED <<hub, got>>
     \/ /\ ~Ended(l) /\ links[l].status = "approved"
        /\ links' = [links EXCEPT ![l].status = "claimed"]
        /\ hub' = InsertDevice
        /\ got' = [got EXCEPT ![l] = hub.token + 1]
        /\ task' = [task EXCEPT ![l] = "answered"]
        /\ UNCHANGED <<row, view, handle>>
  /\ UNCHANGED <<late, reg, call, copy, up, used>>

\* An unreachable hub is asked again, until the link has expired.
PollFails(l) ==
  /\ task[l] = "wait" /\ l \in late
  /\ TaskEnds(l)
  /\ UNCHANGED <<net, reg, call, got, copy, up, used>>

\* The answer of a claim never arrives: the next poll finds the link claimed.
AnswerLost(l) ==
  /\ task[l] = "answered" /\ Spend("lost")
  /\ task' = [task EXCEPT ![l] = "wait"]
  /\ UNCHANGED <<net, disk, view, handle, call, got, copy, up>>

\* save_registration: one row, whichever registration it held before.
SaveRegistration(r) == reg' = r

\* complete: a resolve token that cannot be had is only logged; the registration is saved.
Complete(l) ==
  /\ task[l] = "answered"
  /\ SaveRegistration([token |-> got[l], revoked |-> FALSE, app |-> FALSE])
  /\ task' = [task EXCEPT ![l] = "publish"]
  /\ UNCHANGED <<net, row, view, handle, call, got, copy, up, used>>

\* mark_revoked: whatever registration is stored.
Revoked(r) == [r EXCEPT !.revoked = r.revoked \/ r.token > 0]

\* What an answer to a call made with the device token does to the stored registration.
Noted(answer) == IF answer = "removed" THEN Revoked(reg) ELSE reg

\* publish_app inside complete, then discover, enable_hub and the end of the task.
CompletePublishes(l) ==
  /\ task[l] = "publish"
  /\ SaveRegistration(IF ~Registered THEN reg
                      ELSE IF Principal(reg.token) = "ok" THEN [reg EXCEPT !.app = TRUE]
                      ELSE Noted(Principal(reg.token)))
  /\ TaskEnds(l)
  /\ UNCHANGED <<net, call, got, copy, up, used>>

-----------------------------------------------------------------------------
(* Calls that read the registration, ask the hub, and then write.             *)

Ask(a) == /\ up /\ copy[a].answer = "none"
          /\ copy' = [copy EXCEPT ![a] = [reg |-> reg, answer |-> "sent"]]

Check ==
  /\ Registered /\ Ask("check") /\ Spend("check")
  /\ UNCHANGED <<net, disk, view, handle, call, task, got, up>>

\* leave: a revoked registration is only forgotten.
Leave ==
  /\ Registered /\ Ask("leave") /\ Spend("cancel")
  /\ UNCHANGED <<net, disk, view, handle, call, task, got, up>>

Answer(a) ==
  LET who == Principal(copy[a].reg.token) IN
  /\ copy[a].answer = "sent"
  /\ copy' = [copy EXCEPT ![a].answer = who]
  /\ hub' = IF a = "leave" /\ who = "ok" THEN [hub EXCEPT !.row = "removed"] ELSE hub
  /\ UNCHANGED <<links, late, disk, view, handle, call, task, got, up, used>>

Answered(a) == copy[a].answer \in {"ok", "removed", "invalid"}

\* check and publish_app write what the answer says; publish_app writes its own copy back.
Settle(a) ==
  /\ a \in {"check", "publish"} /\ Answered(a)
  /\ SaveRegistration(IF a = "publish" /\ copy[a].answer = "ok" THEN [copy[a].reg EXCEPT !.app = TRUE]
                      ELSE Noted(copy[a].answer))
  /\ copy' = [copy EXCEPT ![a] = NotAsking]
  /\ UNCHANGED <<net, row, view, handle, call, task, got, up, used>>

LeaveDone ==
  /\ Answered("leave")
  /\ reg' = NoRegistration
  /\ copy' = [copy EXCEPT !["leave"] = NotAsking]
  /\ UNCHANGED <<net, row, view, handle, call, task, got, up, used>>

Cancel ==
  /\ up /\ view # None /\ Spend("cancel")
  /\ ClearPendingLink /\ view' = None /\ handle' = None /\ task' = Aborted
  /\ UNCHANGED <<net, reg, call, got, copy, up>>

-----------------------------------------------------------------------------
(* Crash and restart.                                                         *)

Crash ==
  /\ up /\ Spend("crash")
  /\ up' = FALSE
  /\ view' = None /\ handle' = None
  /\ call' = [l \in Link |-> IF call[l] = "idle" THEN "idle" ELSE "done"]
  /\ task' = [l \in Link |-> IF task[l] = "none" THEN "none" ELSE "ended"]
  /\ copy' = [a \in Asker |-> NotAsking]
  /\ UNCHANGED <<net, disk, got>>

Resumes(l) == links[l].status \in {"pending", "approved"} /\ l \notin late

\* resume_link, and the watch's publish_app (a new version's app differs from the stored one).
Restart ==
  LET again == row # None /\ ~Registered /\ Resumes(row) IN
  /\ ~up /\ up' = TRUE
  /\ row' = IF again THEN row ELSE None
  /\ view' = row' /\ handle' = row'
  /\ task' = IF again THEN [task EXCEPT ![row] = "wait"] ELSE task
  /\ \E new \in BOOLEAN :
       LET mine == [reg EXCEPT !.app = @ /\ ~new] IN
       /\ reg' = mine
       /\ copy' = IF Registered /\ ~mine.app
                  THEN [copy EXCEPT !["publish"] = [reg |-> mine, answer |-> "sent"]] ELSE copy
  /\ UNCHANGED <<net, call, got, used>>

TaskStep(l) == Poll(l) \/ PollFails(l) \/ Complete(l) \/ CompletePublishes(l)

Next ==
  \/ \E l \in Link :
       \/ \E s \in {"approved", "denied"} : Decide(l, s)
       \/ Expire(l) \/ StartLink(l) \/ CreateLink(l) \/ Follow(l) \/ FollowKeeps(l)
       \/ TaskStep(l) \/ AnswerLost(l)
  \/ \E a \in Asker : Answer(a) \/ Settle(a)
  \/ Remove \/ Readmit \/ Check \/ Leave \/ LeaveDone \/ Cancel \/ Crash \/ Restart

Spec == Init /\ [][Next]_vars

\* What keeps running: a link's task polls again and its time passes; that any poll is answered
\* is not assumed.
Going(l) == PollFails(l) \/ Expire(l)

-----------------------------------------------------------------------------
\* Tokens reach the store: what the hub gave this device is stored, or on its way to the
\* link's task (complete saves it before anything that can fail).
TokensKept ==
  hub.row = "live" =>
    reg.token = hub.token \/ \E l \in Link : task[l] = "answered" /\ got[l] = hub.token

\* A link shown to the user is the one a restart would resume, and its task is waiting for it.
ShownLinkIsStored ==
  view # None => /\ row = view
                 /\ \A l \in Link : task[l] \in {"wait", "answered", "publish"} => l = view

\* A link being waited for ends, even when the hub cannot be reached any more: Due(l) ~> Met(l).
Due(l) == task[l] = "wait"
Met(l) == task[l] # "wait"
=============================================================================
