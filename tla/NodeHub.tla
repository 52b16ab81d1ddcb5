------------------------------ MODULE NodeHub -------------------------------
(* A node and its hub account (node/src/hub.rs, hub/src/registration.rs): the  *)
(* commands `ember-node hub register | status | forget', the running node's    *)
(* start and SIGHUP handler, and its watch task. They are two processes and    *)
(* three tasks that share two files, hub.json (`file') and hub-link.json       *)
(* (`pending'), with no lock: each loads the file, awaits the hub with its own *)
(* copy, and saves the copy.                                                   *)
EXTENDS Naturals

CONSTANTS MaxLink,     \* links the command creates
          Issues,      \* TRUE: a claim brings the resolve token; FALSE: a hub older than these tokens
          LongPoll,    \* TRUE: the hub offers the long-poll
          Overlap,     \* TRUE: a command or a SIGHUP may begin while another task awaits the hub
          MaxRemove, MaxStop, MaxLost, MaxStart, MaxHup, MaxCommand,
          MaxLocal     \* bounds

VARIABLES hub, links, late,          \* the hub: this device, its links, those that expired
          file, pending,             \* hub.json and hub-link.json
          job,                       \* the three tasks: the command, start or SIGHUP, the watch
          on, directory, servers,    \* the node runs; the transport's resolve token; hub servers admitted
          removed,                   \* the tokens the hub has removed the device of
          lapped,                    \* the registrations an older copy or mark came over (history)
          used

net  == <<hub, links, late, removed>>
disk == <<file, pending, lapped>>
node == <<on, directory, servers>>
vars == <<net, disk, job, node, used>>

Links == 1..MaxLink
Budget == [remove |-> MaxRemove, stop |-> MaxStop, lost |-> MaxLost, start |-> MaxStart, hup |-> MaxHup,
           command |-> MaxCommand, local |-> MaxLocal]
Spend(k) == used[k] < Budget[k] /\ used' = [used EXCEPT ![k] = @ + 1]

Registration == [token : Nat, resolve : Nat, revoked : BOOLEAN, app : BOOLEAN]
NoRegistration == [token |-> 0, resolve |-> 0, revoked |-> FALSE, app |-> FALSE]
Task == {"cli", "hup", "watch"}
Idle == [pc |-> "idle", reg |-> NoRegistration, link |-> 0]

TypeOK ==
  /\ hub \in [row : {"none", "live", "removed"}, token : Nat, resolve : Nat, readmit : BOOLEAN]
  /\ links \in [Links -> [status : {"none", "pending", "approved", "denied", "claimed"}, readmit : BOOLEAN]]
  /\ late \subseteq Links /\ file \in Registration /\ pending \in 0..MaxLink
  /\ job \in [Task -> [pc : STRING, reg : Registration, link : 0..MaxLink]]
  /\ on \in BOOLEAN /\ directory \in Nat /\ servers \in BOOLEAN /\ removed \cup lapped \subseteq Nat

Init ==
  /\ hub = [row |-> "none", token |-> 0, resolve |-> 0, readmit |-> FALSE]
  /\ links = [l \in Links |-> [status |-> "none", readmit |-> FALSE]] /\ late = {} /\ removed = {}
  /\ file = NoRegistration /\ pending = 0 /\ lapped = {}
  /\ job = [p \in Task |-> Idle]
  /\ on = FALSE /\ directory = 0 /\ servers = FALSE
  /\ used = [k \in DOMAIN Budget |-> 0]

\* active_registration
Active == file.token > 0 /\ ~file.revoked
\* Nobody is between loading hub.json and saving it.
Quiet == job["cli"].pc = "idle" /\ job["hup"].pc = "idle" /\ job["watch"].pc \in {"idle", "load", "ask", "ended", "revoked"}
-----------------------------------------------------------------------------
(* The hub's owner, and its answers.                                          *)
Principal(t) == IF hub.token # t \/ hub.row = "none" THEN "invalid"
                ELSE IF hub.row = "live" THEN "ok" ELSE "removed"

Decide(l, status) ==
  /\ links[l].status = "pending" /\ l \notin late
  /\ links' = [links EXCEPT ![l].status = status]
  /\ UNCHANGED <<hub, late, removed, disk, job, node, used>>

Expire(l) ==
  /\ links[l].status # "none" /\ l \notin late /\ late' = late \cup {l}
  /\ UNCHANGED <<hub, links, removed, disk, job, node, used>>

RemoveRow == hub' = [hub EXCEPT !.row = "removed"] /\ removed' = removed \cup {hub.token}

Remove ==
  /\ hub.row = "live" /\ Spend("remove") /\ RemoveRow
  /\ UNCHANGED <<links, late, disk, job, node>>

\* readmit_device: only a removed device, by its owner
Readmit ==
  /\ hub.row = "removed" /\ ~hub.readmit /\ hub' = [hub EXCEPT !.readmit = TRUE]
  /\ UNCHANGED <<links, late, removed, disk, job, node, used>>
-----------------------------------------------------------------------------
(* What the command, the start and the watch do with the file.                *)

\* RegistrationFile::save: the whole record, whatever the file held since it was loaded.
Save(reg) == file' = reg /\ lapped' = IF file.token > reg.token THEN lapped \cup {file.token} ELSE lapped

\* Where a task goes on after ensure_resolve and publish_app.
Then(p, pc) == IF pc = "ensure" THEN (IF p = "cli" THEN "publish" ELSE "discover")
               ELSE IF p = "cli" THEN "idle" ELSE "load"
Goes(p, pc) == job' = [job EXCEPT ![p].pc = pc]

\* ensure_resolve asks for a resolve token if there is none; the hub drops the one it had.
EnsureAsk(p) ==
  LET reg == job[p].reg
      asks == reg.resolve = 0 /\ ~reg.revoked /\ Principal(reg.token) = "ok"
  IN /\ job[p].pc = "ensure"
     /\ \/ /\ ~asks /\ Goes(p, Then(p, "ensure")) /\ UNCHANGED <<hub, used>>
        \/ /\ asks /\ hub' = [hub EXCEPT !.resolve = @ + 1] /\ UNCHANGED used
           /\ job' = [job EXCEPT ![p].pc = "ensureSave", ![p].reg.resolve = hub.resolve + 1]
        \/ /\ asks /\ Spend("lost") /\ hub' = [hub EXCEPT !.resolve = @ + 1] /\ Goes(p, Then(p, "ensure"))
     /\ UNCHANGED <<links, late, removed, disk, node>>

EnsureSave(p) ==
  /\ job[p].pc = "ensureSave" /\ Save(job[p].reg) /\ Goes(p, Then(p, "ensure"))
  /\ UNCHANGED <<net, pending, node, used>>

\* publish_app: the hub takes the app from the device itself; the answer is saved with the copy.
PublishAsk(p) ==
  LET reg == job[p].reg
      asks == reg.token > 0 /\ ~reg.revoked /\ ~reg.app
  IN /\ job[p].pc = "publish"
     /\ IF asks /\ Principal(reg.token) = "ok"
        THEN job' = [job EXCEPT ![p].pc = "publishSave", ![p].reg.app = TRUE]
        ELSE Goes(p, Then(p, "publish"))
     /\ UNCHANGED <<net, disk, node, used>>

PublishSave(p) ==
  /\ job[p].pc = "publishSave" /\ Save(job[p].reg) /\ Goes(p, Then(p, "publish"))
  /\ UNCHANGED <<net, pending, node, used>>
\* RegistrationFile::mark_revoked, once the hub has answered: loads the file again, whatever
\* registration it holds by then,
MarkLoad(p) ==
  /\ job[p].pc = "mark" /\ job' = [job EXCEPT ![p].pc = "markSave", ![p].reg = file]
  /\ lapped' = IF file.token > job[p].reg.token THEN lapped \cup {file.token} ELSE lapped
  /\ UNCHANGED <<net, file, pending, node, used>>

\* and saves it with revoked_at.
Marks(reg) == IF reg.token > 0 /\ ~reg.revoked THEN Save([reg EXCEPT !.revoked = TRUE])
                                               ELSE UNCHANGED <<file, lapped>>
-----------------------------------------------------------------------------
(* `ember-node hub register'.                                                 *)
Command == job["cli"].pc = "idle" /\ (Overlap \/ Quiet) /\ Spend("command")
Cli(pc, reg, l) == job' = [job EXCEPT !["cli"] = [pc |-> pc, reg |-> reg, link |-> l]]
CliEnds == Cli("idle", NoRegistration, 0)

Register ==
  /\ ~Active /\ Command
  /\ Cli(IF pending = 0 THEN "start" ELSE "resume", NoRegistration, pending)
  /\ UNCHANGED <<net, disk, node>>

\* DeviceLink::resume_by_id: an expired link is forgotten and another one started.
ResumeById ==
  LET l == job["cli"].link IN
  /\ job["cli"].pc = "resume"
  /\ \/ /\ l \notin late /\ links[l].status \in {"pending", "approved"}
        /\ Cli("wait", NoRegistration, l) /\ UNCHANGED pending
     \/ /\ l \notin late /\ links[l].status \in {"denied", "claimed"} /\ CliEnds /\ pending' = 0
     \/ /\ l \in late /\ Cli("start", NoRegistration, 0) /\ pending' = 0
  /\ UNCHANGED <<net, file, lapped, node, used>>

\* create_link
MayCreate == hub.row = "none" \/ (hub.row = "removed" /\ hub.readmit)

\* DeviceLink::start: the hub refuses a key that is registered, or removed and not re-admitted.
StartLink ==
  /\ job["cli"].pc = "start"
  /\ \/ /\ MayCreate
        /\ \E l \in Links :
             /\ links[l].status = "none" /\ \A k \in 1..(l - 1) : links[k].status # "none"
             /\ links' = [links EXCEPT ![l] = [status |-> "pending", readmit |-> hub.row = "removed"]]
             /\ Cli("keep", NoRegistration, l)
     \/ ~MayCreate /\ CliEnds /\ UNCHANGED links
  /\ UNCHANGED <<hub, late, removed, disk, node, used>>

SavePendingLink ==
  /\ job["cli"].pc = "keep" /\ pending' = job["cli"].link /\ Goes("cli", "wait")
  /\ UNCHANGED <<net, file, lapped, node, used>>

\* claim_link: the token is told once; an answer that is lost leaves the link claimed.
MayInsert(l) == hub.row = "none" \/ (hub.row = "removed" /\ links[l].readmit)
Inserted == [row |-> "live", token |-> hub.token + 1, resolve |-> hub.resolve + 1, readmit |-> FALSE]
Claimed(l) == links' = [links EXCEPT ![l].status = "claimed"]

Wait ==
  LET l == job["cli"].link
      open == l \notin late /\ links[l].status = "approved"
      reg == [token |-> hub.token + 1, resolve |-> IF Issues THEN hub.resolve + 1 ELSE 0, revoked |-> FALSE,
              app |-> FALSE]
  IN /\ job["cli"].pc = "wait"
     /\ \/ /\ (l \in late \/ links[l].status \in {"denied", "claimed"})
           /\ Cli("clear", NoRegistration, l) /\ UNCHANGED <<hub, links, used>>
        \/ /\ open /\ ~MayInsert(l) /\ Claimed(l) /\ UNCHANGED <<hub, used>>
           /\ Cli("clear", NoRegistration, l)
        \/ open /\ MayInsert(l) /\ Claimed(l) /\ hub' = Inserted /\ Cli("clear", reg, l) /\ UNCHANGED used
        \/ open /\ MayInsert(l) /\ Claimed(l) /\ hub' = Inserted /\ UNCHANGED job /\ Spend("lost")
     /\ UNCHANGED <<late, removed, disk, node>>

ClearPendingLink ==
  /\ job["cli"].pc = "clear" /\ pending' = 0
  /\ IF job["cli"].reg.token = 0 THEN CliEnds ELSE Goes("cli", "store")
  /\ UNCHANGED <<net, file, lapped, node, used>>

StoreRegistration ==
  /\ job["cli"].pc = "store" /\ Save(job["cli"].reg) /\ Goes("cli", "ensure")
  /\ UNCHANGED <<net, pending, node, used>>
-----------------------------------------------------------------------------
(* `forget', `forget --local' and `status'; a command may be stopped.         *)
Forget ==
  /\ Command
  /\ \/ /\ file.token > 0 /\ Cli(IF file.revoked THEN "forget" ELSE "leave", file, 0)
        /\ UNCHANGED disk
     \/ file.token = 0 /\ pending' = 0 /\ UNCHANGED <<file, lapped, job>>
  /\ UNCHANGED <<net, node>>

ForgetLocally ==
  /\ job["cli"].pc = "idle" /\ (Overlap \/ Quiet) /\ Spend("local")
  /\ pending' = 0 /\ file' = NoRegistration
  /\ UNCHANGED <<net, lapped, job, node>>

\* leave: a hub that no longer knows the device is fine; one that cannot be reached is an error.
Leave ==
  LET known == Principal(job["cli"].reg.token) = "ok" IN
  /\ job["cli"].pc = "leave"
  /\ IF known THEN RemoveRow ELSE UNCHANGED <<hub, removed>>
  /\ \/ Goes("cli", "forget") /\ UNCHANGED used
     \/ Spend("lost") /\ CliEnds
  /\ UNCHANGED <<links, late, disk, node>>

RemoveFile ==
  /\ job["cli"].pc = "forget" /\ pending' = 0 /\ file' = NoRegistration /\ CliEnds
  /\ UNCHANGED <<net, lapped, node, used>>

Status ==
  /\ Active /\ Command /\ Cli("status", file, 0)
  /\ UNCHANGED <<net, disk, node>>

StatusAnswer ==
  /\ job["cli"].pc = "status"
  /\ IF Principal(job["cli"].reg.token) = "removed" THEN Goes("cli", "mark") ELSE CliEnds
  /\ UNCHANGED <<net, disk, node, used>>

StatusMarks ==
  /\ job["cli"].pc = "markSave" /\ Marks(job["cli"].reg) /\ CliEnds
  /\ UNCHANGED <<net, pending, node, used>>

Stop ==
  /\ job["cli"].pc # "idle" /\ Spend("stop") /\ CliEnds
  /\ UNCHANGED <<net, disk, node>>
-----------------------------------------------------------------------------
(* The node: start, SIGHUP, the watch.                                        *)
Hup(pc) == job' = [job EXCEPT !["hup"] = [Idle EXCEPT !.pc = pc, !.reg = IF Active THEN file ELSE NoRegistration]]

Start ==
  /\ ~on /\ (Overlap \/ Quiet) /\ Spend("start") /\ on' = TRUE
  /\ Hup(IF Active THEN "ensure" ELSE "discover")
  /\ UNCHANGED <<net, disk, directory, servers>>

\* SIGHUP: the allow-list is read again, and a registration made since is applied.
Hangup ==
  /\ on /\ job["hup"].pc = "idle" /\ (Overlap \/ Quiet) /\ Spend("hup") /\ servers' = FALSE
  /\ IF Active THEN Hup("ensure") ELSE UNCHANGED job
  /\ UNCHANGED <<net, disk, on, directory>>

\* transport_config reads the file again; apply_registration uses its copy.
Enable ==
  /\ job["hup"].pc = "discover" /\ Goes("hup", "spawn")
  /\ directory' = IF job["watch"].pc # "idle" THEN job["hup"].reg.resolve ELSE IF Active THEN file.resolve ELSE 0
  /\ UNCHANGED <<net, disk, on, servers, used>>

\* The old watch is aborted where it awaits (not between load and save in mark_revoked); the new one reports the app, then watches.
SpawnWatch ==
  /\ job["hup"].pc = "spawn" /\ job["watch"].pc # "markSave"
  /\ job' = [job EXCEPT !["hup"] = Idle, !["watch"] = [Idle EXCEPT !.pc = "publish", !.reg = file]]
  /\ UNCHANGED <<net, disk, on, directory, servers, used>>

\* The registration is loaded before each question; the long-poll's client is made from the first.
WatchLoad ==
  /\ job["watch"].pc = "load"
  /\ job' = [job EXCEPT !["watch"] = [@ EXCEPT !.pc = IF Active THEN "ask" ELSE "ended",
                                      !.reg = IF @.token > 0 /\ job["watch"].link = 1 /\ LongPoll THEN @ ELSE file,
                                      !.link = 1]]
  /\ UNCHANGED <<net, disk, node, used>>

WatchAnswer ==
  LET who == Principal(job["watch"].reg.token) IN
  /\ job["watch"].pc = "ask"
  /\ \/ who = "removed" /\ Goes("watch", "mark") /\ UNCHANGED servers
     \/ who # "removed" /\ servers' = (servers \/ who = "ok") /\ Goes("watch", "load")
  /\ UNCHANGED <<net, disk, on, directory, used>>

\* on_revoked: hub.json is marked, the transport stops resolving, the hub's servers are dropped.
OnRevoked ==
  /\ job["watch"].pc = "markSave" /\ Marks(job["watch"].reg) /\ Goes("watch", "revoked")
  /\ directory' = 0 /\ servers' = FALSE
  /\ UNCHANGED <<net, pending, on, used>>

NodeStops ==
  /\ on /\ on' = FALSE /\ directory' = 0 /\ servers' = FALSE
  /\ job' = [job EXCEPT !["hup"] = Idle, !["watch"] = Idle]
  /\ UNCHANGED <<net, disk, used>>

Next ==
  \/ \E l \in Links : Expire(l) \/ \E s \in {"approved", "denied"} : Decide(l, s)
  \/ Remove \/ Readmit
  \/ \E p \in {"cli", "hup"} : EnsureAsk(p) \/ EnsureSave(p)
  \/ \E p \in {"cli", "watch"} : PublishAsk(p) \/ PublishSave(p) \/ MarkLoad(p)
  \/ Register \/ ResumeById \/ StartLink \/ SavePendingLink \/ Wait \/ ClearPendingLink \/ StoreRegistration
  \/ Forget \/ ForgetLocally \/ Leave \/ RemoveFile \/ Status \/ StatusAnswer \/ StatusMarks \/ Stop
  \/ Start \/ Hangup \/ Enable \/ SpawnWatch \/ WatchLoad \/ WatchAnswer \/ OnRevoked \/ NodeStops

Spec == Init /\ [][Next]_vars
-----------------------------------------------------------------------------
\* A registration reaches hub.json and stays there: unless a command was stopped or an answer lost,
\* the token the hub knows this node by is stored, or is on its way there in the command that
\* claimed it, but where a task that had loaded an older registration saved its copy over it.
TokensKept ==
  hub.row = "live" /\ used.stop + used.lost + used.local = 0 =>
    \/ file.token = hub.token \/ hub.token \in lapped
    \/ job["cli"].pc \in {"clear", "store"} /\ job["cli"].reg.token = hub.token

\* A command that is stopped while it waits can go on: the link it waits for is the one stored.
WaitsForStoredLink == job["cli"].pc \in {"wait", "clear"} => pending = job["cli"].link

\* What hub.json says about a removal is true (on_revoked, mark_revoked): a registration that is
\* marked is one the hub removed, or one stored between the hub's answer about an older one and the
\* mark, which takes whatever registration it finds.
RevokedWasRemoved == file.revoked => file.token \in removed \cup lapped

\* Once the watch has seen the removal, the node no longer resolves through the hub and admits no
\* server because of it (the module comment of node/src/hub.rs). Not so when a SIGHUP overlaps the
\* removal (Overlap), nor when a command was the first to see it: the watch then ends on the marked
\* file and leaves both as they are.
RevokedIsUnused == job["watch"].pc = "revoked" /\ job["hup"].pc = "idle" => directory = 0 /\ ~servers

\* The resolve token that is stored is the hub's once everything is saved: asking for one revokes
\* the last, so two tasks that ask must not both save (unless an answer was lost, or they overlap).
ResolveTokenIsCurrent ==
  Quiet /\ Active /\ hub.row = "live" /\ file.token = hub.token /\ file.resolve > 0 /\ used.lost = 0 =>
    file.resolve = hub.resolve
=============================================================================
