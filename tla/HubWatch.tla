------------------------------ MODULE HubWatch ------------------------------
(* Following the account's device list: DeviceWatcher (hub/src/watch.rs)       *)
(* against the hub's versioned list with its ETag and ?wait= (hub/src/fake.rs),*)
(* and what the watch does with it: ServerHub::spawn_watch makes the `hub'     *)
(* rows of the devices table equal to the list, the node's spawn_watch its     *)
(* gate, and both stop when the hub has removed the device itself.             *)
EXTENDS Naturals

CONSTANTS Peer,        \* the account's other devices
          EarlyLimit,  \* EARLY_LIMIT
          MaxChange, MaxFail, MaxApi

VARIABLES kind, list, version, removed, watcher, answer, pc, rows, revoked, api, fails, spins

hubVars == <<kind, list, version, removed>>
vars == <<kind, list, version, removed, watcher, answer, pc, rows, revoked, api, fails, spins>>

\* Who watches (the node, or the server) and what kind of hub it is: whether it advertises the long-poll (else GET /v1/me and the list
\* are asked), sends an ETag and honours If-None-Match, holds a request with ?wait=, and
\* refuses ?wait= with 400.
Kinds == [node : BOOLEAN, longPoll : BOOLEAN, etags : BOOLEAN, honours : BOOLEAN, refuses : BOOLEAN]

Lists == SUBSET Peer
Unseen == [seen |-> FALSE, list |-> {}]
Idle == [kind |-> "none"]

TypeOK ==
  /\ kind \in Kinds /\ list \in Lists /\ version \in Nat /\ removed \in BOOLEAN
  /\ watcher \in [etag : Nat, last : [seen : BOOLEAN, list : Lists], failed : BOOLEAN,
                  early : 0..EarlyLimit, wait : BOOLEAN, asked : BOOLEAN]
  /\ answer.kind \in {"none", "same", "list", "removed", "bad", "failed"}
  /\ pc \in {"idle", "sent", "held", "answered", "checking", "listing", "stopped"}
  /\ rows \in Lists /\ revoked \in BOOLEAN
  /\ api.pc \in {"idle", "fetched"} /\ fails \in 0..MaxFail /\ spins \in Nat

NewWatcher == [etag |-> 0, last |-> Unseen, failed |-> FALSE, early |-> 0, wait |-> kind.longPoll, asked |-> FALSE]

Init ==
  /\ kind \in Kinds
  /\ list = {} /\ version = 1 /\ removed = FALSE
  /\ watcher = NewWatcher /\ answer = Idle /\ pc = "idle"
  /\ rows = {} /\ revoked = FALSE
  /\ api = [pc |-> "idle", list |-> {}, n |-> 0] /\ fails = 0 /\ spins = 0

-----------------------------------------------------------------------------
(* The hub.                                                                   *)

\* Every change of the list bumps its version and wakes the held requests.
Change(p) ==
  /\ version <= MaxChange /\ ~removed
  /\ list' = IF p \in list THEN list \ {p} ELSE list \cup {p}
  /\ version' = version + 1
  /\ UNCHANGED <<kind, removed, watcher, answer, pc, rows, revoked, api, fails, spins>>

RemoveMe ==
  /\ version <= MaxChange /\ ~removed
  /\ removed' = TRUE /\ version' = version + 1
  /\ UNCHANGED <<kind, list, watcher, answer, pc, rows, revoked, api, fails, spins>>

IfNoneMatch == kind.etags /\ watcher.etag = version

Answers(a) == answer' = a /\ pc' = "answered"

Listed(quick) == [kind |-> "list", list |-> list, etag |-> IF kind.etags THEN version ELSE 0, quick |-> quick]

\* The request carries ?wait= once the watcher has asked before.
Waits == watcher.asked /\ watcher.wait

\* list_devices: the credential first; 304 or held while the version is the caller's.
ListDevices ==
  /\ pc = "sent"
  /\ \/ removed /\ Answers([kind |-> "removed"])
     \/ ~removed /\ Waits /\ kind.refuses /\ Answers([kind |-> "bad"])
     \/ /\ ~removed /\ ~(Waits /\ kind.refuses)
        /\ \/ ~IfNoneMatch /\ Answers(Listed(Waits))
           \/ IfNoneMatch /\ Waits /\ kind.honours /\ pc' = "held" /\ UNCHANGED answer
           \/ IfNoneMatch /\ ~(Waits /\ kind.honours) /\ Answers([kind |-> "same", quick |-> Waits])
  /\ UNCHANGED <<hubVars, watcher, rows, revoked, api, fails, spins>>

\* A held request is answered when the version changes, or when its time is up.
HeldAnswered ==
  /\ pc = "held"
  /\ \/ removed /\ Answers([kind |-> "removed"])
     \/ ~removed /\ ~IfNoneMatch /\ Answers(Listed(FALSE))
     \/ ~removed /\ IfNoneMatch /\ Answers([kind |-> "same", quick |-> FALSE])
  /\ UNCHANGED <<hubVars, watcher, rows, revoked, api, fails, spins>>

Unreachable ==
  /\ pc \in {"sent", "held"} /\ fails < MaxFail
  /\ fails' = fails + 1
  /\ Answers([kind |-> "failed"])
  /\ UNCHANGED <<hubVars, watcher, rows, revoked, api, spins>>

-----------------------------------------------------------------------------
(* DeviceWatcher::next and long_poll_once.                                    *)

\* Before a request: the backoff after an error, the period in poll mode, else no pause.
Pauses == watcher.failed \/ (watcher.asked /\ ~watcher.wait)

Ask ==
  /\ kind.longPoll /\ pc = "idle" /\ ~revoked
  /\ pc' = "sent"
  /\ spins' = IF Pauses THEN 1 ELSE spins + 1
  /\ UNCHANGED <<hubVars, watcher, answer, rows, revoked, api, fails>>

\* note_early: after EARLY_LIMIT early answers in a row the watcher polls instead.
NoteEarly(w) ==
  LET n == w.early + 1 IN
  [w EXCEPT !.early = IF n > EarlyLimit THEN EarlyLimit ELSE n, !.wait = @ /\ n < EarlyLimit]

\* The answer was not to an empty wait: the count of early answers starts again.
Unhurried == spins' = 0

Same ==
  /\ answer.kind = "same"
  /\ LET w == [watcher EXCEPT !.asked = TRUE, !.failed = FALSE] IN
     watcher' = IF answer.quick THEN NoteEarly(w) ELSE [w EXCEPT !.early = 0]
  /\ IF answer.quick THEN UNCHANGED spins ELSE Unhurried
  /\ pc' = "idle" /\ UNCHANGED <<rows, revoked>>

\* The same list again, from a hub that ignores If-None-Match: asked again at once.
Repeated ==
  /\ answer.kind = "list" /\ watcher.last = [seen |-> TRUE, list |-> answer.list]
  /\ LET w == [watcher EXCEPT !.asked = TRUE, !.failed = FALSE, !.etag = answer.etag] IN
     watcher' = IF answer.quick THEN NoteEarly(w) ELSE w
  /\ pc' = "idle" /\ UNCHANGED <<rows, revoked, spins>>

SyncedFault(rs, l) == rs \cup l

\* sync_from_hub: the missing rows are added, the hub rows no longer listed are revoked.
Synced(rs, l) == (rs \cap l) \cup (l \ rs)

\* admit_servers: the node's gate is its own allow-list and the listed servers.
AdmitServers(l) == l

\* on_revoked: the node's gate is narrowed to its own allow-list; the server keeps its rows.
OnRevoked == IF kind.node THEN {} ELSE rows

Applied(l) == IF kind.node THEN AdmitServers(l) ELSE Synced(rows, l)

Changed ==
  /\ answer.kind = "list" /\ watcher.last # [seen |-> TRUE, list |-> answer.list]
  /\ watcher' = [watcher EXCEPT !.asked = TRUE, !.failed = FALSE, !.etag = answer.etag, !.early = 0,
                                !.last = [seen |-> TRUE, list |-> answer.list]]
  /\ rows' = Applied(answer.list)
  /\ pc' = "idle" /\ Unhurried /\ UNCHANGED revoked

\* mark_revoked, and the watch stops.
Removed ==
  /\ answer.kind = "removed"
  /\ revoked' = TRUE /\ pc' = "stopped" /\ rows' = OnRevoked
  /\ UNCHANGED <<watcher, spins>>

RefusedWait ==
  /\ answer.kind = "bad"
  /\ watcher' = [watcher EXCEPT !.asked = TRUE, !.wait = FALSE]
  /\ pc' = "idle" /\ UNCHANGED <<rows, revoked, spins>>

Failed ==
  /\ answer.kind = "failed"
  /\ watcher' = [watcher EXCEPT !.asked = TRUE, !.failed = TRUE]
  /\ pc' = "idle" /\ UNCHANGED <<rows, revoked, spins>>

Heard ==
  /\ pc = "answered" /\ answer' = Idle
  /\ Same \/ Repeated \/ Changed \/ Removed \/ RefusedWait \/ Failed
  /\ UNCHANGED <<hubVars, api, fails>>

-----------------------------------------------------------------------------
(* Without the long-poll: GET /v1/me, then the list, every period.            *)

Check ==
  /\ ~kind.longPoll /\ pc = "idle" /\ ~revoked
  /\ pc' = "checking"
  /\ UNCHANGED <<hubVars, watcher, answer, rows, revoked, api, fails, spins>>

Checked ==
  /\ pc = "checking"
  /\ \/ removed /\ revoked' = TRUE /\ pc' = "stopped" /\ rows' = OnRevoked /\ UNCHANGED fails
     \/ ~removed /\ pc' = "listing" /\ UNCHANGED <<rows, revoked, fails>>
     \/ fails < MaxFail /\ fails' = fails + 1 /\ pc' = "idle" /\ UNCHANGED <<rows, revoked>>
  /\ UNCHANGED <<hubVars, watcher, answer, api, spins>>

\* sync_devices: the list, or the news that this device was removed meanwhile (which the node
\* leaves to its next check).
SyncDevices ==
  /\ pc = "listing" /\ pc' = "idle"
  /\ IF removed THEN revoked' = (revoked \/ ~kind.node) /\ UNCHANGED rows
                ELSE rows' = Applied(list) /\ UNCHANGED revoked
  /\ UNCHANGED <<hubVars, watcher, answer, api, fails, spins>>

-----------------------------------------------------------------------------
(* POST /sync-devices, and remove_device's sync, beside the watch.            *)

ApiFetch ==
  /\ ~kind.node /\ api.pc = "idle" /\ api.n < MaxApi /\ ~revoked /\ ~removed
  /\ api' = [pc |-> "fetched", list |-> list, n |-> api.n + 1]
  /\ UNCHANGED <<hubVars, watcher, answer, pc, rows, revoked, fails, spins>>

ApiApply ==
  /\ api.pc = "fetched"
  /\ api' = [api EXCEPT !.pc = "idle"]
  /\ rows' = Synced(rows, api.list)
  /\ UNCHANGED <<hubVars, watcher, answer, pc, revoked, fails, spins>>

Round == Ask \/ Heard \/ Check \/ Checked \/ SyncDevices
ServerWatch == ~kind.node /\ Round
NodeWatch == kind.node /\ Round
WatchStep == ServerWatch \/ NodeWatch
HubStep == ListDevices \/ HeldAnswered

Next ==
  \/ \E p \in Peer : Change(p)
  \/ RemoveMe \/ HubStep \/ Unreachable \/ WatchStep \/ ApiFetch \/ ApiApply

Spec == Init /\ [][Next]_vars

\* What keeps running: the watch task, and the hub answers what it is asked.
Going(k) == (k = 1 /\ WatchStep) \/ (k = 2 /\ HubStep)

-----------------------------------------------------------------------------
\* While the hub holds the watcher's request for the current version, the table is the list.
HeldMeansSynced ==
  pc = "held" /\ IfNoneMatch /\ ~removed /\ api.pc = "idle" => rows = list

\* A node the hub removed admits no server of the account any more.
RemovedAdmitsNone == kind.node /\ revoked => rows = {}

\* A hub that does not hold its answers is not asked without a pause more often than EARLY_LIMIT.
NeverSpins == spins <= EarlyLimit + 2

\* The table becomes the list, and this device's own removal is noticed: Due(k) ~> Met(k).
Due(k) == IF k = 1 THEN rows # list /\ ~removed ELSE removed
Met(k) == IF k = 1 THEN rows = list \/ removed ELSE revoked
=============================================================================
