------------------------------ MODULE TermLife ------------------------------
(***************************************************************************)
(* Terminal sessions of ember node across exits, removals and restarts     *)
(* (term/mod.rs, term/session.rs start and on_exit, term/pty.rs keepers,   *)
(* term/store.rs): the process, the keeper that holds its terminal while   *)
(* no node runs, the record on disk, the session in memory and the thread  *)
(* that waits for the process.                                             *)
(***************************************************************************)
EXTENDS Naturals, FiniteSets

CONSTANTS
    Term, Key,       \* sessions that may be created; keys they may be created under
    KeyOf,           \* Term -> Key
    MaxFinished,     \* MAX_FINISHED
    None,
    MaxCrash         \* bound: ends of the node

VARIABLES
    node,     \* "up", "stopping", "down", "loading"
    lock,     \* the create that holds the sessions lock and its step, or None
    mem,      \* sessions: None, "running", "exited", "lost"
    disk,     \* records
    proc,     \* "none", "alive", "dead"
    keeper,   \* the keeper of the session listens
    child,    \* how the waiter waits: None, "ours", "adopted"
    exitSave, \* on_exit's copy of the record, not yet saved, or None
    stopSave, \* shutdown's copy of the record, not yet saved, or None
    loaded,   \* records this start of the node has looked at
    removed,  \* sessions that were removed
    crashes

vars == <<node, lock, mem, disk, proc, keeper, child, exitSave, stopSave, loaded, removed, crashes>>

State == {None, "running", "exited", "lost"}

TypeOK ==
    /\ node \in {"up", "stopping", "down", "loading"} /\ mem \in [Term -> State] /\ disk \in [Term -> State]
    /\ proc \in [Term -> {"none", "alive", "dead"}] /\ keeper \in [Term -> BOOLEAN]
    /\ child \in [Term -> {None, "ours", "adopted"}] /\ loaded \subseteq Term /\ removed \subseteq Term

Init ==
    /\ node = "up" /\ lock = None /\ loaded = Term /\ removed = {} /\ crashes = 0
    /\ mem = [t \in Term |-> None] /\ disk = [t \in Term |-> None] /\ proc = [t \in Term |-> "none"]
    /\ keeper = [t \in Term |-> FALSE] /\ child = [t \in Term |-> None]
    /\ exitSave = [t \in Term |-> None] /\ stopSave = [t \in Term |-> None]

Serving == node \in {"up", "stopping"}

-----------------------------------------------------------------------------
(* create, step by step under the sessions lock *)

SameKey(t) == {s \in Term : mem[s] = "running" /\ KeyOf[s] = KeyOf[t]}

\* No other create is under way, and no running session has the key.
CanCreate(t) == lock = None /\ SameKey(t) = {}

\* pty::spawn
CreateSpawn(t) ==
    /\ Serving /\ proc[t] = "none" /\ t \notin removed /\ CanCreate(t)
    /\ lock' = [term |-> t, step |-> "keeper"] /\ proc' = [proc EXCEPT ![t] = "alive"]
    /\ UNCHANGED <<node, mem, disk, keeper, child, exitSave, stopSave, loaded, removed, crashes>>

\* spawn_keeper; without one the session does not survive the node.
CreateKeeper(kept) ==
    /\ lock # None /\ lock.step = "keeper" /\ lock' = [lock EXCEPT !.step = "start"]
    /\ keeper' = [keeper EXCEPT ![lock.term] = kept]
    /\ UNCHANGED <<node, mem, disk, proc, child, exitSave, stopSave, loaded, removed, crashes>>

\* Session::start: the record is saved, then the waiter runs.
CreateStart ==
    /\ lock # None /\ lock.step = "start" /\ lock' = [lock EXCEPT !.step = "insert"]
    /\ disk' = [disk EXCEPT ![lock.term] = "running"] /\ child' = [child EXCEPT ![lock.term] = "ours"]
    /\ UNCHANGED <<node, mem, proc, keeper, exitSave, stopSave, loaded, removed, crashes>>

\* The session is listed, with the state its waiter has given it meanwhile, and the lock released.
CreateInsert ==
    /\ lock # None /\ lock.step = "insert" /\ lock' = None
    /\ mem' = [mem EXCEPT ![lock.term] = IF child[lock.term] = None THEN "exited" ELSE "running"]
    /\ UNCHANGED <<node, disk, proc, keeper, child, exitSave, stopSave, loaded, removed, crashes>>

-----------------------------------------------------------------------------
(* The process and its waiter *)

Ends(t) ==
    /\ proc[t] = "alive" /\ proc' = [proc EXCEPT ![t] = "dead"]
    /\ UNCHANGED <<node, lock, mem, disk, keeper, child, exitSave, stopSave, loaded, removed, crashes>>

\* Session::kill, of a running session: the hangup, or the kill after KILL_GRACE.
Kill(t) == Serving /\ mem[t] = "running" /\ Ends(t)

\* waitpid of a child; an adopted process is polled.
WaitOver(t) == proc[t] = "dead"

\* on_exit, under the session's lock.
OnExit(t) ==
    /\ (Serving \/ node = "loading") /\ child[t] # None /\ WaitOver(t)
    /\ child' = [child EXCEPT ![t] = None] /\ exitSave' = [exitSave EXCEPT ![t] = "exited"]
    /\ mem' = IF mem[t] = "running" THEN [mem EXCEPT ![t] = "exited"] ELSE mem
    /\ UNCHANGED <<node, lock, disk, proc, keeper, stopSave, loaded, removed, crashes>>

\* As OnExitSave, for an exit that is only kept in memory.
OnExitSaveFault(t) ==
    /\ exitSave[t] # None /\ exitSave' = [exitSave EXCEPT ![t] = None] /\ keeper' = [keeper EXCEPT ![t] = FALSE]
    /\ UNCHANGED <<node, lock, mem, disk, proc, child, stopSave, loaded, removed, crashes>>

\* on_exit, after it: the keeper is told to stop, and the record is saved.
OnExitSave(t) ==
    /\ exitSave[t] # None
    /\ disk' = [disk EXCEPT ![t] = exitSave[t]] /\ exitSave' = [exitSave EXCEPT ![t] = None]
    /\ keeper' = [keeper EXCEPT ![t] = FALSE]
    /\ UNCHANGED <<node, lock, mem, proc, child, stopSave, loaded, removed, crashes>>

\* The keeper's own watch, every two seconds, or its end for any other reason.
KeeperEnds(t) ==
    /\ keeper[t] /\ keeper' = [keeper EXCEPT ![t] = FALSE]
    /\ UNCHANGED <<node, lock, mem, disk, proc, child, exitSave, stopSave, loaded, removed, crashes>>

-----------------------------------------------------------------------------
(* Forgetting *)

Finished == {t \in Term : mem[t] \in {"exited", "lost"}}

\* remove, by a client, under the sessions lock; or prune, for a session beyond MaxFinished.
Remove(t) ==
    /\ Serving /\ lock = None /\ t \in Finished
    /\ mem' = [mem EXCEPT ![t] = None] /\ disk' = [disk EXCEPT ![t] = None] /\ removed' = removed \cup {t}
    /\ UNCHANGED <<node, lock, proc, keeper, child, exitSave, stopSave, loaded, crashes>>

Prune(t) == Cardinality(Finished) > MaxFinished /\ Remove(t)

-----------------------------------------------------------------------------
(* The node's end and its next start *)

\* shutdown: the records of running sessions are saved once more, each in two steps.
Shutdown ==
    /\ node = "up" /\ node' = "stopping"
    /\ UNCHANGED <<lock, mem, disk, proc, keeper, child, exitSave, stopSave, loaded, removed, crashes>>

ShutdownCopy(t) ==
    /\ node = "stopping" /\ mem[t] = "running" /\ stopSave[t] = None
    /\ stopSave' = [stopSave EXCEPT ![t] = mem[t]]
    /\ UNCHANGED <<node, lock, mem, disk, proc, keeper, child, exitSave, loaded, removed, crashes>>

ShutdownSave(t) ==
    /\ stopSave[t] # None
    /\ disk' = [disk EXCEPT ![t] = stopSave[t]] /\ stopSave' = [stopSave EXCEPT ![t] = None]
    /\ UNCHANGED <<node, lock, mem, proc, keeper, child, exitSave, loaded, removed, crashes>>

\* The node ends, at any moment; a process whose terminal nobody holds is hung up.
Crash(survivors) ==
    /\ node # "down" /\ crashes < MaxCrash /\ crashes' = crashes + 1
    /\ node' = "down" /\ lock' = None
    /\ mem' = [t \in Term |-> None] /\ child' = [t \in Term |-> None]
    /\ exitSave' = [t \in Term |-> None] /\ stopSave' = [t \in Term |-> None]
    /\ proc' = [t \in Term |-> IF proc[t] = "alive" /\ ~keeper[t] /\ t \notin survivors THEN "dead" ELSE proc[t]]
    /\ UNCHANGED <<disk, keeper, loaded, removed>>

Start ==
    /\ node = "down" /\ node' = "loading" /\ loaded' = {t \in Term : disk[t] = None}
    /\ UNCHANGED <<lock, mem, disk, proc, keeper, child, exitSave, stopSave, removed, crashes>>

\* load of a record: readopt from the keeper, or lost; a finished one is listed as it is.
Load(t) ==
    /\ node = "loading" /\ t \notin loaded /\ loaded' = loaded \cup {t}
    /\ IF disk[t] # "running" THEN mem' = [mem EXCEPT ![t] = disk[t]] /\ UNCHANGED <<disk, keeper, child>>
       ELSE IF proc[t] = "alive" /\ keeper[t]
       THEN /\ mem' = [mem EXCEPT ![t] = "running"] /\ child' = [child EXCEPT ![t] = "adopted"] /\ UNCHANGED <<disk, keeper>>
       ELSE /\ mem' = [mem EXCEPT ![t] = "lost"] /\ disk' = [disk EXCEPT ![t] = "lost"]
            /\ keeper' = [keeper EXCEPT ![t] = FALSE] /\ UNCHANGED child
    /\ UNCHANGED <<node, lock, proc, exitSave, stopSave, removed, crashes>>

Loaded ==
    /\ node = "loading" /\ loaded = Term /\ node' = "up"
    /\ UNCHANGED <<lock, mem, disk, proc, keeper, child, exitSave, stopSave, loaded, removed, crashes>>

Next ==
    \/ \E t \in Term : \/ CreateSpawn(t) \/ Ends(t) \/ Kill(t) \/ OnExit(t) \/ OnExitSave(t) \/ KeeperEnds(t)
                       \/ Remove(t) \/ Prune(t) \/ ShutdownCopy(t) \/ ShutdownSave(t) \/ Load(t)
    \/ \E kept \in BOOLEAN : CreateKeeper(kept)
    \/ CreateStart \/ CreateInsert \/ Shutdown \/ Start \/ Loaded
    \/ \E s \in SUBSET Term : Crash(s)

Spec == Init /\ [][Next]_vars

\* What keeps running: a create that began, and the waiter of each session.
Going(k) ==
    \/ k = 1 /\ (CreateStart \/ CreateInsert)
    \/ k \in Term /\ (OnExit(k) \/ OnExitSave(k))

-----------------------------------------------------------------------------
\* A key names one running session, also across restarts.
OneRunningPerKey == \A t \in Term : Cardinality(SameKey(t)) <= 1

\* A session is shown as exited only when its process is gone, by the node that started it or one that adopted it.
ExitedIsDead == \A t \in Term : "exited" \in {mem[t], disk[t], exitSave[t]} => proc[t] = "dead"

\* A session whose process died does not stay running, in memory and on disk, while the node
\* runs: Due(t) ~> Met(t).
Due(t) == mem[t] = "running" /\ proc[t] = "dead"
Met(t) == disk[t] # "running" \/ node \in {"down", "stopping"}
=============================================================================
