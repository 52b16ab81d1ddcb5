----------------------------- MODULE Computers ------------------------------
(***************************************************************************)
(* Computers and switching (computers/mod.rs) with the project mounts of   *)
(* computers/mount.rs: which computer a session is on, the notice for its  *)
(* next message, the agent that is started there, and the mount that shows *)
(* it the files of that computer.                                          *)
(*                                                                         *)
(* Two locks matter. A start (Sessions::ensure_live) holds the registry    *)
(* lock `lock` while its hooks run; a sweep of the mounts holds `mlock`    *)
(* while it asks the session service which sessions are live. A start that  *)
(* waits to mount and a sweep that waits to ask wait for each other.        *)
(***************************************************************************)
EXTENDS Naturals, FiniteSets, TLAPS

CONSTANTS Session, Computer, Path, Local, None,
          Cwd,        \* [Session -> Path]
          Under,      \* {<<p, q>> : p starts with q}
          Mounting,   \* the sessions whose agents need a mount (Claude Code, ACP)
          MaxSend, MaxSwitch, MaxRemove, MaxSweep, MaxFault, MaxEgress, MaxRestart  \* bounds

VARIABLES
    reg,     \* [Computer -> {"new", "there", "gone"}]: the table computers
    rec,     \* [Session -> None or [c, notice]]: the table session_computer
    egress,  \* computer the project's browser goes out through, or None
    native,  \* sessions with a native id
    busy,    \* sessions stored as running
    agent,   \* [Session -> None or [on, told]]: the registry of live runs
    lock,    \* session whose start holds the registry lock, or None
    mlock,   \* the sweep holds the mounts, or not
    mounts,  \* [Path -> None or [c, users, unused]]: ProjectMounts.entries
    kernel,  \* [Path -> None or Computer]: what the kernel has mounted
    snd,     \* [Session -> the call of send]
    sw,      \* [Session -> the call of switch]
    swp,     \* the sweep
    bare,    \* history: sessions whose mount a switch's last step took from a started agent
    rm,      \* the call of remove
    count

store == <<reg, rec, egress, native, busy>>
mountVars == <<mlock, mounts, kernel, swp, bare>>
vars == <<store, agent, lock, mountVars, snd, sw, rm, count>>

NoSend == [pc |-> "idle", told |-> None, held |-> FALSE]
NoSwitch == [pc |-> "idle", to |-> None, from |-> None, ran |-> FALSE]
NoSweep == [todo |-> {}, expired |-> {}]
NoRemove == [pc |-> "idle", c |-> None]

Init ==
    /\ reg = [c \in Computer |-> "new"] /\ rec = [s \in Session |-> None] /\ egress = None
    /\ native = {} /\ busy = {} /\ agent = [s \in Session |-> None] /\ lock = None
    /\ mlock = FALSE /\ mounts = [p \in Path |-> None] /\ kernel = [p \in Path |-> None]
    /\ snd = [s \in Session |-> NoSend] /\ sw = [s \in Session |-> NoSwitch]
    /\ swp = NoSweep /\ bare = {} /\ rm = NoRemove
    /\ count = [send |-> 0, switch |-> 0, remove |-> 0, sweep |-> 0, fault |-> 0, egress |-> 0, restart |-> 0]

Bump(f) == count' = [count EXCEPT ![f] = @ + 1]
Fault == count.fault < MaxFault /\ Bump("fault")

\* Computers::resolve: the local computer, or a registered one.
Resolves(c) == c = Local \/ (c \in Computer /\ reg[c] = "there")

\* The session's current computer; a session that was never switched is local.
Current(s) == IF rec[s] = None THEN Local ELSE rec[s].c
-----------------------------------------------------------------------------
(* The registry of computers.                                              *)
Register(c) ==
    /\ reg[c] = "new" /\ reg' = [reg EXCEPT ![c] = "there"]
    /\ UNCHANGED <<rec, egress, native, busy, agent, lock, mountVars, snd, sw, rm, count>>

\* A browser's egress is set to a computer that resolves, or back to direct.
SetEgress(c) ==
    /\ count.egress < MaxEgress /\ Bump("egress")
    /\ egress' = IF egress = c THEN None ELSE c
    /\ egress # c => Resolves(c)
    /\ UNCHANGED <<reg, rec, native, busy, agent, lock, mountVars, snd, sw, rm>>

\* remove: refused while a session is on it ...
RemoveBegin(c) ==
    /\ rm.pc = "idle" /\ reg[c] = "there" /\ count.remove < MaxRemove /\ Bump("remove")
    /\ \A s \in Session : Current(s) # c
    /\ rm' = [pc |-> "egress", c |-> c]
    /\ UNCHANGED <<store, agent, lock, mountVars, snd, sw>>

\* ... or a browser goes out through it (the connection was given back in between) ...
RemoveEgress ==
    /\ rm.pc = "egress"
    /\ rm' = IF egress = rm.c THEN NoRemove ELSE [rm EXCEPT !.pc = "delete"]
    /\ UNCHANGED <<store, agent, lock, mountVars, snd, sw, count>>

RemoveDelete ==
    /\ rm.pc = "delete" /\ rm' = NoRemove
    /\ reg' = [reg EXCEPT ![rm.c] = "gone"]
    /\ UNCHANGED <<rec, egress, native, busy, agent, lock, mountVars, snd, sw, count>>
-----------------------------------------------------------------------------
(* Project mounts. An unmount that fails leaves the kernel's mount behind. *)
Covering(s) == {p \in Path : mounts[p] # None /\ <<Cwd[s], p>> \in Under}
Inside(s) == {p \in Path : mounts[p] # None /\ <<p, Cwd[s]>> \in Under}

\* The mounts left without users when s uses none but keep.
Left(s, keep) == {p \in Path \ {keep} : mounts[p] # None /\ mounts[p].users = {s}}

\* As LeaveOthers, for an entry that stays when its last user has left.
LeaveOthersFault(s, keep) ==
    [p \in Path |-> IF p # keep /\ mounts[p] # None THEN [mounts[p] EXCEPT !.users = @ \ {s}] ELSE mounts[p]]

LeaveOthers(s, keep) ==
    [p \in Path |-> IF p \in Left(s, keep) THEN None
                    ELSE IF p # keep /\ mounts[p] # None
                         THEN [mounts[p] EXCEPT !.users = @ \ {s}] ELSE mounts[p]]

\* unmount_entry: the entry goes whether or not the kernel lets go.
Unmounted(k, gone) ==
    \/ kernel' = [p \in Path |-> IF p \in gone THEN None ELSE k[p]] /\ UNCHANGED count
    \/ gone # {} /\ Fault /\ kernel' = k

ReleaseMount(s) ==
    /\ ~mlock
    /\ mounts' = LeaveOthers(s, None) /\ Unmounted(kernel, Left(s, None))

Joined(entry, s) == [entry EXCEPT !.users = @ \cup {s}, !.unused = FALSE]
ShareMount(s, p) ==
    /\ mounts' = [LeaveOthers(s, p) EXCEPT ![p] = Joined(mounts[p], s)]
    /\ Unmounted(kernel, Left(s, p))

\* The directory is on the node and its mount point here is free, a stale mount being removed first.
NewMount(s, c) ==
    LET p == Cwd[s] IN
    /\ mounts' = [LeaveOthers(s, p) EXCEPT ![p] = [c |-> c, users |-> {s}, unused |-> FALSE]]
    /\ Unmounted([kernel EXCEPT ![p] = c], Left(s, p))

\* acquire fails after the session has left its other mounts (node unreachable, mount command).
MountFails(s) ==
    /\ Fault /\ mounts' = LeaveOthers(s, Cwd[s])
    /\ kernel' = [p \in Path |-> IF p \in Left(s, Cwd[s]) THEN None ELSE kernel[p]]

\* acquire: no mount of another computer covers the directory, and none lies below it.
CanAcquire(s, c) == (\A p \in Covering(s) : mounts[p].c = c) /\ (Covering(s) # {} \/ Inside(s) = {})

Acquire(s, c) ==
    /\ ~mlock /\ CanAcquire(s, c)
    /\ IF Covering(s) # {} THEN \E p \in Covering(s) : ShareMount(s, p) ELSE NewMount(s, c)
-----------------------------------------------------------------------------
(* Sessions::send and the hooks of this service.                           *)
Send(s) ==
    /\ snd[s].pc = "idle" /\ count.send < MaxSend /\ Bump("send")
    /\ snd' = [snd EXCEPT ![s].pc = "ensure"]
    /\ UNCHANGED <<store, agent, lock, mountVars, sw, rm>>

\* ensure_live finds the agent, or begins to start it: the instructions describe the computer.
EnsureLive(s) ==
    /\ snd[s].pc = "ensure" /\ lock = None
    /\ IF agent[s] # None
       THEN snd' = [snd EXCEPT ![s] = [@ EXCEPT !.pc = "hook", !.held = TRUE]] /\ UNCHANGED lock
       ELSE /\ lock' = s
            /\ snd' = [snd EXCEPT ![s] = [@ EXCEPT !.pc = "prepare",
                         !.told = IF rec[s] = None \/ ~Resolves(Current(s)) THEN None
                                  ELSE Current(s)]]
    /\ UNCHANGED <<store, agent, mountVars, sw, rm, count>>

StartFailed(s) == lock' = None /\ snd' = [snd EXCEPT ![s] = NoSend]

\* prepare_start: mount the project of a session on a node, or let go of a mount.
PrepareStart(s) ==
    /\ snd[s].pc = "prepare"
    /\ \/ /\ s \notin Mounting
          /\ UNCHANGED <<mounts, kernel, bare, count, lock>>
          /\ snd' = [snd EXCEPT ![s].pc = "configure"]
       \/ /\ s \in Mounting /\ Current(s) = Local /\ ReleaseMount(s)
          /\ UNCHANGED lock /\ bare' = bare \ {s} /\ snd' = [snd EXCEPT ![s].pc = "configure"]
       \/ /\ s \in Mounting /\ Current(s) # Local /\ Resolves(Current(s))
          /\ Acquire(s, Current(s))
          /\ UNCHANGED lock /\ bare' = bare \ {s} /\ snd' = [snd EXCEPT ![s].pc = "configure"]
    /\ UNCHANGED <<store, agent, mlock, swp, sw, rm>>

PrepareErr(s) ==
    /\ snd[s].pc = "prepare" /\ s \in Mounting /\ Current(s) # Local
    /\ \/ /\ ~Resolves(Current(s)) \/ (~mlock /\ ~CanAcquire(s, Current(s)))
          /\ UNCHANGED <<mounts, kernel, count>>
       \/ ~mlock /\ CanAcquire(s, Current(s)) /\ Covering(s) = {} /\ MountFails(s)
    /\ StartFailed(s)
    /\ UNCHANGED <<store, agent, mlock, swp, bare, sw, rm>>

\* configure_start reads the record again and routes the tools; then the agent is started.
ConfigureStart(s) ==
    /\ snd[s].pc = "configure" /\ Resolves(Current(s))
    /\ agent' = [agent EXCEPT ![s] = [on |-> Current(s), told |-> snd[s].told]]
    /\ lock' = None
    /\ snd' = [snd EXCEPT ![s] = [@ EXCEPT !.pc = "hook", !.held = TRUE]]
    /\ UNCHANGED <<store, mountVars, sw, rm, count>>

ConfigureErr(s) ==
    /\ snd[s].pc = "configure"
    /\ \/ ~Resolves(Current(s)) /\ UNCHANGED count
       \/ Fault
    /\ StartFailed(s)
    /\ UNCHANGED <<store, agent, mountVars, sw, rm>>

\* take_notice: a notice is returned once.
TakeNotice(s) == rec' = IF rec[s] = None THEN rec ELSE [rec EXCEPT ![s].notice = FALSE]

\* message_hook: the notice goes with this message and is forgotten; the message is recorded.
MessageHook(s) ==
    /\ snd[s].pc = "hook" /\ snd' = [snd EXCEPT ![s].pc = "deliver"]
    /\ TakeNotice(s) /\ busy' = busy \cup {s}
    /\ UNCHANGED <<reg, egress, native, agent, lock, mountVars, sw, rm, count>>

\* The agent gets the message and begins a turn, unless it was shut down meanwhile.
Deliver(s) ==
    /\ snd[s].pc = "deliver" /\ snd' = [snd EXCEPT ![s] = NoSend]
    /\ native' = IF snd[s].held THEN native \cup {s} ELSE native
    /\ UNCHANGED <<reg, rec, egress, busy, agent, lock, mountVars, sw, rm, count>>

TurnEnds(s) ==
    /\ s \in busy /\ snd[s].pc # "deliver" /\ busy' = busy \ {s}
    /\ UNCHANGED <<reg, rec, egress, native, agent, lock, mountVars, snd, sw, rm, count>>

\* Sessions::release takes the run out of the registry and shuts it down.
Released(s) ==
    /\ lock = None
    /\ agent' = [agent EXCEPT ![s] = None]
    /\ snd' = [snd EXCEPT ![s].held = FALSE]

IdleRelease(s) ==
    /\ agent[s] # None /\ s \notin busy /\ snd[s].pc = "idle" /\ Released(s)
    /\ UNCHANGED <<store, lock, mountVars, sw, rm, count>>
-----------------------------------------------------------------------------
(* Computers::switch. The check for a turn and the probe of the computer   *)
(* come before the record changes; the agent is released afterwards.       *)
SwitchBegin(s, c) ==
    /\ sw[s].pc = "idle" /\ count.switch < MaxSwitch /\ Bump("switch")
    /\ s \notin busy /\ Resolves(c) /\ (rec[s] # None => rec[s].c # c)
    /\ sw' = [sw EXCEPT ![s] = [pc |-> "probe", to |-> c, from |-> Current(s),
                                ran |-> s \in native]]
    /\ UNCHANGED <<store, agent, lock, mountVars, snd, rm>>

SwitchUnreachable(s) ==
    /\ sw[s].pc = "probe" /\ Fault /\ sw' = [sw EXCEPT ![s] = NoSwitch]
    /\ UNCHANGED <<store, agent, lock, mountVars, snd, rm>>

\* set_session_computer: the record and its notice are replaced, delivered or not.
RecordComputer(s, c, noticed) == rec' = [rec EXCEPT ![s] = [c |-> c, notice |-> noticed]]

SwitchStore(s) ==
    /\ sw[s].pc = "probe"
    /\ RecordComputer(s, sw[s].to, sw[s].from # sw[s].to /\ sw[s].ran)
    /\ sw' = [sw EXCEPT ![s].pc = "release"]
    /\ UNCHANGED <<reg, egress, native, busy, agent, lock, mountVars, snd, rm, count>>

\* As SwitchRelease, for an implementation that leaves a running agent alone.
SwitchReleaseFault(s) ==
    /\ sw[s].pc = "release" /\ UNCHANGED <<agent, snd, count>>
    /\ sw' = [sw EXCEPT ![s].pc = "unmount"]
    /\ UNCHANGED <<store, lock, mountVars, rm>>

\* The agent is released; if it cannot be shut down the switch ends with an error.
SwitchRelease(s) ==
    /\ sw[s].pc = "release" /\ Released(s)
    /\ \/ sw' = [sw EXCEPT ![s].pc = "unmount"] /\ UNCHANGED count
       \/ agent[s] # None /\ Fault /\ sw' = [sw EXCEPT ![s] = NoSwitch]
    /\ UNCHANGED <<store, lock, mountVars, rm>>

\* A mounted session whose agent was started since the switch released it, or is about to be.
Restarted(s) == s \in Mounting /\ (agent[s] # None \/ snd[s].pc = "configure")

\* The session leaves its mounts, the one its next start has made since the release included.
SwitchUnmount(s) ==
    /\ sw[s].pc = "unmount" /\ ReleaseMount(s) /\ sw' = [sw EXCEPT ![s] = NoSwitch]
    /\ bare' = IF Restarted(s) THEN bare \cup {s} ELSE bare
    /\ UNCHANGED <<store, agent, lock, mlock, swp, snd, rm>>
-----------------------------------------------------------------------------
(* ProjectMounts::sweep, every 30 seconds: a mount none of whose sessions  *)
(* has been live since an earlier sweep (idle_grace) is unmounted. Asking  *)
(* whether a session is live takes the registry lock.                      *)
SweepBegin ==
    /\ ~mlock /\ count.sweep < MaxSweep /\ Bump("sweep") /\ mlock' = TRUE
    /\ swp' = [todo |-> {p \in Path : mounts[p] # None}, expired |-> {}]
    /\ UNCHANGED <<store, agent, lock, mounts, kernel, bare, snd, sw, rm>>

SweepAsk(p) ==
    LET live == \E u \in mounts[p].users : agent[u] # None IN
    /\ mlock /\ p \in swp.todo /\ lock = None
    /\ mounts' = [mounts EXCEPT ![p].unused = ~live]
    /\ swp' = [todo |-> swp.todo \ {p},
               expired |-> IF ~live /\ mounts[p].unused THEN swp.expired \cup {p} ELSE swp.expired]
    /\ UNCHANGED <<store, agent, lock, mlock, kernel, bare, snd, sw, rm, count>>

SweepEnd ==
    /\ mlock /\ swp.todo = {} /\ mlock' = FALSE /\ swp' = NoSweep
    /\ mounts' = [p \in Path |-> IF p \in swp.expired THEN None ELSE mounts[p]]
    /\ Unmounted(kernel, swp.expired)
    /\ UNCHANGED <<store, agent, lock, bare, snd, sw, rm>>

\* ProjectMounts::shutdown, when the server ends in order: what it has mounted is unmounted.
Shutdown == ~mlock /\ kernel' = [p \in Path |-> IF mounts[p] # None THEN None ELSE kernel[p]]

\* The server stops, in order or by a crash, which leaves what the kernel has mounted.
Restart ==
    /\ count.restart < MaxRestart /\ Bump("restart")
    /\ Shutdown \/ UNCHANGED kernel
    /\ busy' = {} /\ agent' = [s \in Session |-> None] /\ lock' = None
    /\ mlock' = FALSE /\ mounts' = [p \in Path |-> None] /\ swp' = NoSweep /\ bare' = {}
    /\ snd' = [s \in Session |-> NoSend] /\ sw' = [s \in Session |-> NoSwitch] /\ rm' = NoRemove
    /\ UNCHANGED <<reg, rec, egress, native>>

SendStep(s) ==
    \/ EnsureLive(s) \/ PrepareStart(s) \/ PrepareErr(s) \/ ConfigureStart(s) \/ ConfigureErr(s)
    \/ MessageHook(s) \/ Deliver(s)
SwitchStep(s) == SwitchUnreachable(s) \/ SwitchStore(s) \/ SwitchRelease(s) \/ SwitchUnmount(s)
SweepStep == (\E p \in Path : SweepAsk(p)) \/ SweepEnd

Next ==
    \/ \E c \in Computer : Register(c) \/ SetEgress(c) \/ RemoveBegin(c)
    \/ RemoveEgress \/ RemoveDelete
    \/ \E s \in Session : Send(s) \/ SendStep(s) \/ TurnEnds(s) \/ IdleRelease(s) \/ SwitchStep(s)
    \/ \E s \in Session, c \in Computer \cup {Local} : SwitchBegin(s, c)
    \/ SweepBegin \/ SweepStep
    \/ Restart

Spec == Init /\ [][Next]_vars
-----------------------------------------------------------------------------
\* The types of the tables, the registry of runs, the mounts and the calls under way.
Place == Computer \cup {Local}
TypeOK ==
    /\ reg \in [Computer -> {"new", "there", "gone"}] /\ egress \in Computer \cup {None}
    /\ rec \in [Session -> {None} \cup [c : Place, notice : BOOLEAN]]
    /\ native \subseteq Session /\ busy \subseteq Session /\ lock \in Session \cup {None}
    /\ agent \in [Session -> {None} \cup [on : Place, told : Place \cup {None}]]
    /\ mlock \in BOOLEAN /\ kernel \in [Path -> Computer \cup {None}]
    /\ \A p \in Path : mounts[p] # None =>
          mounts[p] \in [c : Computer, users : SUBSET Session, unused : BOOLEAN] /\ mounts[p].users # {}
    /\ snd \in [Session -> [pc : {"idle", "ensure", "prepare", "configure", "hook", "deliver"},
                            told : Place \cup {None}, held : BOOLEAN]]
    /\ sw \in [Session -> [pc : {"idle", "probe", "release", "unmount"}, to : Place \cup {None},
                           from : Place \cup {None}, ran : BOOLEAN]]
    /\ swp.todo \subseteq Path /\ swp.expired \subseteq Path /\ (~mlock => swp = NoSweep)
    /\ bare \subseteq Session /\ rm \in [pc : {"idle", "egress", "delete"}, c : Computer \cup {None}]

Switching(s) == sw[s].pc = "release"

(* "Switching records the new computer ... and releases the session's      *)
(* agent process; the next message starts it with the new computer": an    *)
(* agent whose tools, or whose description of its computer, are those of   *)
(* another computer than the recorded one is about to be released by a     *)
(* switch, however messages, switches and starts overlap.                  *)
AgentOnItsComputer ==
    \A s \in Session : agent[s] # None /\ ~Switching(s) =>
        /\ agent[s].on = Current(s)
        /\ agent[s].told = IF rec[s] = None THEN None ELSE Current(s)

(* "Held across mount/unmount so two starts never race on one path",       *)
(* Conflict and Nested: mounts never lie inside one another, each has a    *)
(* session that uses it, and shows the files of its own computer.          *)
MountsApart ==
    \A p \in Path : mounts[p] # None =>
        /\ mounts[p].users # {} /\ kernel[p] = mounts[p].c
        /\ \A q \in Path \ {p} : mounts[q] # None => <<p, q>> \notin Under

(* "Sessions on different computers cannot share a path": an agent that    *)
(* works on a computer through the file system has its directory in a mount *)
(* of that computer, which its session uses, and its session uses no mount  *)
(* of another computer; an agent on the local computer has none of its own. *)
(* Idle sweeps, starts and switches of other sessions take nothing from it. *)
(* What its own switch may take is the exception: the release that ends a   *)
(* switch comes after the agent's, and leaves an agent that a message has   *)
(* started in between without its directory until its next start.           *)
Served(s) == \E p \in Covering(s) : s \in mounts[p].users
MountOfItsComputer ==
    \A s \in Session : agent[s] # None /\ ~Switching(s) =>
        /\ \A p \in Path : mounts[p] # None /\ s \in mounts[p].users => mounts[p].c = agent[s].on
        /\ s \in Mounting /\ agent[s].on # Local => Served(s) \/ s \in bare
-----------------------------------------------------------------------------
(* Proofs. None is no value of any data, Cwd gives each session a path, and  *)
(* a path starts with itself.                                               *)
Mount == [c : Computer, users : SUBSET Session, unused : BOOLEAN]
Recorded == [c : Place, notice : BOOLEAN]
StoreTypes ==
    /\ reg \in [Computer -> {"new", "there", "gone"}] /\ egress \in Computer \cup {None}
    /\ rec \in [Session -> {None} \cup Recorded] /\ native \subseteq Session /\ busy \subseteq Session
    /\ rm \in [pc : {"idle", "egress", "delete"}, c : Computer \cup {None}]
Running == [on : Place, told : Place \cup {None}]
Sending == [pc : {"idle", "ensure", "prepare", "configure", "hook", "deliver"},
            told : Place \cup {None}, held : BOOLEAN]
Switches == [pc : {"idle", "probe", "release", "unmount"}, to : Place \cup {None},
             from : Place \cup {None}, ran : BOOLEAN]
CallTypes ==
    /\ lock \in Session \cup {None} /\ agent \in [Session -> {None} \cup Running]
    /\ snd \in [Session -> Sending] /\ sw \in [Session -> Switches]
MountTypes ==
    /\ mlock \in BOOLEAN /\ kernel \in [Path -> Computer \cup {None}]
    /\ mounts \in [Path -> {None} \cup Mount]
    /\ \A p \in Path : mounts[p] # None => mounts[p].users # {}
    /\ swp \in [todo : SUBSET Path, expired : SUBSET Path] /\ (~mlock => swp = NoSweep)
    /\ bare \subseteq Session
Apart ==
    /\ None \notin Session \cup Path \cup Place \cup Mount \cup Recorded \cup Running
    /\ Local \notin Computer /\ Cwd \in [Session -> Path] /\ \A p \in Path : <<p, p>> \in Under

TypeInv == StoreTypes /\ CallTypes /\ MountTypes

\* Who starts a session holds the registry lock, and has found no agent of it.
StartLocked ==
    \A s \in Session :
        /\ snd[s].pc \in {"prepare", "configure"} <=> lock = s
        /\ lock = s => agent[s] = None

\* A session's computer, or the one it is being switched to, was registered.
Placed(c) == c = Local \/ (c \in Computer /\ reg[c] # "new")
Known ==
    \A s \in Session :
        /\ rec[s] # None => Placed(rec[s].c)
        /\ sw[s].pc = "probe" => Placed(sw[s].to)

\* What an agent about to be started was told of its computer. The computer of the record may have
\* been removed; it does not come back.
ToldRight ==
    \A s \in Session : snd[s].pc \in {"prepare", "configure"} /\ ~Switching(s) =>
        \/ snd[s].told = IF rec[s] = None THEN None ELSE Current(s)
        \/ rec[s] # None /\ ~Resolves(Current(s))

\* The sweep looks at mounts that are there.
SweepSees == \A p \in swp.todo \cup swp.expired : mounts[p] # None

\* A session whose mounts have to fit: its agent runs or is about to, and no switch has to release it.
InUse(s) == agent[s] # None \/ snd[s].pc = "configure"
Fits(s) == InUse(s) /\ ~Switching(s)

\* Such a session uses mounts of its computer only.
MountsFit ==
    \A s \in Session, p \in Path : mounts[p] # None /\ s \in mounts[p].users =>
        s \in Mounting /\ (Fits(s) => mounts[p].c = Current(s))

\* And it has one if it needs one and its own switch has not taken it.
MountsServe ==
    \A s \in Mounting \cap Session : Fits(s) /\ Current(s) # Local => Served(s) \/ s \in bare

\* No agent runs or starts in a mount that the sweep has found unused.
SweptUnused ==
    \A p \in swp.expired : \A s \in mounts[p].users : ~InUse(s)

IInv ==
    /\ TypeInv /\ StartLocked /\ Known /\ ToldRight /\ SweepSees /\ MountsFit /\ MountsServe /\ SweptUnused
    /\ AgentOnItsComputer /\ MountsApart

\* What becomes of the mounts when s leaves them, or uses one of C: the other sessions' uses stay.
MountsMove(s, C) ==
    /\ mounts' \in [Path -> {None} \cup Mount] /\ kernel' \in [Path -> Computer \cup {None}]
    /\ \A p \in Path : mounts'[p] # None => \A u \in mounts'[p].users :
          IF u = s THEN mounts'[p].c \in C
                   ELSE mounts[p] # None /\ u \in mounts[p].users /\ mounts'[p].c = mounts[p].c
    /\ \A p \in Path : mounts[p] # None => \A u \in mounts[p].users \ {s} :
          mounts'[p] # None /\ u \in mounts'[p].users

\* The mounts when s has left those but k.
Leaves(m, s, k) ==
    /\ m \in [Path -> {None} \cup Mount]
    /\ \A p \in Path : m[p] # None =>
          /\ p \notin Left(s, k) /\ mounts[p] # None /\ m[p].c = mounts[p].c
          /\ m[p].users = IF p = k THEN mounts[p].users ELSE mounts[p].users \ {s}
          /\ m[p].users # {}
    /\ \A p \in Path : mounts[p] # None /\ p \notin Left(s, k) => m[p] # None

LEMMA OthersLeft ==
  ASSUME Apart, TypeInv, NEW s \in Session, NEW k PROVE Leaves(LeaveOthers(s, k), s, k)
<1> DEFINE m == LeaveOthers(s, k)
<1>1. m = [p \in Path |-> IF p \in Left(s, k) THEN None
                          ELSE IF p # k /\ mounts[p] # None
                               THEN [mounts[p] EXCEPT !.users = mounts[p].users \ {s}]
                               ELSE mounts[p]]
  BY DEF LeaveOthers
<1> HIDE DEF m
<1>2. ASSUME NEW p \in Path
      PROVE  /\ m[p] \in {None} \cup Mount
             /\ m[p] # None =>
                  /\ p \notin Left(s, k) /\ mounts[p] # None /\ m[p].c = mounts[p].c
                  /\ m[p].users = (IF p = k THEN mounts[p].users ELSE mounts[p].users \ {s})
                  /\ m[p].users # {}
             /\ mounts[p] # None /\ p \notin Left(s, k) => m[p] # None
  <2>1. mounts[p] \in {None} \cup Mount BY DEF TypeInv, MountTypes
  <2>2. CASE p \in Left(s, k) BY <1>1, <2>2
  <2>3. CASE p \notin Left(s, k) /\ (p = k \/ mounts[p] = None)
    <3>1. m[p] = mounts[p] BY <1>1, <2>3
    <3>2. p = k \/ m[p] = None BY <2>3, <3>1
    <3>3. mounts[p] # None => mounts[p].users # {} BY DEF TypeInv, MountTypes
    <3> QED BY <2>1, <2>3, <3>1, <3>2, <3>3
  <2>4. CASE p \notin Left(s, k) /\ p # k /\ mounts[p] # None
    <3>1. m[p] = [mounts[p] EXCEPT !.users = mounts[p].users \ {s}] BY <1>1, <2>4
    <3>2. mounts[p] \in Mount BY <2>1, <2>4
    <3>3. mounts[p].users # {s} BY <2>4 DEF Left
    <3>4. mounts[p].users # {} BY <2>4 DEF TypeInv, MountTypes
    <3>5. mounts[p].users \ {s} # {} BY <3>3, <3>4
    <3>6. m[p] \in Mount /\ m[p].users = mounts[p].users \ {s} /\ m[p].c = mounts[p].c
      BY <3>1, <3>2 DEF Mount
    <3>7. m[p] # None BY <3>6 DEF Apart
    <3> QED BY <2>4, <3>3, <3>5, <3>6, <3>7
  <2> QED BY <2>2, <2>3, <2>4
<1>3. m \in [Path -> {None} \cup Mount] BY <1>1, <1>2
<1>4. Leaves(m, s, k) BY <1>2, <1>3 DEF Leaves
<1> QED BY <1>4 DEF m

\* Leaving takes nothing from the other sessions.
LEMMA OthersStay ==
  ASSUME TypeInv, NEW s \in Session, NEW k, NEW m, Leaves(m, s, k),
         NEW p \in Path, mounts[p] # None, NEW u \in mounts[p].users \ {s}
  PROVE  m[p] # None /\ u \in m[p].users
<1>1. p \notin Left(s, k) BY DEF Left
<1> QED BY <1>1 DEF Leaves

\* What s leaves without users is unmounted; the others stay apart.
LEMMA LeavingKeepsApart ==
  ASSUME Apart, TypeInv, MountsApart, NEW s \in Session, NEW k,
         mounts' = LeaveOthers(s, k), Unmounted(kernel, Left(s, k))
  PROVE  MountsApart' /\ kernel' \in [Path -> Computer \cup {None}]
<1>1. Leaves(mounts', s, k) BY OthersLeft
<1>2. kernel \in [Path -> Computer \cup {None}] BY DEF TypeInv, MountTypes
<1>3. /\ kernel' \in [Path -> Computer \cup {None}]
      /\ \A p \in Path : p \notin Left(s, k) => kernel'[p] = kernel[p]
  BY <1>2 DEF Unmounted
<1> QED BY <1>1, <1>3 DEF MountsApart, Leaves

LEMMA ReleaseMoves ==
  ASSUME Apart, TypeInv, MountsApart, NEW s \in Session, ReleaseMount(s)
  PROVE  MountsMove(s, {}) /\ MountsApart'
<1>1. Leaves(mounts', s, None) BY OthersLeft DEF ReleaseMount
<1>2. \A p \in Path : p # None BY DEF Apart
<1>3. MountsApart' /\ kernel' \in [Path -> Computer \cup {None}]
  BY LeavingKeepsApart DEF ReleaseMount
<1>4. \A p \in Path : mounts[p] # None => \A u \in mounts[p].users \ {s} :
        mounts'[p] # None /\ u \in mounts'[p].users
  BY <1>1, OthersStay
<1> QED BY <1>1, <1>2, <1>3, <1>4 DEF MountsMove, Leaves

LEMMA FailureMoves ==
  ASSUME Apart, TypeInv, MountsApart, NEW s \in Session, MountFails(s)
  PROVE  MountsMove(s, Computer) /\ MountsApart'
<1>1. PICK k : k = Cwd[s] OBVIOUS
<1>2. Leaves(mounts', s, k) BY <1>1, OthersLeft DEF MountFails
<1>3. kernel' = [p \in Path |-> IF p \in Left(s, k) THEN None ELSE kernel[p]]
  BY <1>1 DEF MountFails
<1>4. kernel \in [Path -> Computer \cup {None}] BY DEF TypeInv, MountTypes
<1>5. kernel' \in [Path -> Computer \cup {None}] BY <1>3, <1>4
<1>6. \A p \in Path : mounts'[p] # None => mounts'[p].c \in Computer BY <1>2 DEF Leaves, Mount
<1>7. MountsApart' BY <1>2, <1>3 DEF MountsApart, Leaves
<1>8. \A p \in Path : mounts[p] # None => \A u \in mounts[p].users \ {s} :
        mounts'[p] # None /\ u \in mounts'[p].users
  BY <1>2, OthersStay
<1> QED BY <1>2, <1>5, <1>6, <1>7, <1>8 DEF MountsMove, Leaves

\* The session joins a mount of the same computer, or makes one that no other mount covers or lies in.
LEMMA AcquireMoves ==
  ASSUME Apart, TypeInv, MountsApart, NEW s \in Session, NEW c \in Computer, Acquire(s, c)
  PROVE  MountsMove(s, {c}) /\ MountsApart' /\ Served(s)'
<1>1. ASSUME NEW p \in Covering(s), ShareMount(s, p)
      PROVE  MountsMove(s, {c}) /\ MountsApart' /\ Served(s)'
  <2>1. PICK m : m = LeaveOthers(s, p) OBVIOUS
  <2>2. Leaves(m, s, p) BY <2>1, OthersLeft
  <2>3. p \in Path /\ mounts[p] # None /\ mounts[p].c = c
    BY <1>1 DEF Covering, Acquire, CanAcquire
  <2>4. PICK r : r = Joined(mounts[p], s) OBVIOUS
  <2>5. mounts[p] \in Mount BY <2>3 DEF TypeInv, MountTypes
  <2>6. r = [[mounts[p] EXCEPT !.users = mounts[p].users \cup {s}] EXCEPT !.unused = FALSE]
    BY <2>4 DEF Joined
  <2>7. r \in Mount /\ r.c = c /\ r.users = mounts[p].users \cup {s}
    BY <2>3, <2>5, <2>6 DEF Mount
  <2>8. mounts' = [m EXCEPT ![p] = r] BY <1>1, <2>1, <2>4 DEF ShareMount
  <2>9. /\ mounts' \in [Path -> {None} \cup Mount] /\ mounts'[p] = r
        /\ \A q \in Path : q # p => mounts'[q] = m[q]
    BY <2>2, <2>3, <2>7, <2>8 DEF Leaves
  <2>10. kernel \in [Path -> Computer \cup {None}] BY DEF TypeInv, MountTypes
  <2>11. /\ kernel' \in [Path -> Computer \cup {None}]
         /\ \A q \in Path : q \notin Left(s, p) => kernel'[q] = kernel[q]
    BY <1>1, <2>10 DEF ShareMount, Unmounted
  <2>12. p \notin Left(s, p) BY DEF Left
  <2>13. MountsApart' BY <2>2, <2>3, <2>7, <2>9, <2>11, <2>12 DEF MountsApart, Leaves
  <2>14. \A q \in Path : mounts[q] # None => \A u \in mounts[q].users \ {s} :
           mounts'[q] # None /\ u \in mounts'[q].users
    <3>1. r # None BY <2>7 DEF Apart
    <3> QED BY <2>2, <2>7, <2>9, <3>1, OthersStay
  <2>15. MountsMove(s, {c})
    <3>1. \A q \in Path : mounts'[q] # None => \A u \in mounts'[q].users :
            IF u = s THEN mounts'[q].c \in {c}
                     ELSE mounts[q] # None /\ u \in mounts[q].users /\ mounts'[q].c = mounts[q].c
      BY <2>2, <2>3, <2>7, <2>9 DEF Leaves
    <3> QED BY <2>9, <2>11, <2>14, <3>1 DEF MountsMove
  <2>16. Served(s)'
    <3>1. r # None /\ <<Cwd[s], p>> \in Under BY <1>1, <2>7 DEF Apart, Covering
    <3> QED BY <2>3, <2>7, <2>9, <3>1 DEF Served, Covering
  <2> QED BY <2>13, <2>15, <2>16
<1>2. ASSUME NewMount(s, c), Covering(s) = {}, Inside(s) = {}
      PROVE  MountsMove(s, {c}) /\ MountsApart' /\ Served(s)'
  <2>1. PICK p \in Path : p = Cwd[s] BY DEF Apart
  <2>2. PICK m : m = LeaveOthers(s, p) OBVIOUS
  <2>3. Leaves(m, s, p) BY <2>2, OthersLeft
  <2>4. PICK r : r = [c |-> c, users |-> {s}, unused |-> FALSE] OBVIOUS
  <2>5. r \in Mount /\ r.c = c /\ r.users = {s} BY <2>4 DEF Mount
  <2>6. mounts' = [m EXCEPT ![p] = r] BY <1>2, <2>1, <2>2, <2>4 DEF NewMount
  <2>7. /\ mounts' \in [Path -> {None} \cup Mount] /\ mounts'[p] = r
        /\ \A q \in Path : q # p => mounts'[q] = m[q]
    BY <2>3, <2>5, <2>6 DEF Leaves
  <2>8. PICK k : k = [kernel EXCEPT ![p] = c] OBVIOUS
  <2>9. kernel \in [Path -> Computer \cup {None}] BY DEF TypeInv, MountTypes
  <2>10. /\ k \in [Path -> Computer \cup {None}] /\ k[p] = c
         /\ \A q \in Path : q # p => k[q] = kernel[q]
    BY <2>8, <2>9
  <2>11. Unmounted(k, Left(s, p)) BY <1>2, <2>1, <2>8 DEF NewMount
  <2>12. /\ kernel' \in [Path -> Computer \cup {None}]
         /\ \A q \in Path : q \notin Left(s, p) => kernel'[q] = k[q]
    BY <2>10, <2>11 DEF Unmounted
  <2>13. p \notin Left(s, p) BY DEF Left
  <2>14. \A q \in Path : mounts[q] # None => <<p, q>> \notin Under /\ <<q, p>> \notin Under
    BY <1>2, <2>1 DEF Covering, Inside
  <2>15. \A q \in Path : mounts'[q] # None => mounts'[q].users # {} /\ kernel'[q] = mounts'[q].c
    BY <2>3, <2>5, <2>7, <2>10, <2>12, <2>13 DEF MountsApart, Leaves
  <2>16. \A q \in Path : mounts'[q] # None => q = p \/ mounts[q] # None BY <2>3, <2>7 DEF Leaves
  <2>17. \A q, o \in Path : mounts'[q] # None /\ mounts'[o] # None /\ q # o => <<q, o>> \notin Under
    BY <2>14, <2>16 DEF MountsApart
  <2>18. MountsApart' BY <2>15, <2>17 DEF MountsApart
  <2>19. <<p, p>> \in Under BY DEF Apart
  <2>20. \A q \in Path : mounts[q] # None => \A u \in mounts[q].users \ {s} :
           mounts'[q] # None /\ u \in mounts'[q].users
    BY <2>3, <2>7, <2>14, <2>19, OthersStay
  <2>21. MountsMove(s, {c}) BY <2>3, <2>5, <2>7, <2>12, <2>20 DEF MountsMove, Leaves
  <2>22. Served(s)'
    <3>1. r # None BY <2>5 DEF Apart
    <3> QED BY <2>1, <2>5, <2>7, <2>19, <3>1 DEF Served, Covering
  <2> QED BY <2>18, <2>21, <2>22
<1> QED BY <1>1, <1>2 DEF Acquire, CanAcquire

LEMMA TypesAgree == TypeInv => TypeOK
BY DEF TypeInv, TypeOK, StoreTypes, CallTypes, MountTypes, Recorded, Running, Sending, Switches, Mount

LEMMA Initially == Apart /\ Init => IInv
<1> SUFFICES ASSUME Apart, Init PROVE IInv OBVIOUS
<1>1. StoreTypes BY DEF Init, StoreTypes, NoRemove
<1>2. CallTypes BY DEF Init, CallTypes, NoSend, NoSwitch, Sending, Switches
<1>3. MountTypes BY DEF Init, MountTypes, NoSweep
<1>4. StartLocked /\ ToldRight BY DEF Init, Apart, StartLocked, ToldRight, NoSend
<1>5. Known BY DEF Init, Known, NoSwitch
<1>6. SweepSees /\ MountsFit /\ MountsServe /\ SweptUnused /\ AgentOnItsComputer /\ MountsApart
  BY DEF Init, SweepSees, NoSweep, NoSend, MountsFit, MountsServe, SweptUnused, Fits, InUse,
         AgentOnItsComputer, MountsApart
<1> QED BY <1>1, <1>2, <1>3, <1>4, <1>5, <1>6 DEF IInv, TypeInv

LEMMA PlaceOf == ASSUME StoreTypes, NEW s \in Session PROVE Current(s) \in Place
BY DEF StoreTypes, Recorded, Current, Place

LEMMA StoreTypesKept == ASSUME Apart, IInv, Next PROVE StoreTypes'
<1> USE DEF IInv, TypeInv, StoreTypes
<1>1. ASSUME NEW c \in Computer, Register(c) \/ SetEgress(c) \/ RemoveBegin(c) PROVE StoreTypes'
  BY <1>1 DEF Register, SetEgress, RemoveBegin, store
<1>2. CASE RemoveEgress \/ RemoveDelete
  BY <1>2 DEF RemoveEgress, RemoveDelete, NoRemove, store
<1>3. ASSUME NEW s \in Session, MessageHook(s) PROVE StoreTypes'
  <2>1. PICK r : r = [rec[s] EXCEPT !.notice = FALSE] OBVIOUS
  <2>2. rec[s] # None => r \in Recorded BY <2>1 DEF Recorded
  <2>3. rec' = rec \/ (rec[s] # None /\ rec' = [rec EXCEPT ![s] = r])
    BY <1>3, <2>1 DEF MessageHook, TakeNotice
  <2> QED BY <1>3, <2>2, <2>3 DEF MessageHook
<1>4. ASSUME NEW s \in Session, SwitchStore(s) PROVE StoreTypes'
  <2>1. sw[s].to \in Place BY <1>4 DEF SwitchStore, Known, Placed, Place
  <2>2. [c |-> sw[s].to, notice |-> sw[s].from # sw[s].to /\ sw[s].ran] \in Recorded
    BY <2>1 DEF CallTypes, Switches, Recorded
  <2> QED BY <1>4, <2>2 DEF SwitchStore, RecordComputer
<1>5. ASSUME NEW s \in Session, Deliver(s) \/ TurnEnds(s) PROVE StoreTypes'
  BY <1>5 DEF Deliver, TurnEnds
<1>6. CASE Restart BY <1>6 DEF Restart, NoRemove
<1>7. ASSUME NEW s \in Session, Send(s) \/ EnsureLive(s) \/ PrepareStart(s) \/ PrepareErr(s) PROVE StoreTypes'
  BY <1>7 DEF Send, EnsureLive, PrepareStart, PrepareErr, store
<1>8. ASSUME NEW s \in Session, ConfigureStart(s) \/ ConfigureErr(s) \/ IdleRelease(s) PROVE StoreTypes'
  BY <1>8 DEF ConfigureStart, ConfigureErr, IdleRelease, store
<1>9. ASSUME NEW s \in Session, SwitchUnreachable(s) \/ SwitchRelease(s) \/ SwitchUnmount(s) PROVE StoreTypes'
  BY <1>9 DEF SwitchUnreachable, SwitchRelease, SwitchUnmount, store
<1>10. ASSUME NEW s \in Session, NEW c \in Computer \cup {Local}, SwitchBegin(s, c) PROVE StoreTypes'
  BY <1>10 DEF SwitchBegin, store
<1>11. CASE SweepBegin \/ SweepStep
  BY <1>11 DEF SweepBegin, SweepStep, SweepAsk, SweepEnd, store
<1> QED BY <1>1, <1>2, <1>3, <1>4, <1>5, <1>6, <1>7, <1>8, <1>9, <1>10, <1>11 DEF Next, SendStep, SwitchStep

LEMMA CallTypesKept == ASSUME Apart, IInv, Next PROVE CallTypes'
<1> USE DEF IInv, TypeInv, CallTypes
<1>1. ASSUME NEW c \in Computer, Register(c) \/ SetEgress(c) \/ RemoveBegin(c) PROVE CallTypes'
  BY <1>1 DEF Register, SetEgress, RemoveBegin
<1>2. CASE RemoveEgress \/ RemoveDelete BY <1>2 DEF RemoveEgress, RemoveDelete
<1>3. ASSUME NEW s \in Session, Send(s) PROVE CallTypes'
  <2>1. PICK r : r = [snd[s] EXCEPT !.pc = "ensure"] OBVIOUS
  <2>2. r \in Sending BY <2>1 DEF Sending
  <2>3. snd' = [snd EXCEPT ![s] = r] BY <1>3, <2>1 DEF Send
  <2> QED BY <1>3, <2>2, <2>3 DEF Send
<1>4. ASSUME NEW s \in Session, EnsureLive(s) PROVE CallTypes'
  <2>1. PICK r : r = [snd[s] EXCEPT !.pc = "hook", !.held = TRUE] OBVIOUS
  <2>2. r \in Sending BY <2>1 DEF Sending
  <2>3. PICK t : t = IF rec[s] = None \/ ~Resolves(Current(s)) THEN None ELSE Current(s) OBVIOUS
  <2>4. t \in Place \cup {None} BY <2>3, PlaceOf
  <2>5. PICK q : q = [snd[s] EXCEPT !.pc = "prepare", !.told = t] OBVIOUS
  <2>6. q \in Sending BY <2>4, <2>5 DEF Sending
  <2>7. \/ snd' = [snd EXCEPT ![s] = r] /\ lock' = lock
        \/ snd' = [snd EXCEPT ![s] = q] /\ lock' = s
    BY <1>4, <2>1, <2>3, <2>5 DEF EnsureLive
  <2> QED BY <1>4, <2>2, <2>6, <2>7 DEF EnsureLive
<1>5. ASSUME NEW s \in Session, PrepareStart(s) PROVE CallTypes'
  <2>1. PICK r : r = [snd[s] EXCEPT !.pc = "configure"] OBVIOUS
  <2>2. r \in Sending BY <2>1 DEF Sending
  <2>3. snd' = [snd EXCEPT ![s] = r] /\ lock' = lock BY <1>5, <2>1 DEF PrepareStart
  <2> QED BY <1>5, <2>2, <2>3 DEF PrepareStart
<1>6. ASSUME NEW s \in Session, PrepareErr(s) \/ ConfigureErr(s) PROVE CallTypes'
  <2>1. NoSend \in Sending BY DEF NoSend, Sending
  <2>2. lock' = None /\ snd' = [snd EXCEPT ![s] = NoSend] /\ UNCHANGED <<agent, sw>>
    BY <1>6 DEF PrepareErr, ConfigureErr, StartFailed
  <2> QED BY <2>1, <2>2
<1>7. ASSUME NEW s \in Session, ConfigureStart(s) PROVE CallTypes'
  <2>1. PICK r : r = [snd[s] EXCEPT !.pc = "hook", !.held = TRUE] OBVIOUS
  <2>2. r \in Sending BY <2>1 DEF Sending
  <2>3. [on |-> Current(s), told |-> snd[s].told] \in Running
    BY PlaceOf DEF Running, Sending
  <2>4. snd' = [snd EXCEPT ![s] = r] BY <1>7, <2>1 DEF ConfigureStart
  <2> QED BY <1>7, <2>2, <2>3, <2>4 DEF ConfigureStart
<1>8. ASSUME NEW s \in Session, MessageHook(s) PROVE CallTypes'
  <2>1. PICK r : r = [snd[s] EXCEPT !.pc = "deliver"] OBVIOUS
  <2>2. r \in Sending BY <2>1 DEF Sending
  <2>3. snd' = [snd EXCEPT ![s] = r] BY <1>8, <2>1 DEF MessageHook
  <2> QED BY <1>8, <2>2, <2>3 DEF MessageHook
<1>9. ASSUME NEW s \in Session, Deliver(s) PROVE CallTypes'
  <2>1. NoSend \in Sending BY DEF NoSend, Sending
  <2> QED BY <1>9, <2>1 DEF Deliver
<1>10. ASSUME NEW s \in Session, TurnEnds(s) PROVE CallTypes' BY <1>10 DEF TurnEnds
<1>11. ASSUME NEW s \in Session, Released(s)
       PROVE  agent' \in [Session -> {None} \cup Running] /\ snd' \in [Session -> Sending]
  <2>1. PICK r : r = [snd[s] EXCEPT !.held = FALSE] OBVIOUS
  <2>2. r \in Sending BY <2>1 DEF Sending
  <2>3. snd' = [snd EXCEPT ![s] = r] BY <1>11, <2>1 DEF Released
  <2> QED BY <1>11, <2>2, <2>3 DEF Released
<1>12. ASSUME NEW s \in Session, IdleRelease(s) PROVE CallTypes'
  BY <1>11, <1>12 DEF IdleRelease
<1>13. ASSUME NEW s \in Session, NEW c \in Computer \cup {Local}, SwitchBegin(s, c) PROVE CallTypes'
  <2>1. PICK r : r = [pc |-> "probe", to |-> c, from |-> Current(s), ran |-> s \in native] OBVIOUS
  <2>2. r \in Switches BY <2>1, PlaceOf DEF Switches, Place
  <2> QED BY <1>13, <2>1, <2>2 DEF SwitchBegin
<1>14. NoSwitch \in Switches BY DEF NoSwitch, Switches
<1>15. ASSUME NEW s \in Session, SwitchUnreachable(s) \/ SwitchUnmount(s) PROVE CallTypes'
  BY <1>14, <1>15 DEF SwitchUnreachable, SwitchUnmount
<1>16. ASSUME NEW s \in Session, SwitchStore(s) PROVE CallTypes'
  <2>1. PICK r : r = [sw[s] EXCEPT !.pc = "release"] OBVIOUS
  <2>2. r \in Switches BY <2>1 DEF Switches
  <2>3. sw' = [sw EXCEPT ![s] = r] BY <1>16, <2>1 DEF SwitchStore
  <2> QED BY <1>16, <2>2, <2>3 DEF SwitchStore
<1>17. ASSUME NEW s \in Session, SwitchRelease(s) PROVE CallTypes'
  <2>1. PICK r : r = [sw[s] EXCEPT !.pc = "unmount"] OBVIOUS
  <2>2. r \in Switches BY <2>1 DEF Switches
  <2>3. sw' = [sw EXCEPT ![s] = r] \/ sw' = [sw EXCEPT ![s] = NoSwitch]
    BY <1>17, <2>1 DEF SwitchRelease
  <2> QED BY <1>11, <1>14, <1>17, <2>2, <2>3 DEF SwitchRelease
<1>18. CASE SweepBegin \/ SweepStep BY <1>18 DEF SweepBegin, SweepStep, SweepAsk, SweepEnd
<1>19. CASE Restart BY <1>14, <1>19 DEF Restart, NoSend, Sending
<1> QED BY <1>1, <1>2, <1>3, <1>4, <1>5, <1>6, <1>7, <1>8, <1>9, <1>10, <1>12, <1>13, <1>15, <1>16,
           <1>17, <1>18, <1>19 DEF Next, SendStep, SwitchStep

\* The steps that leave the mounts and the sweep alone, and what the others do.
MountsSteps ==
    \/ UNCHANGED mountVars
    \/ \E s \in Session :
          /\ ~mlock /\ UNCHANGED <<mlock, swp, agent, rec>>
          /\ \/ MountsMove(s, {}) /\ (PrepareStart(s) \/ SwitchUnmount(s))
             \/ PrepareStart(s) /\ MountsMove(s, {Current(s)}) /\ s \in Mounting
             \/ PrepareErr(s) /\ MountsMove(s, Computer) /\ s \in Mounting
          /\ MountsApart' /\ bare' \subseteq Session /\ bare \ {s} \subseteq bare'
    \/ SweepBegin \/ SweepStep \/ Restart

LEMMA MountsStep == ASSUME Apart, IInv, Next PROVE MountsSteps
<1> USE DEF IInv
<1>1. ASSUME NEW s \in Session, PrepareStart(s) PROVE MountsSteps
  <2>1. UNCHANGED <<mlock, swp, agent, rec>> BY <1>1 DEF PrepareStart, store
  <2>2. CASE s \notin Mounting BY <1>1, <2>1, <2>2 DEF PrepareStart, MountsSteps, mountVars
  <2>3. CASE Current(s) = Local /\ ReleaseMount(s) /\ bare' = bare \ {s}
    <3>1. MountsMove(s, {}) /\ MountsApart' BY <2>3, ReleaseMoves
    <3>2. ~mlock BY <2>3 DEF ReleaseMount
    <3>3. bare' \subseteq Session /\ bare \ {s} \subseteq bare' BY <2>3 DEF TypeInv, MountTypes
    <3> QED BY <1>1, <2>1, <3>1, <3>2, <3>3 DEF MountsSteps
  <2>4. CASE s \in Mounting /\ Current(s) # Local /\ Acquire(s, Current(s)) /\ bare' = bare \ {s}
    <3>1. Current(s) \in Computer BY <2>4, PlaceOf DEF Place, TypeInv
    <3>2. MountsMove(s, {Current(s)}) /\ MountsApart' BY <2>4, <3>1, AcquireMoves
    <3>3. ~mlock BY <2>4 DEF Acquire
    <3>4. bare' \subseteq Session /\ bare \ {s} \subseteq bare' BY <2>4 DEF TypeInv, MountTypes
    <3> QED BY <1>1, <2>1, <2>4, <3>2, <3>3, <3>4 DEF MountsSteps
  <2> QED BY <1>1, <2>2, <2>3, <2>4 DEF PrepareStart
<1>2. ASSUME NEW s \in Session, PrepareErr(s) PROVE MountsSteps
  <2>1. UNCHANGED <<mlock, swp, agent, rec>> /\ s \in Mounting BY <1>2 DEF PrepareErr, store
  <2>4. bare' = bare /\ bare \subseteq Session BY <1>2 DEF PrepareErr, TypeInv, MountTypes
  <2>2. CASE UNCHANGED <<mounts, kernel>> BY <2>1, <2>2, <2>4 DEF MountsSteps, mountVars
  <2>3. CASE ~mlock /\ MountFails(s)
    <3>1. MountsMove(s, Computer) /\ MountsApart' BY <2>3, FailureMoves
    <3> QED BY <1>2, <2>1, <2>3, <2>4, <3>1 DEF MountsSteps
  <2> QED BY <1>2, <2>2, <2>3 DEF PrepareErr
<1>3. ASSUME NEW s \in Session, SwitchUnmount(s) PROVE MountsSteps
  <2>1. MountsMove(s, {}) /\ MountsApart' BY <1>3, ReleaseMoves DEF SwitchUnmount
  <2>2. ~mlock /\ UNCHANGED <<mlock, swp, agent, rec>>
    BY <1>3 DEF SwitchUnmount, ReleaseMount, store
  <2>3. bare' \subseteq Session /\ bare \ {s} \subseteq bare' BY <1>3 DEF SwitchUnmount, TypeInv, MountTypes
  <2> QED BY <1>3, <2>1, <2>2, <2>3 DEF MountsSteps
<1>4. ASSUME NEW s \in Session,
             \/ Send(s) \/ EnsureLive(s) \/ ConfigureStart(s) \/ ConfigureErr(s) \/ MessageHook(s)
             \/ Deliver(s) \/ TurnEnds(s) \/ IdleRelease(s)
             \/ SwitchUnreachable(s) \/ SwitchStore(s) \/ SwitchRelease(s)
      PROVE  MountsSteps
  BY <1>4 DEF Send, EnsureLive, ConfigureStart, ConfigureErr, MessageHook, Deliver, TurnEnds,
              IdleRelease, SwitchUnreachable, SwitchStore, SwitchRelease, MountsSteps
<1>5. ASSUME NEW s \in Session, NEW c \in Computer \cup {Local}, SwitchBegin(s, c) PROVE MountsSteps
  BY <1>5 DEF SwitchBegin, MountsSteps
<1>6. CASE \E c \in Computer : Register(c) \/ SetEgress(c) \/ RemoveBegin(c)
  BY <1>6 DEF Register, SetEgress, RemoveBegin, MountsSteps
<1>7. CASE RemoveEgress \/ RemoveDelete BY <1>7 DEF RemoveEgress, RemoveDelete, MountsSteps
<1>8. CASE SweepBegin \/ SweepStep \/ Restart BY <1>8 DEF MountsSteps
<1> QED BY <1>1, <1>2, <1>3, <1>4, <1>5, <1>6, <1>7, <1>8 DEF Next, SendStep, SwitchStep

LEMMA MountsKept ==
  ASSUME Apart, IInv, Next PROVE MountTypes' /\ SweepSees' /\ MountsApart'
<1> USE DEF IInv, TypeInv, MountTypes
<1>1. MountsSteps BY MountsStep
<1>2. CASE UNCHANGED mountVars BY <1>2 DEF mountVars, SweepSees, MountsApart
<1>3. ASSUME NEW s \in Session, NEW C, ~mlock, UNCHANGED <<mlock, swp>>, MountsMove(s, C), MountsApart',
             bare' \subseteq Session
      PROVE  MountTypes' /\ SweepSees' /\ MountsApart'
  <2>1. \A p \in Path : mounts'[p] # None => mounts'[p].users # {} BY <1>3 DEF MountsApart
  <2>2. swp.todo = {} /\ swp.expired = {} BY <1>3 DEF NoSweep
  <2> QED BY <1>3, <2>1, <2>2 DEF MountsMove, SweepSees
<1>4. CASE SweepBegin
  <2>1. UNCHANGED <<mounts, kernel, bare>> /\ mlock' = TRUE
        /\ swp' = [todo |-> {p \in Path : mounts[p] # None}, expired |-> {}]
    BY <1>4 DEF SweepBegin
  <2> QED BY <2>1 DEF SweepSees, MountsApart
<1>5. ASSUME NEW p \in Path, SweepAsk(p) PROVE MountTypes' /\ SweepSees' /\ MountsApart'
  <2>1. PICK live \in BOOLEAN : live <=> \E u \in mounts[p].users : agent[u] # None OBVIOUS
  <2>2. PICK r : r = [mounts[p] EXCEPT !.unused = ~live] OBVIOUS
  <2>3. mounts[p] # None /\ mounts[p] \in Mount BY <1>5 DEF SweepAsk, SweepSees
  <2>4. r \in Mount /\ r.c = mounts[p].c /\ r.users = mounts[p].users BY <2>2, <2>3 DEF Mount
  <2>5. mlock /\ UNCHANGED <<mlock, kernel, bare>> /\ mounts' = [mounts EXCEPT ![p] = r]
    BY <1>5, <2>1, <2>2 DEF SweepAsk
  <2>6. /\ swp'.todo \subseteq swp.todo /\ swp'.expired \subseteq swp.expired \cup {p}
        /\ swp' \in [todo : SUBSET Path, expired : SUBSET Path]
    BY <1>5 DEF SweepAsk
  <2>7. mounts'[p] = r /\ \A q \in Path : q # p => mounts'[q] = mounts[q] BY <2>5
  <2>8. r # None /\ mounts' \in [Path -> {None} \cup Mount] BY <2>4, <2>5 DEF Apart
  <2>9. MountTypes' BY <2>3, <2>4, <2>5, <2>6, <2>7, <2>8
  <2>10. SweepSees' BY <2>6, <2>7, <2>8 DEF SweepSees
  <2>11. MountsApart' BY <2>3, <2>4, <2>5, <2>7, <2>8 DEF MountsApart
  <2> QED BY <2>9, <2>10, <2>11
<1>6. CASE SweepEnd
  <2>1. /\ mounts' = [p \in Path |-> IF p \in swp.expired THEN None ELSE mounts[p]]
        /\ mlock' = FALSE /\ swp' = NoSweep /\ bare' = bare
        /\ Unmounted(kernel, swp.expired)
    BY <1>6 DEF SweepEnd
  <2>2. /\ kernel' \in [Path -> Computer \cup {None}]
        /\ \A p \in Path : p \notin swp.expired => kernel'[p] = kernel[p]
    BY <2>1 DEF Unmounted
  <2>3. \A p \in Path : mounts'[p] # None => p \notin swp.expired /\ mounts'[p] = mounts[p] BY <2>1
  <2>4. mounts' \in [Path -> {None} \cup Mount] BY <2>1
  <2>5. MountTypes' BY <2>1, <2>2, <2>3, <2>4 DEF NoSweep
  <2>6. SweepSees' BY <2>1 DEF SweepSees, NoSweep
  <2>7. MountsApart' BY <2>2, <2>3 DEF MountsApart
  <2> QED BY <2>5, <2>6, <2>7
<1>7. CASE Restart
  <2>1. /\ mlock' = FALSE /\ mounts' = [p \in Path |-> None] /\ swp' = NoSweep /\ bare' = {}
        /\ kernel' \in [Path -> Computer \cup {None}]
    BY <1>7 DEF Restart, Shutdown
  <2> QED BY <2>1 DEF NoSweep, SweepSees, MountsApart
<1> QED BY <1>1, <1>2, <1>3, <1>4, <1>5, <1>6, <1>7 DEF MountsSteps, SweepStep

LEMMA StartLockedKept == ASSUME Apart, IInv, Next PROVE StartLocked'
<1> USE DEF IInv, TypeInv, CallTypes
<1>1. \A s \in Session : s # None BY DEF Apart
<1>2. CASE UNCHANGED <<snd, lock, agent>> BY <1>2 DEF StartLocked
<1>3. ASSUME NEW s \in Session, Send(s) \/ MessageHook(s) \/ Deliver(s) PROVE StartLocked'
  BY <1>3 DEF Send, MessageHook, Deliver, NoSend, StartLocked, Sending
<1>4. ASSUME NEW s \in Session, EnsureLive(s) PROVE StartLocked'
  <2>1. lock = None /\ snd[s].pc = "ensure" /\ agent' = agent BY <1>4 DEF EnsureLive
  <2>2. CASE agent[s] # None
    <3>1. lock' = lock /\ snd' = [snd EXCEPT ![s] = [snd[s] EXCEPT !.pc = "hook", !.held = TRUE]]
      BY <1>4, <2>2 DEF EnsureLive
    <3>2. snd'[s].pc = "hook" BY <3>1 DEF Sending
    <3> QED BY <1>1, <2>1, <3>1, <3>2 DEF StartLocked
  <2>3. CASE agent[s] = None
    <3>1. PICK t : snd' = [snd EXCEPT ![s] = [snd[s] EXCEPT !.pc = "prepare", !.told = t]]
      BY <1>4, <2>3 DEF EnsureLive
    <3>2. lock' = s BY <1>4, <2>3 DEF EnsureLive
    <3>3. snd'[s].pc = "prepare" /\ \A u \in Session : u # s => snd'[u] = snd[u] BY <3>1 DEF Sending
    <3> QED BY <1>1, <2>1, <2>3, <3>2, <3>3 DEF StartLocked
  <2> QED BY <2>2, <2>3
<1>5. ASSUME NEW s \in Session, PrepareStart(s) PROVE StartLocked'
  <2>1. snd[s].pc = "prepare" /\ lock' = lock /\ agent' = agent
        /\ snd' = [snd EXCEPT ![s].pc = "configure"]
    BY <1>5 DEF PrepareStart
  <2> QED BY <2>1 DEF StartLocked, Sending
<1>6. ASSUME NEW s \in Session, PrepareErr(s) \/ ConfigureErr(s) PROVE StartLocked'
  <2>1. /\ snd[s].pc \in {"prepare", "configure"} /\ lock' = None /\ agent' = agent
        /\ snd' = [snd EXCEPT ![s] = NoSend]
    BY <1>6 DEF PrepareErr, ConfigureErr, StartFailed
  <2> QED BY <1>1, <2>1 DEF StartLocked, NoSend
<1>7. ASSUME NEW s \in Session, ConfigureStart(s) PROVE StartLocked'
  <2>1. /\ snd[s].pc = "configure" /\ lock' = None
        /\ snd' = [snd EXCEPT ![s] = [snd[s] EXCEPT !.pc = "hook", !.held = TRUE]]
    BY <1>7 DEF ConfigureStart
  <2>2. snd'[s].pc = "hook" /\ \A u \in Session : u # s => snd'[u] = snd[u] BY <2>1 DEF Sending
  <2> QED BY <1>1, <2>1, <2>2 DEF StartLocked
<1>8. ASSUME NEW s \in Session, Released(s), lock' = lock PROVE StartLocked'
  BY <1>1, <1>8 DEF Released, StartLocked, Sending
<1>9. ASSUME NEW s \in Session, IdleRelease(s) \/ SwitchRelease(s) PROVE StartLocked'
  BY <1>8, <1>9 DEF IdleRelease, SwitchRelease
<1>10. CASE Restart BY <1>1, <1>10 DEF Restart, StartLocked, NoSend
<1>11. ASSUME NEW s \in Session,
              TurnEnds(s) \/ SwitchUnreachable(s) \/ SwitchStore(s) \/ SwitchUnmount(s)
       PROVE  UNCHANGED <<snd, lock, agent>>
  BY <1>11 DEF TurnEnds, SwitchUnreachable, SwitchStore, SwitchUnmount
<1>12. ASSUME NEW c \in Computer \cup {Local}, Register(c) \/ SetEgress(c) \/ RemoveBegin(c)
       PROVE  UNCHANGED <<snd, lock, agent>>
  BY <1>12 DEF Register, SetEgress, RemoveBegin
<1>13. ASSUME NEW s \in Session, NEW c \in Computer \cup {Local}, SwitchBegin(s, c)
       PROVE  UNCHANGED <<snd, lock, agent>>
  BY <1>13 DEF SwitchBegin
<1>14. CASE RemoveEgress \/ RemoveDelete \/ SweepBegin \/ SweepStep
  BY <1>2, <1>14 DEF RemoveEgress, RemoveDelete, SweepBegin, SweepStep, SweepAsk, SweepEnd
<1> QED BY <1>2, <1>3, <1>4, <1>5, <1>6, <1>7, <1>9, <1>10, <1>11, <1>12, <1>13, <1>14
        DEF Next, SendStep, SwitchStep

LEMMA KnownKept == ASSUME Apart, IInv, Next PROVE Known'
<1> USE DEF IInv, TypeInv, StoreTypes, CallTypes
<1>1. ASSUME NEW c, Placed(c), reg' = reg PROVE Placed(c)' BY <1>1 DEF Placed
<1>2. CASE UNCHANGED <<reg, rec, sw>> BY <1>2 DEF Known, Placed
<1>3. ASSUME NEW c \in Computer, Register(c) PROVE Known'
  BY <1>3 DEF Register, Known, Placed
<1>4. CASE RemoveDelete BY <1>4 DEF RemoveDelete, Known, Placed
<1>5. ASSUME NEW s \in Session, MessageHook(s) PROVE Known'
  <2>1. PICK r : r = [rec[s] EXCEPT !.notice = FALSE] OBVIOUS
  <2>2. rec[s] # None => r.c = rec[s].c BY <2>1 DEF Recorded
  <2>3. rec' = rec \/ (rec[s] # None /\ rec' = [rec EXCEPT ![s] = r])
    BY <1>5, <2>1 DEF MessageHook, TakeNotice
  <2>4. UNCHANGED <<reg, sw>> BY <1>5 DEF MessageHook
  <2> QED BY <2>2, <2>3, <2>4 DEF Known, Placed
<1>6. ASSUME NEW s \in Session, NEW c \in Computer \cup {Local}, SwitchBegin(s, c) PROVE Known'
  <2>1. PICK r : r = [pc |-> "probe", to |-> c, from |-> Current(s), ran |-> s \in native] OBVIOUS
  <2>2. sw' = [sw EXCEPT ![s] = r] /\ UNCHANGED <<reg, rec>> BY <1>6, <2>1 DEF SwitchBegin, store
  <2>3. r.to = c /\ Placed(c) BY <1>6, <2>1 DEF SwitchBegin, Resolves, Placed
  <2> QED BY <2>2, <2>3 DEF Known, Placed
<1>7. ASSUME NEW s \in Session, SwitchUnreachable(s) \/ SwitchUnmount(s) PROVE Known'
  <2>1. sw' = [sw EXCEPT ![s] = NoSwitch] /\ UNCHANGED <<reg, rec>>
    BY <1>7 DEF SwitchUnreachable, SwitchUnmount, store
  <2> QED BY <2>1 DEF Known, Placed, NoSwitch
<1>8. ASSUME NEW s \in Session, SwitchStore(s) PROVE Known'
  <2>1. PICK b : b = (sw[s].from # sw[s].to /\ sw[s].ran) OBVIOUS
  <2>2. PICK r : r = [c |-> sw[s].to, notice |-> b] OBVIOUS
  <2>3. r.c = sw[s].to /\ Placed(sw[s].to) BY <1>8, <2>2 DEF SwitchStore, Known
  <2>4. rec' = [rec EXCEPT ![s] = r] /\ reg' = reg
    BY <1>8, <2>1, <2>2 DEF SwitchStore, RecordComputer
  <2>5. PICK q : q = [sw[s] EXCEPT !.pc = "release"] OBVIOUS
  <2>6. q.pc = "release" /\ sw' = [sw EXCEPT ![s] = q] BY <1>8, <2>5 DEF SwitchStore, Switches
  <2> QED BY <2>3, <2>4, <2>6 DEF Known, Placed
<1>9. ASSUME NEW s \in Session, SwitchRelease(s) PROVE Known'
  <2>1. PICK q : q = [sw[s] EXCEPT !.pc = "unmount"] OBVIOUS
  <2>2. q.pc = "unmount" /\ NoSwitch.pc = "idle" BY <2>1 DEF Switches, NoSwitch
  <2>3. (sw' = [sw EXCEPT ![s] = q] \/ sw' = [sw EXCEPT ![s] = NoSwitch]) /\ UNCHANGED <<reg, rec>>
    BY <1>9, <2>1 DEF SwitchRelease, store
  <2> QED BY <2>2, <2>3 DEF Known, Placed
<1>10. CASE Restart BY <1>10 DEF Restart, Known, Placed, NoSwitch
<1>11. ASSUME NEW s \in Session,
              \/ Send(s) \/ EnsureLive(s) \/ PrepareStart(s) \/ PrepareErr(s) \/ ConfigureStart(s)
              \/ ConfigureErr(s) \/ Deliver(s) \/ TurnEnds(s) \/ IdleRelease(s)
       PROVE  UNCHANGED <<reg, rec, sw>>
  BY <1>11 DEF Send, EnsureLive, PrepareStart, PrepareErr, ConfigureStart, ConfigureErr, Deliver,
               TurnEnds, IdleRelease, store
<1>12. ASSUME NEW c \in Computer, SetEgress(c) \/ RemoveBegin(c) PROVE UNCHANGED <<reg, rec, sw>>
  BY <1>12 DEF SetEgress, RemoveBegin, store
<1>13. CASE RemoveEgress \/ SweepBegin \/ SweepStep
  BY <1>2, <1>13 DEF RemoveEgress, SweepBegin, SweepStep, SweepAsk, SweepEnd, store
<1> QED BY <1>2, <1>3, <1>4, <1>5, <1>6, <1>7, <1>8, <1>9, <1>10, <1>11, <1>12, <1>13
        DEF Next, SendStep, SwitchStep

\* The computer of a record changes in a switch only: a notice that is taken leaves it.
SameComputer(s) ==
    /\ rec'[s] = None <=> rec[s] = None
    /\ rec[s] # None => rec'[s].c = rec[s].c

LEMMA NoticeKeeps ==
  ASSUME Apart, StoreTypes, NEW s \in Session, NEW u \in Session, TakeNotice(u)
  PROVE  SameComputer(s)
<1>1. PICK r : r = [rec[u] EXCEPT !.notice = FALSE] OBVIOUS
<1>2. rec[u] # None => r \in Recorded /\ r.c = rec[u].c BY <1>1 DEF Recorded, StoreTypes
<1>3. rec' = rec \/ (rec[u] # None /\ rec' = [rec EXCEPT ![u] = r]) BY <1>1 DEF TakeNotice
<1>4. None \notin Recorded BY DEF Apart
<1> QED BY <1>2, <1>3, <1>4 DEF SameComputer, StoreTypes

LEMMA RecordSteps ==
  ASSUME Apart, IInv, Next, NEW s \in Session, ~SwitchStore(s) PROVE SameComputer(s)
<1> USE DEF IInv, TypeInv
<1>1. ASSUME NEW u \in Session, MessageHook(u) PROVE SameComputer(s)
  BY <1>1, NoticeKeeps DEF MessageHook
<1>2. CASE rec' = rec BY <1>2 DEF SameComputer
<1>3. ASSUME NEW u \in Session,
             \/ Send(u) \/ EnsureLive(u) \/ PrepareStart(u) \/ PrepareErr(u) \/ ConfigureStart(u)
             \/ ConfigureErr(u) \/ Deliver(u) \/ TurnEnds(u) \/ IdleRelease(u)
             \/ SwitchUnreachable(u) \/ SwitchRelease(u) \/ SwitchUnmount(u)
      PROVE  rec' = rec
  BY <1>3 DEF Send, EnsureLive, PrepareStart, PrepareErr, ConfigureStart, ConfigureErr, Deliver,
              TurnEnds, IdleRelease, SwitchUnreachable, SwitchRelease, SwitchUnmount, store
<1>4. ASSUME NEW u \in Session, NEW c \in Computer \cup {Local}, SwitchBegin(u, c) PROVE rec' = rec
  BY <1>4 DEF SwitchBegin, store
<1>5. ASSUME NEW c \in Computer, Register(c) \/ SetEgress(c) \/ RemoveBegin(c) PROVE rec' = rec
  BY <1>5 DEF Register, SetEgress, RemoveBegin, store
<1>6. CASE RemoveEgress \/ RemoveDelete \/ SweepBegin \/ SweepStep \/ Restart
  BY <1>2, <1>6 DEF RemoveEgress, RemoveDelete, SweepBegin, SweepStep, SweepAsk, SweepEnd, Restart, store
<1>7. ASSUME NEW u \in Session, u # s, SwitchStore(u) PROVE SameComputer(s)
  BY <1>7 DEF SwitchStore, RecordComputer, SameComputer, StoreTypes
<1> QED BY <1>1, <1>2, <1>3, <1>4, <1>5, <1>6, <1>7 DEF Next, SendStep, SwitchStep

LEMMA CurrentKept ==
  ASSUME NEW s \in Session, SameComputer(s) PROVE Current(s)' = Current(s)
BY DEF SameComputer, Current

\* What a step does to the calls of one session: they stay, or it is a step of theirs.
Starting(s) == snd[s].pc \in {"prepare", "configure"}
AsBefore(s) ==
    /\ snd'[s].pc = snd[s].pc /\ snd'[s].told = snd[s].told
    /\ sw'[s].pc = sw[s].pc /\ agent'[s] = agent[s]
Stepping(s) ==
    \/ EnsureLive(s) \/ PrepareStart(s) \/ ConfigureStart(s)
    \/ ~Starting(s)' /\ agent'[s] = agent[s] /\ sw'[s].pc = sw[s].pc
    \/ ~Starting(s)' /\ agent'[s] = None
    \/ SwitchStore(s)
    \/ /\ UNCHANGED <<snd, agent>>
       /\ sw[s].pc \notin {"release", "unmount"} /\ sw'[s].pc \notin {"release", "unmount"}
    \/ SwitchUnmount(s)

LEMMA CallSteps ==
  ASSUME Apart, IInv, Next, NEW s \in Session PROVE AsBefore(s) \/ Stepping(s)
<1> USE DEF IInv, TypeInv, CallTypes
<1>1. CASE UNCHANGED <<snd, sw, agent>> BY <1>1 DEF AsBefore
<1>2. ASSUME NEW u \in Session, Send(u) \/ MessageHook(u) \/ Deliver(u)
      PROVE  AsBefore(s) \/ Stepping(s)
  BY <1>2 DEF Send, MessageHook, Deliver, NoSend, AsBefore, Stepping, Starting, Sending
<1>3. ASSUME NEW u \in Session, EnsureLive(u) \/ PrepareStart(u) \/ ConfigureStart(u)
      PROVE  AsBefore(s) \/ Stepping(s)
  BY <1>3 DEF EnsureLive, PrepareStart, ConfigureStart, AsBefore, Stepping
<1>4. ASSUME NEW u \in Session, PrepareErr(u) \/ ConfigureErr(u)
      PROVE  AsBefore(s) \/ Stepping(s)
  <2>1. snd' = [snd EXCEPT ![u] = NoSend] /\ UNCHANGED <<agent, sw>>
    BY <1>4 DEF PrepareErr, ConfigureErr, StartFailed
  <2> QED BY <2>1 DEF NoSend, AsBefore, Stepping, Starting
<1>5. ASSUME NEW u \in Session, Released(u), NEW q,
             sw' = sw \/ sw' = [sw EXCEPT ![u] = q]
      PROVE  AsBefore(s) \/ Stepping(s)
  <2>1. ~Starting(u) BY <1>5 DEF Released, StartLocked, Starting, Apart
  <2>2. snd'[u].pc = snd[u].pc BY <1>5 DEF Released, Sending
  <2>3. CASE u # s BY <1>5, <2>3 DEF Released, AsBefore
  <2>4. CASE u = s BY <1>5, <2>1, <2>2, <2>4 DEF Released, Stepping, Starting
  <2> QED BY <2>3, <2>4
<1>6. ASSUME NEW u \in Session, IdleRelease(u) PROVE AsBefore(s) \/ Stepping(s)
  <2>1. Released(u) /\ sw' = sw BY <1>6 DEF IdleRelease
  <2> QED BY <1>5, <2>1
<1>7. ASSUME NEW u \in Session, SwitchRelease(u) PROVE AsBefore(s) \/ Stepping(s)
  <2>1. PICK q : q = [sw[u] EXCEPT !.pc = "unmount"] OBVIOUS
  <2>2. sw' = [sw EXCEPT ![u] = q] \/ sw' = [sw EXCEPT ![u] = NoSwitch]
    BY <1>7, <2>1 DEF SwitchRelease
  <2>3. Released(u) BY <1>7 DEF SwitchRelease
  <2> QED BY <1>5, <2>2, <2>3
<1>8. ASSUME NEW u \in Session, SwitchStore(u) \/ SwitchUnmount(u) PROVE AsBefore(s) \/ Stepping(s)
  BY <1>8 DEF SwitchStore, SwitchUnmount, AsBefore, Stepping
<1>9. ASSUME NEW u \in Session, SwitchUnreachable(u) PROVE AsBefore(s) \/ Stepping(s)
  BY <1>9 DEF SwitchUnreachable, NoSwitch, AsBefore, Stepping
<1>10. ASSUME NEW u \in Session, NEW c \in Computer \cup {Local}, SwitchBegin(u, c)
       PROVE  AsBefore(s) \/ Stepping(s)
  BY <1>10 DEF SwitchBegin, AsBefore, Stepping
<1>11. CASE Restart BY <1>11 DEF Restart, NoSend, Stepping, Starting
<1>12. ASSUME NEW u \in Session, TurnEnds(u) PROVE UNCHANGED <<snd, sw, agent>>
  BY <1>12 DEF TurnEnds
<1>13. ASSUME NEW c \in Computer, Register(c) \/ SetEgress(c) \/ RemoveBegin(c)
       PROVE  UNCHANGED <<snd, sw, agent>>
  BY <1>13 DEF Register, SetEgress, RemoveBegin
<1>14. CASE RemoveEgress \/ RemoveDelete \/ SweepBegin \/ SweepStep
  BY <1>1, <1>14 DEF RemoveEgress, RemoveDelete, SweepBegin, SweepStep, SweepAsk, SweepEnd
<1> QED BY <1>1, <1>2, <1>3, <1>4, <1>6, <1>7, <1>8, <1>9, <1>10, <1>11, <1>12, <1>13, <1>14
        DEF Next, SendStep, SwitchStep

\* A registered computer that does not resolve was removed, and stays so.
LEMMA GoneStaysGone ==
  ASSUME Apart, IInv, Next, NEW c, Placed(c), ~Resolves(c) PROVE ~Resolves(c)'
<1> USE DEF IInv, TypeInv, StoreTypes
<1>1. c \in Computer /\ c # Local /\ reg[c] = "gone" BY DEF Placed, Resolves
<1>2. SUFFICES reg'[c] = "gone" BY <1>1 DEF Resolves
<1>3. CASE reg' = reg BY <1>1, <1>3
<1>4. ASSUME NEW d \in Computer, Register(d) \/ SetEgress(d) \/ RemoveBegin(d) PROVE reg'[c] = "gone"
  BY <1>1, <1>4 DEF Register, SetEgress, RemoveBegin, store
<1>5. CASE RemoveEgress \/ RemoveDelete BY <1>1, <1>5 DEF RemoveEgress, RemoveDelete, store
<1>6. ASSUME NEW s \in Session,
             \/ Send(s) \/ EnsureLive(s) \/ PrepareStart(s) \/ PrepareErr(s) \/ ConfigureStart(s)
             \/ ConfigureErr(s) \/ MessageHook(s) \/ Deliver(s) \/ TurnEnds(s) \/ IdleRelease(s)
             \/ SwitchUnreachable(s) \/ SwitchStore(s) \/ SwitchRelease(s) \/ SwitchUnmount(s)
      PROVE  reg' = reg
  BY <1>6 DEF Send, EnsureLive, PrepareStart, PrepareErr, ConfigureStart, ConfigureErr, MessageHook,
              Deliver, TurnEnds, IdleRelease, SwitchUnreachable, SwitchStore, SwitchRelease,
              SwitchUnmount, store
<1>7. ASSUME NEW s \in Session, NEW d \in Computer \cup {Local}, SwitchBegin(s, d) PROVE reg' = reg
  BY <1>7 DEF SwitchBegin, store
<1>8. CASE SweepBegin \/ SweepStep \/ Restart
  BY <1>3, <1>8 DEF SweepBegin, SweepStep, SweepAsk, SweepEnd, Restart, store
<1> QED BY <1>3, <1>4, <1>5, <1>6, <1>7, <1>8 DEF Next, SendStep, SwitchStep

LEMMA ToldRightKept == ASSUME Apart, IInv, Next PROVE ToldRight'
<1> DEFINE Told(s) == \/ snd[s].told = IF rec[s] = None THEN None ELSE Current(s)
                      \/ rec[s] # None /\ ~Resolves(Current(s))
<1> SUFFICES ASSUME NEW s \in Session, Starting(s)', ~Switching(s)' PROVE Told(s)'
  BY DEF ToldRight, Starting
<1>1. CASE SwitchStore(s)
  <2>1. sw'[s].pc = "release" BY <1>1 DEF SwitchStore, IInv, TypeInv, CallTypes, Switches
  <2> QED BY <2>1 DEF Switching
<1>2. CASE ~SwitchStore(s)
  <2>1. SameComputer(s) BY <1>2, RecordSteps
  <2>2. Current(s)' = Current(s) /\ (rec'[s] = None <=> rec[s] = None)
    BY <2>1, CurrentKept DEF SameComputer
  <2>3. rec[s] # None => Placed(Current(s)) BY DEF IInv, Known, Current
  <2>4. rec[s] # None /\ ~Resolves(Current(s)) => ~Resolves(Current(s))'
    BY <2>2, <2>3, GoneStaysGone
  <2>5. ASSUME snd'[s].told = snd[s].told, Told(s) PROVE Told(s)'
    <3>1. CASE snd[s].told = IF rec[s] = None THEN None ELSE Current(s) BY <2>2, <2>5, <3>1
    <3>2. CASE rec[s] # None /\ ~Resolves(Current(s)) BY <2>2, <2>4, <3>2
    <3> QED BY <2>5, <3>1, <3>2
  <2>6. Starting(s) /\ ~Switching(s) => Told(s) BY DEF IInv, ToldRight, Starting
  <2>7. CASE AsBefore(s)
    <3>1. Starting(s) /\ ~Switching(s) BY <2>7 DEF AsBefore, Starting, Switching
    <3> QED BY <2>5, <2>6, <2>7, <3>1 DEF AsBefore
  <2>8. CASE EnsureLive(s)
    <3>1. UNCHANGED rec BY <2>8 DEF EnsureLive, store
    <3>2. snd[s] \in Sending BY DEF IInv, TypeInv, CallTypes
    <3>3. agent[s] = None
      BY <2>8, <3>2 DEF EnsureLive, Starting, IInv, TypeInv, CallTypes, Sending
    <3>4. PICK t : t = IF rec[s] = None \/ ~Resolves(Current(s)) THEN None ELSE Current(s) OBVIOUS
    <3>5. snd' = [snd EXCEPT ![s] = [snd[s] EXCEPT !.pc = "prepare", !.told = t]]
      BY <2>8, <3>3, <3>4 DEF EnsureLive
    <3>6. snd'[s].told = t BY <3>2, <3>5 DEF Sending, IInv, TypeInv, CallTypes
    <3> QED BY <2>2, <2>4, <3>4, <3>6
  <2>9. CASE PrepareStart(s)
    <3>1. /\ snd[s].pc = "prepare" /\ sw' = sw /\ snd' = [snd EXCEPT ![s].pc = "configure"]
      BY <2>9 DEF PrepareStart
    <3>2. snd'[s].told = snd[s].told BY <3>1 DEF IInv, TypeInv, CallTypes, Sending
    <3> QED BY <2>5, <2>6, <3>1, <3>2 DEF Starting, Switching
  <2>10. CASE ConfigureStart(s)
    <3>1. snd'[s].pc = "hook" BY <2>10 DEF ConfigureStart, IInv, TypeInv, CallTypes, Sending
    <3> QED BY <3>1 DEF Starting
  <2>11. CASE UNCHANGED <<snd, agent>> /\ sw[s].pc \notin {"release", "unmount"}
    BY <2>5, <2>6, <2>11 DEF Starting, Switching
  <2>12. CASE SwitchUnmount(s)
    <3>1. sw[s].pc = "unmount" /\ snd' = snd BY <2>12 DEF SwitchUnmount
    <3> QED BY <2>5, <2>6, <3>1 DEF Starting, Switching
  <2> QED BY <1>2, <2>7, <2>8, <2>9, <2>10, <2>11, <2>12, CallSteps DEF Stepping
<1> QED BY <1>1, <1>2

LEMMA AgentKept == ASSUME Apart, IInv, Next PROVE AgentOnItsComputer'
<1> DEFINE Works(s) == /\ agent[s].on = Current(s)
                       /\ agent[s].told = IF rec[s] = None THEN None ELSE Current(s)
<1> SUFFICES ASSUME NEW s \in Session, agent'[s] # None, ~Switching(s)' PROVE Works(s)'
  BY DEF AgentOnItsComputer
<1>1. CASE SwitchStore(s)
  <2>1. sw'[s].pc = "release" BY <1>1 DEF SwitchStore, IInv, TypeInv, CallTypes, Switches
  <2> QED BY <2>1 DEF Switching
<1>2. CASE ~SwitchStore(s)
  <2>1. SameComputer(s) BY <1>2, RecordSteps
  <2>2. Current(s)' = Current(s) /\ (rec'[s] = None <=> rec[s] = None)
    BY <2>1, CurrentKept DEF SameComputer
  <2>3. agent[s] # None /\ ~Switching(s) => Works(s) BY DEF IInv, AgentOnItsComputer
  <2>4. CASE agent'[s] = agent[s] /\ ~Switching(s) BY <2>2, <2>3, <2>4
  <2>5. CASE ConfigureStart(s)
    <3>1. /\ snd[s].pc = "configure" /\ Resolves(Current(s)) /\ sw' = sw
          /\ agent' = [agent EXCEPT ![s] = [on |-> Current(s), told |-> snd[s].told]]
      BY <2>5 DEF ConfigureStart
    <3>2. agent'[s].on = Current(s) /\ agent'[s].told = snd[s].told
      BY <3>1 DEF IInv, TypeInv, CallTypes
    <3>3. snd[s].told = IF rec[s] = None THEN None ELSE Current(s)
      BY <3>1 DEF IInv, ToldRight, Switching
    <3> QED BY <2>2, <3>2, <3>3
  <2>6. CASE EnsureLive(s) \/ PrepareStart(s) \/ SwitchUnmount(s)
    <3>1. agent' = agent /\ (sw' = sw \/ sw[s].pc = "unmount")
      BY <2>6 DEF EnsureLive, PrepareStart, SwitchUnmount
    <3> QED BY <2>4, <3>1 DEF Switching
  <2>7. CASE AsBefore(s) \/ (agent'[s] = agent[s] /\ sw'[s].pc = sw[s].pc)
    BY <2>4, <2>7 DEF AsBefore, Switching
  <2>8. CASE UNCHANGED agent /\ sw[s].pc \notin {"release", "unmount"}
    BY <2>4, <2>8 DEF Switching
  <2> QED BY <1>2, <2>5, <2>6, <2>7, <2>8, CallSteps DEF Stepping
<1> QED BY <1>1, <1>2

\* Only a start, which mounts first, puts a mounted session to use.
LEMMA InUseBefore ==
  ASSUME Apart, IInv, Next, NEW s \in Session, InUse(s)', ~(PrepareStart(s) /\ s \in Mounting)
  PROVE  InUse(s) \/ s \notin Mounting
<1>1. CASE AsBefore(s) BY <1>1 DEF AsBefore, InUse
<1>2. CASE EnsureLive(s)
  <2>1. agent' = agent BY <1>2 DEF EnsureLive
  <2>2. PICK r : r = [snd[s] EXCEPT !.pc = "hook", !.held = TRUE] OBVIOUS
  <2>3. PICK t : t = IF rec[s] = None \/ ~Resolves(Current(s)) THEN None ELSE Current(s) OBVIOUS
  <2>4. PICK q : q = [snd[s] EXCEPT !.pc = "prepare", !.told = t] OBVIOUS
  <2>5. snd' = [snd EXCEPT ![s] = r] \/ snd' = [snd EXCEPT ![s] = q]
    BY <1>2, <2>2, <2>3, <2>4 DEF EnsureLive
  <2>6. snd[s] \in Sending /\ snd \in [Session -> Sending] BY DEF IInv, TypeInv, CallTypes
  <2>7. r.pc = "hook" /\ q.pc = "prepare" BY <2>2, <2>4, <2>6 DEF Sending
  <2>8. snd'[s].pc \in {"hook", "prepare"} BY <2>5, <2>6, <2>7
  <2> QED BY <2>1, <2>8 DEF InUse
<1>3. CASE ConfigureStart(s) BY <1>3 DEF ConfigureStart, InUse
<1>4. CASE ~Starting(s)' /\ (agent'[s] = agent[s] \/ agent'[s] = None) BY <1>4 DEF Starting, InUse
<1>5. CASE UNCHANGED <<snd, agent>> BY <1>5 DEF InUse
<1>6. SwitchStore(s) \/ SwitchUnmount(s) => UNCHANGED <<snd, agent>> BY DEF SwitchStore, SwitchUnmount
<1> QED BY <1>1, <1>2, <1>3, <1>4, <1>5, <1>6, CallSteps DEF Stepping

\* Other than by mounting, a session comes to need fitting mounts on the computer it had.
LEMMA FitsBefore ==
  ASSUME Apart, IInv, Next, NEW s \in Session, Fits(s)', ~(PrepareStart(s) /\ s \in Mounting)
  PROVE  Current(s)' = Current(s) /\ (Fits(s) \/ s \notin Mounting)
<1>1. sw[s] \in Switches BY DEF IInv, TypeInv, CallTypes
<1>2. ~SwitchStore(s)
  <2>1. ASSUME SwitchStore(s) PROVE sw'[s].pc = "release"
    BY <2>1 DEF SwitchStore, IInv, TypeInv, CallTypes, Switches
  <2> QED BY <2>1 DEF Fits, Switching
<1>3. Current(s)' = Current(s) BY <1>2, RecordSteps, CurrentKept
<1>4. InUse(s) \/ s \notin Mounting BY InUseBefore DEF Fits
<1>5. ~Switching(s)
  <2>1. sw'[s].pc # "release" BY DEF Fits, Switching
  <2>2. EnsureLive(s) \/ PrepareStart(s) \/ ConfigureStart(s) => sw' = sw
    BY DEF EnsureLive, PrepareStart, ConfigureStart
  <2>3. SwitchUnmount(s) => sw[s].pc = "unmount" BY DEF SwitchUnmount
  <2>4. ~Starting(s)' => agent'[s] # None BY DEF Fits, InUse, Starting
  <2> QED BY <1>2, <2>1, <2>2, <2>3, <2>4, CallSteps DEF Stepping, AsBefore, Switching
<1> QED BY <1>3, <1>4, <1>5 DEF Fits

LEMMA MountsFitKept == ASSUME Apart, IInv, Next PROVE MountsFit'
<1> SUFFICES ASSUME NEW s \in Session, NEW p \in Path, mounts'[p] # None, s \in mounts'[p].users
             PROVE  s \in Mounting /\ (Fits(s)' => mounts'[p].c = Current(s)')
  BY DEF MountsFit
<1>1. ASSUME mounts[p] # None, s \in mounts[p].users
      PROVE  s \in Mounting /\ (Fits(s) => mounts[p].c = Current(s))
  BY <1>1 DEF IInv, MountsFit
<1>2. CASE mounts[p] # None /\ s \in mounts[p].users /\ mounts'[p].c = mounts[p].c
           /\ ~(PrepareStart(s) /\ s \in Mounting) /\ ~SwitchUnmount(s)
  BY <1>1, <1>2, FitsBefore
<1>3. CASE SwitchUnmount(s)
  <2>1. MountsMove(s, {}) BY <1>3, ReleaseMoves DEF SwitchUnmount, IInv
  <2> QED BY <2>1 DEF MountsMove
<1>4. CASE PrepareStart(s) /\ s \in Mounting
  <2>1. rec' = rec BY <1>4 DEF PrepareStart, store
  <2>2. Current(s)' = Current(s) BY <2>1 DEF Current
  <2>3. CASE Current(s) = Local /\ ReleaseMount(s)
    <3>1. MountsMove(s, {}) BY <2>3, ReleaseMoves DEF IInv
    <3> QED BY <3>1 DEF MountsMove
  <2>4. CASE Current(s) # Local /\ Acquire(s, Current(s))
    <3>1. Current(s) \in Computer BY <2>4, PlaceOf DEF Place, IInv, TypeInv
    <3>2. MountsMove(s, {Current(s)}) BY <2>4, <3>1, AcquireMoves DEF IInv
    <3> QED BY <1>4, <2>2, <3>2 DEF MountsMove
  <2> QED BY <1>4, <2>3, <2>4 DEF PrepareStart
<1>5. CASE ~(PrepareStart(s) /\ s \in Mounting) /\ ~SwitchUnmount(s)
  <2>1. MountsSteps BY MountsStep
  <2>2. CASE UNCHANGED mountVars BY <1>2, <1>5, <2>2 DEF mountVars
  <2>3. ASSUME NEW u \in Session, NEW C, u # s, MountsMove(u, C)
        PROVE  mounts[p] # None /\ s \in mounts[p].users /\ mounts'[p].c = mounts[p].c
    BY <2>3 DEF MountsMove
  <2>4. CASE PrepareErr(s) /\ MountsMove(s, Computer) /\ s \in Mounting
    <3>1. snd[s].pc = "prepare" /\ agent' = agent /\ snd' = [snd EXCEPT ![s] = NoSend]
      BY <2>4 DEF PrepareErr, StartFailed
    <3>2. agent[s] = None BY <3>1 DEF IInv, StartLocked
    <3>3. ~Fits(s)' BY <3>1, <3>2 DEF Fits, InUse, NoSend, IInv, TypeInv, CallTypes
    <3> QED BY <2>4, <3>3
  <2>5. CASE PrepareStart(s) /\ s \notin Mounting
    <3>1. UNCHANGED mounts BY <2>5 DEF PrepareStart
    <3> QED BY <1>1, <2>5, <3>1
  <2>6. CASE SweepBegin BY <1>2, <1>5, <2>6 DEF SweepBegin
  <2>7. ASSUME NEW q \in Path, SweepAsk(q)
        PROVE  mounts[p] # None /\ s \in mounts[p].users /\ mounts'[p].c = mounts[p].c
    <3>1. mounts[q] # None /\ mounts[q] \in Mount
      BY <2>7 DEF SweepAsk, IInv, SweepSees, TypeInv, MountTypes
    <3>2. PICK b : mounts' = [mounts EXCEPT ![q].unused = b] BY <2>7 DEF SweepAsk
    <3> QED BY <3>1, <3>2 DEF IInv, TypeInv, MountTypes, Mount
  <2>8. CASE SweepEnd
    <3>1. mounts' = [r \in Path |-> IF r \in swp.expired THEN None ELSE mounts[r]]
      BY <2>8 DEF SweepEnd
    <3>2. mounts'[p] = mounts[p] BY <3>1
    <3> QED BY <1>2, <1>5, <3>2
  <2>9. ~Restart
    <3>1. ASSUME Restart PROVE mounts'[p] = None BY <3>1 DEF Restart
    <3> QED BY <3>1
  <2> QED BY <1>2, <1>5, <2>1, <2>2, <2>3, <2>4, <2>5, <2>6, <2>7, <2>8, <2>9
          DEF MountsSteps, SweepStep
<1> QED BY <1>3, <1>4, <1>5

\* What a sweep, or another session's step, takes away is not the mount of a session in use.
LEMMA ServedStays ==
  ASSUME Apart, IInv, Next, NEW s \in Session, Served(s), InUse(s), InUse(s)',
         ~PrepareStart(s), ~SwitchUnmount(s)
  PROVE  Served(s)'
<1>1. PICK p \in Path : mounts[p] # None /\ s \in mounts[p].users /\ <<Cwd[s], p>> \in Under
  BY DEF Served, Covering
<1>2. SUFFICES mounts'[p] # None /\ s \in mounts'[p].users BY <1>1 DEF Served, Covering
<1>3. CASE UNCHANGED mounts BY <1>1, <1>3
<1>4. ASSUME NEW u \in Session, NEW C, u # s, MountsMove(u, C)
      PROVE  mounts'[p] # None /\ s \in mounts'[p].users
  BY <1>1, <1>4 DEF MountsMove
<1>5. ~PrepareErr(s)
  <2>1. ASSUME PrepareErr(s) PROVE ~InUse(s)'
    <3>1. snd[s].pc = "prepare" /\ agent' = agent /\ snd' = [snd EXCEPT ![s] = NoSend]
      BY <2>1 DEF PrepareErr, StartFailed
    <3>2. agent[s] = None BY <3>1 DEF IInv, StartLocked
    <3> QED BY <3>1, <3>2 DEF InUse, NoSend, IInv, TypeInv, CallTypes
  <2> QED BY <2>1
<1>6. CASE SweepBegin BY <1>3, <1>6 DEF SweepBegin
<1>7. ASSUME NEW q \in Path, SweepAsk(q) PROVE mounts'[p] # None /\ s \in mounts'[p].users
  <2>1. PICK b \in BOOLEAN : mounts' = [mounts EXCEPT ![q] = [mounts[q] EXCEPT !.unused = b]]
    BY <1>7 DEF SweepAsk
  <2>2. PICK r : r = [mounts[q] EXCEPT !.unused = b] OBVIOUS
  <2>3. mounts[q] # None /\ mounts[q] \in Mount
    BY <1>7 DEF SweepAsk, IInv, SweepSees, TypeInv, MountTypes
  <2>4. r.users = mounts[q].users /\ r \in Mount BY <2>2, <2>3 DEF Mount
  <2>5. r # None BY <2>4 DEF Apart
  <2>6. mounts' = [mounts EXCEPT ![q] = r] BY <2>1, <2>2
  <2> QED BY <1>1, <2>4, <2>5, <2>6 DEF IInv, TypeInv, MountTypes
<1>8. CASE SweepEnd
  <2>1. mounts' = [r \in Path |-> IF r \in swp.expired THEN None ELSE mounts[r]] BY <1>8 DEF SweepEnd
  <2>2. p \notin swp.expired BY <1>1 DEF IInv, SweptUnused
  <2> QED BY <1>1, <2>1, <2>2
<1>9. ~Restart
  <2>1. ASSUME Restart PROVE ~InUse(s)' BY <2>1 DEF Restart, InUse, NoSend
  <2> QED BY <2>1
<1> QED BY <1>3, <1>4, <1>5, <1>6, <1>7, <1>8, <1>9, MountsStep DEF MountsSteps, SweepStep, mountVars

LEMMA MountsServeKept == ASSUME Apart, IInv, Next PROVE MountsServe'
<1> SUFFICES ASSUME NEW s \in Session, s \in Mounting, Fits(s)', Current(s)' # Local, s \notin bare'
             PROVE  Served(s)'
  BY DEF MountsServe
<1>1. CASE PrepareStart(s)
  <2>1. rec' = rec BY <1>1 DEF PrepareStart, store
  <2>2. Current(s)' = Current(s) BY <2>1 DEF Current
  <2>3. Acquire(s, Current(s)) BY <1>1, <2>2 DEF PrepareStart
  <2>4. Current(s) \in Computer BY <2>2, PlaceOf DEF Place, IInv, TypeInv
  <2> QED BY <2>3, <2>4, AcquireMoves DEF IInv
<1>2. CASE ~PrepareStart(s)
  <2>1. Current(s)' = Current(s) /\ Fits(s) BY <1>2, FitsBefore
  <2>2. Served(s) \/ s \in bare BY <2>1 DEF IInv, MountsServe
  <2>3. ~SwitchUnmount(s) BY <2>1 DEF SwitchUnmount, Restarted, Fits, InUse
  <2>4. ~Restart
    <3>1. ASSUME Restart PROVE ~InUse(s)' BY <3>1 DEF Restart, InUse, NoSend
    <3> QED BY <3>1 DEF Fits
  <2>5. ~PrepareErr(s)
    <3>1. ASSUME PrepareErr(s) PROVE ~InUse(s)'
      <4>1. snd[s].pc = "prepare" /\ agent' = agent /\ snd' = [snd EXCEPT ![s] = NoSend]
        BY <3>1 DEF PrepareErr, StartFailed
      <4>2. agent[s] = None BY <4>1 DEF IInv, StartLocked
      <4> QED BY <4>1, <4>2 DEF InUse, NoSend, IInv, TypeInv, CallTypes
    <3> QED BY <3>1 DEF Fits
  <2>6. s \in bare => s \in bare'
    BY <1>2, <2>3, <2>4, <2>5, MountsStep
       DEF MountsSteps, mountVars, SweepBegin, SweepStep, SweepAsk, SweepEnd
  <2> QED BY <1>2, <2>1, <2>2, <2>3, <2>6, ServedStays DEF Fits
<1> QED BY <1>1, <1>2

LEMMA SweptUnusedKept == ASSUME Apart, IInv, Next PROVE SweptUnused'
<1> SUFFICES ASSUME NEW p \in swp'.expired, NEW s \in mounts'[p].users PROVE ~InUse(s)'
  BY DEF SweptUnused
<1>1. MountTypes' /\ SweepSees' BY MountsKept
<1>2. p \in Path /\ mounts'[p] # None BY <1>1 DEF MountTypes, SweepSees
<1>3. s \in Session BY <1>1, <1>2 DEF MountTypes, Mount
<1>4. mlock' BY <1>1 DEF MountTypes, NoSweep
<1>5. ASSUME p \in swp.expired, mounts' = mounts, mlock PROVE ~InUse(s)'
  <2>1. ~InUse(s) /\ s \in Mounting
    BY <1>2, <1>3, <1>5 DEF IInv, SweptUnused, MountsFit
  <2>2. ~(PrepareStart(s) /\ s \in Mounting)
    BY <1>5 DEF PrepareStart, ReleaseMount, Acquire
  <2> QED BY <1>3, <2>1, <2>2, InUseBefore
<1>6. CASE UNCHANGED mountVars BY <1>4, <1>5, <1>6 DEF mountVars
<1>7. ASSUME ~mlock, UNCHANGED mlock PROVE FALSE BY <1>4, <1>7
<1>8. CASE SweepBegin BY <1>8 DEF SweepBegin
<1>9. ASSUME NEW q \in Path, SweepAsk(q) PROVE ~InUse(s)'
  <2>1. UNCHANGED <<agent, snd>> /\ lock = None /\ mounts[q] # None
    BY <1>9 DEF SweepAsk, IInv, SweepSees
  <2>2. PICK b \in BOOLEAN : mounts' = [mounts EXCEPT ![q] = [mounts[q] EXCEPT !.unused = b]]
    BY <1>9 DEF SweepAsk
  <2>3. mounts[q] \in Mount BY <2>1 DEF IInv, TypeInv, MountTypes
  <2>4. PICK r : r = [mounts[q] EXCEPT !.unused = b] OBVIOUS
  <2>5. r.users = mounts[q].users BY <2>3, <2>4 DEF Mount
  <2>6. mounts' = [mounts EXCEPT ![q] = r] BY <2>2, <2>4
  <2>7. s \in mounts[p].users BY <1>2, <2>5, <2>6 DEF IInv, TypeInv, MountTypes
  <2>8. p \in swp.expired \/ (p = q /\ \A u \in mounts[q].users : agent[u] = None)
    BY <1>9 DEF SweepAsk
  <2>9. snd[s].pc # "configure" BY <1>3, <2>1 DEF IInv, StartLocked, Apart
  <2>10. ~InUse(s) BY <2>7, <2>8, <2>9 DEF InUse, IInv, SweptUnused
  <2> QED BY <2>1, <2>10 DEF InUse
<1>10. CASE SweepEnd \/ Restart BY <1>10 DEF SweepEnd, Restart, NoSweep
<1> QED BY <1>6, <1>7, <1>8, <1>9, <1>10, MountsStep DEF MountsSteps, SweepStep

LEMMA Step == ASSUME Apart, IInv, [Next]_vars PROVE IInv'
<1>1. CASE Next
  <2>1. TypeInv' BY <1>1, StoreTypesKept, CallTypesKept, MountsKept DEF TypeInv
  <2> QED BY <1>1, <2>1, StartLockedKept, KnownKept, ToldRightKept, MountsKept, MountsFitKept,
             MountsServeKept, SweptUnusedKept, AgentKept
          DEF IInv
<1>2. CASE UNCHANGED vars
  <2>1. /\ UNCHANGED <<reg, rec, egress, native, busy, agent, lock>>
        /\ UNCHANGED <<mlock, mounts, kernel, swp, bare, snd, sw, rm>>
    BY <1>2 DEF vars, store, mountVars
  <2>2. StoreTypes' /\ CallTypes' /\ MountTypes'
    BY <2>1 DEF IInv, TypeInv, StoreTypes, CallTypes, MountTypes
  <2>3. StartLocked' /\ Known' /\ SweepSees' /\ MountsApart'
    BY <2>1 DEF IInv, StartLocked, Known, Placed, SweepSees, MountsApart
  <2>4. ToldRight' /\ AgentOnItsComputer'
    BY <2>1 DEF IInv, ToldRight, AgentOnItsComputer, Switching, Current, Resolves
  <2>5. MountsFit' /\ MountsServe' /\ SweptUnused'
    BY <2>1 DEF IInv, MountsFit, MountsServe, SweptUnused, Fits, InUse, Switching, Current, Served, Covering
  <2> QED BY <2>2, <2>3, <2>4, <2>5 DEF IInv, TypeInv
<1> QED BY <1>1, <1>2

LEMMA AlwaysIInv == ASSUME Apart PROVE Spec => []IInv
<1>1. Init => IInv BY Initially
<1>2. IInv /\ [Next]_vars => IInv' BY Step
<1> QED BY <1>1, <1>2, PTL DEF Spec

(* The tables, the registry of runs, the mounts and the calls of send,     *)
(* switch, remove and the sweep keep their types in every execution        *)
(* (computers/mod.rs, computers/mount.rs).                                 *)
THEOREM ComputersTypeOK == ASSUME Apart PROVE Spec => []TypeOK
<1>1. IInv => TypeOK BY TypesAgree DEF IInv
<1> QED BY <1>1, AlwaysIInv, PTL

(* switch records the computer, then releases the agent, while starts      *)
(* under the registry lock read the record twice, for the instructions and *)
(* in configure_start: outside that window no agent works on, or was told  *)
(* of, another computer than the recorded one, for any sessions, computers *)
(* and bounds.                                                             *)
THEOREM ComputersAgents == ASSUME Apart PROVE Spec => []AgentOnItsComputer
<1>1. IInv => AgentOnItsComputer BY DEF IInv
<1> QED BY <1>1, AlwaysIInv, PTL

(* acquire, release and sweep of computers/mount.rs: project mounts never  *)
(* lie inside one another, the kernel shows each the files of its own       *)
(* computer, and outside its switch's window a mounted session's agent has  *)
(* its directory in a mount of the computer it works on, however starts,    *)
(* switches, sweeps and failing mounts and unmounts overlap, unless the last *)
(* step of its own switch, which comes after the agent's release            *)
(* (computers/mod.rs:899-903), has taken the mount of an agent started       *)
(* meanwhile.                                                               *)
THEOREM ComputersMounts == ASSUME Apart PROVE Spec => [](MountsApart /\ MountOfItsComputer)
<1>1. IInv => MountsApart /\ MountOfItsComputer
  <2>1. ASSUME IInv, NEW s \in Session, agent[s] # None, ~Switching(s)
        PROVE  /\ Fits(s) /\ Current(s) = agent[s].on
               /\ s \in Mounting /\ agent[s].on # Local => Served(s) \/ s \in bare
    BY <2>1 DEF IInv, AgentOnItsComputer, MountsServe, Fits, InUse
  <2>2. IInv => MountOfItsComputer BY <2>1 DEF IInv, MountsFit, MountOfItsComputer
  <2> QED BY <2>2 DEF IInv
<1> QED BY <1>1, AlwaysIInv, PTL
=============================================================================
