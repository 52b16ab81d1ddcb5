------------------------------- MODULE Browser -------------------------------
(* One project's remote browser (server/src/browser: mod.rs, instance.rs,      *)
(* chrome.rs, api.rs): requests start, stop, clear and switch the egress of    *)
(* one Chrome on one profile. The run lock is held while Chrome starts and is  *)
(* given back before Chrome has stopped. Agents reach Chrome through a relay   *)
(* that holds their commands while the user has taken over.                    *)
EXTENDS Naturals, FiniteSets

CONSTANTS Op,         \* requests
          Agent,      \* relay connections of agents
          Egress,     \* egress choices; Default is the one stored at the start
          Default, None,
          MaxChrome,  \* Chrome processes that are ever started
          MaxCrash,   \* Chrome processes that die, and starts that fail
          MaxTake     \* takeovers by the user

VARIABLES pc, req, mine,    \* the requests: where they are, what they ask, the Chrome they stop
          lock, run,        \* the run lock and the Chrome it guards, or 0
          chrome,           \* every Chrome: its state, egress, epoch of its profile, driver
          choice, saved,    \* the egress chosen, and stored
          shown,            \* the state viewers see
          wiped, profile,   \* profile wipes so far; the oldest data in the profile
          used,
          takeover, relay, late

ops   == <<pc, req, mine>>
state == <<lock, run, chrome, choice, saved, shown, wiped, profile>>
agent == <<takeover, relay, late>>
vars  == <<ops, state, used, agent>>

Id == 1..MaxChrome
Kind == [k : {"open", "stop", "clear"}, e : {None}] \cup [k : {"switch"}, e : Egress]

TypeOK ==
  /\ pc \in [Op -> {"idle", "check", "set", "was", "take", "closing", "stopped", "wipe", "lock", "choose",
                    "starting", "done"}]
  /\ \A o \in Op : req[o].k \in {"open", "stop", "clear", "switch", "clearRunning"}
  /\ mine \in [Op -> 0..MaxChrome] /\ lock \in Op \cup {None} /\ run \in 0..MaxChrome
  /\ \A i \in Id : /\ chrome[i].s \in {"none", "starting", "up", "dead"} /\ chrome[i].driver \in BOOLEAN
                   /\ chrome[i].e \in Egress \cup {None} /\ chrome[i].epoch \in 0..Cardinality(Op)
  /\ choice \in Egress /\ saved \in Egress
  /\ shown.running \in BOOLEAN /\ shown.e \in Egress \cup {None} /\ shown.page \in 0..MaxChrome
  /\ wiped \in 0..Cardinality(Op) /\ profile \in 0..Cardinality(Op)
  /\ takeover \in BOOLEAN /\ relay \in [Agent -> {"idle", "held", "passed"}] /\ late \in [Agent -> Nat]

Init ==
  /\ pc = [o \in Op |-> "idle"] /\ req \in [Op -> Kind] /\ mine = [o \in Op |-> 0]
  /\ lock = None /\ run = 0
  /\ chrome = [i \in Id |-> [s |-> "none", e |-> None, epoch |-> 0, driver |-> FALSE]]
  /\ choice = Default /\ saved = Default
  /\ shown = [running |-> FALSE, e |-> None, page |-> 0]
  /\ wiped = 0 /\ profile = 0
  /\ used = [chrome |-> 0, crash |-> 0, take |-> 0]
  /\ takeover = FALSE /\ relay = [a \in Agent |-> "idle"] /\ late = [a \in Agent |-> 0]

Goes(o, next) == pc' = [pc EXCEPT ![o] = next]
At(o, here) == pc[o] = here
Alive == {i \in Id : chrome[i].s \in {"starting", "up"}}

-----------------------------------------------------------------------------
(* Requests                                                                    *)

\* The first step: an egress is validated and stored before anything else.
Begin(o) ==
  /\ At(o, "idle")
  /\ Goes(o, CASE req[o].k = "open" -> "lock" [] req[o].k = "stop" -> "take"
               [] req[o].k = "clear" -> "was" [] req[o].k = "switch" -> "check")
  /\ saved' = IF req[o].k = "switch" THEN req[o].e ELSE saved
  /\ UNCHANGED <<req, mine, lock, run, chrome, choice, shown, wiped, profile, used, agent>>

\* switch_egress: nothing to do when Chrome runs with that egress already.
Check(o) ==
  /\ At(o, "check") /\ lock = None
  /\ Goes(o, IF run # 0 /\ choice = req[o].e /\ shown.e = req[o].e THEN "lock" ELSE "set")
  /\ UNCHANGED <<req, mine, state, used, agent>>

Set(o) ==
  /\ At(o, "set")
  /\ choice' = req[o].e
  /\ Goes(o, "take")
  /\ UNCHANGED <<req, mine, lock, run, chrome, saved, shown, wiped, profile, used, agent>>

\* clear_data: whether to start again is decided before the stop.
WasRunning(o) ==
  /\ At(o, "was") /\ lock = None
  /\ req' = [req EXCEPT ![o].k = IF run # 0 THEN "clearRunning" ELSE "clear"]
  /\ Goes(o, "take")
  /\ UNCHANGED <<mine, state, used, agent>>

\* stop: Chrome is taken out under the lock, and closed without it.
TakeOut(o) ==
  /\ At(o, "take") /\ lock = None
  /\ run' = 0 /\ mine' = [mine EXCEPT ![o] = run]
  /\ chrome' = IF run = 0 THEN chrome ELSE [chrome EXCEPT ![run].driver = FALSE]
  /\ Goes(o, IF run = 0 THEN "stopped" ELSE "closing")
  /\ UNCHANGED <<req, lock, choice, saved, shown, wiped, profile, used, agent>>

\* stop_running: Chrome writes its data and exits, or is killed after ten seconds.
CloseChrome(o) ==
  /\ At(o, "closing")
  /\ chrome' = [chrome EXCEPT ![mine[o]].s = "dead"]
  /\ profile' \in IF chrome[mine[o]].s = "up" THEN {chrome[mine[o]].epoch, profile} ELSE {profile}
  /\ Goes(o, "stopped")
  /\ UNCHANGED <<req, mine, lock, run, choice, saved, shown, wiped, used, agent>>

\* The end of stop, whatever was started meanwhile.
Stopped(o) ==
  /\ At(o, "stopped")
  /\ shown' = [shown EXCEPT !.running = FALSE, !.page = 0]
  /\ Goes(o, CASE req[o].k = "switch" -> "lock" [] req[o].k = "stop" -> "done" [] OTHER -> "wipe")
  /\ UNCHANGED <<req, mine, lock, run, chrome, choice, saved, wiped, profile, used, agent>>

Wipe(o) ==
  /\ At(o, "wipe")
  /\ wiped' = wiped + 1 /\ profile' = wiped + 1
  /\ Goes(o, IF req[o].k = "clearRunning" THEN "lock" ELSE "done")
  /\ UNCHANGED <<req, mine, lock, run, chrome, choice, saved, shown, used, agent>>

\* ensure_running: a Chrome that runs is kept; a dead one is dropped, under the lock.
Lock(o) ==
  /\ At(o, "lock") /\ lock = None
  /\ IF run # 0 /\ chrome[run].s = "up"
     THEN Goes(o, "done") /\ UNCHANGED <<lock, run, chrome>>
     ELSE /\ Goes(o, "choose")
          /\ lock' = o /\ run' = 0
          /\ chrome' = IF run = 0 THEN chrome ELSE [chrome EXCEPT ![run].driver = FALSE]
  /\ UNCHANGED <<req, mine, choice, saved, shown, wiped, profile, used, agent>>

\* The choice is read under the lock and resolved to a proxy; Chrome is spawned with it.
Choose(o) ==
  /\ At(o, "choose")
  /\ used.chrome < MaxChrome /\ used' = [used EXCEPT !.chrome = @ + 1]
  /\ mine' = [mine EXCEPT ![o] = used.chrome + 1]
  /\ chrome' = [chrome EXCEPT ![used.chrome + 1] = [s |-> "starting", e |-> choice, epoch |-> wiped, driver |-> FALSE]]
  /\ Goes(o, "starting")
  /\ UNCHANGED <<req, lock, run, choice, saved, shown, wiped, profile, agent>>

\* Chrome opened its port and is connected to. A second Chrome on one profile exits at once.
Started(o) ==
  /\ At(o, "starting") /\ Alive = {mine[o]}
  /\ chrome' = [chrome EXCEPT ![mine[o]] = [@ EXCEPT !.s = "up", !.driver = TRUE]]
  /\ run' = mine[o] /\ lock' = None
  /\ shown' = [shown EXCEPT !.running = TRUE, !.e = chrome[mine[o]].e]
  /\ Goes(o, "done")
  /\ UNCHANGED <<req, mine, choice, saved, wiped, profile, used, agent>>

\* It exited while starting, or its port did not open in time and it is killed.
StartFails(o) ==
  /\ At(o, "starting")
  /\ IF Alive = {mine[o]} THEN used.crash < MaxCrash /\ used' = [used EXCEPT !.crash = @ + 1] ELSE UNCHANGED used
  /\ chrome' = [chrome EXCEPT ![mine[o]].s = "dead"]
  /\ lock' = None
  /\ shown' = [shown EXCEPT !.running = FALSE]
  /\ Goes(o, "done")
  /\ UNCHANGED <<req, mine, run, choice, saved, wiped, profile, agent>>

-----------------------------------------------------------------------------
(* Chrome and its driver                                                       *)

Crash(i) ==
  /\ chrome[i].s = "up" /\ used.crash < MaxCrash
  /\ used' = [used EXCEPT !.crash = @ + 1]
  /\ chrome' = [chrome EXCEPT ![i].s = "dead"]
  /\ UNCHANGED <<ops, lock, run, choice, saved, shown, wiped, profile, agent>>

\* The driver attaches a page, and when the connection has ended takes it back.
DriverAttaches(i) ==
  /\ chrome[i].driver /\ chrome[i].s = "up" /\ shown.page # i
  /\ shown' = [shown EXCEPT !.page = i]
  /\ UNCHANGED <<ops, lock, run, chrome, choice, saved, wiped, profile, used, agent>>

DriverEnds(i) ==
  /\ chrome[i].driver /\ chrome[i].s = "dead"
  /\ chrome' = [chrome EXCEPT ![i].driver = FALSE]
  /\ shown' = [shown EXCEPT !.running = FALSE, !.page = 0]
  /\ UNCHANGED <<ops, lock, run, choice, saved, wiped, profile, used, agent>>

-----------------------------------------------------------------------------
(* Agents behind the relay                                                     *)

Takeover(on) ==
  /\ takeover # on
  /\ on => used.take < MaxTake
  /\ used' = IF on THEN [used EXCEPT !.take = @ + 1] ELSE used
  /\ takeover' = on
  /\ late' = [a \in Agent |-> 0]
  /\ UNCHANGED <<ops, state, relay>>

\* A command arrives and, in agent_command, waits while the user has taken over.
Command(a) ==
  /\ relay[a] = "idle" /\ late[a] < 2
  /\ relay' = [relay EXCEPT ![a] = "held"]
  /\ UNCHANGED <<ops, state, used, takeover, late>>


Pass(a) ==
  /\ relay[a] = "held" /\ ~takeover
  /\ relay' = [relay EXCEPT ![a] = "passed"]
  /\ UNCHANGED <<ops, state, used, takeover, late>>

Forward(a) ==
  /\ relay[a] = "passed"
  /\ relay' = [relay EXCEPT ![a] = "idle"]
  /\ late' = [late EXCEPT ![a] = IF takeover THEN @ + 1 ELSE @]
  /\ UNCHANGED <<ops, state, used, takeover>>

Next ==
  \/ \E o \in Op : \/ Begin(o) \/ Check(o) \/ Set(o) \/ WasRunning(o) \/ TakeOut(o) \/ CloseChrome(o)
                   \/ Stopped(o) \/ Wipe(o) \/ Lock(o) \/ Choose(o) \/ Started(o) \/ StartFails(o)
  \/ \E i \in Id : Crash(i) \/ DriverAttaches(i) \/ DriverEnds(i)
  \/ \E on \in BOOLEAN : Takeover(on)
  \/ \E a \in Agent : Command(a) \/ Pass(a) \/ Forward(a)

Spec == Init /\ [][Next]_vars

-----------------------------------------------------------------------------
Quiet == \A o \in Op : pc[o] \in {"idle", "done"}

\* However requests interleave, a browser left running uses the egress chosen last: never the
\* server's own address, nor an earlier choice.
RunsChosenEgress == Quiet /\ run # 0 => chrome[run].e = choice

\* No Chrome is left running that no request can stop any more.
NoneLeftBehind == Quiet => Alive \subseteq {run}

\* While the user has control, at most the one command an agent already had through is executed.
AgentIsHeld == \A a \in Agent : late[a] <= 1

=============================================================================
