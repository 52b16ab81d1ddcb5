------------------------------ MODULE Launcher ------------------------------
(* When the desktop app redraws its launcher (app/src/bridge.rs): every change *)
(* of a session is broadcast, most are streamed deltas that show nothing new,  *)
(* and a fingerprint of what the launcher shows of each session decides.       *)
EXTENDS Naturals, Sequences, FiniteSets, TLAPS

CONSTANTS Session, None,
          Shown,      \* what the launcher can show of a session (status, title, activity)
          Buffer,     \* changes the broadcast keeps (256)
          MaxChange,  \* changes of what is shown
          MaxDelta    \* changes that show nothing new

VARIABLES view,    \* the client's state: what should be shown of each session
          due,     \* applied inputs whose changes are not broadcast yet, per session
          chan, missed, rev, lagged,  \* the bridge's change receiver, revision watch and flag
          prints,  \* Fingerprints
          dirty,   \* the launcher's signal was bumped since it was last drawn
          drawn,   \* what is on the screen
          back,    \* sessions that show again, unlike the screen, what their fingerprint holds
          count

vars == <<view, due, chan, missed, rev, lagged, prints, dirty, drawn, back, count>>
bridge == <<chan, missed, rev, lagged>>

TypeOK ==
  /\ view \in [Session -> Shown] /\ drawn \in [Session -> Shown] /\ prints \in [Session -> Shown \cup {None}]
  /\ due \in [Session -> Nat] /\ chan \in Seq(Session) /\ Len(chan) <= Buffer
  /\ missed \in BOOLEAN /\ rev \in BOOLEAN /\ lagged \in BOOLEAN /\ dirty \in BOOLEAN
  /\ back \subseteq Session

\* changes_task bumps everything before its first change.
Init ==
  /\ view \in [Session -> Shown] /\ drawn = view /\ dirty = TRUE /\ back = {}
  /\ due = [s \in Session |-> 0] /\ chan = <<>> /\ missed = FALSE /\ rev = FALSE /\ lagged = FALSE
  /\ prints = [s \in Session |-> None] /\ count = [change |-> 0, delta |-> 0, draw |-> 0]

-----------------------------------------------------------------------------
(* The client *)

Applied(s) == due' = [due EXCEPT ![s] = @ + 1]

\* History: the fingerprint will find nothing new, while the screen shows what came between.
ComesBack(s, x) == prints[s] = x /\ drawn[s] # x

Change(s, x) ==
  /\ x # view[s] /\ count.change < MaxChange
  /\ count' = [count EXCEPT !.change = @ + 1]
  /\ view' = [view EXCEPT ![s] = x] /\ Applied(s)
  /\ back' = IF ComesBack(s, x) THEN back \cup {s} ELSE back \ {s}
  /\ UNCHANGED <<bridge, prints, dirty, drawn>>

Delta(s) ==
  /\ count.delta < MaxDelta /\ count' = [count EXCEPT !.delta = @ + 1] /\ Applied(s)
  /\ UNCHANGED <<view, bridge, prints, dirty, drawn, back>>

\* Inner::apply, after the state's lock: the revision, then the broadcast, which may drop its oldest.
Notify(s) ==
  /\ due[s] > 0 /\ due' = [due EXCEPT ![s] = @ - 1] /\ rev' = TRUE
  /\ chan' = Append(IF Len(chan) = Buffer THEN Tail(chan) ELSE chan, s)
  /\ missed' = (missed \/ Len(chan) = Buffer)
  /\ UNCHANGED <<view, lagged, prints, dirty, drawn, back, count>>

-----------------------------------------------------------------------------
(* The bridge *)

Changed(s) == prints[s] # view[s]

\* on_changes
OnChanges(s) ==
  IF Changed(s) THEN dirty' = TRUE /\ prints' = [prints EXCEPT ![s] = view[s]]
  ELSE UNCHANGED <<dirty, prints>>

Receive ==
  /\ ~missed /\ chan # <<>> /\ chan' = Tail(chan) /\ OnChanges(Head(chan))
  /\ UNCHANGED <<view, due, missed, rev, lagged, drawn, back, count>>

ReceiveLagged ==
  /\ missed /\ missed' = FALSE /\ lagged' = TRUE /\ dirty' = TRUE
  /\ UNCHANGED <<view, due, chan, rev, prints, drawn, back, count>>

Revised ==
  /\ rev /\ rev' = FALSE /\ lagged' = FALSE /\ dirty' = (dirty \/ lagged)
  /\ UNCHANGED <<view, due, chan, missed, prints, drawn, back, count>>

\* The launcher's scope runs again and reads the client's state.
Draw ==
  /\ dirty /\ dirty' = FALSE /\ drawn' = view /\ back' = {} /\ count' = [count EXCEPT !.draw = @ + 1]
  /\ UNCHANGED <<view, due, bridge, prints>>

Next ==
  \/ (\E s \in Session : Delta(s) \/ Notify(s) \/ \E x \in Shown : Change(s, x))
  \/ Receive \/ ReceiveLagged \/ Revised \/ Draw

Spec == Init /\ [][Next]_vars

-----------------------------------------------------------------------------
(* Properties *)

Settled ==
  /\ chan = <<>> /\ ~missed /\ ~dirty /\ ~(lagged /\ rev)
  /\ \A s \in Session : due[s] = 0

\* bridge.rs: "it never lags, so whenever the broadcast receiver reports `Lagged` (changes were
\* dropped), the next revision redraws everything": when nothing is under way any more, the screen
\* shows every session as it is. The one exception is a session whose display came back to what its
\* fingerprint holds before the change in between was received, but after another redraw showed it:
\* that one stays as it was drawn until the next redraw.
LauncherIsCurrent == Settled => \A s \in Session : drawn[s] = view[s] \/ s \in back

-----------------------------------------------------------------------------
(* Proof: for any sessions, displays, buffer and numbers of changes. A session *)
(* drawn wrongly is announced, and a fingerprint that shows the present was    *)
(* followed by a redraw, both but for a session whose display came back.       *)

Announced(s) == dirty \/ missed \/ due[s] > 0 \/ \E i \in 1..Len(chan) : chan[i] = s

PrintsAreDrawn == \A s \in Session : prints[s] = view[s] => dirty \/ drawn[s] = view[s] \/ s \in back
StaleIsAnnounced == \A s \in Session : drawn[s] # view[s] => Announced(s) \/ s \in back
IInv == TypeOK /\ PrintsAreDrawn /\ StaleIsAnnounced

\* changes_task begins by bumping everything, before its first change.
LEMMA LauncherInit ==
  ASSUME None \notin Shown, Buffer \in Nat \ {0} PROVE Init => IInv
<1> SUFFICES ASSUME Init PROVE IInv OBVIOUS
<1>1. view \in [Session -> Shown] /\ drawn = view /\ dirty = TRUE /\ chan = <<>> /\ back = {}
  BY DEF Init
<1>2. TypeOK
  <2>1. prints \in [Session -> Shown \cup {None}] /\ due \in [Session -> Nat] BY DEF Init
  <2>2. chan \in Seq(Session) /\ Len(chan) <= Buffer BY <1>1
  <2> QED BY <1>1, <2>1, <2>2 DEF Init, TypeOK
<1>3. PrintsAreDrawn /\ StaleIsAnnounced
  BY <1>1 DEF PrintsAreDrawn, StaleIsAnnounced, Announced
<1> QED BY <1>2, <1>3 DEF IInv

\* Every step of the client and of the bridge keeps it.
LEMMA LauncherStep ==
  ASSUME None \notin Shown, Buffer \in Nat \ {0}, IInv, [Next]_vars
  PROVE  IInv'
<1> USE DEF IInv, TypeOK, bridge
<1>1. CASE UNCHANGED vars
  BY <1>1 DEF vars, PrintsAreDrawn, StaleIsAnnounced, Announced
<1>2. ASSUME NEW s \in Session, NEW x \in Shown, Change(s, x) PROVE IInv'
  <2>1. /\ view' = [view EXCEPT ![s] = x] /\ due' = [due EXCEPT ![s] = @ + 1]
        /\ UNCHANGED <<chan, missed, rev, lagged, prints, dirty, drawn>>
    BY <1>2 DEF Change, Applied
  <2>2. /\ back' \subseteq Session
        /\ \A t \in Session : t # s => (t \in back' <=> t \in back)
        /\ (prints[s] = x /\ drawn[s] # x) => s \in back'
    BY <1>2 DEF Change, ComesBack
  <2>3. TypeOK' BY <2>1, <2>2
  <2>4. PrintsAreDrawn'
    <3> SUFFICES ASSUME NEW t \in Session, prints[t] = view'[t], drawn[t] # view'[t]
                 PROVE  dirty \/ t \in back'
      BY <2>1 DEF PrintsAreDrawn
    <3>1. CASE t = s
      <4>1. view'[t] = x BY <2>1, <3>1
      <4> QED BY <2>2, <3>1, <4>1
    <3>2. CASE t # s
      <4>1. view'[t] = view[t] BY <2>1, <3>2
      <4> QED BY <2>2, <3>2, <4>1 DEF PrintsAreDrawn
    <3> QED BY <3>1, <3>2
  <2>5. StaleIsAnnounced'
    <3> SUFFICES ASSUME NEW t \in Session, drawn[t] # view'[t]
                 PROVE  Announced(t)' \/ t \in back'
      BY <2>1 DEF StaleIsAnnounced
    <3>1. CASE t = s
      <4>1. due'[t] > 0 BY <2>1, <3>1
      <4> QED BY <4>1 DEF Announced
    <3>2. CASE t # s
      <4>1. view'[t] = view[t] /\ due'[t] = due[t] BY <2>1, <3>2
      <4> QED BY <2>1, <2>2, <3>2, <4>1 DEF StaleIsAnnounced, Announced
    <3> QED BY <3>1, <3>2
  <2> QED BY <2>3, <2>4, <2>5
<1>3. ASSUME NEW s \in Session, Delta(s) PROVE IInv'
  BY <1>3 DEF Delta, Applied, PrintsAreDrawn, StaleIsAnnounced, Announced
<1>4. ASSUME NEW s \in Session, Notify(s) PROVE IInv'
  <2>1. /\ due[s] > 0 /\ due' = [due EXCEPT ![s] = @ - 1] /\ rev' = TRUE
        /\ UNCHANGED <<view, lagged, prints, dirty, drawn, back>>
    BY <1>4 DEF Notify
  <2>2. CASE Len(chan) = Buffer
    <3>1. missed' /\ chan' = Append(Tail(chan), s) BY <1>4, <2>2 DEF Notify
    <3>2. TypeOK' BY <2>1, <2>2, <3>1
    <3> QED BY <2>1, <3>1, <3>2 DEF PrintsAreDrawn, StaleIsAnnounced, Announced
  <2>3. CASE Len(chan) # Buffer
    <3>1. missed' = missed /\ chan' = Append(chan, s) BY <1>4, <2>3 DEF Notify
    <3>2. TypeOK' BY <2>1, <2>3, <3>1
    <3>3. StaleIsAnnounced'
      <4> SUFFICES ASSUME NEW t \in Session, drawn[t] # view[t], t \notin back PROVE Announced(t)'
        BY <2>1 DEF StaleIsAnnounced
      <4>1. Announced(t) BY DEF StaleIsAnnounced
      <4>2. CASE t = s
        <5>1. chan'[Len(chan')] = s /\ Len(chan') \in 1..Len(chan') BY <3>1
        <5> QED BY <4>2, <5>1 DEF Announced
      <4>3. CASE t # s
        <5>1. \A i \in 1..Len(chan) : i \in 1..Len(chan') /\ chan'[i] = chan[i] BY <3>1
        <5> QED BY <2>1, <3>1, <4>1, <4>3, <5>1 DEF Announced
      <4> QED BY <4>2, <4>3
    <3> QED BY <2>1, <3>2, <3>3 DEF PrintsAreDrawn
  <2> QED BY <2>2, <2>3
<1>5. CASE Receive
  <2> DEFINE s == Head(chan)
  <2>1. /\ chan # <<>> /\ chan' = Tail(chan) /\ ~missed /\ s \in Session
        /\ UNCHANGED <<view, due, missed, rev, lagged, drawn, back>>
    BY <1>5 DEF Receive
  <2>2. CASE Changed(s)
    <3>1. dirty' = TRUE /\ prints' = [prints EXCEPT ![s] = view[s]]
      BY <1>5, <2>2 DEF Receive, OnChanges
    <3>2. chan' \in Seq(Session) /\ Len(chan') <= Buffer BY <2>1
    <3>3. prints' \in [Session -> Shown \cup {None}] BY <2>1, <3>1
    <3>4. TypeOK' BY <2>1, <3>1, <3>2, <3>3
    <3> QED BY <2>1, <3>1, <3>4 DEF PrintsAreDrawn, StaleIsAnnounced, Announced
  <2>3. CASE ~Changed(s)
    <3>1. prints[s] = view[s] BY <2>3 DEF Changed
    <3>2. UNCHANGED <<dirty, prints>> BY <1>5, <2>3 DEF Receive, OnChanges
    <3>3. TypeOK' BY <2>1, <3>2
    <3>4. StaleIsAnnounced'
      <4> SUFFICES ASSUME NEW t \in Session, drawn[t] # view[t], ~dirty, t \notin back PROVE Announced(t)'
        BY <2>1, <3>2 DEF StaleIsAnnounced, Announced
      <4>1. t # s BY <3>1 DEF PrintsAreDrawn
      <4>2. CASE due[t] > 0 BY <2>1, <4>2 DEF Announced
      <4>3. CASE \E i \in 1..Len(chan) : chan[i] = t
        <5>1. PICK i \in 1..Len(chan) : chan[i] = t BY <4>3
        <5>2. i # 1 BY <2>1, <4>1, <5>1
        <5>3. i - 1 \in 1..Len(chan') /\ chan'[i - 1] = t BY <2>1, <5>1, <5>2
        <5> QED BY <5>3 DEF Announced
      <4> QED BY <2>1, <4>2, <4>3 DEF StaleIsAnnounced, Announced
    <3> QED BY <2>1, <3>2, <3>3, <3>4 DEF PrintsAreDrawn
  <2> QED BY <2>2, <2>3
<1>6. CASE ReceiveLagged
  BY <1>6 DEF ReceiveLagged, PrintsAreDrawn, StaleIsAnnounced, Announced
<1>7. CASE Revised
  BY <1>7 DEF Revised, PrintsAreDrawn, StaleIsAnnounced, Announced
<1>8. CASE Draw
  BY <1>8 DEF Draw, PrintsAreDrawn, StaleIsAnnounced, Announced
<1> QED BY <1>1, <1>2, <1>3, <1>4, <1>5, <1>6, <1>7, <1>8 DEF Next

\* The launcher's redraws: no delta, no lag of the bridge and no order of its reads leaves a session
\* stale on the screen, but one whose display came back before its change was received.
THEOREM LauncherStaysCurrent ==
  ASSUME None \notin Shown, Buffer \in Nat \ {0}
  PROVE  Spec => []LauncherIsCurrent
<1>1. Init => IInv BY LauncherInit
<1>2. IInv /\ [Next]_vars => IInv' BY LauncherStep
<1>3. IInv => LauncherIsCurrent
  <2> SUFFICES ASSUME IInv, Settled, NEW s \in Session PROVE drawn[s] = view[s] \/ s \in back
    BY DEF LauncherIsCurrent
  <2> QED BY DEF IInv, TypeOK, Settled, StaleIsAnnounced, Announced
<1> QED BY <1>1, <1>2, <1>3, PTL DEF Spec

=============================================================================
