------------------------------- MODULE Detach -------------------------------
(* Tab detach: detach.js in the VS Code Web page (proxy/static/detach.js) and  *)
(* the native host's side of the bridge (bridge/src). The page watches VS      *)
(* Code's own drag of a tab, decides at dragend whether it was a detach, and   *)
(* posts a message to the native host, or opens a browser window itself. One   *)
(* tab is dragged, several times; something else may be dragged as well.       *)
EXTENDS Naturals, Sequences

CONSTANTS Native,    \* a native host exists; else the browser fallback
          MaxDrag, MaxEdit,
          LateEdit,  \* edits also come during a drag or while a toast is up
          MaxFail,   \* windows the host's opener fails to open
          MaxBlock,  \* pop-ups the browser blocks
          Skewed,    \* the host may speak another version of tab_detach
          None

VARIABLES pointer, \* the real drag: what is dragged and where the pointer is, or None
          drag,    \* tracker and drag of detach.js, or None
          tab,     \* the tab: shown in its window, has unsaved changes
          toasts,  \* "Open" buttons on screen
          wire,    \* messages posted to the host
          windows, \* windows opened for the tab
          vs,      \* what VS Code did with the last drop: "none", "reorder", "aux"
          drags, edits, fails, blocks,
          done     \* the detach decisions: what was really dragged, where it ended, what VS Code did, and
                   \* whether the dragend had screen coordinates (0, 0 counts as none)

vars == <<pointer, drag, tab, toasts, wire, windows, vs, drags, edits, fails, blocks, done>>

Place == {"near", "far", "outside"}
Drag == [alt : BOOLEAN, newWindow : BOOLEAN, single : BOOLEAN, uri : BOOLEAN, dirty : BOOLEAN, point : {"near", "far"}, left : BOOLEAN]

\* A tab_detach as the host sees it: of its own version, of another one it can read, or of one it cannot.
TabDetach == {"same", "readable", "unreadable"}

TypeOK ==
  /\ pointer \in [what : {"tab", "other"}, at : Place, alt : BOOLEAN, newWindow : BOOLEAN] \cup {None}
  /\ drag \in Drag \cup {None}
  /\ tab \in [shown : BOOLEAN, dirty : BOOLEAN]
  /\ toasts \in 0..MaxDrag /\ wire \in Seq(TabDetach) /\ windows \in Nat
  /\ vs \in {"none", "reorder", "aux"}
  /\ done \in Seq([what : {"tab", "other"}, at : Place, vs : {"none", "reorder", "aux"}, dirty : BOOLEAN,
                   screen : BOOLEAN])

Init ==
  /\ pointer = None /\ drag = None /\ tab = [shown |-> TRUE, dirty |-> FALSE]
  /\ toasts = 0 /\ wire = <<>> /\ windows = 0 /\ vs = "none"
  /\ drags = 0 /\ edits = 0 /\ fails = 0 /\ blocks = 0 /\ done = <<>>

-----------------------------------------------------------------------------
(* Drag events *)

\* Where a tab's state is read from at dragstart: the transfer VS Code filled, else the DOM.
Read(alt, newWindow, single, uri) ==
  [alt |-> alt, newWindow |-> newWindow, single |-> single, uri |-> uri, dirty |-> tab.dirty, point |-> "near", left |-> FALSE]

StartOtherFault ==
  /\ pointer = None /\ drags < MaxDrag /\ drags' = drags + 1
  /\ pointer' = [what |-> "other", at |-> "near", alt |-> FALSE, newWindow |-> FALSE]
  /\ vs' = "none"
  /\ UNCHANGED <<drag, tab, toasts, wire, windows, edits, fails, blocks, done>>

\* Any dragstart forgets the last drag, whose dragend may never have come.
StartOther ==
  /\ pointer = None /\ drags < MaxDrag /\ drags' = drags + 1
  /\ pointer' = [what |-> "other", at |-> "near", alt |-> FALSE, newWindow |-> FALSE]
  /\ drag' = None /\ vs' = "none"
  /\ UNCHANGED <<tab, toasts, wire, windows, edits, fails, blocks, done>>

StartTab(alt, newWindow, single, uri) ==
  /\ pointer = None /\ tab.shown /\ drags < MaxDrag /\ drags' = drags + 1
  /\ pointer' = [what |-> "tab", at |-> "near", alt |-> alt, newWindow |-> newWindow]
  /\ drag' = Read(alt, newWindow, single, uri) /\ vs' = "none"
  /\ UNCHANGED <<tab, toasts, wire, windows, edits, fails, blocks, done>>

\* dragover: the last known position, inside the document again.
Over(p) == [drag EXCEPT !.point = p, !.left = FALSE]
Leave == [drag EXCEPT !.left = TRUE]

Move(p) ==
  /\ pointer # None /\ pointer.at # p /\ vs = "none"
  /\ pointer' = [pointer EXCEPT !.at = p]
  /\ drag' = IF drag = None THEN None ELSE IF p = "outside" THEN Leave ELSE Over(p)
  /\ UNCHANGED <<tab, toasts, wire, windows, vs, drags, edits, fails, blocks, done>>

\* The dragged element is removed meanwhile: no dragend comes.
Lost ==
  /\ pointer # None /\ pointer' = None
  /\ UNCHANGED <<drag, tab, toasts, wire, windows, vs, drags, edits, fails, blocks, done>>

\* VS Code (external) accepts a drop inside the window, or opens its own window outside it.
Accept ==
  /\ pointer # None /\ pointer.what = "tab" /\ vs = "none"
  /\ vs' = IF pointer.at = "outside" THEN "aux" ELSE "reorder"
  /\ pointer.at = "outside" => pointer.newWindow
  /\ UNCHANGED <<pointer, drag, tab, toasts, wire, windows, drags, edits, fails, blocks, done>>

-----------------------------------------------------------------------------
(* dragend: the decision, and what follows from it *)

\* A point missing from the event is the last one seen; screen says whether screen coordinates exist.
Distant(hasPoint, screen) ==
  drag.left \/ (screen /\ pointer.at = "outside") \/ (IF hasPoint THEN pointer.at # "near" ELSE drag.point = "far")

\* tracker.end: detach only what nothing accepted, was dropped far away, and is not dirty.
End(hasPoint, screen) ==
  /\ vs # "reorder" /\ ~(drag.alt \/ pointer.alt)
  /\ ~(drag.newWindow /\ screen /\ pointer.at = "outside")
  /\ drag.single /\ drag.uri /\ Distant(hasPoint, screen) /\ ~drag.dirty

\* Closing a tab with unsaved changes asks the user first, and the tab stays (VS Code, external).
Closed == [tab EXCEPT !.shown = @ /\ tab.dirty]

Decided(screen) ==
  done' = Append(done, [what |-> pointer.what, at |-> pointer.at, vs |-> vs, dirty |-> tab.dirty, screen |-> screen])

\* dragend without a decision to detach.
EndStays(hasPoint, screen) ==
  /\ pointer # None
  /\ drag # None => ~End(hasPoint, screen)
  /\ pointer' = None /\ drag' = None
  /\ UNCHANGED <<tab, toasts, wire, windows, vs, drags, edits, fails, blocks, done>>

\* pickTransport: the native message API if there is one, else a browser window.
Posts == Native

Detaches(hasPoint, screen) ==
  pointer # None /\ drag # None /\ End(hasPoint, screen) /\ pointer' = None /\ drag' = None /\ Decided(screen)

\* send: post to the native host; once posted, the tab is closed.
EndNative(hasPoint, screen) ==
  /\ Posts /\ Detaches(hasPoint, screen)
  /\ \E v \in IF Skewed THEN TabDetach ELSE {"same"} : wire' = Append(wire, v)
  /\ tab' = Closed
  /\ UNCHANGED <<toasts, windows, vs, drags, edits, fails, blocks>>

\* A blocked pop-up leaves the tab and offers a button that tries again.
Blocked == toasts' = toasts + 1 /\ UNCHANGED <<tab, windows>>

EndBrowser(hasPoint, screen, blocked) ==
  /\ ~Posts /\ Detaches(hasPoint, screen)
  /\ IF blocked THEN blocks < MaxBlock /\ blocks' = blocks + 1 /\ Blocked
     ELSE tab' = Closed /\ windows' = windows + 1 /\ UNCHANGED <<toasts, blocks>>
  /\ UNCHANGED <<wire, vs, drags, edits, fails>>

\* The post throws, or the page shows no folder to open a window at: the tab stays (logged).
EndUndelivered(hasPoint, screen) ==
  /\ Detaches(hasPoint, screen)
  /\ UNCHANGED <<tab, toasts, wire, windows, vs, drags, edits, fails, blocks>>

\* The button of the toast: opens the window and closes the tab, whatever happened meanwhile.
ToastOpen ==
  /\ toasts > 0 /\ toasts' = toasts - 1
  /\ tab' = Closed /\ windows' = windows + 1
  /\ done' = Append(done, [what |-> "tab", at |-> "far", vs |-> "none", dirty |-> tab.dirty, screen |-> TRUE])
  /\ UNCHANGED <<pointer, drag, wire, vs, drags, edits, fails, blocks>>

ToastExpires == toasts > 0 /\ toasts' = toasts - 1 /\ UNCHANGED <<pointer, drag, tab, wire, windows, vs, drags, edits, fails, blocks, done>>

-----------------------------------------------------------------------------
(* The host: handle_from_webview *)

\* decode: another version is delivered when its fields can still be read.
Usable(v) == v # "unreadable"

HostOpens ==
  /\ wire # <<>> /\ Usable(Head(wire)) /\ wire' = Tail(wire)
  /\ windows' = windows + 1
  /\ UNCHANGED <<pointer, drag, tab, toasts, vs, drags, edits, fails, blocks, done>>

\* No window: the opener failed, or the fields were unreadable. The page hears of neither.
HostFails ==
  /\ wire # <<>> /\ (Usable(Head(wire)) => fails < MaxFail)
  /\ wire' = Tail(wire) /\ fails' = fails + 1
  /\ UNCHANGED <<pointer, drag, tab, toasts, windows, vs, drags, edits, blocks, done>>

\* The user, an extension or an agent changes the file, or saves it.
Edit ==
  /\ tab.shown /\ edits < MaxEdit /\ edits' = edits + 1
  /\ (~LateEdit => pointer = None /\ toasts = 0)
  /\ tab' = [tab EXCEPT !.dirty = TRUE]
  /\ UNCHANGED <<pointer, drag, toasts, wire, windows, vs, drags, fails, blocks, done>>

Save ==
  /\ tab.dirty /\ tab' = [tab EXCEPT !.dirty = FALSE]
  /\ UNCHANGED <<pointer, drag, toasts, wire, windows, vs, drags, edits, fails, blocks, done>>

Next ==
  \/ StartOther \/ (\E alt, new, single, uri \in BOOLEAN : StartTab(alt, new, single, uri))
  \/ (\E p \in Place : Move(p)) \/ Lost \/ Accept
  \/ (\E hasPoint, screen \in BOOLEAN : EndStays(hasPoint, screen) \/ EndNative(hasPoint, screen)
                                        \/ EndUndelivered(hasPoint, screen)
                                        \/ \E blocked \in BOOLEAN : EndBrowser(hasPoint, screen, blocked))
  \/ ToastOpen \/ ToastExpires \/ HostOpens \/ HostFails \/ Edit \/ Save

Spec == Init /\ [][Next]_vars

-----------------------------------------------------------------------------
(* Properties *)

\* A detach is of a tab that was really dragged beyond the strip in this drag, even when the
\* last drag's end was never seen or the pointer left the page and came back.
DetachIsOfThisDrag == \A i \in 1..Len(done) : done[i].what = "tab" /\ done[i].at # "near"

\* detach.js: "a short drag reorders, a long drag detaches, never both": VS Code did not move the
\* tab too, neither in its window nor to one of its own; but where a dragend comes without screen
\* coordinates the page cannot tell that the drop was outside, and both may open a window.
NeverBoth == \A i \in 1..Len(done) : done[i].vs = "none" \/ (done[i].vs = "aux" /\ ~done[i].screen)

\* bridge/src/host.rs: "dirty tabs are never detached" (unless edited while they are dragged, LateEdit).
DirtyNeverDetached == \A i \in 1..Len(done) : ~done[i].dirty

\* A tab is shown in its window, in one that was opened for it, or its message is on the way, unless
\* the host did not open a window: the page closes the tab once the message is posted, and a host
\* that fails leaves it in no window (detach.js: "closing it here loses nothing").
TabNotLost == tab.shown \/ windows > 0 \/ wire # <<>> \/ fails > 0
=============================================================================
