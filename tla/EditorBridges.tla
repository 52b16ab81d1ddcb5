--------------------------- MODULE EditorBridges ---------------------------
(***************************************************************************)
(* What an editor session asks the extension host about an open document:  *)
(* CodeLens lists, inline completions and hovers (engine.rs, inline.rs,    *)
(* codelens.rs, hover.rs, registry.rs).  The core is a function from its   *)
(* state and one input to its next state, so each handler is an operator   *)
(* on the record `core`; run_timers ends every input.  A token also names  *)
(* the list the extension host caches for that call, which must be freed.  *)
(* A cancelled call's reply is never delivered.                            *)
(***************************************************************************)
EXTENDS Naturals, FiniteSets, Sequences, SequencesExt

CONSTANTS
    LensHandle, InlineHandle, HoverHandle,  \* providers the extension host registers; sequences, in provider order
    MaxToken, MaxChange                     \* bounds

VARIABLES
    core,    \* the session core
    net,     \* calls whose reply is on its way: token, kind, handle, and the version and text they were made at
    reg,     \* providers registered
    gone,    \* providers unregistered: a handle is never used again
    got,     \* lists the session received
    count    \* changes of the text

vars == <<core, net, reg, gone, got, count>>

Token == 1..MaxToken
Handles == Range(LensHandle) \cup Range(InlineHandle) \cup Range(HoverHandle)
NoGhost == [token |-> 0, left |-> 0, text |-> 0, handle |-> ""]
NoReq == [on |-> FALSE, wv |-> 0, pend |-> {}, got |-> {}]
NoHover == [on |-> FALSE, wv |-> 0, pend |-> {}, shown |-> FALSE]
NoLens == [token |-> 0, text |-> 0, serial |-> 0, cmd |-> 0]

TypeOK ==
    /\ core.open \in BOOLEAN /\ core.wv \in 0..MaxChange /\ core.next \in 0..MaxToken
    /\ core.due \in {"no", "later", "now"} /\ core.trig \in {"no", "later", "now"}
    /\ core.ireq.pend \subseteq Token /\ core.hover.pend \subseteq Token
    /\ \A c \in net : c.token \in Token /\ c.kind \in {"lens", "resolve", "inline", "hover"}
    /\ reg \subseteq Handles /\ gone \subseteq Handles \ reg /\ {x.token : x \in got} \subseteq Token /\ core.freed \in [Token -> 0..2]

Init ==
    /\ core = [open |-> FALSE, wv |-> 0, text |-> 0, lens |-> [h \in Range(LensHandle) |-> NoLens],
               inflight |-> [h \in Range(LensHandle) |-> 0], due |-> "no", trig |-> "no", ireq |-> NoReq,
               ghost |-> NoGhost, hover |-> NoHover, freed |-> [t \in Token |-> 0], next |-> 0, calls |-> {}, cancelled |-> {}]
    /\ net = {} /\ reg = {} /\ gone = {} /\ got = {} /\ count = 0

-----------------------------------------------------------------------------
(* Small helpers of the core. *)

Free(c, T) == [c EXCEPT !.freed = [t \in Token |-> IF t \in T THEN @[t] + 1 ELSE @[t]]]
Cancel(c, T) == [c EXCEPT !.cancelled = @ \cup T]
CallFor(c, kind, h, serial) ==
    [c EXCEPT !.next = @ + 1,
              !.calls = @ \cup {[token |-> c.next + 1, kind |-> kind, handle |-> h, wv |-> c.wv, text |-> c.text, serial |-> serial]}]
Call(c, kind, h) == CallFor(c, kind, h, 0)
Matching(hs, r) == SelectSeq(hs, LAMBDA h : h \in r)

\* InlineDoc::cancel: the trigger and the outstanding request are dropped, with the replies it had.
InlineCancel(c) == [Cancel(c, c.ireq.pend) EXCEPT !.trig = "no", !.ireq = NoReq]

\* end_ghost: the shown item goes away and its list is freed.
EndGhost(c) == IF c.ghost.token = 0 THEN c ELSE [Free(c, {c.ghost.token}) EXCEPT !.ghost = NoGhost]

EndHover(c) == [Cancel(c, c.hover.pend) EXCEPT !.hover = NoHover]

CloseLenses(c) ==
    [Free(c, {c.lens[h].token : h \in DOMAIN c.lens} \ {0}) EXCEPT !.lens = [h \in DOMAIN c.lens |-> NoLens]]

-----------------------------------------------------------------------------
(* Timers *)

\* As FireLens, for a refresh that leaves the older call to answer.
FireLensFault(c, r) ==
    FoldLeft(LAMBDA d, h : [Call(d, "lens", h) EXCEPT !.inflight[h] = d.next + 1],
             [c EXCEPT !.due = "no"], IF c.open THEN Matching(LensHandle, r) ELSE <<>>)

\* fire_codelens: every provider is asked again, and its call under way is cancelled.
FireLens(c, r) ==
    FoldLeft(LAMBDA d, h : LET e == Cancel(d, {d.inflight[h]} \ {0}) IN [Call(e, "lens", h) EXCEPT !.inflight[h] = e.next + 1],
             [c EXCEPT !.due = "no"], IF c.open THEN Matching(LensHandle, r) ELSE <<>>)

\* fire_inline: the request before is cancelled and every provider asked at this version.
FireInline(c, r) ==
    LET hs == IF c.open THEN Matching(InlineHandle, r) ELSE <<>>
        b == [InlineCancel(c) EXCEPT !.ireq = [NoReq EXCEPT !.on = TRUE, !.wv = c.wv]]
    IN IF hs = <<>> THEN [c EXCEPT !.trig = "no"]
       ELSE FoldLeft(LAMBDA d, h : [Call(d, "inline", h) EXCEPT !.ireq.pend = @ \cup {d.next + 1}], b, hs)

\* run_timers: what is due now.
RunTimers(c, r) ==
    LET d == IF c.trig = "now" THEN FireInline(c, r) ELSE c
    IN IF d.due = "now" THEN FireLens(d, r) ELSE d

\* handle: the input, the timers, then the effects in order.
Handle(c, r) ==
    LET d == RunTimers(c, r) IN
    /\ d.next <= MaxToken
    /\ core' = [d EXCEPT !.calls = {}, !.cancelled = {}]
    /\ net' = {x \in net \cup d.calls : x.token \notin d.cancelled}

-----------------------------------------------------------------------------
(* The document *)

\* finish_open asks for lenses at once.
Opens ==
    /\ ~core.open /\ count < MaxChange /\ count' = count + 1
    /\ Handle([core EXCEPT !.open = TRUE, !.wv = 0, !.text = count + 1, !.due = "now"], reg)
    /\ UNCHANGED <<reg, gone, got>>

\* on_close
Closes ==
    /\ core.open
    /\ LET a == CloseLenses(core)
           b == [Cancel(a, {a.inflight[h] : h \in DOMAIN a.inflight} \ {0}) EXCEPT !.due = "no", !.inflight = [h \in DOMAIN @ |-> 0]]
       IN Handle([EndHover(EndGhost(InlineCancel(b))) EXCEPT !.open = FALSE], reg)
    /\ UNCHANGED <<reg, gone, got, count>>

\* Ghost::type_through: the change types the next characters of the ghost.
TypesThrough(g, typed) == g.token # 0 /\ typed > 0 /\ typed <= g.left

\* inline_after_change: a completed ghost not accepted ends; typing the ghost's text keeps it.
AfterChange(c, typed, r) ==
    LET a == IF c.ghost.token # 0 /\ c.ghost.left = 0 THEN EndGhost(c) ELSE c
        agrees == TypesThrough(a.ghost, typed)
        b == IF a.ghost.token = 0 THEN a
             ELSE IF agrees THEN [a EXCEPT !.ghost.left = @ - typed] ELSE EndGhost(a)
        d == InlineCancel(b)
    IN IF (agrees /\ d.ghost.left > 0) \/ Matching(InlineHandle, r) = <<>> THEN d ELSE [d EXCEPT !.trig = "later"]

\* CodeLenses::on_edit: a lens whose range the change deletes loses its command; its place in the list stays.
Cut(c, deleted) == [c EXCEPT !.lens = [h \in DOMAIN @ |-> IF h \in deleted THEN [@[h] EXCEPT !.cmd = 0] ELSE @[h]]]

\* on_code_changed; typed is how many of the ghost's characters the change types, 0 for another change.
Edit(typed, deleted) ==
    /\ core.open /\ count < MaxChange /\ count' = count + 1
    /\ \A h \in deleted : core.lens[h].cmd # 0
    /\ LET a == EndHover(Cut([core EXCEPT !.wv = @ + 1, !.text = count + 1], deleted))
       IN Handle([AfterChange(a, typed, reg) EXCEPT !.due = "later"], reg)
    /\ UNCHANGED <<reg, gone, got>>

\* reset_doc: the file changed on disk.  The version starts again at 0.
Reset ==
    /\ core.open /\ count < MaxChange /\ count' = count + 1
    /\ LET a == CloseLenses([core EXCEPT !.wv = 0, !.text = count + 1])
       IN Handle([EndHover(EndGhost(InlineCancel(a))) EXCEPT !.due = "now"], reg)
    /\ UNCHANGED <<reg, gone, got>>

\* Tick: the earliest debounce ran out.
Tick ==
    /\ \E i, l \in BOOLEAN :
         /\ i \/ l
         /\ i => core.trig = "later"
         /\ l => core.due = "later"
         /\ Handle([core EXCEPT !.trig = IF i THEN "now" ELSE @, !.due = IF l THEN "now" ELSE @], reg)
    /\ UNCHANGED <<reg, gone, got, count>>

TriggerInline ==
    /\ core.open /\ Handle([core EXCEPT !.trig = "now"], reg) /\ UNCHANGED <<reg, gone, got, count>>

\* HoverState::begin and add_pending: the hover before is cancelled and every provider asked at this version.
BeginHover(c, r) ==
    LET b == [EndHover(c) EXCEPT !.hover = [NoHover EXCEPT !.on = TRUE, !.wv = c.wv]]
    IN FoldLeft(LAMBDA d, h : [Call(d, "hover", h) EXCEPT !.hover.pend = @ \cup {d.next + 1}], b, Matching(HoverHandle, r))

\* on_hover_rest, end_hover
HoverRest ==
    /\ core.open /\ Handle(BeginHover(core, reg), reg)
    /\ UNCHANGED <<reg, gone, got, count>>

HoverLeave == core.hover.on /\ Handle(EndHover(core), reg) /\ UNCHANGED <<reg, gone, got, count>>

\* accept_ghost: Tab, once the widget inserted the text or before.
Accept == core.ghost.token # 0 /\ Handle(EndGhost(core), reg) /\ UNCHANGED <<reg, gone, got, count>>

-----------------------------------------------------------------------------
(* Registrations *)

Register(h) ==
    /\ h \notin reg \cup gone /\ reg' = reg \cup {h}
    /\ Handle(IF h \in Range(LensHandle) /\ core.open THEN [core EXCEPT !.due = "later"] ELSE core, reg')
    /\ UNCHANGED <<gone, got, count>>

\* The provider says its answers changed.
ProviderChanged(h) ==
    /\ h \in reg \ Range(HoverHandle) /\ core.open
    /\ Handle(IF h \in Range(LensHandle) THEN [core EXCEPT !.due = "later"] ELSE [core EXCEPT !.trig = "later"], reg)
    /\ UNCHANGED <<reg, gone, got, count>>

\* The provider goes with its cached lists: nothing is freed.
Unregister(h) ==
    /\ h \in reg /\ reg' = reg \ {h} /\ gone' = gone \cup {h}
    /\ Handle(IF h \in Range(LensHandle) THEN [core EXCEPT !.lens[h] = NoLens]
              ELSE IF core.ghost.handle = h THEN [core EXCEPT !.ghost = NoGhost] ELSE core, reg')
    /\ UNCHANGED <<got, count>>

-----------------------------------------------------------------------------
(* Replies *)

\* CodeLenses::set_list: the list of a provider, without lenses when it gave none; cmd is the list that a
\* shown command was computed for, 0 while a lens has none. The serial tells one list from the next.
Lists == {"list", "part"}
NewList(x, how) == [token |-> IF how \in Lists THEN x.token ELSE 0, text |-> x.text, serial |-> x.token,
                    cmd |-> IF how = "list" THEN x.token ELSE 0]

\* on_codelens_reply: a failed call changes nothing; a list for another version is released, a replaced one too.
LensReply(x, how) ==
    LET a == [core EXCEPT !.inflight[x.handle] = IF @ = x.token THEN 0 ELSE @]
        ids == IF how \in Lists THEN {x.token} ELSE {}
        set == [Free(a, {a.lens[x.handle].token} \ {0}) EXCEPT !.lens[x.handle] = NewList(x, how)]
    IN IF how = "error" THEN a
       ELSE IF ~a.open \/ a.wv # x.wv THEN Free(a, ids)
       ELSE IF how = "part" THEN CallFor(set, "resolve", x.handle, x.token)
       ELSE set

\* CodeLenses::resolved: the command is for a lens of the list with that serial, or it is dropped.
Resolved(x, how) ==
    IF how = "list" /\ core.lens[x.handle].serial = x.serial
    THEN [core EXCEPT !.lens[x.handle].cmd = x.serial] ELSE core

\* What the first item that fits at the cursor leaves to insert (ghostFor of DocText), 0 when none fits.
GhostLength == 0..2

\* choose_ghost: y is the first list, in provider order, with an item that fits and leaves `left`
\* characters to show (0 when no item fits); the other lists are freed, and the ghost it replaces.
ChooseGhost(c, X, y, left) ==
    LET tokens == {x.token : x \in X} IN
    IF left = 0 \/ y \notin X THEN Free(c, tokens)
    ELSE [EndGhost(Free(c, tokens \ {y.token})) EXCEPT
            !.ghost = [token |-> y.token, left |-> left, text |-> y.text, handle |-> y.handle]]

\* on_inline_reply: a request for another version is dropped with its lists; the ghost is chosen once every
\* provider has answered.
InlineReply(x, how, y, left) ==
    LET lists == core.ireq.got \cup (IF how = "list" THEN {x} ELSE {})
        rest == core.ireq.pend \ {x.token}
    IN IF x.token \notin core.ireq.pend THEN core
       ELSE IF core.ireq.wv # core.wv THEN [Cancel(Free(core, {l.token : l \in lists}), rest) EXCEPT !.ireq = NoReq]
       ELSE IF rest # {} THEN [core EXCEPT !.ireq.pend = rest, !.ireq.got = lists]
       ELSE ChooseGhost([core EXCEPT !.ireq = NoReq], lists, y, left)

\* HoverState::reply
HoverReply(x, how) ==
    IF x.token \notin core.hover.pend THEN core
    ELSE [core EXCEPT !.hover.pend = @ \ {x.token}, !.hover.shown = @ \/ (how = "list" /\ core.hover.wv = core.wv)]

\* on_rpc_reply: a list, nothing, or an error.
Reply(x, how, y, left) ==
    /\ x \in net
    /\ x.kind # "inline" => (left = 0 /\ y = x)
    /\ how = "part" => x.kind = "lens"
    /\ LET c == CASE x.kind = "lens" -> LensReply(x, how)
                  [] x.kind = "resolve" -> Resolved(x, how)
                  [] x.kind = "inline" -> InlineReply(x, how, y, left)
                  [] x.kind = "hover" -> HoverReply(x, how)
           d == RunTimers(c, reg)
       IN /\ d.next <= MaxToken /\ core' = [d EXCEPT !.calls = {}, !.cancelled = {}]
          /\ net' = {z \in (net \ {x}) \cup d.calls : z.token \notin d.cancelled}
    /\ got' = IF how \in Lists /\ x.kind \in {"lens", "inline"} THEN got \cup {x} ELSE got
    /\ UNCHANGED <<reg, gone, count>>

Next ==
    \/ Opens \/ Closes \/ Reset \/ Tick \/ TriggerInline \/ HoverRest \/ HoverLeave \/ Accept
    \/ \E n \in 0..2, deleted \in SUBSET Range(LensHandle) : Edit(n, deleted)
    \/ \E h \in Handles : Register(h) \/ ProviderChanged(h) \/ Unregister(h)
    \/ \E x \in net, how \in {"list", "part", "none", "error"}, left \in GhostLength : \E y \in core.ireq.got \cup {x} : Reply(x, how, y, left)

Spec == Init /\ [][Next]_vars

-----------------------------------------------------------------------------
Held == ({core.lens[h].token : h \in DOMAIN core.lens} \cup {x.token : x \in core.ireq.got} \cup {core.ghost.token}) \ {0}

\* Nothing shown is freed, and no list is freed twice, whatever the order of edits, replies and closes.
ShownNotFreed == \A t \in Token : core.freed[t] <= 1 /\ (t \in Held => core.freed[t] = 0)

\* Lenses and ghost text are shown only for the text they were computed for, though versions start again at a reset.
AnswersFitText ==
    /\ \A h \in DOMAIN core.lens : (h \in reg /\ core'.lens[h].token \notin {0, core.lens[h].token}) => core'.lens[h].text = core.text
    /\ core'.ghost.token \notin {0, core.ghost.token} => core'.ghost.text = core.text

\* A command shown over a lens was computed for that lens's own list, however late it is resolved.
CommandsFitLens == \A h \in DOMAIN core.lens : core.lens[h].cmd \in {0, core.lens[h].serial}

\* A hover whose calls are gone is complete: every call it waits for is still to be answered, and no other hover call is.
HoverWaitsForItsCalls == core.hover.pend = {x.token : x \in {y \in net : y.kind = "hover"}}

=============================================================================
