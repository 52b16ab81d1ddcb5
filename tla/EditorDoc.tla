----------------------------- MODULE EditorDoc -----------------------------
(***************************************************************************)
(* One document of an editor session: the session core (editor engine.rs   *)
(* and document.rs) between the widget, the extension host and the remote  *)
(* file system.  The core handles one input at a time; the widget's        *)
(* events and the core's updates to it are ordered queues, calls to the    *)
(* extension host are ordered, and every read, write or watch of a file is *)
(* a task whose result arrives whenever it arrives.  A text is a number,   *)
(* one per distinct content.                                               *)
(***************************************************************************)
EXTENDS Naturals, Sequences, FiniteSets, SequencesExt

CONSTANTS MaxEdit, MaxSave, MaxExternal, MaxLost, MaxOpen, MaxTryOpen  \* bounds

VARIABLES
    doc,     \* docs[key]: the OpenDocument, or Closed
    opening, \* a read for an open is under way
    ehOnly,  \* exthost_only[key]: the version announced for $tryOpenDocument, or 0
    nextGen, \* next_generation
    host,    \* the extension host's document, from the calls it was sent; bad: a call that did not fit
    widget,  \* the CodeEditor node: generation, version, text
    events,  \* widget events on their way to the core
    updates, \* SetText / Opened updates on their way to the widget
    desync,  \* the UI was told of a Desync and has not resynced yet
    disk,    \* the file's content
    tasks,   \* reads and writes under way
    changed, \* a watcher event is on its way
    last,    \* the newest text
    past,    \* history: the texts the file has held, the writes of an earlier opening, and whether the
             \* document was marked clean without being read or written since
    count

vars == <<doc, opening, ehOnly, nextGen, host, widget, events, updates, desync, disk, tasks, changed, last, past, count>>

Closed == [open |-> FALSE, gen |-> 0, wv |-> 0, base |-> 0, text |-> 0, dirty |-> FALSE, disk |-> 0]
NoHost == [has |-> FALSE, v |-> 0, text |-> 0, dirty |-> FALSE, bad |-> FALSE]
ExtVersion(d) == d.base + d.wv
MaxText == 1 + MaxEdit + MaxExternal

TypeOK ==
    /\ doc.gen <= nextGen /\ doc.text \in 0..MaxText /\ disk \in 1..MaxText
    /\ host.has \in BOOLEAN /\ past.misled \in BOOLEAN /\ ehOnly \in Nat /\ last \in 1..MaxText
    /\ \A t \in tasks : t.kind \in {"open", "reload", "tryopen", "write"} /\ t.st \in {"sent", "done"}

Init ==
    /\ doc = Closed /\ opening = FALSE /\ ehOnly = 0 /\ nextGen = 0 /\ host = NoHost
    /\ widget = [gen |-> 0, v |-> 0, text |-> 0, lost |-> FALSE] /\ events = <<>> /\ updates = <<>> /\ desync = FALSE
    /\ disk = 1 /\ tasks = {} /\ changed = FALSE /\ last = 1
    /\ past = [held |-> {1}, old |-> {}, misled |-> FALSE]
    /\ count = [edit |-> 0, save |-> 0, ext |-> 0, lost |-> 0, open |-> 0, tryopen |-> 0, task |-> 0]

-----------------------------------------------------------------------------
(* Calls to the extension host and what it does with them. *)

Announced(v, t) == [call |-> "add", v |-> v, text |-> t]
Withdrawn == [call |-> "remove", v |-> 0, text |-> 0]
Changed(v, t) == [call |-> "changed", v |-> v, text |-> t]
Saved == [call |-> "saved", v |-> 0, text |-> 0]
StillDirty == [call |-> "dirty", v |-> 0, text |-> 0]

HostTakes(h, c) ==
    CASE c.call = "add"     -> [h EXCEPT !.has = TRUE, !.v = c.v, !.text = c.text, !.dirty = FALSE, !.bad = @ \/ h.has]
      [] c.call = "remove"  -> [h EXCEPT !.has = FALSE, !.bad = @ \/ ~h.has]
      [] c.call = "changed" -> [h EXCEPT !.v = c.v, !.text = c.text, !.dirty = TRUE, !.bad = @ \/ ~h.has \/ c.v <= h.v]
      [] c.call = "saved"   -> [h EXCEPT !.dirty = FALSE, !.bad = @ \/ ~h.has]
      [] c.call = "dirty"   -> [h EXCEPT !.dirty = TRUE, !.bad = @ \/ ~h.has]

Calls(cs) == host' = FoldLeft(HostTakes, host, cs)

NewTask(kind, text, ext) == [id |-> count.task + 1, kind |-> kind, text |-> text, ext |-> ext, st |-> "sent"]
Spawns(k, x, e) == tasks' = tasks \cup {NewTask(k, x, e)}

\* What the history notes: a text in the file; the document is clean by mistake.
Holds(text) == past' = [past EXCEPT !.held = @ \cup {text}]
Believes(mistaken) == past' = [past EXCEPT !.misled = mistaken]
Counted(f) == count' = [count EXCEPT ![f] = @ + 1, !.task = @ + 1]

-----------------------------------------------------------------------------
(* open, close *)

\* on_open: an open document is shown again, an unopened one is read once.
Open ==
    /\ count.open < MaxOpen
    /\ IF doc.open
       THEN /\ updates' = Append(updates, [gen |-> doc.gen, text |-> doc.text]) /\ count' = [count EXCEPT !.open = @ + 1]
            /\ UNCHANGED <<opening, tasks>>
       ELSE /\ ~opening /\ opening' = TRUE /\ Spawns("open", 0, 0) /\ Counted("open") /\ UNCHANGED updates
    /\ UNCHANGED <<doc, ehOnly, nextGen, host, widget, events, desync, disk, changed, last, past>>

\* finish_open: a document the extension host already has is removed from it first.
FinishOpenCalls(t) == (IF ehOnly > 0 THEN <<Withdrawn>> ELSE <<>>) \o <<Announced(ehOnly + 1, t)>>

FinishOpen(t) ==
    /\ t \in tasks /\ t.kind = "open" /\ t.st = "done"
    /\ tasks' = tasks \ {t} /\ opening' = FALSE
    /\ Calls(FinishOpenCalls(t.text)) /\ ehOnly' = 0 /\ nextGen' = nextGen + 1
    /\ doc' = [open |-> TRUE, gen |-> nextGen + 1, wv |-> 0, base |-> ehOnly + 1, text |-> t.text, dirty |-> FALSE, disk |-> t.text]
    /\ updates' = Append(updates, [gen |-> nextGen + 1, text |-> t.text])
    /\ Believes(FALSE)
    /\ UNCHANGED <<widget, events, desync, disk, changed, last, count>>

\* The read failed or the file is not UTF-8: OpenFailed.
OpenFails(t) ==
    /\ t \in tasks /\ t.kind = "open" /\ t.st = "done"
    /\ tasks' = tasks \ {t} /\ opening' = FALSE
    /\ UNCHANGED <<doc, ehOnly, nextGen, host, widget, events, updates, desync, disk, changed, last, past, count>>

\* on_close; a save under way goes on.
Close ==
    /\ doc.open /\ doc' = Closed /\ Calls(<<Withdrawn>>)
    /\ changed' = FALSE
    /\ past' = [past EXCEPT !.old = {t.id : t \in {u \in tasks : u.kind = "write"}}]
    /\ UNCHANGED <<opening, ehOnly, nextGen, widget, events, updates, desync, disk, tasks, last, count>>

\* $tryOpenDocument: answered at once when the extension host has the document, else it is read.
TryOpen ==
    /\ count.tryopen < MaxTryOpen /\ ~doc.open /\ ehOnly = 0
    /\ Spawns("tryopen", 0, 0) /\ Counted("tryopen")
    /\ UNCHANGED <<doc, opening, ehOnly, nextGen, host, widget, events, updates, desync, disk, changed, last, past>>

\* As HostHasIt, for a check made only before the read.
HostHasItFault == FALSE

\* finish_exthost_open looks again: the document may have been opened while it was read.
HostHasIt == doc.open \/ ehOnly > 0

FinishTryOpen(t) ==
    /\ t \in tasks /\ t.kind = "tryopen" /\ t.st = "done" /\ tasks' = tasks \ {t}
    /\ IF HostHasIt THEN UNCHANGED <<host, ehOnly>>
       ELSE Calls(<<Announced(1, t.text)>>) /\ ehOnly' = 1
    /\ UNCHANGED <<doc, opening, nextGen, widget, events, updates, desync, disk, changed, last, past, count>>

-----------------------------------------------------------------------------
(* The widget *)

\* The user types: the widget changes its text and reports the change under its key and next version.
Type ==
    /\ widget.gen > 0 /\ count.edit < MaxEdit /\ last' = last + 1
    /\ widget' = [widget EXCEPT !.v = @ + 1, !.text = last + 1]
    /\ events' = Append(events, [kind |-> "changed", gen |-> widget.gen, v |-> widget.v + 1, text |-> last + 1])
    /\ count' = [count EXCEPT !.edit = @ + 1]
    /\ UNCHANGED <<doc, opening, ehOnly, nextGen, host, updates, desync, disk, tasks, changed, past>>

\* An event does not arrive.
Lose ==
    /\ events # <<>> /\ Head(events).kind = "changed" /\ count.lost < MaxLost
    /\ events' = Tail(events) /\ widget' = [widget EXCEPT !.lost = @ \/ Head(events).gen = widget.gen]
    /\ count' = [count EXCEPT !.lost = @ + 1]
    /\ UNCHANGED <<doc, opening, ehOnly, nextGen, host, updates, desync, disk, tasks, changed, last, past>>

SaveKey ==
    /\ widget.gen > 0 /\ count.save < MaxSave
    /\ events' = Append(events, [kind |-> "save", gen |-> widget.gen, v |-> widget.v, text |-> widget.text])
    /\ count' = [count EXCEPT !.save = @ + 1]
    /\ UNCHANGED <<doc, opening, ehOnly, nextGen, host, widget, updates, desync, disk, tasks, changed, last, past>>

\* A node with a new key is rendered with the given text, at version 0; an Opened update for the
\* key the widget already has renders nothing new.
Render ==
    /\ updates # <<>> /\ updates' = Tail(updates)
    /\ widget' = IF Head(updates).gen = widget.gen THEN widget
                 ELSE [gen |-> Head(updates).gen, v |-> 0, text |-> Head(updates).text, lost |-> FALSE]
    /\ UNCHANGED <<doc, opening, ehOnly, nextGen, host, events, desync, disk, tasks, changed, last, past, count>>

\* on_widget drops events of a generation that is gone.
Current(e) == doc.open /\ e.gen = doc.gen

\* on_code_changed: the next version is applied and passed on, any other is a Desync.
CodeChanged ==
    LET e == Head(events) IN
    /\ events # <<>> /\ e.kind = "changed" /\ events' = Tail(events)
    /\ IF ~Current(e) THEN UNCHANGED <<doc, host, desync>>
       ELSE IF e.v # doc.wv + 1 THEN desync' = TRUE /\ UNCHANGED <<doc, host>>
       ELSE /\ doc' = [doc EXCEPT !.wv = e.v, !.text = e.text, !.dirty = TRUE]
            /\ Calls(<<Changed(doc.base + e.v, e.text)>>) /\ UNCHANGED desync
    /\ UNCHANGED <<opening, ehOnly, nextGen, widget, updates, disk, tasks, changed, last, past, count>>

\* on_save: the buffer as it is now is written; its version is kept for the answer.
SaveRequested ==
    LET e == Head(events) IN
    /\ events # <<>> /\ e.kind = "save" /\ events' = Tail(events)
    /\ IF Current(e) THEN Spawns("write", doc.text, ExtVersion(doc)) /\ count' = [count EXCEPT !.task = @ + 1]
       ELSE UNCHANGED <<tasks, count>>
    /\ UNCHANGED <<doc, opening, ehOnly, nextGen, host, widget, updates, desync, disk, changed, last, past>>

-----------------------------------------------------------------------------
(* reload, resync, saved *)

\* OpenDocument::reset: one version later, clean, and the text taken for the file's.
ResetBase == ExtVersion(doc) + 1

ResetDoc(text) ==
    /\ nextGen' = nextGen + 1
    /\ doc' = [doc EXCEPT !.gen = nextGen + 1, !.wv = 0, !.base = ResetBase, !.text = text, !.dirty = FALSE, !.disk = text]
    /\ Calls(<<Withdrawn, Announced(ResetBase, text)>>)
    /\ updates' = Append(updates, [gen |-> nextGen + 1, text |-> text])

\* The UI answers a Desync: the session's text is sent as a new generation.
Resync ==
    /\ desync /\ desync' = FALSE
    /\ IF doc.open THEN ResetDoc(doc.text) /\ Believes(past.misled \/ doc.dirty)
       ELSE UNCHANGED <<doc, nextGen, host, updates, past>>
    /\ UNCHANGED <<opening, ehOnly, widget, events, disk, tasks, changed, last, count>>

\* The watcher reported the file: it is read.  A deletion is only shown.
FilesChanged ==
    /\ changed /\ changed' = FALSE
    /\ IF doc.open THEN Spawns("reload", 0, 0) /\ count' = [count EXCEPT !.task = @ + 1] ELSE UNCHANGED <<tasks, count>>
    /\ UNCHANGED <<doc, opening, ehOnly, nextGen, host, widget, events, updates, desync, disk, last, past>>

\* FileRead(Reload): our own save and a dirty buffer leave the document alone.
Reloaded(t) ==
    /\ t \in tasks /\ t.kind = "reload" /\ t.st = "done" /\ tasks' = tasks \ {t}
    /\ IF doc.open /\ t.text \notin {doc.disk, doc.text} /\ ~doc.dirty THEN ResetDoc(t.text) /\ Believes(FALSE)
       ELSE UNCHANGED <<doc, nextGen, host, updates, past>>
    /\ UNCHANGED <<opening, ehOnly, widget, events, desync, disk, changed, last, count>>

\* OpenDocument::saved: the extension host hears of the save, and of what was typed meanwhile.
SavedCalls(ext) == <<Saved>> \o (IF ext = ExtVersion(doc) THEN <<>> ELSE <<StillDirty>>)

FileWritten(t) ==
    /\ t \in tasks /\ t.kind = "write" /\ t.st = "done" /\ tasks' = tasks \ {t}
    /\ IF doc.open
       THEN /\ doc' = [doc EXCEPT !.disk = t.text, !.dirty = IF t.ext = ExtVersion(doc) THEN FALSE ELSE @]
            /\ Calls(SavedCalls(t.ext))
            /\ Believes(IF t.ext # ExtVersion(doc) THEN past.misled
                        ELSE t.id \in past.old /\ (past.misled \/ doc.dirty))
       ELSE UNCHANGED <<doc, host, past>>
    /\ UNCHANGED <<opening, ehOnly, nextGen, widget, events, updates, desync, disk, changed, last, count>>

\* A write or a reload that failed changes nothing.
TaskFails(t) ==
    /\ t \in tasks /\ t.kind \in {"reload", "write"} /\ t.st = "sent" /\ tasks' = tasks \ {t}
    /\ UNCHANGED <<doc, opening, ehOnly, nextGen, host, widget, events, updates, desync, disk, changed, last, past, count>>

-----------------------------------------------------------------------------
(* The file system *)

ReadAtDisk(t) ==
    /\ t \in tasks /\ t.st = "sent" /\ t.kind # "write"
    /\ tasks' = (tasks \ {t}) \cup {[t EXCEPT !.st = "done", !.text = disk]}
    /\ UNCHANGED <<doc, opening, ehOnly, nextGen, host, widget, events, updates, desync, disk, changed, last, past, count>>

WriteAtDisk(t) ==
    /\ t \in tasks /\ t.st = "sent" /\ t.kind = "write"
    /\ tasks' = (tasks \ {t}) \cup {[t EXCEPT !.st = "done"]}
    /\ disk' = t.text /\ changed' = doc.open /\ Holds(t.text)
    /\ UNCHANGED <<doc, opening, ehOnly, nextGen, host, widget, events, updates, desync, last, count>>

ExternalChange ==
    /\ count.ext < MaxExternal /\ last' = last + 1 /\ disk' = last + 1 /\ Holds(last + 1)
    /\ changed' = doc.open /\ count' = [count EXCEPT !.ext = @ + 1]
    /\ UNCHANGED <<doc, opening, ehOnly, nextGen, host, widget, events, updates, desync, tasks>>

Next ==
    \/ Open \/ Close \/ TryOpen \/ Type \/ Lose \/ SaveKey \/ Render \/ CodeChanged \/ SaveRequested
    \/ Resync \/ FilesChanged \/ ExternalChange
    \/ \E t \in tasks : FinishOpen(t) \/ OpenFails(t) \/ FinishTryOpen(t) \/ Reloaded(t) \/ FileWritten(t) \/ TaskFails(t)
                        \/ ReadAtDisk(t) \/ WriteAtDisk(t)

Spec == Init /\ [][Next]_vars

-----------------------------------------------------------------------------
\* The extension host gets calls that fit and holds the buffer at its version, and takes no text for saved that the
\* session does not. (It may take clean text for unsaved: a save that ends after a reload reports what was typed
\* meanwhile.)
HostAgrees ==
    /\ ~host.bad
    /\ doc.open => host.has /\ host.v = ExtVersion(doc) /\ host.text = doc.text /\ (doc.dirty => host.dirty)
    /\ ~doc.open => (host.has <=> ehOnly > 0)

\* A document counts as clean only with a text its file has held (document.rs: a save marks it clean only if nothing
\* changed meanwhile), however edits, saves, reloads and closes cross. Two things may mislead it, until it is read or
\* saved again: a resync takes unsaved text for the file's, and a save of an earlier opening of the file is answered
\* when the newer one has come to the same version.
CleanWasSaved == doc.open /\ ~doc.dirty /\ ~past.misled => doc.text \in past.held

\* Versions the extension host sees of an open document only grow, through edits, reloads and resyncs.
VersionsGrow == (doc.open /\ doc'.open /\ (host'.text # host.text \/ doc'.gen # doc.gen)) => host'.v > host.v

\* Once everything under way has arrived, the widget shows the session's text, unless a lost event hides.
WidgetAgrees ==
    (doc.open /\ events = <<>> /\ updates = <<>> /\ ~desync /\ ~widget.lost) =>
        widget.gen = doc.gen /\ widget.v = doc.wv /\ widget.text = doc.text

=============================================================================
