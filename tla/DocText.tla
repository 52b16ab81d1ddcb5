------------------------------ MODULE DocText -------------------------------
(***************************************************************************)
(* The text of an open document and the change events an extension sees    *)
(* (editor-conn document.rs, DocumentMirror).  Lines are sequences of      *)
(* characters; columns and offsets count UTF-16 units, of which the wide   *)
(* character "w" takes two.  Every change carries a range, an offset and a *)
(* length; an extension that keeps the text as one string applies only     *)
(* offset and length (`copy`).  Decorations are carried through edits by    *)
(* line and column (editor coords.rs).                                     *)
(***************************************************************************)
EXTENDS Integers, Sequences, SequencesExt, FiniteSetsExt

CONSTANTS
    Docs,          \* initial texts: sequences of lines
    Texts,         \* texts an edit inserts, already split into lines
    MaxEdits,      \* edits of one operation
    MaxOp          \* operations

VARIABLES
    lines,         \* DocumentMirror::lines
    eol,           \* UTF-16 units of the line end: 1 (\n) or 2 (\r\n)
    version, dirty,
    copy,          \* the extension's copy, in UTF-16 units
    ops

vars == <<lines, eol, version, dirty, copy, ops>>

-----------------------------------------------------------------------------
Units(c) == IF c = "w" THEN <<"hi", "lo">> ELSE <<c>>

LineUnits(l) == FoldLeft(LAMBDA u, c : u \o Units(c), <<>>, l)

EolUnits(e) == IF e = 1 THEN <<"n">> ELSE <<"r", "n">>

\* DocumentMirror::text, as a JavaScript string.
Text(ls, e) ==
    FoldLeft(LAMBDA u, l : u \o EolUnits(e) \o LineUnits(l),
             LineUnits(Head(ls)), Tail(ls))

utf16Len(l) == Len(LineUnits(l))

\* byte_index: the characters before a column; -1 when the column splits a
\* surrogate pair or is out of range.
byteIndex(ls, line, col) ==
    LET at == {i \in 0 .. Len(ls[line]) :
                  utf16Len(SubSeq(ls[line], 1, i)) = col - 1}
    IN IF at = {} THEN -1 ELSE Max(at)

\* offset_at: a position as an index into the text.
offsetAt(ls, e, line, col) ==
    FoldLeft(LAMBDA n, l : n + utf16Len(l) + e, 0,
             SubSeq(ls, 1, line - 1)) + col - 1

\* Positions compare by line, then column.
Before(p, q) == p[1] < q[1] \/ (p[1] = q[1] /\ p[2] < q[2])

rangeIsValid(ls, r) ==
    /\ ~Before(r.to, r.from)
    /\ byteIndex(ls, r.from[1], r.from[2]) # -1
    /\ byteIndex(ls, r.to[1], r.to[2]) # -1

\* apply_one: the lines after one replacement, and its change event.
applyOne(ls, e, edit) ==
    LET r == edit.range
        si == r.from[1]
        ei == r.to[1]
        prefix == SubSeq(ls[si], 1, byteIndex(ls, si, r.from[2]))
        suffix == SubSeq(ls[ei], byteIndex(ls, ei, r.to[2]) + 1, Len(ls[ei]))
        t == edit.text
        new == IF Len(t) = 1 THEN <<prefix \o t[1] \o suffix>>
               ELSE <<prefix \o t[1]>> \o SubSeq(t, 2, Len(t) - 1)
                    \o <<t[Len(t)] \o suffix>>
        off == offsetAt(ls, e, si, r.from[2])
    IN [lines |-> SubSeq(ls, 1, si - 1) \o new \o SubSeq(ls, ei + 1, Len(ls)),
        change |-> [offset |-> off,
                    length |-> offsetAt(ls, e, ei, r.to[2]) - off,
                    text |-> Text(t, e)]]

\* The edits from the end of the document to its start; edits that start at
\* the same place keep their order.
EndToStart(edits) ==
    SortSeq([i \in 1 .. Len(edits) |-> [edits[i] EXCEPT !.nth = i]],
            LAMBDA a, b : \/ Before(b.range.from, a.range.from)
                          \/ a.range.from = b.range.from /\ a.nth < b.nth)

Overlap(sorted) ==
    \E i \in 1 .. Len(sorted) - 1 :
        Before(sorted[i].range.from, sorted[i + 1].range.to)

Accepted(ls, edits) ==
    /\ \A i \in 1 .. Len(edits) : rangeIsValid(ls, edits[i].range)
    /\ ~Overlap(EndToStart(edits))

\* apply: the edits one after another, each in pre-edit coordinates because
\* the ones before it are further down.
Applied(ls, e, edits) ==
    FoldLeft(LAMBDA a, d : LET one == applyOne(a.lines, e, d)
                           IN [lines |-> one.lines,
                               changes |-> Append(a.changes, one.change)],
             [lines |-> ls, changes |-> <<>>], EndToStart(edits))

fullRange(ls) ==
    [from |-> <<1, 1>>, to |-> <<Len(ls), utf16Len(ls[Len(ls)]) + 1>>]

-----------------------------------------------------------------------------
(* coords.rs: carrying a decoration through an edit.                       *)

\* end_of_insert: the position just after a text inserted at p.
endOfInsert(p, t) ==
    IF Len(t) = 1 THEN <<p[1], p[2] + utf16Len(t[1])>>
    ELSE <<p[1] + Len(t) - 1, utf16Len(t[Len(t)]) + 1>>

\* shift_after: a position at or after the end of the replaced range.
shiftAfter(p, r, ins) ==
    IF p[1] = r.to[1] THEN <<ins[1], ins[2] + p[2] - r.to[2]>>
    ELSE <<p[1] - r.to[1] + ins[1], p[2]>>

isEmpty(r) == r.from = r.to

Gone == [from |-> <<0, 0>>, to |-> <<0, 0>>]

transformRange(r, e, t) ==
    LET ins == endOfInsert(e.from, t)
        before == \/ Before(r.to, e.from)
                  \/ r.to = e.from /\ ~(isEmpty(r) /\ isEmpty(e))
        after == ~Before(r.from, e.to)
        replaced == /\ ~isEmpty(r)
                    /\ ~Before(r.from, e.from) /\ ~Before(e.to, r.to)
        out == [from |-> IF Before(r.from, e.from) THEN r.from ELSE ins,
                to |-> IF Before(e.to, r.to) THEN shiftAfter(r.to, e, ins)
                       ELSE ins]
    IN CASE before -> r
         [] ~before /\ after -> [from |-> shiftAfter(r.from, e, ins),
                                 to |-> shiftAfter(r.to, e, ins)]
         [] ~before /\ ~after /\ replaced -> Gone
         [] OTHER -> IF isEmpty(out) /\ ~isEmpty(r) THEN Gone ELSE out

-----------------------------------------------------------------------------
(* inline.rs: from a completion item to the ghost text shown, and on.      *)

\* str::strip_prefix, of texts split into lines: what follows t in u.
HasPrefix(t, u) ==
    /\ Len(t) <= Len(u) /\ IsPrefix(t[Len(t)], u[Len(t)])
    /\ \A i \in 1 .. Len(t) - 1 : t[i] = u[i]
Strip(t, u) ==
    LET k == Len(t)
    IN <<SubSeq(u[k], Len(t[k]) + 1, Len(u[k]))>> \o SubSeq(u, k + 1, Len(u))

NoText == << <<>> >>

\* ghost_for: what an item leaves to insert at the cursor, when its range ends
\* there, on one line, and the text it covers begins the item's.
ghostFor(r, t, cursor, line) ==
    LET a == byteIndex(<<line>>, 1, r.from[2])
        b == byteIndex(<<line>>, 1, cursor[2])
        covered == <<SubSeq(line, a + 1, b)>>
    IN IF /\ r.from[1] = cursor[1] /\ r.to = cursor /\ r.from[2] <= cursor[2]
          /\ a # -1 /\ b # -1 /\ HasPrefix(covered, t)
       THEN Strip(covered, t) ELSE NoText

\* type_through: a change that types the next part of the ghost shortens it.
Typed(g, r, t) ==
    g.text # NoText /\ isEmpty(r) /\ r.from = g.pos /\ t # NoText /\ HasPrefix(t, g.text)
typeThrough(g, t) == [pos |-> endOfInsert(g.pos, t), text |-> Strip(t, g.text)]

\* snippet_to_text: tab stops and variables are dropped, a placeholder stands
\* for its default and a choice for its first. `depth` counts open defaults.
Name == {"a", "1"}
snippetToText(s) ==
    LET n == Len(s)
        upto(i, C) == Min({j \in i .. n + 1 : j = n + 1 \/ s[j] \in C})
        after(i) == Min({j \in i .. n + 1 : j = n + 1 \/ s[j] \notin Name})
        is(i, C) == i <= n /\ s[i] \in C
        put(st, part, i) == [st EXCEPT !.out = @ \o part, !.at = i]
        braced(st, i) ==  \* parse_braced, s[i] being the brace
            LET j == after(i + 1)
                k == upto(j + 1, {"|"})
            IN IF is(j, {":"}) THEN [st EXCEPT !.at = j + 1, !.depth = @ + 1]
               ELSE IF is(j, {"|"}) THEN put(st, SubSeq(s, j + 1, upto(j + 1, {",", "|"}) - 1), k + 2)
               ELSE put(st, <<>>, upto(j, {"}"}) + 1)
        step(st, i) ==
            CASE i < st.at -> st
              [] i >= st.at /\ is(i, {"$"}) /\ is(i + 1, {"{"}) -> braced(st, i + 1)
              [] i >= st.at /\ is(i, {"}"}) /\ st.depth > 0 -> [st EXCEPT !.depth = @ - 1, !.at = i + 1]
              [] i >= st.at /\ is(i, {"\\"}) /\ i < n /\ (st.depth > 0 \/ is(i + 1, {"$", "}", "\\"})) ->
                   put(st, <<s[i + 1]>>, i + 2)
              [] i >= st.at /\ is(i, {"$"}) /\ is(i + 1, Name) /\ st.depth = 0 -> put(st, <<>>, after(i + 1))
              [] OTHER -> put(st, <<s[i]>>, i + 1)
    IN FoldLeft(step, [out |-> <<>>, at |-> 1, depth |-> 0], [i \in 1 .. n |-> i]).out

-----------------------------------------------------------------------------
\* One change, applied to a string by offset and length.
Spliced(u, ch) ==
    SubSeq(u, 1, ch.offset) \o ch.text
        \o SubSeq(u, ch.offset + ch.length + 1, Len(u))

Positions(ls) ==
    UNION {{<<i, c>> : c \in 1 .. utf16Len(ls[i]) + 1} : i \in 1 .. Len(ls)}

Edits(ls) ==
    [range : [from : Positions(ls), to : Positions(ls)], text : Texts, nth : {0}]

Init ==
    /\ lines \in Docs
    /\ eol \in {1, 2}
    /\ version = 1
    /\ dirty = FALSE
    /\ copy = Text(lines, eol)
    /\ ops = 0

\* apply: refused edits change nothing.
Change(edits) ==
    /\ ops < MaxOp
    /\ Accepted(lines, edits)
    /\ LET a == Applied(lines, eol, edits) IN
        /\ lines' = a.lines
        /\ copy' = FoldLeft(Spliced, copy, a.changes)
    /\ version' = version + 1
    /\ dirty' = TRUE
    /\ ops' = ops + 1
    /\ UNCHANGED eol

\* replace_all leaves the dirty flag alone.
SetValue(t) ==
    LET one == applyOne(lines, eol, [range |-> fullRange(lines), text |-> t]) IN
    /\ ops < MaxOp
    /\ lines' = one.lines
    /\ copy' = Spliced(copy, one.change)
    /\ version' = version + 1
    /\ ops' = ops + 1
    /\ UNCHANGED <<eol, dirty>>

\* set_eol: an event without changes; the extension reads the text anew.
SetEol(e) ==
    /\ ops < MaxOp
    /\ eol' = e
    /\ version' = version + 1
    /\ copy' = Text(lines, e)
    /\ ops' = ops + 1
    /\ UNCHANGED <<lines, dirty>>

MarkSaved ==
    /\ dirty
    /\ dirty' = FALSE
    /\ UNCHANGED <<lines, eol, version, copy, ops>>

Next ==
    \/ \E n \in 1 .. MaxEdits : \E edits \in [1 .. n -> Edits(lines)] :
            Change(edits)
    \/ \E t \in Texts : SetValue(t)
    \/ \E e \in {1, 2} : SetEol(e)
    \/ MarkSaved

Spec == Init /\ [][Next]_vars

-----------------------------------------------------------------------------
\* An extension that follows the events by offset and length holds the same
\* text as the editor (DocumentMirror, "kept in lock-step with the extension
\* host's mirror"; offsets are in UTF-16 units, line ends included).
CopyIsText == copy = Text(lines, eol)

\* What the edits of one operation mean: each replaces its own span of the
\* text as it was before the operation.
Means(ls, e, edits) ==
    LET u == Text(ls, e)
        off(p) == offsetAt(ls, e, p[1], p[2])
        In(i) == {k \in 1 .. Len(edits) :
                    /\ off(edits[k].range.from) < i
                    /\ i <= off(edits[k].range.to)}
        \* the text inserted in front of unit i
        At(i) == FoldLeft(LAMBDA acc, d :
                            IF off(d.range.from) = i - 1
                            THEN acc \o Text(d.text, e) ELSE acc, <<>>, edits)
    IN FoldLeft(LAMBDA acc, i :
                    acc \o At(i) \o (IF i > Len(u) \/ In(i) # {} THEN <<>>
                                     ELSE <<u[i]>>),
                <<>>, [i \in 1 .. Len(u) + 1 |-> i])

DistinctStarts(edits) ==
    \A i, k \in 1 .. Len(edits) :
        edits[i].range.from = edits[k].range.from => i = k

\* An operation of several edits has the meaning its ranges have in the text
\* before it, whatever order they come in (apply sorts end to start).
EditsMeanPreEdit ==
    \A edits \in [1 .. MaxEdits -> Edits(lines)] :
        (ops = 0 /\ DistinctStarts(edits) /\ Accepted(lines, edits))
            => Text(Applied(lines, eol, edits).lines, eol)
                 = Means(lines, eol, edits)

\* A decoration that an edit does not replace keeps, in the text after the
\* edit, the units it covered that survive, and the inserted ones when the
\* edit was inside it or cut its end (transform_range against the same move
\* made on string offsets).
DecorationsFollow ==
    \A d \in Edits(lines), from, to \in Positions(lines) :
        LET r == [from |-> from, to |-> to]
            off(p) == offsetAt(lines, 1, p[1], p[2])
            one == applyOne(lines, 1, d)
            newOff(p) == offsetAt(one.lines, 1, p[1], p[2])
            p == off(d.range.from)
            q == off(d.range.to)
            n == Len(one.change.text)
            moved(x) == IF x >= q THEN x + n - (q - p) ELSE p + n
            t == transformRange(r, d.range, d.text)
        IN (ops = 0 /\ rangeIsValid(lines, r) /\ rangeIsValid(lines, d.range)
            /\ ~isEmpty(r) /\ t # Gone)
              => /\ newOff(t.from) = IF off(from) < p THEN off(from)
                                     ELSE moved(off(from))
                 /\ newOff(t.to) = IF off(to) <= p THEN off(to)
                                   ELSE moved(off(to))

Inserted(p, t) == applyOne(lines, 1, [range |-> [from |-> p, to |-> p], text |-> t])

\* Texts that may begin with what a line already holds.
Items ==
    {<<pre \o t[1]>> \o Tail(t) : pre \in BoundedSeq(UNION {Range(lines[i]) : i \in 1 .. Len(lines)}, 2), t \in Texts}

\* Ghost text is worth what it stands for: inserted at the cursor it makes the
\* text the item's own edit would make, and typing a part of it leaves a rest
\* that completes the same text (inline.rs, "the ghost is the rest").
GhostMeansItem ==
    ops = 0 => \A from, cursor \in Positions(lines), item \in Items :
        LET here == [from |-> cursor, to |-> cursor]
            g == [pos |-> cursor, text |-> ghostFor([here EXCEPT !.from = from], item, cursor, lines[cursor[1]])]
            whole == Inserted(cursor, g.text).lines
        IN g.text # NoText
              => /\ whole = applyOne(lines, 1, [range |-> [here EXCEPT !.from = from], text |-> item]).lines
                 /\ \A t \in Items : Typed(g, here, t) =>
                      LET rest == typeThrough(g, t)
                      IN applyOne(Inserted(cursor, t).lines, 1,
                                  [range |-> [from |-> rest.pos, to |-> rest.pos], text |-> rest.text]).lines = whole

Escaped(t) == FoldLeft(LAMBDA u, c : u \o (IF c \in {"$", "}", "\\"} THEN <<"\\", c>> ELSE <<c>>), <<>>, t)
Braced(t) == <<"$", "{", "1">> \o t \o <<"}">>

\* A snippet reads as its plain text: escaped characters come back as they
\* were, also inside defaults, and a default inside a default is part of it.
SnippetReads ==
    \A t, u \in BoundedSeq({"a", "$", "}", "\\", "|"}, 2) :
        LET e == Escaped(t)
            f == Escaped(u)
            default(x) == Braced(<<":">> \o x)
        IN ops = 0 =>
              /\ snippetToText(e \o Braced(<<>>) \o f) = t \o u
              /\ snippetToText(e \o default(f) \o e) = t \o u \o t
              /\ snippetToText(default(e \o default(f) \o e)) = t \o u \o t
              /\ snippetToText(Braced(<<"|", "a", ",", "1", "|">>) \o e) = <<"a">> \o t
=============================================================================
