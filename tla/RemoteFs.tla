------------------------------ MODULE RemoteFs -------------------------------
(***************************************************************************)
(* The file system behind a project mount (computers/mount/remote_fs.rs):  *)
(* an inode table and caches of attributes, listings and contents over the *)
(* file API of a node. Front ends call it concurrently; every operation    *)
(* that asks the node waits for the answer without a lock, and applies it  *)
(* to the table and the caches when it comes.                              *)
(*                                                                         *)
(* A version stands for a file's size, mtime and bytes; the version of a   *)
(* path also changes when the path is removed or replaced.                 *)
(***************************************************************************)
EXTENDS Naturals, Sequences, FiniteSets, FiniteSetsExt, SequencesExt

CONSTANTS Caller, Path,        \* Path: sequences of names, prefix-closed; <<>> is the root
          Ttl, Deadline,       \* attr_ttl, op_timeout, in ticks
          Budget,              \* content_budget
          MaxId, MaxOp, MaxChange, MaxNow

VARIABLES
    node,     \* [Path -> [v, there]]: the node's tree
    version,  \* the last version made
    until,    \* [Path -> [version -> the tick it was replaced there, or MaxNow + 1]]
    fs,       \* Inodes and Caches: [byId, byPath, next, attrs, lists, contents, bytes]
    outage,   \* RemoteFs.outage
    ops,      \* [Caller -> the operation under way]
    acked,    \* [Path -> the version the last change through the mount left there]
    now, count

vars == <<node, version, until, fs, outage, ops, acked, now, count>>

Root == 1
Id == 1..MaxId
NoId == 0
File(p) == \A q \in Path : Len(q) <= Len(p) \/ ~IsPrefix(p, q)
Parent(p) == SubSeq(p, 1, Len(p) - 1)
Children(p) == {q \in Path : q # <<>> /\ Parent(q) = p}
Tree(p) == {q \in Path : IsPrefix(p, q)}
Size(v) == 1 + (v % 2)
Bytes(S) == IF S = {} THEN 0 ELSE Size(CHOOSE v \in S : TRUE)

\* Every refusal of the node is one answer; Fails is the node being out of reach.
NoEnt == [v |-> 0, there |-> FALSE]
Idle == [op |-> "none", pc |-> "idle", id |-> NoId, path |-> <<>>, to |-> <<>>, attr |-> 0, ans |-> NoEnt,
         list |-> <<>>, began |-> 0, sent |-> 0, floor |-> 0]

Init ==
    /\ node = [p \in Path |-> [v |-> 0, there |-> TRUE]] /\ version = 0 /\ until = [p \in Path |-> [v \in 0..(MaxOp + MaxChange) |-> MaxNow + 1]]
    /\ fs = [byId |-> [i \in Id |-> IF i = Root THEN {<<>>} ELSE {}], byPath |-> [p \in Path |-> IF p = <<>> THEN Root ELSE NoId],
             next |-> Root + 1, attrs |-> [i \in Id |-> {}], lists |-> [i \in Id |-> {}],
             contents |-> [i \in Id |-> {}], bytes |-> 0]
    /\ outage = FALSE /\ ops = [c \in Caller |-> Idle] /\ acked = [p \in Path |-> 0] /\ now = 0
    /\ count = [op |-> 0, change |-> 0]
-----------------------------------------------------------------------------
(* Inodes and Caches: what the locked sections do to them. A set with at   *)
(* most one element stands for an entry that may be missing.               *)
PathOf(f, i) == CHOOSE p \in f.byId[i] : TRUE
Known(f, i) == f.byId[i] # {}

IdFor(f, p) ==
    IF f.byPath[p] # NoId THEN f
    ELSE [f EXCEPT !.byPath[p] = f.next, !.byId[f.next] = {p}, !.next = @ + 1]

DropContent(f, i) ==
    [f EXCEPT !.contents[i] = {}, !.bytes = @ - Bytes(f.contents[i])]

DropId(f, i) == DropContent([f EXCEPT !.attrs[i] = {}, !.lists[i] = {}], i)

\* forget_tree, and drop_id of what it returns; the root is never forgotten.
ForgetTree(f, p) ==
    LET gone == {i \in Id \ {Root} : Known(f, i) /\ f.byPath[PathOf(f, i)] = i /\ IsPrefix(p, PathOf(f, i))}
        g == [f EXCEPT !.byId = [i \in Id |-> IF i \in gone THEN {} ELSE @[i]],
                       !.byPath = [q \in Path |-> IF @[q] \in gone THEN NoId ELSE @[q]]]
    IN  FoldSet(LAMBDA i, a : DropId(a, i), g, gone)

Moved(p, from, to) == to \o SubSeq(p, Len(from) + 1, Len(p))

\* rename_tree: everything under from keeps its id.
RenameTree(f, from, to) ==
    LET ids == {i \in Id : \E q \in Tree(from) : f.byPath[q] = i}
        old == {q \in Path : f.byPath[q] \in ids}
        at(i) == Moved(CHOOSE q \in Path : f.byPath[q] = i, from, to)
    IN  [f EXCEPT !.byId = [i \in Id |-> IF i \in ids THEN {at(i)} ELSE @[i]],
                  !.byPath = [q \in Path |-> IF \E i \in ids : at(i) = q THEN CHOOSE i \in ids : at(i) = q
                                             ELSE IF q \in old THEN NoId ELSE @[q]]]

\* put_attr: contents of another size or mtime are dropped.
PutAttr(f, i, v) ==
    LET g == IF \E w \in f.contents[i] : w # v THEN DropContent(f, i) ELSE f
    IN  [g EXCEPT !.attrs[i] = {[v |-> v, at |-> now]}]

Remember(f, p, v) == LET g == IdFor(f, p) IN PutAttr(g, g.byPath[p], v)

DirChanged(f, d) == [f EXCEPT !.lists[d] = {}, !.attrs[d] = {}]

\* As Young, for a cache that trusts an entry for ever.
YoungFault(at) == TRUE

Young(at) == now - at < Ttl

\* fresh_attr
Fresh(i) == {a \in fs.attrs[i] : Young(a.at)}

\* store_content: other contents, whichever, go until it fits.
StoreContent(f, i, v) ==
    LET g == DropContent(f, i)
        kept(out) == g.bytes - MapThenSumSet(LAMBDA j : Bytes(g.contents[j]), out)
        fits(out) == kept(out) + Size(v) <= Budget
        stored(out) == [FoldSet(LAMBDA j, h : DropContent(h, j), g, out)
                          EXCEPT !.contents[i] = {v}, !.bytes = @ + Size(v)]
    IN  IF Size(v) > Budget THEN {f}
        ELSE {stored(out) : out \in {o \in SUBSET {j \in Id : g.contents[j] # {}} :
                                       fits(o) /\ (o = {} \/ \E j \in o : ~fits(o \ {j}))}}
-----------------------------------------------------------------------------
(* Beginning an operation: served from the caches, or the node is asked.   *)
Start(c, op, i, p) ==
    [Idle EXCEPT !.op = op, !.id = i, !.path = p, !.pc = "node", !.began = now, !.sent = now, !.floor = acked[p]]
Served(c, op, i, p, ans) == [Start(c, op, i, p) EXCEPT !.pc = "done", !.ans = ans]
Found(v) == [v |-> v, there |-> TRUE]

Begins(c) == ops[c].pc = "idle" /\ count.op < MaxOp /\ count' = [count EXCEPT !.op = @ + 1]

\* The content is in memory and belongs to the attributes, or it is fetched.
ReadOn(c, o, i, v) ==
    ops' = [ops EXCEPT ![c] = IF v \in fs.contents[i] THEN [o EXCEPT !.pc = "done", !.ans = Found(v)]
                              ELSE [o EXCEPT !.pc = "node", !.op = "fetch", !.attr = v, !.sent = now]]

\* getattr and the first half of read: an id whose attributes are fresh needs no call.
Getattr(c, i, op) ==
    LET p == PathOf(fs, i) IN
    /\ Begins(c) /\ Known(fs, i) /\ (op = "read" => File(p))
    /\ IF Fresh(i) = {} THEN ops' = [ops EXCEPT ![c] = Start(c, op, i, p)]
       ELSE \E a \in Fresh(i) :
              IF op = "getattr" THEN ops' = [ops EXCEPT ![c] = Served(c, op, i, p, Found(a.v))]
              ELSE ReadOn(c, Start(c, op, i, p), i, a.v)
    /\ UNCHANGED <<node, version, until, fs, outage, acked, now>>

\* lookup: a fresh listing answers, also that there is no such name.
Lookup(c, d, p) ==
    /\ Begins(c) /\ Known(fs, d) /\ p \in Children(PathOf(fs, d))
    /\ LET fresh == {l \in fs.lists[d] : Young(l.at)}
           absent == {l.of[p] : l \in {k \in fresh : ~k.of[p].there}}
           attrs == UNION {Fresh(l.ids[p]) : l \in {k \in fresh : k.of[p].there}}
       IN  ops' = [ops EXCEPT ![c] =
               IF absent # {} THEN Served(c, "lookup", d, p, CHOOSE x \in absent : TRUE)
               ELSE IF attrs # {} THEN Served(c, "lookup", d, p, Found((CHOOSE a \in attrs : TRUE).v))
               ELSE Start(c, "lookup", d, p)]
    /\ UNCHANGED <<node, version, until, fs, outage, acked, now>>

Readdir(c, d) ==
    /\ Begins(c) /\ Known(fs, d) /\ ~File(PathOf(fs, d))
    /\ ops' = [ops EXCEPT ![c] =
           IF \E l \in fs.lists[d] : Young(l.at) /\ \A q \in DOMAIN l.of : l.of[q].there => fs.attrs[l.ids[q]] # {}
           THEN Idle ELSE Start(c, "readdir", d, PathOf(fs, d))]
    /\ UNCHANGED <<node, version, until, fs, outage, acked, now>>

\* write and setattr, by id; create (without O_EXCL), mkdir, symlink, remove and rename, by name.
Change(c, op, i, p, q) ==
    /\ Begins(c) /\ Known(fs, i)
    /\ IF op = "write" THEN p = PathOf(fs, i) /\ q = <<>> /\ File(p)
       ELSE /\ p \in Children(PathOf(fs, i))
            /\ IF op = "rename" THEN q # p /\ q # <<>> /\ ~IsPrefix(p, q) /\ fs.byPath[Parent(q)] # NoId
                                       /\ {Moved(r, p, q) : r \in Tree(p)} = Tree(q)
               ELSE q = <<>>
    /\ ops' = [ops EXCEPT ![c] = [Start(c, op, i, p) EXCEPT !.to = q]]
    /\ UNCHANGED <<node, version, until, fs, outage, acked, now>>
-----------------------------------------------------------------------------
(* The node (external) does what it is asked.                              *)
Replaced(paths) == until' = [p \in Path |-> IF p \in paths THEN [until[p] EXCEPT ![node[p].v] = now] ELSE until[p]]

Exists(p) == node[p].there
Empty(p) == \A q \in Children(p) : ~Exists(q)

NodeDoes(c) ==
    LET o == ops[c]
        nv == version + 1
        made(p) == [v |-> nv, there |-> TRUE]
        gone(p) == [v |-> nv, there |-> FALSE]
        effect(n, paths, ans) == /\ node' = n /\ version' = nv /\ Replaced(paths)
                                 /\ ops' = [ops EXCEPT ![c].pc = "answer", ![c].ans = ans]
        says(ans) == UNCHANGED <<node, version, until>> /\ ops' = [ops EXCEPT ![c].pc = "answer", ![c].ans = ans]
    IN
    /\ o.pc = "node"
    /\ CASE o.op \in {"getattr", "read", "lookup", "fetch"} -> says(node[o.path])
         [] o.op = "readdir" -> /\ UNCHANGED <<node, version, until>>
                                /\ ops' = [ops EXCEPT ![c].pc = "answer", ![c].ans = node[o.path],
                                                      ![c].list = [q \in Children(o.path) |-> node[q]]]
         [] o.op = "write" -> IF Exists(o.path) THEN effect([node EXCEPT ![o.path] = made(o.path)], {o.path}, made(o.path))
                              ELSE says(NoEnt)
         [] o.op \in {"create", "mkdir"} ->
              IF Exists(o.path) THEN says(IF o.op = "create" THEN node[o.path] ELSE NoEnt)
              ELSE IF Exists(Parent(o.path))
                   THEN effect([node EXCEPT ![o.path] = made(o.path)], {o.path}, made(o.path)) ELSE says(NoEnt)
         [] o.op = "remove" -> IF Exists(o.path) /\ Empty(o.path)
                               THEN effect([node EXCEPT ![o.path] = gone(o.path)], {o.path}, made(o.path)) ELSE says(NoEnt)
         [] o.op = "rename" ->
              IF Exists(o.path) /\ Exists(Parent(o.to)) /\ Empty(o.to)
              THEN effect([q \in Path |-> IF IsPrefix(o.path, q) THEN gone(q)
                                          ELSE IF IsPrefix(o.to, q)
                                               THEN [node[Moved(q, o.to, o.path)] EXCEPT !.v = nv] ELSE node[q]],
                          Tree(o.path) \cup Tree(o.to), made(o.path))
              ELSE says(NoEnt)
    /\ UNCHANGED <<fs, outage, acked, now, count>>

\* Another program on the node changes, makes or removes a file.
NodeChanges(p) ==
    /\ count.change < MaxChange /\ count' = [count EXCEPT !.change = @ + 1] /\ File(p) /\ Exists(Parent(p))
    /\ \E there \in BOOLEAN : node' = [node EXCEPT ![p] = [v |-> version + 1, there |-> there]]
    /\ version' = version + 1 /\ Replaced({p})
    /\ UNCHANGED <<fs, outage, ops, acked, now>>
-----------------------------------------------------------------------------
(* The answer is applied to the table and the caches.                      *)
\* RemoteFs::call: an answer ends an outage.
Answer(c, op) == ops[c].pc = "answer" /\ ops[c].op = op /\ outage' = FALSE
Finished(c, ok) == ops' = [ops EXCEPT ![c] = IF ok THEN [@ EXCEPT !.pc = "done"] ELSE Idle]
Quiet == UNCHANGED <<node, version, until, now, count>>

\* Gone on the node: the ids of that path and of what was below it are stale.
GetattrDone(c) ==
    LET o == ops[c] IN
    /\ Answer(c, "getattr") /\ Finished(c, TRUE) /\ Quiet /\ UNCHANGED acked
    /\ fs' = IF o.ans.there THEN PutAttr(fs, o.id, o.ans.v)
             ELSE IF o.id # Root THEN ForgetTree(fs, o.path) ELSE fs

\* read, after its getattr.
ReadDone(c) ==
    LET o == ops[c] IN
    /\ Answer(c, "read") /\ Quiet /\ UNCHANGED acked
    /\ IF o.ans.there THEN fs' = PutAttr(fs, o.id, o.ans.v) /\ ReadOn(c, o, o.id, o.ans.v)
       ELSE fs' = ForgetTree(fs, o.path) /\ Finished(c, TRUE)

\* The content as it was read, with its size and mtime; attributes that differ are dropped.
FetchDone(c) ==
    LET o == ops[c] IN
    /\ Answer(c, "fetch") /\ Quiet /\ UNCHANGED acked /\ Finished(c, o.ans.there)
    /\ IF o.ans.there THEN fs' \in StoreContent(IF o.ans.v # o.attr THEN [fs EXCEPT !.attrs[o.id] = {}] ELSE fs, o.id, o.ans.v)
       ELSE UNCHANGED fs

LookupDone(c) ==
    LET o == ops[c] IN
    /\ Answer(c, "lookup") /\ Finished(c, TRUE) /\ Quiet /\ UNCHANGED acked
    /\ fs' = IF o.ans.there THEN Remember(fs, o.path, o.ans.v) ELSE fs

\* readdir: ids and attributes for what is listed; names of the last listing that are gone are forgotten.
ReaddirDone(c) ==
    LET o == ops[c]
        here == {q \in DOMAIN o.list : o.list[q].there}
        named == FoldSet(LAMBDA q, f : Remember(f, q, o.list[q].v), fs, here)
        left == UNION {{q \in DOMAIN l.of : l.of[q].there /\ q \in Children(o.path) /\ q \notin here} : l \in fs.lists[o.id]}
        kept == FoldSet(LAMBDA q, f : ForgetTree(f, q), named, left)
    IN
    /\ Answer(c, "readdir") /\ Quiet /\ UNCHANGED acked /\ ops' = [ops EXCEPT ![c] = Idle]
    /\ fs' = IF o.ans.there
             THEN [kept EXCEPT !.lists[o.id] = {[of |-> o.list, ids |-> [q \in DOMAIN o.list |-> named.byPath[q]], at |-> now]}]
             ELSE fs

Acked(o, ps) == acked' = [p \in Path |-> IF o.ans.there /\ p \in ps THEN o.ans.v ELSE acked[p]]

WriteDone(c) ==
    LET o == ops[c] IN
    /\ Answer(c, "write") /\ Finished(c, FALSE) /\ Quiet /\ Acked(o, {o.path})
    /\ fs' = IF o.ans.there THEN PutAttr(DropContent(fs, o.id), o.id, o.ans.v) ELSE fs

\* create: the directory is stale; then the file, new or not, is asked for as by lookup.
CreateDone(c) ==
    LET o == ops[c] IN
    /\ Answer(c, "create") /\ Quiet /\ UNCHANGED acked
    /\ ops' = [ops EXCEPT ![c] = IF o.ans.there THEN [o EXCEPT !.pc = "node", !.op = "lookup", !.sent = now] ELSE Idle]
    /\ fs' = IF o.ans.there THEN DirChanged(fs, o.id) ELSE fs

\* mkdir and symlink: the directory is stale, and the answer describes what was made.
MkdirDone(c) ==
    LET o == ops[c] IN
    /\ Answer(c, "mkdir") /\ Finished(c, FALSE) /\ Quiet /\ Acked(o, {o.path})
    /\ fs' = IF o.ans.there THEN Remember(DirChanged(fs, o.id), o.path, o.ans.v) ELSE fs

RemoveDone(c) ==
    LET o == ops[c] IN
    /\ Answer(c, "remove") /\ Finished(c, FALSE) /\ Quiet /\ Acked(o, {o.path})
    /\ fs' = IF o.ans.there THEN ForgetTree(DirChanged(fs, o.id), o.path) ELSE fs

Renamed(f, from, to) == RenameTree(ForgetTree(f, to), from, to)

RenameDone(c) ==
    LET o == ops[c]
        both == DirChanged(DirChanged(fs, o.id), fs.byPath[Parent(o.to)])
        f == Renamed(IF fs.byPath[Parent(o.to)] = NoId THEN DirChanged(fs, o.id) ELSE both, o.path, o.to)
    IN
    /\ Answer(c, "rename") /\ Finished(c, FALSE) /\ Quiet /\ Acked(o, {o.path, o.to})
    /\ fs' = IF ~o.ans.there THEN fs ELSE IF f.byPath[o.to] = NoId THEN f ELSE DropId(f, f.byPath[o.to])

\* The deadline passes, or the node cannot be reached: whether or not it did what it was asked.
Fails(c) ==
    /\ ops[c].pc \in {"node", "answer"} /\ outage' = TRUE /\ ops' = [ops EXCEPT ![c] = Idle]
    /\ Quiet /\ UNCHANGED <<fs, acked>>

\* invalidate_all: the caches are emptied, the inode table is kept.
Forgotten(f) ==
    [f EXCEPT !.attrs = [i \in Id |-> {}], !.lists = [i \in Id |-> {}], !.contents = [i \in Id |-> {}], !.bytes = 0]

\* CtlSocket's loop: the shim asks for it after every command, by a datagram.
Invalidate ==
    /\ fs' = Forgotten(fs)
    /\ UNCHANGED <<node, version, until, outage, ops, acked, now, count>>

Return(c) ==
    /\ ops[c].pc = "done" /\ ops' = [ops EXCEPT ![c] = Idle]
    /\ UNCHANGED <<node, version, until, fs, outage, acked, now, count>>

\* A call that has missed its deadline has failed before time goes on.
Tick ==
    /\ now < MaxNow /\ now' = now + 1
    /\ \A c \in Caller : ops[c].pc = "done" => FALSE
    /\ \A c \in Caller : ops[c].pc \in {"node", "answer"} => now - ops[c].sent < Deadline
    /\ UNCHANGED <<node, version, until, fs, outage, ops, acked, count>>

Done(c) == GetattrDone(c) \/ ReadDone(c) \/ FetchDone(c) \/ LookupDone(c) \/ ReaddirDone(c) \/ WriteDone(c)
           \/ CreateDone(c) \/ MkdirDone(c) \/ RemoveDone(c) \/ RenameDone(c)

Next ==
    \/ \E c \in Caller, i \in Id :
         \/ \E op \in {"getattr", "read"} : Getattr(c, i, op)
         \/ Readdir(c, i)
         \/ \E p \in Path : Lookup(c, i, p) \/ \E op \in {"write", "create", "mkdir", "remove"} : Change(c, op, i, p, <<>>)
         \/ \E p, q \in Path : Change(c, "rename", i, p, q)
    \/ \E c \in Caller : NodeDoes(c) \/ Done(c) \/ Fails(c) \/ Return(c)
    \/ \E p \in Path : NodeChanges(p)
    \/ Invalidate \/ Tick

Spec == Init /\ [][Next]_vars
-----------------------------------------------------------------------------
\* The types of the node's tree, the inode table, the caches and the operations.
TypeOK ==
    LET Version == 0 .. MaxOp + MaxChange IN
    /\ node \in [Path -> [v : Version, there : BOOLEAN]] /\ version \in Version /\ acked \in [Path -> Version]
    /\ until \in [Path -> [Version -> 0 .. MaxNow + 1]] /\ outage \in BOOLEAN /\ now \in 0..MaxNow
    /\ fs.next \in Root + 1 .. MaxId + 1 /\ fs.bytes \in 0..Budget
    /\ \A i \in Id : /\ fs.byId[i] \subseteq Path /\ Cardinality(fs.byId[i]) <= 1
                     /\ Cardinality(fs.attrs[i]) <= 1 /\ fs.contents[i] \subseteq Version
                     /\ Cardinality(fs.contents[i]) <= 1 /\ Cardinality(fs.lists[i]) <= 1
    /\ \A c \in Caller : ops[c].pc \in {"idle", "node", "answer", "done"} /\ ops[c].path \in Path

(* Inode numbers are "one per node path seen, stable for the mount's       *)
(* lifetime (renames move them)": id and path always name each other, also *)
(* after renames over existing files and removals behind the mount's back. *)
InodesAgree ==
    /\ fs.byId[Root] = {<<>>} /\ fs.byPath[<<>>] = Root
    /\ \A i \in Id, p \in Path : p \in fs.byId[i] <=> fs.byPath[p] = i
    /\ \A i \in Id : Cardinality(fs.byId[i]) <= 1

(* The bytes counted are the bytes held, and they stay within the budget.  *)
ContentWithinBudget ==
    fs.bytes = MapThenSumSet(LAMBDA i : Bytes(fs.contents[i]), Id) /\ fs.bytes <= Budget

(* "Changes made on the node by anything else become visible after the     *)
(* TTL": what an operation returns was true on the node at most the TTL    *)
(* and one call's deadline before the operation began.                     *)
BoundedStaleness ==
    \A c \in Caller : ops[c].pc = "done" /\ ops[c].ans.there =>
        until[ops[c].path][ops[c].ans.v] + Ttl + Deadline >= ops[c].began

(* "Every change made through the mount updates or drops the entries it    *)
(* affects": an operation that begins after a change through the mount has *)
(* returned sees that change or a later one.                               *)
SeesOwnChanges ==
    \A c \in Caller : ops[c].pc = "done" /\ ops[c].ans.there => ops[c].ans.v >= ops[c].floor
=============================================================================
