----------------------------- MODULE EditorRpc ------------------------------
(***************************************************************************)
(* Requests and replies between the editor and the extension host          *)
(* (editor-conn: rpc.rs, ipc.rs, exthost.rs `initialize`), over an ordered *)
(* connection (EditorConn).  RpcPeer and IpcClient have the same shape: a  *)
(* table of pending replies, a dispatch task that owns the event stream,   *)
(* and callers on other threads.  The extension host and the server behind *)
(* it are external.                                                        *)
(***************************************************************************)
EXTENDS Integers, Sequences, SequencesExt

CONSTANTS
    Call,          \* calls of the editor
    Fired,         \* those made with `fire`
    Cancelled,     \* those the editor may cancel
    Request,       \* requests of the extension host
    MaxDisconnect  \* Disconnect messages of the host

VARIABLES
    boot,          \* "ready", "init", "rpc", "failed": initialize / wait_initialized
    call,          \* what each call's caller knows
    pending,       \* Shared::pending
    task,          \* the dispatch task
    event,         \* RpcEvent queue of the owner
    answered,      \* requests the owner has answered
    toHost, toUs,  \* messages in flight
    got,           \* calls the host has and has not answered
    req            \* what the host knows of its requests

vars == <<boot, call, pending, task, event, answered, toHost, toUs, got, req>>

\* RpcMessage and the IPC headers: the kind and the request it is about.
Msg(k, x) == [k |-> k, x |-> x]

\* Replies: ReplyOk, ReplyErr, PROMISE_SUCCESS, PROMISE_ERROR.
Reply(c) == {Msg("ok", c), Msg("err", c)}

Init ==
    /\ boot = "ready"
    /\ call = [c \in Call |-> "idle"]
    /\ pending = {}
    /\ task = "run"
    /\ event = <<>>
    /\ answered = {}
    /\ toHost = <<>>
    /\ toUs = <<Msg("ready", "boot")>>
    /\ got = {}
    /\ req = [r \in Request |-> "idle"]

-----------------------------------------------------------------------------
(* What a message of ipc.rs is on the wire: a header and a body, each a    *)
(* value: a tag, then a length or a number in groups of bits, the lowest   *)
(* first, all but the last marked. The code has groups of 7 bits for       *)
(* numbers of 32 and reads 6 groups at most; here 2 for 5, and 4.          *)

Group == 4
Width == 32
MaxGroups == 4

UNDEFINED == 0
Blobs == {1, 2, 3, 5}  \* STRING, BUFFER, VSBUFFER and OBJECT (its JSON text)
ARRAY == 4
INT == 6

Undefined == [t |-> UNDEFINED]

RECURSIVE write_vql(_)
write_vql(v) == IF v < Group THEN <<v>> ELSE <<(v % Group) + Group>> \o write_vql(v \div Group)

\* What is read at a place, with the place after it: the empty set is an error.
Some(v, at) == {[v |-> v, at |-> at]}

RECURSIVE Groups(_, _, _)
Groups(buf, at, n) ==
    IF at > Len(buf) \/ n = MaxGroups THEN {}
    ELSE IF buf[at] < Group THEN Some(buf[at], at + 1)
    ELSE {[v |-> (buf[at] % Group) + (Group * r.v), at |-> r.at] : r \in Groups(buf, at + 1, n + 1)}

read_vql(buf, at) == {[r EXCEPT !.v = @ % Width] : r \in Groups(buf, at, 0)}

RECURSIVE serialize(_)
serialize(v) ==
    CASE v.t = UNDEFINED -> <<UNDEFINED>>
      [] v.t \in Blobs -> <<v.t>> \o write_vql(Len(v.s)) \o v.s
      [] v.t = ARRAY -> <<ARRAY>> \o write_vql(Len(v.a))
                        \o FlattenSeq([k \in 1..Len(v.a) |-> serialize(v.a[k])])
      [] v.t = INT -> <<INT>> \o write_vql(v.n % Width)

take(buf, at, n) == IF at + n - 1 > Len(buf) THEN {} ELSE Some(SubSeq(buf, at, at + n - 1), at + n)

Signed(n) == IF n >= Width \div 2 THEN n - Width ELSE n

RECURSIVE deserialize(_, _), Elements(_, _, _)
deserialize(buf, at) ==
    UNION {LET t == tag.v[1]
               n == read_vql(buf, tag.at)
           IN CASE t = UNDEFINED -> Some(Undefined, tag.at)
                [] t \in Blobs -> {[v |-> [t |-> t, s |-> b.v], at |-> b.at]
                                     : b \in UNION {take(buf, r.at, r.v) : r \in n}}
                [] t = ARRAY -> {[v |-> [t |-> ARRAY, a |-> e.v], at |-> e.at]
                                   : e \in UNION {Elements(buf, r.at, r.v) : r \in n}}
                [] t = INT -> {[v |-> [t |-> INT, n |-> Signed(r.v)], at |-> r.at] : r \in n}
                [] OTHER -> {}
           : tag \in take(buf, at, 1)}
Elements(buf, at, n) ==
    IF n = 0 THEN Some(<<>>, at)
    ELSE UNION {{[v |-> <<e.v>> \o r.v, at |-> r.at] : r \in Elements(buf, e.at, n - 1)}
                : e \in deserialize(buf, at)}

encode_message(header, body) == serialize(header) \o serialize(body)

\* A missing body reads as Undefined.
decode_message(buf) ==
    UNION {IF h.at > Len(buf) THEN {<<h.v, Undefined>>}
           ELSE {<<h.v, b.v>> : b \in deserialize(buf, h.at)}
           : h \in deserialize(buf, 1)}

\* Values of every kind: lengths of one group and of two, numbers at the ends of their range, text
\* that looks like tags and lengths, arrays in arrays.
Leaves == {Undefined} \cup {[t |-> INT, n |-> n] : n \in {-16, -1, 0, 3, 4, 15}}
          \cup {[t |-> t, s |-> s] : t \in {1, 3}, s \in {<<>>, <<6>>, <<4, 5, 0, 7, 6>>}}
Headers == {[t |-> ARRAY, a |-> <<[t |-> INT, n |-> n], l>>] : n \in {-16, 3, 4, 15}, l \in Leaves}
Bodies == Leaves \cup {[t |-> ARRAY, a |-> a] : a \in {<<>>} \cup {<<h, Undefined, h, h>> : h \in Headers}}

-----------------------------------------------------------------------------
(* Callers.                                                                *)

StartCallFault(c) ==
    /\ boot = "rpc"
    /\ call[c] = "idle"
    /\ call' = [call EXCEPT ![c] = "inserted"]
    /\ UNCHANGED <<boot, pending, task, event, answered, toHost, toUs, got, req>>

\* start_call / IpcClient::call: a fresh id, entered before it is sent.
StartCall(c) ==
    /\ boot = "rpc"
    /\ call[c] = "idle"
    /\ pending' = pending \cup {c}
    /\ call' = [call EXCEPT ![c] = "inserted"]
    /\ UNCHANGED <<boot, task, event, answered, toHost, toUs, got, req>>

SendCall(c) ==
    /\ call[c] = "inserted"
    /\ toHost' = Append(toHost, Msg("request", c))
    /\ call' = [call EXCEPT ![c] = IF c \in Fired THEN "firing" ELSE "waiting"]
    /\ UNCHANGED <<boot, pending, task, event, answered, toUs, got, req>>

\* fire: the reply is not needed.
Forget(c) ==
    /\ call[c] = "firing"
    /\ pending' = pending \ {c}
    /\ call' = [call EXCEPT ![c] = "fired"]
    /\ UNCHANGED <<boot, task, event, answered, toHost, toUs, got, req>>

\* cancel: the pending reply is dropped, so the caller's wait is Closed.
Cancel(c) ==
    /\ c \in Cancelled
    /\ call[c] = "waiting"
    /\ pending' = pending \ {c}
    /\ call' = [call EXCEPT ![c] = "closed"]
    /\ toHost' = Append(toHost, Msg("cancel", c))
    /\ UNCHANGED <<boot, task, event, answered, toUs, got, req>>

\* respond: the owner answers a request it has taken from the queue.
Respond ==
    /\ event # <<>>
    /\ event' = Tail(event)
    /\ answered' = answered \cup {Head(event).x}
    /\ toHost' = IF Head(event).k = "request"
                 THEN Append(toHost, Msg("reply", Head(event).x)) ELSE toHost
    /\ UNCHANGED <<boot, call, pending, task, toUs, got, req>>

-----------------------------------------------------------------------------
(* The dispatch task: initialize, then on_message / dispatch.              *)

\* The Ready / init data / Initialized exchange.
Bootstrap(m) ==
    /\ boot' = CASE m.k = "ready" -> "init"
                 [] m.k = "initialized" -> "rpc"
                 [] m.k = "disconnect" -> "failed"
                 [] OTHER -> boot
    /\ toHost' = IF m.k = "ready" THEN Append(toHost, Msg("init", "boot"))
                 ELSE toHost
    /\ UNCHANGED <<call, pending, task, event, answered>>

\* A reply finds its caller, or nobody wants it any more.
OnReply(m) ==
    /\ pending' = pending \ {m.x}
    /\ call' = IF m.x \in pending
               THEN [call EXCEPT ![m.x] = IF @ = "waiting" THEN m.k ELSE @]
               ELSE call
    /\ UNCHANGED <<boot, task, event, answered, toHost>>

\* A request is acknowledged before the owner hears of it.
OnRequest(m) ==
    /\ toHost' = Append(toHost, Msg("ack", m.x))
    /\ event' = Append(event, m)
    /\ UNCHANGED <<boot, call, pending, task, answered>>

OnCancel(m) ==
    /\ event' = Append(event, m)
    /\ UNCHANGED <<boot, call, pending, task, answered, toHost>>

\* Disconnected: the task ends and fails every pending call.
OnDisconnect ==
    /\ task' = "ended"
    /\ pending' = {}
    /\ call' = [c \in Call |-> IF c \in pending /\ call[c] = "waiting"
                               THEN "err" ELSE call[c]]
    /\ UNCHANGED <<boot, event, answered, toHost>>

Dispatch ==
    LET m == Head(toUs) IN
    /\ task = "run"
    /\ boot # "failed"
    /\ toUs # <<>>
    /\ toUs' = Tail(toUs)
    /\ CASE boot # "rpc" -> Bootstrap(m)
         [] m.k \in {"ok", "err"} -> OnReply(m)
         [] m.k = "request" -> OnRequest(m)
         [] m.k = "cancel" -> OnCancel(m)
         [] m.k = "disconnect" -> OnDisconnect
    /\ UNCHANGED <<got, req>>

-----------------------------------------------------------------------------
(* The extension host (external).                                          *)

HostRead ==
    LET m == Head(toHost) IN
    /\ toHost # <<>>
    /\ toHost' = Tail(toHost)
    /\ got' = IF m.k = "request" THEN got \cup {m.x} ELSE got
    /\ req' = CASE m.k = "ack" -> [req EXCEPT ![m.x] = "acked"]
                [] m.k = "reply" -> [req EXCEPT ![m.x] = "done"]
                [] OTHER -> req
    /\ toUs' = IF m.k = "init" THEN Append(toUs, Msg("initialized", "boot"))
               ELSE toUs
    /\ UNCHANGED <<boot, call, pending, task, event, answered>>

HostReply(c) ==
    /\ c \in got
    /\ got' = got \ {c}
    /\ \E m \in Reply(c) : toUs' = Append(toUs, m)
    /\ UNCHANGED <<boot, call, pending, task, event, answered, toHost, req>>

HostAsks(r) ==
    /\ boot = "rpc"
    /\ req[r] = "idle"
    /\ req' = [req EXCEPT ![r] = "sent"]
    /\ toUs' = Append(toUs, Msg("request", r))
    /\ UNCHANGED <<boot, call, pending, task, event, answered, toHost, got>>

HostCancels(r) ==
    /\ req[r] \in {"sent", "acked"}
    /\ req' = [req EXCEPT ![r] = "withdrawn"]
    /\ toUs' = Append(toUs, Msg("cancel", r))
    /\ UNCHANGED <<boot, call, pending, task, event, answered, toHost, got>>

HostDisconnects ==
    /\ MaxDisconnect > 0
    /\ ~\E k \in 1 .. Len(toUs) : toUs[k].k = "disconnect"
    /\ task = "run"
    /\ toUs' = Append(toUs, Msg("disconnect", "boot"))
    /\ UNCHANGED <<boot, call, pending, task, event, answered, toHost, got, req>>

Next ==
    \/ \E c \in Call : StartCall(c) \/ SendCall(c) \/ Forget(c) \/ Cancel(c)
                       \/ HostReply(c)
    \/ Respond \/ Dispatch \/ HostRead \/ HostDisconnects
    \/ \E r \in Request : HostAsks(r) \/ HostCancels(r)

Spec == Init /\ [][Next]_vars

\* What keeps running: the callers' threads, the dispatch task, and the host
\* answers what it gets.
Going(k) ==
    \/ k = 1 /\ \E c \in Call : SendCall(c)
    \/ k = 2 /\ Dispatch
    \/ k = 3 /\ (HostRead \/ \E c \in Call : HostReply(c))

-----------------------------------------------------------------------------
TypeOK ==
    /\ boot \in {"ready", "init", "rpc", "failed"}
    /\ call \in [Call -> {"idle", "inserted", "waiting", "firing", "fired",
                          "closed", "ok", "err"}]
    /\ pending \subseteq Call
    /\ task \in {"run", "ended"}
    /\ answered \subseteq Request
    /\ got \subseteq Call
    /\ req \in [Request -> {"idle", "sent", "acked", "withdrawn", "done"}]

\* A reply on its way meets an entry of its call, unless the caller gave the
\* call up: an answer is never dropped while somebody waits for it
\* (start_call inserts before it sends).
RepliesMeetTheirCall ==
    \A k \in 1 .. Len(toUs) :
        (toUs[k].k \in {"ok", "err"} /\ call[toUs[k].x] \in {"waiting", "firing"})
            => \/ toUs[k].x \in pending
               \/ task = "ended"
               \/ \E j \in 1 .. k : toUs[j].k = "disconnect"

\* The host hears the acknowledgement of a request before its answer
\* (on_message acknowledges before the owner can respond).
AcknowledgedFirst ==
    \A k \in 1 .. Len(toHost) :
        toHost[k].k = "reply" =>
            \/ req[toHost[k].x] \in {"acked", "withdrawn"}
            \/ \E j \in 1 .. k - 1 : toHost[j] = Msg("ack", toHost[k].x)

\* The management connection's codec (ipc.rs, encode_message and decode_message): what was sent is
\* what is read, to the last byte, and a message that was cut off is refused, or read without its
\* body if that is all that is missing: never read as another message.
CodecExact ==
    \A h \in Headers, b \in Bodies :
        LET m == encode_message(h, b) IN
        /\ decode_message(m) = {<<h, b>>}
        /\ \A n \in 0..Len(m) - 1 : decode_message(SubSeq(m, 1, n))
                                      \subseteq (IF n = Len(serialize(h)) THEN {<<h, Undefined>>} ELSE {})

\* Every call ends, answered, failed or given up, while the host is there: Due(c) ~> Met(c).
Due(c) == call[c] = "waiting"
Met(c) == call[c] # "waiting"
=============================================================================
