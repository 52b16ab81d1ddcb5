-------------------------------- MODULE Gate --------------------------------
(* Which devices may reach the server over the transport: the devices table    *)
(* (server/src/devices/mod.rs), the PeerGate it feeds (transport/src/gate.rs)  *)
(* and the connections a listener admits through it (transport/src/http.rs).   *)
(*                                                                             *)
(* The table is changed one statement at a time, and the gate after it, by     *)
(* requests that run side by side (`Op'); the gate's own calls are atomic, for *)
(* they hold its lock. Closing a revoked connection happens after the lock.    *)
EXTENDS Naturals, FiniteSets, TLAPS

CONSTANTS Peer, Conn,
          Op,          \* the requests that change the devices table
          None,
          MaxChange,   \* changes of the devices table
          MaxRestart   \* restarts of the server

VARIABLES table, allowed, conn, op, changes, restarts,
          crossed  \* peers that one request adds while another drops them (history)

vars == <<table, allowed, conn, op, changes, restarts, crossed>>

Source == {"none", "local", "hub"}

\* A request: the peer whose turn at the gate it is, and what a sync read and has still to do.
NoOp == [kind |-> "none", peer |-> None, listed |-> {}, current |-> [p \in Peer |-> "none"], todo |-> {}]

TypeOK ==
  /\ table \in [Peer -> Source]
  /\ allowed \subseteq Peer
  /\ conn \in [Conn -> [peer : Peer \cup {None}, at : {"new", "queued", "open", "closing", "closed"}]]
  /\ \A o \in Op : op[o].kind \in {"none", "allow", "revoke", "sync"}
  /\ changes \in 0..MaxChange /\ restarts \in 0..MaxRestart /\ crossed \subseteq Peer

Init ==
  /\ table = [p \in Peer |-> "none"] /\ allowed = {}
  /\ conn = [c \in Conn |-> [peer |-> None, at |-> "new"]]
  /\ op = [o \in Op |-> NoOp]
  /\ changes = 0 /\ restarts = 0 /\ crossed = {}

-----------------------------------------------------------------------------
(* PeerGate.                                                                  *)

Admits(p) == p \in allowed

Allow(p) == allowed' = allowed \cup {p}

\* The live connections of the peers are taken out under the lock, to be closed after it.
Dropped(ps) == [c \in Conn |-> IF conn[c].peer \in ps /\ conn[c].at = "open"
                               THEN [conn[c] EXCEPT !.at = "closing"] ELSE conn[c]]

Revoke(p) == allowed' = allowed \ {p} /\ conn' = Dropped({p})

\* admit: the check and the registration of the connection under one lock.
Admit(c) ==
  /\ conn[c].at = "queued"
  /\ conn' = [conn EXCEPT ![c].at = IF Admits(conn[c].peer) THEN "open" ELSE "closed"]
  /\ UNCHANGED <<table, allowed, op, changes, restarts, crossed>>

-----------------------------------------------------------------------------
(* Devices: add, remove and sync_from_hub, statement by statement.            *)

\* What a request is about to do with a peer: an add, a remove, or a sync by what it read.
Adding(r, p) ==
  (r.kind = "allow" /\ r.peer = p) \/ (p \in r.todo \cap r.listed /\ r.current[p] = "none")
Dropping(r, p) ==
  (r.kind = "revoke" /\ r.peer = p) \/ (p \in r.todo \ r.listed /\ r.current[p] = "hub")

Opposed(reqs) == {p \in Peer : \E o, q \in Op : Adding(reqs[o], p) /\ Dropping(reqs[q], p)}

\* A request begins; `settled' is the peer whose row it sets, whatever it was.
Start(o, r, settled) ==
  /\ op[o] = NoOp /\ changes < MaxChange
  /\ changes' = changes + 1
  /\ op' = [op EXCEPT ![o] = r]
  /\ crossed' = (crossed \ settled) \cup Opposed(op')

Ask(kind, p) == [NoOp EXCEPT !.kind = kind, !.peer = p]

\* add: the row (by hand, whatever it was before), then the gate.
Add(o, p) ==
  /\ Start(o, Ask("allow", p), {p})
  /\ table' = [table EXCEPT ![p] = "local"]
  /\ UNCHANGED <<allowed, conn, restarts>>

\* remove: the row, then the gate even if there was no row.
Remove(o, p) ==
  /\ Start(o, Ask("revoke", p), {p})
  /\ table' = [table EXCEPT ![p] = "none"]
  /\ UNCHANGED <<allowed, conn, restarts>>

\* A request goes on: a sync with its next peer.
Goes(r) == IF r.todo = {} THEN NoOp ELSE [r EXCEPT !.kind = "sync", !.peer = None]

GateAllows(o) ==
  /\ op[o].kind = "allow"
  /\ Allow(op[o].peer) /\ op' = [op EXCEPT ![o] = Goes(@)]
  /\ UNCHANGED <<table, conn, changes, restarts, crossed>>

GateRevokes(o) ==
  /\ op[o].kind = "revoke"
  /\ Revoke(op[o].peer) /\ op' = [op EXCEPT ![o] = Goes(@)]
  /\ UNCHANGED <<table, changes, restarts, crossed>>

\* sync_from_hub reads the table once and works from what it read.
Sync(o, listed) ==
  /\ Start(o, [NoOp EXCEPT !.kind = "sync", !.listed = listed, !.current = table, !.todo = Peer], {})
  /\ UNCHANGED <<table, allowed, conn, restarts>>

\* A sync with p behind it, and with p's turn at the gate to come.
Past(o, p) == [op[o] EXCEPT !.todo = @ \ {p}]
Turn(o, p, kind) == [Past(o, p) EXCEPT !.kind = kind, !.peer = p]

\* The hub's row of p, written if there is none and deleted if it is the hub's.
Inserted(p) == [table EXCEPT ![p] = IF @ = "none" THEN "hub" ELSE @]
Deleted(p) == [table EXCEPT ![p] = IF @ = "hub" THEN "none" ELSE @]

\* A listed peer without a row is inserted; a peer with one is left (a name is only renamed).
SyncAdds(o, p) ==
  /\ op[o].kind = "sync" /\ p \in op[o].todo /\ p \in op[o].listed
  /\ IF op[o].current[p] = "none"
     THEN /\ table' = Inserted(p)
          /\ op' = [op EXCEPT ![o] = Turn(o, p, "allow")]
     ELSE op' = [op EXCEPT ![o] = Goes(Past(o, p))] /\ UNCHANGED table
  /\ UNCHANGED <<allowed, conn, changes, restarts, crossed>>

SyncDropsFault(o, p) ==
  /\ op[o].kind = "sync" /\ p \in op[o].todo \ op[o].listed /\ op[o].todo \cap op[o].listed = {}
  /\ table' = Deleted(p)
  /\ op' = [op EXCEPT ![o] = Goes(Past(o, p))]
  /\ UNCHANGED <<allowed, conn, changes, restarts, crossed>>

\* After the listed ones: a hub row that is not listed is deleted, and its peer revoked.
SyncDrops(o, p) ==
  /\ op[o].kind = "sync" /\ p \in op[o].todo \ op[o].listed /\ op[o].todo \cap op[o].listed = {}
  /\ IF op[o].current[p] = "hub"
     THEN /\ table' = Deleted(p)
          /\ op' = [op EXCEPT ![o] = Turn(o, p, "revoke")]
     ELSE op' = [op EXCEPT ![o] = Goes(Past(o, p))] /\ UNCHANGED table
  /\ UNCHANGED <<allowed, conn, changes, restarts, crossed>>

-----------------------------------------------------------------------------
(* Connections.                                                               *)

\* The backend has authenticated the peer and queued the connection for the listener.
Connect(c, p) ==
  /\ conn[c].at = "new"
  /\ conn' = [conn EXCEPT ![c] = [peer |-> p, at |-> "queued"]]
  /\ UNCHANGED <<table, allowed, op, changes, restarts, crossed>>

\* Closed by the revocation that took it out, or by its peer; the gate forgets it.
Close(c) ==
  /\ conn[c].at \in {"open", "closing"}
  /\ conn' = [conn EXCEPT ![c].at = "closed"]
  /\ UNCHANGED <<table, allowed, op, changes, restarts, crossed>>

\* Devices::open: a new gate from the table.
Restart ==
  /\ restarts < MaxRestart
  /\ restarts' = restarts + 1
  /\ allowed' = {p \in Peer : table[p] # "none"}
  /\ conn' = [c \in Conn |-> IF conn[c].at = "new" THEN conn[c] ELSE [conn[c] EXCEPT !.at = "closed"]]
  /\ op' = [o \in Op |-> NoOp] /\ crossed' = {}
  /\ UNCHANGED <<table, changes>>

Next ==
  \/ \E o \in Op :
       \/ \E p \in Peer : Add(o, p) \/ Remove(o, p) \/ SyncAdds(o, p) \/ SyncDrops(o, p)
       \/ \E listed \in SUBSET Peer : Sync(o, listed)
       \/ GateAllows(o) \/ GateRevokes(o)
  \/ \E c \in Conn : Admit(c) \/ Close(c) \/ \E p \in Peer : Connect(c, p)
  \/ Restart

Spec == Init /\ [][Next]_vars

-----------------------------------------------------------------------------
\* A connection served to a peer the gate no longer allows is one being closed: admission and
\* revocation cannot miss each other.
RevokedIsCut == \A c \in Conn : conn[c].at = "open" => conn[c].peer \in allowed

\* Between requests the gate admits exactly the peers of the table, but for those that one request
\* added while another dropped them: nothing orders the two statements of each, and such a peer may
\* be left with a row and shut out, or admitted without one, until an add or a removal of it that
\* nothing opposes, or a restart.
GateIsTable ==
  (\A o \in Op : op[o] = NoOp) => \A p \in Peer \ crossed : p \in allowed <=> table[p] # "none"
-----------------------------------------------------------------------------
(* Proofs, for any peers, connections, requests and bounds: no order of        *)
(* requests, dials and restarts leaves a revoked peer served; and whenever no  *)
(* request is under way the gate is the table, but for the peers opposed       *)
(* requests crossed on.                                                        *)

Request == [kind : {"none", "allow", "revoke", "sync"}, peer : Peer \cup {None},
            listed : SUBSET Peer, current : [Peer -> Source], todo : SUBSET Peer]

TypeInv ==
  /\ table \in [Peer -> Source] /\ allowed \subseteq Peer /\ crossed \subseteq Peer
  /\ conn \in [Conn -> [peer : Peer \cup {None}, at : {"new", "queued", "open", "closing", "closed"}]]
  /\ op \in [Op -> Request]
  /\ \A o \in Op : op[o].kind \in {"allow", "revoke"} => op[o].peer \in Peer

\* At the gate for p: the row is written, the gate is to follow.
AtGate(r, p) == r.kind \in {"allow", "revoke"} /\ r.peer = p

\* Nothing opposed crosses on p: the gate and its row agree, but for a request at the gate, which
\* finds the row it wrote; and a drop to come meets no row added by hand.
Calm(p) ==
  /\ \A o, q \in Op : ~(Adding(op[o], p) /\ Dropping(op[q], p))
  /\ \/ p \in allowed <=> table[p] # "none"
     \/ \E o \in Op : AtGate(op[o], p)
  /\ \A o \in Op : AtGate(op[o], p) => (op[o].kind = "allow" <=> table[p] # "none")
  /\ \A o \in Op : Dropping(op[o], p) => table[p] # "local"

LEMMA NoOpType == NoOp \in Request
  BY DEF NoOp, Request, Source

\* What the three requests begin with.
LEMMA Asked ==
  ASSUME NEW p \in Peer, NEW k \in {"allow", "revoke"}
  PROVE  Ask(k, p) \in Request /\ Ask(k, p).kind = k /\ Ask(k, p).peer = p /\ Ask(k, p).todo = {}
<1>1. PICK s \in Request : s = [NoOp EXCEPT !.kind = k] BY NoOpType DEF Request
<1>2. Ask(k, p) = [s EXCEPT !.peer = p] BY <1>1 DEF Ask
<1>3. s.kind = k /\ s.todo = {} BY <1>1, NoOpType DEF Request, NoOp
<1> QED BY <1>2, <1>3 DEF Request

LEMMA AskedSync ==
  ASSUME NEW listed \in SUBSET Peer, TypeInv,
         NEW r, r = [NoOp EXCEPT !.kind = "sync", !.listed = listed, !.current = table, !.todo = Peer]
  PROVE  r \in Request /\ r.kind = "sync" /\ r.current = table
<1>1. PICK s \in Request : s = [NoOp EXCEPT !.kind = "sync"] BY NoOpType DEF Request
<1>2. PICK t \in Request : t = [s EXCEPT !.listed = listed] BY DEF Request
<1>3. PICK u \in Request : u = [t EXCEPT !.current = table] BY DEF Request, TypeInv
<1>4. r = [u EXCEPT !.todo = Peer] BY <1>1, <1>2, <1>3
<1>5. s.kind = "sync" /\ t.kind = "sync" /\ u.kind = "sync" /\ u.current = table
  BY <1>1, <1>2, <1>3, NoOpType DEF Request
<1> QED BY <1>4, <1>5 DEF Request

\* A request that goes on is a request, and does nothing it was not about to do.
LEMMA GoesOn ==
  ASSUME NEW r \in Request, NEW p
  PROVE  /\ Goes(r) \in Request /\ ~AtGate(Goes(r), p) /\ Goes(r).kind \in {"none", "sync"}
         /\ Adding(Goes(r), p) => Adding(r, p)
         /\ Dropping(Goes(r), p) => Dropping(r, p)
<1>1. CASE r.todo = {}
  <2>1. Goes(r) = NoOp /\ NoOp.kind = "none" /\ NoOp.todo = {} BY <1>1 DEF Goes, NoOp
  <2> QED BY <2>1, NoOpType DEF AtGate, Adding, Dropping
<1>2. CASE r.todo # {}
  <2>1. /\ Goes(r).kind = "sync" /\ Goes(r).todo = r.todo /\ Goes(r).listed = r.listed
        /\ Goes(r).current = r.current /\ Goes(r) \in Request
    BY <1>2 DEF Goes, Request
  <2> QED BY <2>1 DEF AtGate, Adding, Dropping
<1> QED BY <1>1, <1>2

\* A sync with p behind it, and with p's turn at the gate to come.
LEMMA PastPeer ==
  ASSUME NEW o \in Op, NEW p \in Peer, NEW q \in Peer, TypeInv, NEW k \in {"allow", "revoke"},
         op[o].kind = "sync"
  PROVE  /\ Past(o, p) \in Request /\ Turn(o, p, k) \in Request
         /\ ~Adding(Past(o, p), p) /\ ~Dropping(Past(o, p), p)
         /\ Adding(Past(o, p), q) => Adding(op[o], q)
         /\ Dropping(Past(o, p), q) => Dropping(op[o], q)
         /\ Turn(o, p, k).kind = k /\ Turn(o, p, k).peer = p
         /\ Adding(Turn(o, p, k), p) <=> k = "allow"
         /\ Dropping(Turn(o, p, k), p) <=> k = "revoke"
         /\ q # p /\ Adding(Turn(o, p, k), q) => Adding(op[o], q)
         /\ q # p /\ Dropping(Turn(o, p, k), q) => Dropping(op[o], q)
<1>1. PICK r \in Request : r = op[o] BY DEF TypeInv
<1>2. PICK s \in Request : s = [r EXCEPT !.todo = r.todo \ {p}]
  BY DEF Request
<1>3. /\ s = Past(o, p) /\ s.todo = r.todo \ {p} /\ s.listed = r.listed /\ s.current = r.current
      /\ s.kind = "sync"
  BY <1>1, <1>2 DEF Past, Request
<1>4. PICK t \in Request : t = [[s EXCEPT !.kind = k] EXCEPT !.peer = p]
  BY DEF Request
<1>5. Turn(o, p, k) = t
  BY <1>3, <1>4 DEF Turn
<1>6. /\ t.todo = r.todo \ {p} /\ t.listed = r.listed /\ t.current = r.current
      /\ t.kind = k /\ t.peer = p
  BY <1>3, <1>4 DEF Request
<1> QED BY <1>1, <1>3, <1>5, <1>6 DEF Adding, Dropping

LEMMA TypeInit == Init => TypeInv
  BY NoOpType DEF Init, TypeInv, Source, NoOp

LEMMA TypeStep == ASSUME TypeInv, [Next]_vars PROVE TypeInv'
<1>1. CASE UNCHANGED vars BY <1>1 DEF vars, TypeInv
<1>2. ASSUME NEW o \in Op, NEW r \in Request, op' = [op EXCEPT ![o] = r],
             r.kind \in {"allow", "revoke"} => r.peer \in Peer,
             table' \in [Peer -> Source], allowed' \subseteq Peer, crossed' \subseteq Peer,
             conn' = conn \/ \E p : conn' = Dropped({p})
      PROVE TypeInv'
  <2>1. conn' \in [Conn -> [peer : Peer \cup {None}, at : {"new", "queued", "open", "closing", "closed"}]]
    BY <1>2 DEF Dropped, TypeInv
  <2>2. op' \in [Op -> Request] BY <1>2 DEF TypeInv
  <2>3. \A q \in Op : op'[q].kind \in {"allow", "revoke"} => op'[q].peer \in Peer
    BY <1>2 DEF TypeInv
  <2> QED BY <1>2, <2>1, <2>2, <2>3 DEF TypeInv
<1>3. ASSUME NEW o \in Op, NEW p \in Peer, Add(o, p) \/ Remove(o, p) PROVE TypeInv'
  <2>1. PICK k \in {"allow", "revoke"} :
          /\ op' = [op EXCEPT ![o] = Ask(k, p)]
          /\ table' \in [Peer -> Source] /\ UNCHANGED <<allowed, conn>>
          /\ crossed' = (crossed \ {p}) \cup Opposed(op')
    BY <1>3 DEF Add, Remove, Start, TypeInv, Source
  <2>2. PICK r : r = Ask(k, p) OBVIOUS
  <2>3. r \in Request /\ r.peer = p BY <2>2, Asked
  <2>4. op' = [op EXCEPT ![o] = r] BY <2>1, <2>2
  <2> QED BY <1>2, <2>1, <2>3, <2>4 DEF TypeInv, Opposed
<1>4. ASSUME NEW o \in Op, NEW p \in Peer, SyncAdds(o, p) \/ SyncDrops(o, p) PROVE TypeInv'
  <2>1. /\ op[o].kind = "sync" /\ UNCHANGED <<allowed, conn, crossed>>
        /\ table' \in [Peer -> Source]
    BY <1>4 DEF SyncAdds, SyncDrops, Inserted, Deleted, TypeInv, Source
  <2>2. PICK r \in {Turn(o, p, "allow"), Turn(o, p, "revoke"), Goes(Past(o, p))} : op' = [op EXCEPT ![o] = r]
    BY <1>4 DEF SyncAdds, SyncDrops
  <2>3. Past(o, p) \in Request /\ Turn(o, p, "allow") \in Request /\ Turn(o, p, "revoke") \in Request
    BY <2>1, PastPeer
  <2>4. Turn(o, p, "allow").peer = p /\ Turn(o, p, "revoke").peer = p
    BY <2>1, PastPeer
  <2>5. Goes(Past(o, p)) \in Request /\ Goes(Past(o, p)).kind \in {"none", "sync"} BY <2>3, GoesOn
  <2> QED BY <1>2, <2>1, <2>2, <2>3, <2>4, <2>5 DEF TypeInv
<1>5. ASSUME NEW o \in Op, NEW listed \in SUBSET Peer, Sync(o, listed) PROVE TypeInv'
  <2>1. PICK r : r = [NoOp EXCEPT !.kind = "sync", !.listed = listed, !.current = table, !.todo = Peer]
    OBVIOUS
  <2>2. r \in Request /\ r.kind = "sync" BY <2>1, AskedSync
  <2>3. op' = [op EXCEPT ![o] = r] BY <1>5, <2>1 DEF Sync, Start
  <2> QED BY <1>2, <1>5, <2>2, <2>3 DEF Sync, Start, TypeInv, Opposed
<1>6. ASSUME NEW o \in Op, GateAllows(o) \/ GateRevokes(o) PROVE TypeInv'
  <2>1. op[o].peer \in Peer /\ op[o] \in Request BY <1>6 DEF GateAllows, GateRevokes, TypeInv
  <2>2. Goes(op[o]) \in Request /\ Goes(op[o]).kind \in {"none", "sync"} BY <2>1, GoesOn
  <2>3. /\ op' = [op EXCEPT ![o] = Goes(op[o])] /\ UNCHANGED <<table, crossed>>
        /\ conn' = conn \/ conn' = Dropped({op[o].peer})
        /\ allowed' \subseteq Peer
    BY <1>6, <2>1 DEF GateAllows, GateRevokes, Allow, Revoke, TypeInv
  <2> QED BY <1>2, <2>2, <2>3 DEF TypeInv
<1>7. ASSUME NEW c \in Conn, Admit(c) \/ Close(c) \/ \E p \in Peer : Connect(c, p) PROVE TypeInv'
  BY <1>7 DEF Admit, Close, Connect, TypeInv
<1>8. CASE Restart
  BY <1>8, NoOpType DEF Restart, TypeInv, NoOp
<1> QED BY <1>1, <1>3, <1>4, <1>5, <1>6, <1>7, <1>8 DEF Next

\* Admission checks and registers under the lock that revocation takes the connections out under.
LEMMA CutStep == ASSUME TypeInv, RevokedIsCut, [Next]_vars PROVE RevokedIsCut'
<1> USE DEF RevokedIsCut
<1>1. CASE UNCHANGED <<conn, allowed>> BY <1>1
<1>2. ASSUME NEW o \in Op, GateAllows(o) PROVE RevokedIsCut'
  BY <1>2 DEF GateAllows, Allow
<1>3. ASSUME NEW o \in Op, GateRevokes(o) PROVE RevokedIsCut'
  <2>1. allowed' = allowed \ {op[o].peer} /\ conn' = Dropped({op[o].peer})
    BY <1>3 DEF GateRevokes, Revoke
  <2> SUFFICES ASSUME NEW c \in Conn, conn'[c].at = "open" PROVE conn'[c].peer \in allowed'
    OBVIOUS
  <2>2. conn'[c] = conn[c] /\ ~(conn[c].peer = op[o].peer /\ conn[c].at = "open")
    BY <2>1 DEF Dropped, TypeInv
  <2> QED BY <2>1, <2>2
<1>4. ASSUME NEW c \in Conn, Admit(c) \/ Close(c) \/ \E p \in Peer : Connect(c, p)
      PROVE RevokedIsCut'
  BY <1>4 DEF Admit, Admits, Close, Connect, TypeInv
<1>5. CASE Restart BY <1>5 DEF Restart, TypeInv
<1>6. ASSUME NEW o \in Op,
             \/ \E p \in Peer : Add(o, p) \/ Remove(o, p) \/ SyncAdds(o, p) \/ SyncDrops(o, p)
             \/ \E listed \in SUBSET Peer : Sync(o, listed)
      PROVE  UNCHANGED <<conn, allowed>>
  BY <1>6 DEF Add, Remove, SyncAdds, SyncDrops, Sync
<1> QED BY <1>1, <1>2, <1>3, <1>4, <1>5, <1>6 DEF Next, vars

\* PeerGate: a connection is served only while its peer is allowed, whatever requests, dials and
\* restarts cross.
THEOREM GateCutsRevoked == Spec => []RevokedIsCut
<1>1. Init => TypeInv /\ RevokedIsCut
  BY TypeInit DEF Init, RevokedIsCut
<1>2. TypeInv /\ RevokedIsCut /\ [Next]_vars => (TypeInv /\ RevokedIsCut)'
  BY TypeStep, CutStep
<1> QED BY <1>1, <1>2, PTL DEF Spec

\* A request begins: those it does not concern are as they were.
LEMMA CalmStart ==
  ASSUME TypeInv, NEW o \in Op, NEW r, NEW p \in Peer, NEW settled, Start(o, r, settled),
         p \notin crossed', p \notin settled, Calm(p), allowed' = allowed, table'[p] = table[p],
         ~AtGate(r, p), Dropping(r, p) => table[p] # "local"
  PROVE  Calm(p)'
<1>1. op' = [op EXCEPT ![o] = r] /\ op[o] = NoOp /\ ~AtGate(NoOp, p)
  BY DEF Start, AtGate, NoOp
<1>2. \A a, b \in Op : ~(Adding(op'[a], p) /\ Dropping(op'[b], p))
  BY DEF Start, Opposed
<1>3. \A a \in Op : op'[a] = (IF a = o THEN r ELSE op[a]) BY <1>1 DEF TypeInv
<1>4. \A a \in Op : AtGate(op'[a], p) <=> AtGate(op[a], p)
  BY <1>1, <1>3
<1>5. \A a \in Op : AtGate(op'[a], p) => (op'[a].kind = "allow" <=> table'[p] # "none")
  BY <1>1, <1>3 DEF Calm
<1>6. \A a \in Op : Dropping(op'[a], p) => table'[p] # "local"
  BY <1>3 DEF Calm
<1>7. (p \in allowed' <=> table'[p] # "none") \/ \E a \in Op : AtGate(op'[a], p)
  BY <1>4 DEF Calm
<1> QED BY <1>2, <1>5, <1>6, <1>7 DEF Calm, AtGate, Adding, Dropping

\* An add or a removal of p that nothing opposes settles it, whatever was before.
LEMMA CalmSettles ==
  ASSUME TypeInv, NEW o \in Op, NEW p \in Peer, Add(o, p) \/ Remove(o, p), p \notin crossed'
  PROVE  Calm(p)'
<1>1. PICK r : /\ op' = [op EXCEPT ![o] = r] /\ AtGate(r, p)
               /\ r.kind = "allow" => table'[p] = "local"
               /\ r.kind = "revoke" => table'[p] = "none"
  <2>1. PICK k \in {"allow", "revoke"} :
          /\ op' = [op EXCEPT ![o] = Ask(k, p)]
          /\ k = "allow" => table'[p] = "local"
          /\ k = "revoke" => table'[p] = "none"
    BY DEF Add, Remove, Start, TypeInv
  <2>2. PICK r : r = Ask(k, p) OBVIOUS
  <2>3. r.kind = k /\ r.peer = p BY <2>2, Asked
  <2> QED BY <2>1, <2>2, <2>3 DEF AtGate
<1>2. op'[o] = r BY <1>1 DEF TypeInv
<1>3. \A a, b \in Op : ~(Adding(op'[a], p) /\ Dropping(op'[b], p))
  BY DEF Add, Remove, Start, Opposed
<1>4. \A a \in Op : AtGate(op'[a], p) => op'[a].kind = r.kind
  BY <1>1, <1>2, <1>3 DEF AtGate, Adding, Dropping
<1>5. \A a \in Op : Dropping(op'[a], p) => r.kind = "revoke"
  BY <1>1, <1>2, <1>3 DEF AtGate, Adding
<1>6. r.kind \in {"allow", "revoke"} BY <1>1 DEF AtGate
<1>7. \A a \in Op : AtGate(op'[a], p) => (op'[a].kind = "allow" <=> table'[p] # "none")
  BY <1>1, <1>4, <1>6
<1>8. \A a \in Op : Dropping(op'[a], p) => table'[p] # "local"
  BY <1>1, <1>5
<1>9. \E a \in Op : AtGate(op'[a], p)
  BY <1>1, <1>2
<1> QED BY <1>3, <1>7, <1>8, <1>9 DEF Calm, AtGate, Adding, Dropping

\* A request moves on without p's turn at the gate.
LEMMA CalmElsewhere ==
  ASSUME TypeInv, NEW o \in Op, NEW r, NEW p \in Peer, op' = [op EXCEPT ![o] = r], Calm(p),
         p \in allowed' <=> p \in allowed, table'[p] = table[p], ~AtGate(op[o], p), ~AtGate(r, p),
         Adding(r, p) => Adding(op[o], p), Dropping(r, p) => Dropping(op[o], p)
  PROVE  Calm(p)'
<1>1. \A a \in Op : op'[a] = (IF a = o THEN r ELSE op[a]) BY DEF TypeInv
<1>2. \A a \in Op : /\ AtGate(op'[a], p) <=> AtGate(op[a], p)
                    /\ Adding(op'[a], p) => Adding(op[a], p)
                    /\ Dropping(op'[a], p) => Dropping(op[a], p)
  BY <1>1
<1>3. \A a, b \in Op : ~(Adding(op'[a], p) /\ Dropping(op'[b], p))
  BY <1>2 DEF Calm
<1>4. \A a \in Op : AtGate(op'[a], p) => (op'[a].kind = "allow" <=> table'[p] # "none")
  BY <1>1 DEF Calm
<1>5. \A a \in Op : Dropping(op'[a], p) => table'[p] # "local"
  BY <1>2 DEF Calm
<1>6. (p \in allowed' <=> table'[p] # "none") \/ \E a \in Op : AtGate(op'[a], p)
  BY <1>2 DEF Calm
<1> QED BY <1>3, <1>4, <1>5, <1>6 DEF Calm, AtGate, Adding, Dropping

\* A sync writes the row of a peer nothing opposes, with its turn at the gate to come.
LEMMA CalmTurn ==
  ASSUME TypeInv, NEW o \in Op, NEW p \in Peer, NEW k \in {"allow", "revoke"}, Calm(p),
         op[o].kind = "sync", op' = [op EXCEPT ![o] = Turn(o, p, k)],
         k = "allow" => Adding(op[o], p) /\ table'[p] # "none",
         k = "revoke" => Dropping(op[o], p) /\ table'[p] = "none"
  PROVE  Calm(p)'
<1>1. PICK r : r = Turn(o, p, k) OBVIOUS
<1>2. /\ r.kind = k /\ r.peer = p
      /\ Adding(r, p) <=> k = "allow" 
      /\ Dropping(r, p) <=> k = "revoke"
  BY <1>1, PastPeer
<1>3. \A a \in Op : op'[a] = (IF a = o THEN r ELSE op[a]) BY <1>1 DEF TypeInv
<1>4. \A a \in Op : Adding(op'[a], p) => Adding(op[a], p) \/ (a = o /\ k = "allow")
  BY <1>2, <1>3
<1>5. \A a \in Op : Dropping(op'[a], p) => Dropping(op[a], p) \/ (a = o /\ k = "revoke")
  BY <1>2, <1>3
<1>6. \A a \in Op : Adding(op'[a], p) => k = "allow"
  BY <1>4 DEF Calm
<1>7. \A a \in Op : Dropping(op'[a], p) => k = "revoke"
  BY <1>5 DEF Calm
<1>8. \A a \in Op : AtGate(op'[a], p) => (op'[a].kind = "allow" <=> table'[p] # "none")
  BY <1>6, <1>7 DEF AtGate, Adding, Dropping
<1>9. AtGate(op'[o], p) BY <1>2, <1>3 DEF AtGate
<1>10. \A a, b \in Op : ~(Adding(op'[a], p) /\ Dropping(op'[b], p))
  BY <1>6, <1>7
<1>11. \A a \in Op : Dropping(op'[a], p) => table'[p] # "local"
  BY <1>7
<1> QED BY <1>8, <1>9, <1>10, <1>11 DEF Calm, AtGate, Adding, Dropping

\* The gate follows the row: its peer is as its row says.
LEMMA CalmGate ==
  ASSUME TypeInv, NEW o \in Op, NEW p \in Peer, GateAllows(o) \/ GateRevokes(o), Calm(p),
         op[o].peer = p
  PROVE  Calm(p)'
<1>1. op[o] \in Request BY DEF TypeInv
<1>2. PICK r : r = Goes(op[o]) OBVIOUS
<1>3. ~AtGate(r, p) /\ (Adding(r, p) => Adding(op[o], p)) /\ (Dropping(r, p) => Dropping(op[o], p))
  BY <1>1, <1>2, GoesOn
<1>4. op' = [op EXCEPT ![o] = r] /\ table' = table BY <1>2 DEF GateAllows, GateRevokes
<1>5. \A a \in Op : op'[a] = (IF a = o THEN r ELSE op[a]) BY <1>4 DEF TypeInv
<1>6. /\ op[o].kind = "allow" => p \in allowed'
      /\ op[o].kind # "allow" => p \notin allowed'
      /\ AtGate(op[o], p)
  BY DEF GateAllows, GateRevokes, Allow, Revoke, AtGate
<1>7. p \in allowed' <=> table'[p] # "none"
  BY <1>4, <1>6 DEF Calm
<1>8. \A a, b \in Op : ~(Adding(op'[a], p) /\ Dropping(op'[b], p))
  BY <1>3, <1>5 DEF Calm
<1>9. \A a \in Op : AtGate(op'[a], p) => (op'[a].kind = "allow" <=> table'[p] # "none")
  BY <1>3, <1>4, <1>5 DEF Calm
<1>10. \A a \in Op : Dropping(op'[a], p) => table'[p] # "local"
  BY <1>3, <1>4, <1>5 DEF Calm
<1> QED BY <1>7, <1>8, <1>9, <1>10 DEF Calm, AtGate, Adding, Dropping

AllCalm == \A p \in Peer \ crossed : Calm(p)

LEMMA CalmStep == ASSUME TypeInv, AllCalm, [Next]_vars PROVE AllCalm'
<1> SUFFICES ASSUME NEW p \in Peer, p \notin crossed' PROVE Calm(p)'
  BY DEF AllCalm
<1>1. ASSUME UNCHANGED <<table, allowed, op, crossed>> PROVE Calm(p)'
  BY <1>1 DEF AllCalm, Calm, AtGate, Adding, Dropping
<1>2. ASSUME NEW o \in Op, NEW q \in Peer, Add(o, q) \/ Remove(o, q) PROVE Calm(p)'
  <2>1. CASE q = p BY <1>2, <2>1, CalmSettles
  <2>2. CASE q # p
    <3>1. PICK r : Start(o, r, {q}) /\ r.peer = q /\ r.todo = {}
      BY <1>2, Asked DEF Add, Remove
    <3>2. p \notin crossed /\ allowed' = allowed /\ table'[p] = table[p]
      BY <1>2, <2>2 DEF Add, Remove, Start, TypeInv
    <3>3. ~AtGate(r, p) /\ ~Dropping(r, p) BY <2>2, <3>1 DEF AtGate, Dropping
    <3>4. Calm(p) BY <3>2 DEF AllCalm
    <3> QED BY <2>2, <3>1, <3>2, <3>3, <3>4, CalmStart
  <2> QED BY <2>1, <2>2
<1>3. ASSUME NEW o \in Op, NEW listed \in SUBSET Peer, Sync(o, listed) PROVE Calm(p)'
  <2>1. PICK r : Start(o, r, {}) /\ r.kind = "sync" /\ r.current = table
    BY <1>3, AskedSync DEF Sync
  <2>2. p \notin crossed /\ UNCHANGED <<allowed, table>> BY <1>3, <2>1 DEF Sync, Start
  <2>3. ~AtGate(r, p) /\ (Dropping(r, p) => table[p] # "local") BY <2>1 DEF AtGate, Dropping
  <2>4. Calm(p) BY <2>2 DEF AllCalm
  <2> QED BY <2>1, <2>2, <2>3, <2>4, CalmStart
<1>4. ASSUME NEW o \in Op, NEW q \in Peer, SyncAdds(o, q) \/ SyncDrops(o, q) PROVE Calm(p)'
  <2>1. op[o].kind = "sync" /\ UNCHANGED <<allowed, crossed>> BY <1>4 DEF SyncAdds, SyncDrops
  <2>2. Calm(p) /\ ~AtGate(op[o], p) BY <2>1 DEF AllCalm, AtGate
  <2>3. \/ op' = [op EXCEPT ![o] = Goes(Past(o, q))] /\ table' = table
        \/ \E k \in {"allow", "revoke"} :
             /\ op' = [op EXCEPT ![o] = Turn(o, q, k)]
             /\ k = "allow" => Adding(op[o], q) /\ table' = Inserted(q)
             /\ k = "revoke" => Dropping(op[o], q) /\ table' = Deleted(q)
    <3>1. CASE SyncAdds(o, q) BY <3>1 DEF SyncAdds, Adding
    <3>2. CASE SyncDrops(o, q) BY <3>2 DEF SyncDrops, Dropping
    <3> QED BY <1>4, <3>1, <3>2
  <2>4. CASE op' = [op EXCEPT ![o] = Goes(Past(o, q))] /\ table' = table
    <3>1. PICK r : r = Goes(Past(o, q)) OBVIOUS
    <3>2. Past(o, q) \in Request /\ (Adding(Past(o, q), p) => Adding(op[o], p))
          /\ (Dropping(Past(o, q), p) => Dropping(op[o], p))
      BY <2>1, PastPeer
    <3>3. ~AtGate(r, p) /\ (Adding(r, p) => Adding(op[o], p)) /\ (Dropping(r, p) => Dropping(op[o], p))
      BY <3>1, <3>2, GoesOn
    <3> QED BY <2>1, <2>2, <2>4, <3>1, <3>3, CalmElsewhere
  <2>5. ASSUME NEW k \in {"allow", "revoke"}, op' = [op EXCEPT ![o] = Turn(o, q, k)],
               k = "allow" => Adding(op[o], q) /\ table' = Inserted(q),
               k = "revoke" => Dropping(op[o], q) /\ table' = Deleted(q)
        PROVE  Calm(p)'
    <3>1. CASE q = p
      <4>1. k = "allow" => table'[p] # "none" BY <2>5, <3>1 DEF TypeInv, Inserted
      <4>2. k = "revoke" => table'[p] = "none" BY <2>2, <2>5, <3>1 DEF TypeInv, Calm, Source, Deleted
      <4> QED BY <2>1, <2>2, <2>5, <3>1, <4>1, <4>2, CalmTurn
    <3>2. CASE q # p
      <4>1. PICK r : r = Turn(o, q, k) OBVIOUS
      <4>2. /\ r.peer = q
            /\ Adding(r, p) => Adding(op[o], p)
            /\ Dropping(r, p) => Dropping(op[o], p)
        BY <2>1, <3>2, <4>1, PastPeer
      <4>3. ~AtGate(r, p) /\ table'[p] = table[p] BY <2>5, <3>2, <4>2 DEF AtGate, TypeInv, Inserted, Deleted
      <4> QED BY <2>1, <2>2, <2>5, <4>1, <4>2, <4>3, CalmElsewhere
    <3> QED BY <3>1, <3>2
  <2> QED BY <2>3, <2>4, <2>5
<1>5. ASSUME NEW o \in Op, GateAllows(o) \/ GateRevokes(o) PROVE Calm(p)'
  <2>1. Calm(p) BY <1>5 DEF AllCalm, GateAllows, GateRevokes
  <2>2. CASE op[o].peer = p BY <1>5, <2>1, <2>2, CalmGate
  <2>3. CASE op[o].peer # p
    <3>1. PICK r : r = Goes(op[o]) OBVIOUS
    <3>2. op[o] \in Request BY DEF TypeInv
    <3>3. ~AtGate(r, p) /\ (Adding(r, p) => Adding(op[o], p)) /\ (Dropping(r, p) => Dropping(op[o], p))
      BY <3>1, <3>2, GoesOn
    <3>4. op' = [op EXCEPT ![o] = r] /\ table' = table /\ (p \in allowed' <=> p \in allowed)
      BY <1>5, <2>3, <3>1 DEF GateAllows, GateRevokes, Allow, Revoke
    <3>5. ~AtGate(op[o], p) BY <2>3 DEF AtGate
    <3> QED BY <2>1, <3>3, <3>4, <3>5, CalmElsewhere
  <2> QED BY <2>2, <2>3
<1>6. CASE Restart
  <2>1. \A o \in Op : op'[o] = NoOp BY <1>6 DEF Restart
  <2>2. NoOp.kind = "none" /\ NoOp.todo = {} BY DEF NoOp
  <2>3. \A o \in Op : ~AtGate(op'[o], p) /\ ~Adding(op'[o], p) /\ ~Dropping(op'[o], p)
    BY <2>1, <2>2 DEF AtGate, Adding, Dropping
  <2>4. p \in allowed' <=> table'[p] # "none" BY <1>6 DEF Restart
  <2> QED BY <2>3, <2>4 DEF Calm, AtGate, Adding, Dropping
<1>7. ASSUME NEW c \in Conn, Admit(c) \/ Close(c) \/ \E q \in Peer : Connect(c, q) PROVE Calm(p)'
  BY <1>1, <1>7 DEF Admit, Close, Connect
<1> QED BY <1>1, <1>2, <1>3, <1>4, <1>5, <1>6, <1>7 DEF Next, vars

\* devices/mod.rs: "The table is the allow-list of the server's PeerGate": whenever no request is
\* under way, for every peer that opposed requests did not cross on, however many requests, syncs
\* and restarts there are and in whatever order their statements run.
THEOREM GateHoldsTable == Spec => []GateIsTable
<1>1. Init => TypeInv /\ AllCalm
  <2> SUFFICES ASSUME Init, NEW p \in Peer PROVE Calm(p) BY TypeInit DEF AllCalm
  <2>1. NoOp.kind = "none" /\ NoOp.todo = {} BY DEF NoOp
  <2>2. \A o \in Op : ~AtGate(op[o], p) /\ ~Adding(op[o], p) /\ ~Dropping(op[o], p)
    BY <2>1 DEF Init, AtGate, Adding, Dropping
  <2> QED BY <2>2 DEF Init, Calm
<1>2. TypeInv /\ AllCalm /\ [Next]_vars => (TypeInv /\ AllCalm)'
  BY TypeStep, CalmStep
<1>3. TypeInv /\ AllCalm => GateIsTable
  <2> SUFFICES ASSUME AllCalm, \A o \in Op : op[o] = NoOp, NEW p \in Peer \ crossed
               PROVE  p \in allowed <=> table[p] # "none"
    BY DEF GateIsTable
  <2>1. \A o \in Op : ~AtGate(op[o], p) BY DEF AtGate, NoOp
  <2> QED BY <2>1 DEF AllCalm, Calm
<1> QED BY <1>1, <1>2, <1>3, PTL DEF Spec
=============================================================================
