------------------------------- MODULE Dialer -------------------------------
(* The dialing side's connection cache for one peer and one service            *)
(* (transport/src/dialer.rs): a call takes the cached connection or dials,     *)
(* opens its stream, and on a failure forgets what is cached and tries once    *)
(* more. Every connection has a watcher task that drops the cache entry when   *)
(* the connection has ended.                                                   *)
EXTENDS Naturals

CONSTANTS Call,      \* calls of open_bi
          None,
          MaxConn,   \* connections that are ever dialled
          MaxLoss    \* connections the network or the peer ends

VARIABLES cache, conn, pc, has, dialled, lost,
          latest     \* the connection put into the cache last

vars == <<cache, conn, pc, has, dialled, lost, latest>>

Id == 1..MaxConn

TypeOK ==
  /\ cache \in 0..MaxConn
  /\ conn \in [Id -> {"none", "dialling", "open", "ended", "noticed"}]
  /\ pc \in [Call -> {"idle", "dialling", "has", "retry", "streaming", "failed"}]
  /\ has \in [Call -> [id : 0..MaxConn, again : BOOLEAN]]
  /\ dialled \in 0..MaxConn /\ lost \in 0..MaxLoss /\ latest \in 0..MaxConn

Init ==
  /\ cache = 0 /\ conn = [i \in Id |-> "none"]
  /\ pc = [k \in Call |-> "idle"] /\ has = [k \in Call |-> [id |-> 0, again |-> FALSE]]
  /\ dialled = 0 /\ lost = 0 /\ latest = 0

\* connection: the cached one, or a dial. The lock is not held while dialling.
Take(k) ==
  /\ pc[k] \in {"idle", "retry"}
  /\ IF cache # 0
     THEN /\ has' = [has EXCEPT ![k] = [id |-> cache, again |-> pc[k] = "retry"]]
          /\ pc' = [pc EXCEPT ![k] = "has"]
          /\ UNCHANGED <<conn, dialled>>
     ELSE /\ dialled < MaxConn
          /\ dialled' = dialled + 1
          /\ conn' = [conn EXCEPT ![dialled + 1] = "dialling"]
          /\ has' = [has EXCEPT ![k] = [id |-> dialled + 1, again |-> pc[k] = "retry"]]
          /\ pc' = [pc EXCEPT ![k] = "dialling"]
  /\ UNCHANGED <<cache, lost, latest>>

Dialled(k) ==
  /\ pc[k] = "dialling"
  /\ conn' = [conn EXCEPT ![has[k].id] = "open"]
  /\ cache' = has[k].id /\ latest' = has[k].id
  /\ pc' = [pc EXCEPT ![k] = "has"]
  /\ UNCHANGED <<has, dialled, lost>>

DialFails(k) ==
  /\ pc[k] = "dialling"
  /\ conn' = [conn EXCEPT ![has[k].id] = "noticed"]
  /\ pc' = [pc EXCEPT ![k] = "failed"]
  /\ UNCHANGED <<cache, has, dialled, lost, latest>>

Opened(k) ==
  /\ pc[k] = "has" /\ conn[has[k].id] = "open"
  /\ pc' = [pc EXCEPT ![k] = "streaming"]
  /\ UNCHANGED <<cache, conn, has, dialled, lost, latest>>

\* forget: closes whatever is cached, the connection that failed or another.
Closed == IF cache = 0 THEN conn ELSE [conn EXCEPT ![cache] = IF @ = "open" THEN "ended" ELSE @]

\* open_bi failed: forget the cached connection and dial once more.
OpenFails(k) ==
  /\ pc[k] = "has" /\ conn[has[k].id] # "open"
  /\ IF has[k].again
     THEN pc' = [pc EXCEPT ![k] = "failed"] /\ UNCHANGED <<cache, conn>>
     ELSE /\ pc' = [pc EXCEPT ![k] = "retry"]
          /\ conn' = Closed /\ cache' = 0
  /\ UNCHANGED <<has, dialled, lost, latest>>

Disconnect ==
  /\ cache # 0 /\ lost < MaxLoss
  /\ conn' = Closed /\ cache' = 0 /\ lost' = lost + 1
  /\ UNCHANGED <<pc, has, dialled, latest>>

Loses(i) ==
  /\ conn[i] = "open" /\ lost < MaxLoss
  /\ conn' = [conn EXCEPT ![i] = "ended"] /\ lost' = lost + 1
  /\ UNCHANGED <<cache, pc, has, dialled, latest>>

Forgets(i) == IF cache = i THEN 0 ELSE cache

\* The watcher task: the entry goes only if it is still this connection's.
Watcher(i) ==
  /\ conn[i] = "ended"
  /\ conn' = [conn EXCEPT ![i] = "noticed"]
  /\ cache' = Forgets(i)
  /\ UNCHANGED <<pc, has, dialled, lost, latest>>

StreamEnds(k) ==
  /\ pc[k] = "streaming"
  /\ pc' = [pc EXCEPT ![k] = "idle"]
  /\ UNCHANGED <<cache, conn, has, dialled, lost, latest>>

Step(k) == Take(k) \/ Dialled(k) \/ Opened(k) \/ OpenFails(k)
Next == \/ \E k \in Call : Step(k) \/ DialFails(k) \/ StreamEnds(k)
        \/ \E i \in Id : Loses(i) \/ Watcher(i)
        \/ Disconnect
Spec == Init /\ [][Next]_vars

-----------------------------------------------------------------------------
\* The connection cached last is found by the next call for as long as it is open.
LatestOpenIsCached == latest # 0 /\ conn[latest] = "open" => cache = latest

=============================================================================
