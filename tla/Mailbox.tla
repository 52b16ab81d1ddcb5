------------------------------ MODULE Mailbox -------------------------------
(***************************************************************************)
(* What agent-to-agent messaging promises, without how it is done: a       *)
(* durable mailbox per session that hands out messages oldest first, keeps *)
(* each one until it is acknowledged, and hands one out again only after a *)
(* fault (a restart of the server, or a failed write of the receipt).      *)
(***************************************************************************)
EXTENDS Integers, Sequences, FiniteSets

CONSTANT Session

VARIABLES posted,   \* Seq(Session): the addressee of every message, oldest first
          acked,    \* indices of posted that need not be handed out again
          given,    \* [Session -> Seq(index of posted)]: what each session was given
          faults    \* faults so far

mvars == <<posted, acked, given, faults>>

Init ==
    /\ posted = <<>>
    /\ acked = {}
    /\ given = [t \in Session |-> <<>>]
    /\ faults = 0

Pending(t) == {i \in 1..Len(posted) : posted[i] = t /\ i \notin acked}

Copies(t, i) == Cardinality({n \in 1..Len(given[t]) : given[t][n] = i})

Post(t) ==
    /\ posted' = Append(posted, t)
    /\ UNCHANGED <<acked, given, faults>>

\* b lists the oldest pending messages, all of them up to some point, in order.
OldestPending(t, b) ==
    /\ b # <<>>
    /\ \A n \in 1..Len(b) : b[n] \in Pending(t)
    /\ \A m, n \in 1..Len(b) : m < n => b[m] < b[n]
    /\ \A i \in Pending(t) : i < b[Len(b)] => \E n \in 1..Len(b) : b[n] = i

Give(t) ==
    /\ \E n \in 1..Cardinality(Pending(t)) : \E b \in [1..n -> Pending(t)] :
          /\ OldestPending(t, b)
          /\ \A i \in 1..n : Copies(t, b[i]) <= faults
          /\ given' = [given EXCEPT ![t] = @ \o b]
    /\ UNCHANGED <<posted, acked, faults>>

Ack(t) ==
    /\ \E S \in SUBSET Pending(t) :
          /\ \A i \in S : Copies(t, i) > 0
          /\ acked' = acked \cup S
    /\ UNCHANGED <<posted, given, faults>>

Fault ==
    /\ faults' = faults + 1
    /\ UNCHANGED <<posted, acked, given>>

Next == (\E t \in Session : Post(t) \/ Give(t) \/ Ack(t)) \/ Fault

Spec == Init /\ [][Next]_mvars
=============================================================================
