------------------------------ MODULE Accounts ------------------------------
(* The agent accounts of the server (server/src/accounts/mod.rs, api.rs):      *)
(* rows and their private directories, the router that gives a new session     *)
(* its account, and the hook that marks rate limits from stored events. The    *)
(* database is locked for single statements only, so a request, a session      *)
(* creation and an event hook each take several steps.                         *)
EXTENDS Naturals, FiniteSets

CONSTANTS MaxAccount,  \* accounts that are ever created, numbered by age
          Session,     \* sessions that clients create
          Request,     \* requests of the accounts API
          None,
          Cooldown,    \* DEFAULT_COOLDOWN_MS
          MaxNow,      \* the clock
          MaxEvent     \* stored events that reach the hook

VARIABLES row,     \* the accounts table
          dir,     \* the accounts' directories
          sess,    \* session creations: where they are, what the router saw, the account
          hook,    \* per session, the limit that an Error is about to set, Clear, or 0
          req,     \* API requests
          used,    \* tokens reported today
          now, events

vars == <<row, dir, sess, hook, req, used, now, events>>

Account == 1..MaxAccount
Rows == {a \in Account : row[a] # None}

\* `structured` says which event set the limit (the code keeps only its text); `late`, a history,
\* whose Errors had found no limit and were still to be marked when it was set.
Fresh == [status |-> "unknown", dflt |-> FALSE, until |-> 0, structured |-> FALSE, late |-> {}]
LimitedAt(r, t) == r.until > t

Clear == MaxNow + Cooldown + 1

TypeOK ==
  /\ \A a \in Rows : /\ row[a].status \in {"unknown", "logged_in", "logged_out"} /\ row[a].dflt \in BOOLEAN
                     /\ row[a].until \in 0..(MaxNow + Cooldown) /\ row[a].structured \in BOOLEAN
                     /\ row[a].late \subseteq Session
  /\ dir \in [Account -> BOOLEAN]
  /\ \A s \in Session : /\ sess[s].pc \in {"new", "listed", "routed", "made", "failed"}
                        /\ sess[s].acct \in Account \cup {None}
  /\ hook \in [Session -> 0..Clear]
  /\ \A r \in Request : /\ req[r].pc \in {"idle", "mkdir", "found", "asked", "rmdir", "done"}
                        /\ req[r].acct \in Account \cup {None}
  /\ used \in [Account -> 0..MaxEvent] /\ now \in 1..MaxNow /\ events \in 0..MaxEvent

Init ==
  /\ row = [a \in Account |-> None] /\ dir = [a \in Account |-> FALSE]
  /\ sess = [s \in Session |-> [pc |-> "new", at |-> 0, seen |-> {}, acct |-> None]]
  /\ hook = [s \in Session |-> 0]
  /\ req = [r \in Request |-> [pc |-> "idle", kind |-> None, acct |-> None]]
  /\ used = [a \in Account |-> 0] /\ now = 1 /\ events = 0

-----------------------------------------------------------------------------
(* The accounts API. *)

Made == {req[q].acct : q \in {q \in Request : req[q].kind = "create"}}

\* create makes the directory of a fresh id, and then the row.
CreateDir(r, a) ==
  /\ req[r].pc = "idle" /\ a \notin Made /\ \A b \in Account : b < a => b \in Made
  /\ dir' = [dir EXCEPT ![a] = TRUE]
  /\ req' = [req EXCEPT ![r] = [pc |-> "mkdir", kind |-> "create", acct |-> a]]
  /\ UNCHANGED <<row, sess, hook, used, now, events>>

CreateRow(r) ==
  /\ req[r].pc = "mkdir"
  /\ row' = [row EXCEPT ![req[r].acct] = Fresh]
  /\ req' = [req EXCEPT ![r].pc = "done"]
  /\ UNCHANGED <<dir, sess, hook, used, now, events>>

\* Every other request first gets the account.
Found(r, kind, a) ==
  /\ req[r].pc = "idle" /\ a \in Rows
  /\ req' = [req EXCEPT ![r] = [pc |-> "found", kind |-> kind, acct |-> a]]
  /\ UNCHANGED <<row, dir, sess, hook, used, now, events>>

Users(a) == {s \in Session : sess[s].pc = "made" /\ sess[s].acct = a}

\* The sessions that hold an account are counted under the lock that deletes it.
CanDelete(a) == Users(a) = {}

DeleteRow(r) ==
  /\ req[r].pc = "found" /\ req[r].kind = "delete"
  /\ IF CanDelete(req[r].acct)
     THEN /\ row' = [row EXCEPT ![req[r].acct] = None]
          /\ req' = [req EXCEPT ![r].pc = "rmdir"]
     ELSE req' = [req EXCEPT ![r].pc = "done"] /\ UNCHANGED row
  /\ UNCHANGED <<dir, sess, hook, used, now, events>>

DeleteDir(r) ==
  /\ req[r].pc = "rmdir"
  /\ dir' = [dir EXCEPT ![req[r].acct] = FALSE]
  /\ req' = [req EXCEPT ![r].pc = "done"]
  /\ UNCHANGED <<row, sess, hook, used, now, events>>

\* One transaction: no other account of the agent stays the default.
SetDefault(r) ==
  /\ req[r].pc = "found" /\ req[r].kind = "default"
  /\ row' = [a \in Account |-> IF row[a] = None THEN None ELSE [row[a] EXCEPT !.dflt = (a = req[r].acct)]]
  /\ req' = [req EXCEPT ![r].pc = "done"]
  /\ UNCHANGED <<dir, sess, hook, used, now, events>>

Update(a, f) == row' = [row EXCEPT ![a] = IF @ = None THEN None ELSE f]

\* check_login waits for the agent's own status command, which may fail or take too long.
CheckLogin(r) ==
  /\ req[r].pc = "found" /\ req[r].kind = "check"
  /\ \/ \E status \in {"logged_in", "logged_out"} : Update(req[r].acct, [row[req[r].acct] EXCEPT !.status = status])
     \/ UNCHANGED row
  /\ req' = [req EXCEPT ![r].pc = "done"]
  /\ UNCHANGED <<dir, sess, hook, used, now, events>>

Cleared(a) == Update(a, [row[a] EXCEPT !.until = 0, !.structured = FALSE, !.late = {}])

ClearLimit(r) ==
  /\ req[r].pc = "found" /\ req[r].kind = "clear"
  /\ Cleared(req[r].acct)
  /\ req' = [req EXCEPT ![r].pc = "done"]
  /\ UNCHANGED <<dir, sess, hook, used, now, events>>

-----------------------------------------------------------------------------
(* A new session: the router lists the accounts, reads today's tokens, and     *)
(* the session is stored with its choice.                                      *)

\* A requested account is used as it is, limited or not.
Requested(s, a) ==
  /\ sess[s].pc = "new" /\ a \in Rows
  /\ sess' = [sess EXCEPT ![s] = [@ EXCEPT !.pc = "routed", !.acct = a]]
  /\ UNCHANGED <<row, dir, hook, req, used, now, events>>

List(s) ==
  /\ sess[s].pc = "new"
  /\ sess' = [sess EXCEPT ![s].pc = IF Rows = {} THEN "routed" ELSE "listed", ![s].at = now,
                          ![s].seen = {[id |-> a, r |-> row[a]] : a \in Rows}]
  /\ UNCHANGED <<row, dir, hook, req, used, now, events>>

Available(s) ==
  {c \in sess[s].seen : ~LimitedAt(c.r, sess[s].at) /\ c.r.status # "logged_out"}

\* tokens_today: what the stored usage events of the account's sessions add up to.
Spent(c) == used[c.id]

Rank(c, d) ==
  \/ Spent(c) < Spent(d)
  \/ Spent(c) = Spent(d) /\ c.r.dflt /\ ~d.r.dflt
  \/ Spent(c) = Spent(d) /\ c.r.dflt = d.r.dflt /\ c.id <= d.id

Best(s) == CHOOSE c \in Available(s) : \A d \in Available(s) : Rank(c, d)

Route(s) ==
  /\ sess[s].pc = "listed"
  /\ sess' = IF Available(s) = {} THEN [sess EXCEPT ![s].pc = "failed"]
             ELSE [sess EXCEPT ![s].pc = "routed", ![s].acct = Best(s).id, ![s].seen = {}]
  /\ UNCHANGED <<row, dir, hook, req, used, now, events>>

Store(s) ==
  /\ sess[s].pc = "routed"
  /\ sess' = [sess EXCEPT ![s].pc = "made"]
  /\ UNCHANGED <<row, dir, hook, req, used, now, events>>

-----------------------------------------------------------------------------
(* The hook that sees every stored event of an account's session. *)

Heard(s) ==
  /\ sess[s].pc = "made" /\ sess[s].acct # None /\ hook[s] = 0 /\ events < MaxEvent
  /\ events' = events + 1

Until(reset) == IF reset = 0 THEN now + Cooldown ELSE reset
Marking(a) == {s \in Session : sess[s].acct = a /\ hook[s] \notin {0, Clear}}
SetLimit(a, until, structured) ==
  Update(a, [row[a] EXCEPT !.until = until, !.structured = structured,
                           !.late = IF structured THEN Marking(a) ELSE {}])

RateLimited(s, reset) ==
  /\ Heard(s)
  /\ SetLimit(sess[s].acct, Until(reset), TRUE)
  /\ UNCHANGED <<dir, sess, hook, req, used, now>>

\* An Error whose text looks like a limit marks the account only if it is not limited already.
Already(a) == row[a] # None /\ LimitedAt(row[a], now)

Error(s, reset) ==
  /\ Heard(s)
  /\ hook' = [hook EXCEPT ![s] = IF Already(sess[s].acct) THEN 0 ELSE Until(reset)]
  /\ UNCHANGED <<row, dir, sess, req, used, now>>

ErrorSets(s) ==
  /\ hook[s] \notin {0, Clear}
  /\ SetLimit(sess[s].acct, hook[s], FALSE)
  /\ hook' = [hook EXCEPT ![s] = 0]
  /\ UNCHANGED <<dir, sess, req, used, now, events>>

\* A turn reports its tokens and, completed, clears the mark if it finds one.
TurnEnded(s) ==
  /\ Heard(s)
  /\ hook' = [hook EXCEPT ![s] = IF row[sess[s].acct] # None /\ row[sess[s].acct].until # 0 THEN Clear ELSE 0]
  /\ used' = [used EXCEPT ![sess[s].acct] = @ + 1]
  /\ UNCHANGED <<row, dir, sess, req, now>>

TurnClears(s) ==
  /\ hook[s] = Clear
  /\ Cleared(sess[s].acct)
  /\ hook' = [hook EXCEPT ![s] = 0]
  /\ UNCHANGED <<dir, sess, req, used, now, events>>

Tick == now < MaxNow /\ now' = now + 1 /\ UNCHANGED <<row, dir, sess, hook, req, used, events>>

Next ==
  \/ \E r \in Request :
       \/ \E a \in Account : CreateDir(r, a) \/ \E k \in {"delete", "default", "check", "clear"} : Found(r, k, a)
       \/ CreateRow(r) \/ DeleteRow(r) \/ DeleteDir(r) \/ SetDefault(r) \/ CheckLogin(r) \/ ClearLimit(r)
  \/ \E s \in Session :
       \/ (\E a \in Account : Requested(s, a)) \/ List(s) \/ Route(s) \/ Store(s)
       \/ (\E reset \in {0} \cup now..MaxNow : RateLimited(s, reset) \/ Error(s, reset))
       \/ ErrorSets(s) \/ TurnEnded(s) \/ TurnClears(s)
  \/ Tick

Spec == Init /\ [][Next]_vars

-----------------------------------------------------------------------------
(* Properties *)

\* A session whose account is there keeps it: no delete removes an account that a stored
\* session uses, however its count interleaves with a session's creation (delete, FR-U2).
SessionKeepsAccount ==
  \A s \in Session : sess[s].pc = "made" /\ sess[s].acct # None
        => (row[sess[s].acct] # None => row'[sess[s].acct] # None)

\* While a limit set from a structured RateLimited is in force, no Error's text replaces it
\* (on_event: "A structured `RateLimited` (which may carry the reset) wins."), unless the Error, of
\* another session of the account, had found no limit before that one was set.
StructuredWins ==
  \A a \in Account : row[a] # None /\ row'[a] # None
        => (row[a].structured /\ LimitedAt(row[a], now) /\ ~row'[a].structured =>
              \/ row'[a].until = 0
              \/ \E s \in row[a].late : hook[s] = row'[a].until /\ hook'[s] = 0)
=============================================================================
