------------------------------ MODULE ChatGpt ------------------------------
(***************************************************************************)
(* Sign in with ChatGPT (chatgpt/mod.rs, store.rs, oauth.rs): the row of   *)
(* one ChatGPT account, its rotating refresh token, the calls that refresh *)
(* or use it, the sign-ins that write it and the sign-out that deletes it. *)
(* Every await on OpenAI is a step boundary, and so is the gap between two *)
(* statements on the store.                                                *)
(***************************************************************************)
EXTENDS Naturals, FiniteSets

CONSTANTS
    Caller,          \* calls of access_token, refresh and responses
    SignIn,          \* states of started sign-ins
    Reauth,          \* those that sign the existing account in again
    Callback,        \* callbacks of a sign-in: the redirect, the pasted URL
    None,
    MaxCall, MaxExpire, MaxLost, MaxFail   \* bounds: calls, expiries, lost answers, refusals by OpenAI

VARIABLES
    row,       \* the account's row: exists, id, status, token (0: no refresh token), fresh access token
    lock,      \* refresh_lock: a caller, or None
    call,      \* callers: step, forced, the token it presents or got
    live,      \* refresh tokens OpenAI accepts
    used,      \* refresh tokens that were presented
    reused,    \* one was presented again
    issued,    \* number of refresh tokens OpenAI issued
    pending,   \* sign-ins waiting for their callback
    outcome,   \* outcome of each sign-in
    target,    \* the account a sign-in started for
    cb,        \* callbacks: step and result of the exchange
    saved,     \* sign-ins whose tokens were stored
    out,       \* sign_out: "no", "read", "delete", and the token it read
    panic,     \* save_sign_in found no row after writing it
    count

vars == <<row, lock, call, live, used, reused, issued, pending, outcome, target, cb, saved, out, panic, count>>

NoRow == [exists |-> FALSE, id |-> 0, status |-> "signed_out", token |-> None, fresh |-> FALSE]
Idle == [step |-> "idle", force |-> FALSE, token |-> None, id |-> 0]

TypeOK ==
    /\ row.exists \in BOOLEAN /\ row.status \in {"signed_in", "signed_out", "not_eligible"}
    /\ lock \in Caller \cup {None} /\ pending \subseteq SignIn /\ saved \subseteq SignIn
    /\ \A c \in Caller : call[c].step \in {"idle", "wait", "present", "ok", "refused", "error", "respond"}
    /\ \A s \in SignIn : outcome[s] \in {"none", "pending", "signed_in", "failed"}

\* The account is signed in, or no account exists yet.
Init ==
    /\ \/ row = NoRow /\ live = {} /\ issued = 0
       \/ row = [exists |-> TRUE, id |-> 0, status |-> "signed_in", token |-> 1, fresh |-> TRUE] /\ live = {1} /\ issued = 1
    /\ lock = None /\ call = [c \in Caller |-> Idle] /\ used = {} /\ reused = FALSE
    /\ pending = {} /\ outcome = [s \in SignIn |-> "none"] /\ target = [s \in SignIn |-> None] /\ saved = {} /\ panic = FALSE
    /\ cb = [x \in SignIn \X Callback |-> [step |-> "none", token |-> None, existing |-> None]]
    /\ out = [step |-> "no", token |-> None] /\ count = [call |-> 0, expire |-> 0, lost |-> 0, fail |-> 0]

Goes(c, step) == call' = [call EXCEPT ![c].step = step]
Ends(c) == call' = [call EXCEPT ![c] = Idle]
Bounded(field, max) == count[field] < max /\ count' = [count EXCEPT ![field] = @ + 1]

-----------------------------------------------------------------------------
(* Refreshing *)

\* The access token comes within REFRESH_MARGIN of its end (needs_refresh).
Expire ==
    /\ row.fresh /\ row' = [row EXCEPT !.fresh = FALSE] /\ Bounded("expire", MaxExpire)
    /\ UNCHANGED <<lock, call, live, used, reused, issued, pending, outcome, target, cb, saved, out, panic>>

\* access_token of a signed-in account whose token is due, or a refresh on demand.
BeginRefresh(c, force) ==
    /\ call[c].step = "idle" /\ row.exists /\ Bounded("call", MaxCall)
    /\ ~force => (row.status = "signed_in" /\ row.token # None /\ ~row.fresh)
    /\ call' = [call EXCEPT ![c] = [step |-> "wait", force |-> force, token |-> None, id |-> row.id]]
    /\ UNCHANGED <<row, lock, live, used, reused, issued, pending, outcome, target, cb, saved, out, panic>>

\* The row an UPDATE of the call's account finds.
Its(c) == row.exists /\ row.id = call[c].id

\* clear_tokens
Cleared(c) == IF Its(c) THEN [row EXCEPT !.status = "signed_out", !.token = None, !.fresh = FALSE] ELSE row

\* As MayRefresh, for refreshes that do not wait for each other.
MayRefreshFault(c) == call[c].step = "wait"

MayRefresh(c) == call[c].step = "wait" /\ lock = None

\* Under the lock: the stored tokens are read again, and another call's refresh is enough.
RefreshLocked(c) ==
    /\ MayRefresh(c)
    /\ IF ~Its(c) \/ row.token = None \/ (~call[c].force /\ row.fresh)
       THEN Ends(c) /\ UNCHANGED <<row, lock>>
       ELSE IF row.token = 0
       THEN row' = Cleared(c) /\ Ends(c) /\ UNCHANGED lock
       ELSE lock' = c /\ call' = [call EXCEPT ![c].step = "present", ![c].token = row.token] /\ UNCHANGED row
    /\ UNCHANGED <<live, used, reused, issued, pending, outcome, target, cb, saved, out, panic, count>>

\* OpenAI rotates the token it is shown, or refuses one that is dead.
Rotate(c) ==
    /\ call[c].step = "present"
    /\ used' = used \cup {call[c].token} /\ reused' = (reused \/ call[c].token \in used)
    /\ IF call[c].token \in live
       THEN /\ issued' = issued + 1 /\ live' = (live \ {call[c].token}) \cup {issued + 1}
            /\ call' = [call EXCEPT ![c].step = "ok", ![c].token = issued + 1]
       ELSE Goes(c, "refused") /\ UNCHANGED <<issued, live>>
    /\ UNCHANGED <<row, lock, pending, outcome, target, cb, saved, out, panic, count>>

\* A server error that consumes nothing, or an answer that is lost after the rotation.
RefreshError(c) ==
    /\ call[c].step = "present" /\ Bounded("fail", MaxFail) /\ Goes(c, "error")
    /\ UNCHANGED <<row, lock, live, used, reused, issued, pending, outcome, target, cb, saved, out, panic>>

AnswerLost(c) ==
    /\ call[c].step = "ok" /\ Bounded("lost", MaxLost) /\ Goes(c, "error")
    /\ UNCHANGED <<row, lock, live, used, reused, issued, pending, outcome, target, cb, saved, out, panic>>

\* save_refresh: the row's tokens, whatever its status.
Refreshed(c) == IF Its(c) THEN [row EXCEPT !.token = call[c].token, !.fresh = TRUE] ELSE row

\* The answer is stored: new tokens, or none after a dead refresh token.
RefreshDone(c) ==
    /\ call[c].step \in {"ok", "refused", "error"}
    /\ row' = CASE call[c].step = "ok" -> Refreshed(c) [] call[c].step = "refused" -> Cleared(c) [] OTHER -> row
    /\ lock' = IF lock = c THEN None ELSE lock
    /\ Ends(c) /\ UNCHANGED <<live, used, reused, issued, pending, outcome, target, cb, saved, out, panic, count>>

-----------------------------------------------------------------------------
(* Plan usage *)

Respond(c) ==
    /\ call[c].step = "idle" /\ row.exists /\ row.status = "signed_in" /\ row.token # None /\ row.fresh
    /\ Bounded("call", MaxCall) /\ call' = [call EXCEPT ![c].step = "respond", ![c].id = row.id]
    /\ UNCHANGED <<row, lock, live, used, reused, issued, pending, outcome, target, cb, saved, out, panic>>

\* The reply completes, or OpenAI says something about the account (classify).
Responded(c) ==
    /\ call[c].step = "respond" /\ Ends(c)
    /\ UNCHANGED <<row, lock, live, used, reused, issued, pending, outcome, target, cb, saved, out, panic, count>>

NotEligible(c) ==
    /\ call[c].step = "respond" /\ Ends(c) /\ Bounded("fail", MaxFail)
    /\ row' = IF Its(c) THEN [row EXCEPT !.status = "not_eligible"] ELSE row
    /\ UNCHANGED <<lock, live, used, reused, issued, pending, outcome, target, cb, saved, out, panic>>

InvalidUser(c) ==
    /\ call[c].step = "respond" /\ Ends(c) /\ Bounded("fail", MaxFail) /\ row' = Cleared(c)
    /\ UNCHANGED <<lock, live, used, reused, issued, pending, outcome, target, cb, saved, out, panic>>

-----------------------------------------------------------------------------
(* Signing in and out *)

StartSignIn(s) ==
    /\ outcome[s] = "none" /\ (s \in Reauth => row.exists)
    /\ pending' = pending \cup {s} /\ outcome' = [outcome EXCEPT ![s] = "pending"]
    /\ target' = [target EXCEPT ![s] = IF s \in Reauth THEN row.id ELSE None]
    /\ UNCHANGED <<row, lock, call, live, used, reused, issued, cb, saved, out, panic, count>>

\* PENDING_TTL passes before the callback.
Forgotten(s) ==
    /\ s \in pending /\ pending' = pending \ {s}
    /\ UNCHANGED <<row, lock, call, live, used, reused, issued, outcome, target, cb, saved, out, panic, count>>

\* An unknown state consumes nothing.
Unknown(s) == UNCHANGED outcome

\* complete_signin: the callback takes the pending sign-in, and only one can.
TakePending(s, k) ==
    /\ outcome[s] # "none" /\ cb[s, k].step = "none"
    /\ IF s \in pending
       THEN cb' = [cb EXCEPT ![s, k].step = "exchange"] /\ pending' = pending \ {s} /\ UNCHANGED outcome
       ELSE cb' = [cb EXCEPT ![s, k].step = "done"] /\ Unknown(s) /\ UNCHANGED pending
    /\ UNCHANGED <<row, lock, call, live, used, reused, issued, target, saved, out, panic, count>>

\* The code is exchanged for tokens, with or without a refresh token, or refused.
Exchange(s, k, offline) ==
    /\ cb[s, k].step = "exchange"
    /\ issued' = issued + 1 /\ live' = IF offline THEN live \cup {issued + 1} ELSE live
    /\ cb' = [cb EXCEPT ![s, k].step = "find", ![s, k].token = IF offline THEN issued + 1 ELSE 0]
    /\ UNCHANGED <<row, lock, call, used, reused, pending, outcome, target, saved, out, panic, count>>

ExchangeFails(s, k) ==
    /\ cb[s, k].step = "exchange" /\ Bounded("fail", MaxFail) /\ cb' = [cb EXCEPT ![s, k].step = "failed"]
    /\ UNCHANGED <<row, lock, call, live, used, reused, issued, pending, outcome, target, saved, out, panic>>

\* The row it belongs to: the account of a reauth, or one of the same identity.
FindRow(s, k) ==
    /\ cb[s, k].step = "find"
    /\ LET mine == row.exists /\ target[s] \in {None, row.id}
       IN cb' = [cb EXCEPT ![s, k].step = IF s \in Reauth /\ ~mine THEN "failed" ELSE "save",
                           ![s, k].existing = IF mine THEN row.id ELSE None]
    /\ UNCHANGED <<row, lock, call, live, used, reused, issued, pending, outcome, target, saved, out, panic, count>>

\* save_sign_in: an UPDATE of the row found, or an INSERT that the identity's index may refuse.
SaveSignIn(s, k) ==
    /\ cb[s, k].step = "save"
    /\ LET signed == [exists |-> TRUE, id |-> row.id, status |-> "signed_in", token |-> cb[s, k].token, fresh |-> TRUE]
           found == row.exists /\ row.id = cb[s, k].existing
           ok == IF cb[s, k].existing = None THEN ~row.exists ELSE found
       IN /\ row' = IF ok THEN signed ELSE row
          /\ panic' = (panic \/ (cb[s, k].existing # None /\ ~found))
          /\ cb' = [cb EXCEPT ![s, k].step = IF ok THEN "saved" ELSE IF cb[s, k].existing = None THEN "failed" ELSE "panicked"]
          /\ saved' = IF ok THEN saved \cup {s} ELSE saved
    /\ UNCHANGED <<lock, call, live, used, reused, issued, pending, outcome, target, out, count>>

RecordOutcome(s, k) ==
    /\ cb[s, k].step \in {"saved", "failed"}
    /\ outcome' = [outcome EXCEPT ![s] = IF cb[s, k].step = "saved" THEN "signed_in" ELSE "failed"]
    /\ cb' = [cb EXCEPT ![s, k].step = "done"]
    /\ UNCHANGED <<row, lock, call, live, used, reused, issued, pending, target, saved, out, panic, count>>

SignOut ==
    /\ out.step = "no" /\ row.exists /\ out' = [step |-> "read", token |-> row.token]
    /\ UNCHANGED <<row, lock, call, live, used, reused, issued, pending, outcome, target, cb, saved, panic, count>>

\* The revocation is best effort.
Revoke(ok) ==
    /\ out.step = "read" /\ out' = [out EXCEPT !.step = "delete"]
    /\ live' = IF ok THEN live \ {out.token} ELSE live
    /\ UNCHANGED <<row, lock, call, used, reused, issued, pending, outcome, target, cb, saved, panic, count>>

Delete ==
    /\ out.step = "delete" /\ out' = [out EXCEPT !.step = "done"] /\ row' = [NoRow EXCEPT !.id = row.id + 1]
    /\ UNCHANGED <<lock, call, live, used, reused, issued, pending, outcome, target, cb, saved, panic, count>>

Next ==
    \/ Expire \/ SignOut \/ Delete \/ \E ok \in BOOLEAN : Revoke(ok)
    \/ \E c \in Caller : \/ \E f \in BOOLEAN : BeginRefresh(c, f)
                         \/ RefreshLocked(c) \/ Rotate(c) \/ RefreshError(c) \/ AnswerLost(c) \/ RefreshDone(c)
                         \/ Respond(c) \/ Responded(c) \/ NotEligible(c) \/ InvalidUser(c)
    \/ \E s \in SignIn : StartSignIn(s) \/ Forgotten(s)
    \/ \E s \in SignIn, k \in Callback : \/ TakePending(s, k) \/ ExchangeFails(s, k) \/ FindRow(s, k) \/ SaveSignIn(s, k)
                                         \/ RecordOutcome(s, k) \/ \E o \in BOOLEAN : Exchange(s, k, o)

Spec == Init /\ [][Next]_vars

-----------------------------------------------------------------------------
\* A refresh token is presented once, however many calls find the access token due, unless its answer was lost or an
\* attempt failed before it.
PresentedOnce == count.lost + count.fail = 0 => ~reused

\* The stored refresh token is one OpenAI accepts, whatever sign-ins and refreshes overlap: no answer was lost, no
\* refresh is under way and nobody signed out.
StoredTokenLives ==
    (count.lost = 0 /\ lock = None /\ out.step = "no" /\ row.token \notin {None, 0}) => row.token \in live

\* A sign-in whose tokens were stored is reported as signed in, and none other is.
OutcomeTrue == \A s \in SignIn :
    /\ outcome[s] = "signed_in" => s \in saved
    /\ outcome[s] = "failed" => s \notin saved

=============================================================================
