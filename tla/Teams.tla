------------------------------- MODULE Teams -------------------------------
(***************************************************************************)
(* Agent teams (a2a/team.rs): the member, task and mail rows, and the      *)
(* requests that read them, check them and change them.  Each store call   *)
(* holds the database connection only for itself, and the server's threads *)
(* run requests at the same time, so every store call of a request is a    *)
(* step of its own; a request is an element of Request.  A team is named   *)
(* by its leader's session (leader_session is UNIQUE).                     *)
(***************************************************************************)
EXTENDS Order

CONSTANTS
    Leader,        \* sessions that spawn
    Mate,          \* ids of the sessions a spawn creates
    Name,          \* teammate names
    Lower,         \* a name without its case, of each name and of "lead"
    Request,       \* requests that can be in progress at once
    MaxTeammates,  \* MAX_TEAMMATES
    SpawnRate,     \* limits.per_session, for joins; the window outlasts the behaviour
    MailPage,      \* MAIL_PAGE
    MaxRequest, MaxTask, MaxMail, MaxRead  \* bounds

VARIABLES
    led,      \* teams rows
    row,      \* team_members rows
    made,     \* sessions created
    archived, \* sessions archived
    agent,    \* sessions whose agent was started and not stopped since
    notices,  \* "was ended by" notices recorded per session
    tasks,    \* team_tasks rows, in id order
    mail,     \* team_mail rows, in id order
    msgs,     \* A2A messages stored: [from, to]
    box,      \* what a member has read of its mail: cursor and ids, and the first read's oldest id
    req,      \* requests in progress
    count     \* requests begun, mail reads

vars == <<led, row, made, archived, agent, notices, tasks, mail, msgs, box, req, count>>

Void == "none"
Session == Leader \cup Mate
NoRow == [team |-> Void, name |-> Void, role |-> Void, ended |-> FALSE, saw |-> {}]
Free == [kind |-> "free", pc |-> Void, by |-> Void, team |-> Void, who |-> Void, name |-> Void,
         task |-> 0, old |-> [assignee |-> Void, status |-> "open"], left |-> {}]
TaskStatus == {"open", "in_progress", "blocked", "done", "cancelled"}

\* `saw` is history: the active teammates whose names a joining member's spawn was checked against.
TeamRow == [team : Leader, name : Name \cup {"lead"}, role : {"leader", "teammate"}, ended : BOOLEAN,
            saw : SUBSET Session]
Task == [team : Leader, status : TaskStatus, assignee : Session \cup {Void}]
Mail == [team : Leader, from : Session, to : Session \cup {Void}]

TypeOK ==
    /\ led \subseteq Leader /\ made \subseteq Mate /\ archived \subseteq made /\ agent \subseteq Session
    /\ \A s \in Session : row[s] = NoRow \/ (row[s] \in TeamRow /\ row[s].team \in led)
    /\ tasks \in Seq(Task) /\ mail \in Seq(Mail)
    /\ msgs \subseteq [from : Session, to : Session]
    /\ \A r \in Request : req[r].kind \in {"free", "spawn", "end", "task", "mail"}

Init ==
    /\ led = {} /\ row = [s \in Session |-> NoRow] /\ made = {} /\ archived = {} /\ agent = {}
    /\ notices = [s \in Session |-> 0] /\ tasks = <<>> /\ mail = <<>> /\ msgs = {}
    /\ box = [s \in Session |-> [at |-> 0, from |-> 0, ids |-> {}]]
    /\ req = [r \in Request |-> Free] /\ count = [request |-> 0, read |-> 0]

-----------------------------------------------------------------------------
Active(s) == row[s] # NoRow /\ ~row[s].ended
ActiveTeammates(t) == {s \in Mate : Active(s) /\ row[s].team = t /\ row[s].role = "teammate"}
Joins(t) == {s \in Mate : row[s].team = t /\ row[s].role = "teammate"}
ActiveMembers(t) == {s \in Session : Active(s) /\ row[s].team = t}

Begin(r, q) ==
    /\ req[r] = Free /\ count.request < MaxRequest
    /\ req' = [req EXCEPT ![r] = q] /\ count' = [count EXCEPT !.request = @ + 1]
Go(r, pc) == req' = [req EXCEPT ![r].pc = pc] /\ UNCHANGED count
Done(r) == req' = [req EXCEPT ![r] = Free] /\ UNCHANGED count

-----------------------------------------------------------------------------
(* spawn_teammate *)

\* The caller leads a team or may start one, and the team, as read now, has room.
MaySpawn(l, n) ==
    /\ row[l] = NoRow \/ row[l].role = "leader"
    /\ row[l] # NoRow =>
        /\ Cardinality(ActiveTeammates(l)) < MaxTeammates
        /\ \A s \in ActiveTeammates(l) : Lower[row[s].name] # Lower[n]
        /\ Cardinality(Joins(l)) < SpawnRate

\* The checks, on the rows as they are; "new" is a caller without a row.
SpawnCheck(r, l, n) ==
    /\ MaySpawn(l, n)
    /\ Begin(r, [Free EXCEPT !.kind = "spawn", !.by = l, !.team = l, !.name = n,
                             !.left = ActiveTeammates(l),
                             !.pc = IF row[l] = NoRow THEN "create_new" ELSE "create"])
    /\ UNCHANGED <<led, row, made, archived, agent, notices, tasks, mail, msgs, box>>

\* sessions.create_with_account: it succeeds or the spawn ends with its error.
SpawnCreate(r) ==
    /\ req[r].kind = "spawn" /\ req[r].pc \in {"create", "create_new"} /\ made # Mate
    /\ LET s == CHOOSE x \in Mate : x \notin made
           q == req[r] IN
       /\ made' = made \cup {s}
       /\ req' = [req EXCEPT ![r] = [q EXCEPT !.who = s, !.pc = IF q.pc = "create_new" THEN "team" ELSE "join"]]
    /\ UNCHANGED <<led, row, archived, agent, notices, tasks, mail, msgs, box, count>>

SpawnCreateFails(r) ==
    /\ req[r].kind = "spawn" /\ req[r].pc \in {"create", "create_new"}
    /\ Done(r) /\ UNCHANGED <<led, row, made, archived, agent, notices, tasks, mail, msgs, box>>

LeaderRow(l) == [team |-> l, name |-> "lead", role |-> "leader", ended |-> FALSE, saw |-> {}]
MateRow(l, n, S) == [team |-> l, name |-> n, role |-> "teammate", ended |-> FALSE, saw |-> S]

\* create_team, one transaction; another first spawn of the same leader makes it fail.
SpawnTeam(r) ==
    LET l == req[r].by IN
    /\ req[r].pc = "team"
    /\ IF l \in led THEN Done(r) /\ UNCHANGED <<led, row>>
       ELSE /\ led' = led \cup {l} /\ Go(r, "join")
            /\ row' = [row EXCEPT ![l] = LeaderRow(l)]
    /\ UNCHANGED <<made, archived, agent, notices, tasks, mail, msgs, box>>

\* As NameFree, for an index that was left out of the migration.
NameFreeFault(t, n) == TRUE

\* add_team_member: the unique index on a team's active names, which tells cases apart.
NameFree(t, n) == \A s \in ActiveMembers(t) : row[s].name # n

SpawnJoin(r) ==
    LET q == req[r] IN
    /\ q.pc = "join"
    /\ IF NameFree(q.team, q.name)
       THEN /\ row' = [row EXCEPT ![q.who] = MateRow(q.team, q.name, q.left)]
            /\ \E pc \in {"place", "prompt"} : Go(r, pc)
            /\ UNCHANGED archived
       ELSE archived' = archived \cup {q.who} /\ Done(r) /\ UNCHANGED row
    /\ UNCHANGED <<led, made, agent, notices, tasks, mail, msgs, box>>

\* The computer setter is awaited; when it fails the teammate is ended and archived.
SpawnPlaced(r) ==
    /\ req[r].pc = "place" /\ Go(r, "prompt")
    /\ UNCHANGED <<led, row, made, archived, agent, notices, tasks, mail, msgs, box>>

SpawnPlaceFails(r) ==
    /\ req[r].pc = "place"
    /\ row' = [row EXCEPT ![req[r].who].ended = TRUE]
    /\ archived' = archived \cup {req[r].who} /\ Done(r)
    /\ UNCHANGED <<led, made, agent, notices, tasks, mail, msgs, box>>

\* The first prompt is stored as a message from the leader and delivered: the agent starts.
SpawnPrompt(r) ==
    LET q == req[r] IN
    /\ q.pc = "prompt"
    /\ msgs' = msgs \cup {[from |-> q.by, to |-> q.who]} /\ agent' = agent \cup {q.who} /\ Done(r)
    /\ UNCHANGED <<led, row, made, archived, notices, tasks, mail, box>>

-----------------------------------------------------------------------------
(* end_teammate, end_teammate_by_user *)

\* Either the leader names an active member of its team, or the user an active teammate.
EndCheck(r, s) ==
    /\ s \in Mate /\ Active(s)
    /\ Begin(r, [Free EXCEPT !.kind = "end", !.pc = "row", !.team = row[s].team, !.who = s])
    /\ UNCHANGED <<led, row, made, archived, agent, notices, tasks, mail, msgs, box>>

\* end_team_member: UPDATE ... WHERE ended_at IS NULL tells whether the row changed.
EndRow(r) ==
    LET s == req[r].who IN
    /\ req[r].kind = "end" /\ req[r].pc = "row"
    /\ row' = [row EXCEPT ![s].ended = TRUE]
    /\ IF Active(s) THEN Go(r, "stop") ELSE Done(r)
    /\ UNCHANGED <<led, made, archived, agent, notices, tasks, mail, msgs, box>>

\* interrupt and release, then the notice; the team is pushed.
EndStop(r) ==
    LET s == req[r].who IN
    /\ req[r].kind = "end" /\ req[r].pc = "stop"
    /\ agent' = agent \ {s} /\ notices' = [notices EXCEPT ![s] = @ + 1] /\ Done(r)
    /\ UNCHANGED <<led, row, made, archived, tasks, mail, msgs, box>>

-----------------------------------------------------------------------------
(* add_task, update_task *)

\* membership and resolve_member: the caller and the assignee are active members of one team.
MayAssign(by, a) ==
    a # Void => /\ a \in ActiveMembers(row[by].team)
                /\ row[by].role = "teammate" => a = by

NewTask(t, a) == [team |-> t, assignee |-> a, status |-> "open"]

AddTask(r, by, a) ==
    /\ Len(tasks) < MaxTask /\ Active(by) /\ MayAssign(by, a)
    /\ tasks' = Append(tasks, NewTask(row[by].team, a))
    /\ IF a \notin {Void, by} THEN Begin(r, [Free EXCEPT !.kind = "task", !.pc = "announce", !.by = by, !.who = a])
       ELSE UNCHANGED <<req, count>>
    /\ UNCHANGED <<led, row, made, archived, agent, notices, mail, msgs, box>>

\* update_task's reads and checks; `old` is the task it read, `who` the patch's assignee
\* ("same" leaves it), `name` the patch's status.
UpdateCheck(r, by, i, a, st) ==
    /\ Active(by) /\ i \in DOMAIN tasks /\ tasks[i].team = row[by].team
    /\ a # "same" => MayAssign(by, a)
    /\ row[by].role = "teammate" => tasks[i].assignee \in {Void, by}
    /\ Begin(r, [Free EXCEPT !.kind = "task", !.pc = "write", !.by = by, !.team = row[by].team, !.task = i, !.who = a,
                             !.name = st, !.old = [assignee |-> tasks[i].assignee, status |-> tasks[i].status]])
    /\ UNCHANGED <<led, row, made, archived, agent, notices, tasks, mail, msgs, box>>

\* Whom the update is announced to: a new assignee, and the leader of a teammate's change of status.
Announced(r) ==
    LET q == req[r] IN
    {s \in Session : \/ s = q.who /\ s # q.by /\ q.old.assignee # s
                     \/ row[q.by].role = "teammate" /\ q.name \notin {"same", q.old.status} /\ s = q.team}

\* update_team_task: absent fields keep the row's value.
Patched(t, q) == [t EXCEPT !.assignee = IF q.who = "same" THEN t.assignee ELSE q.who,
                           !.status = IF q.name = "same" THEN t.status ELSE q.name]

UpdateWrite(r) ==
    LET q == req[r] IN
    /\ q.pc = "write"
    /\ tasks' = [tasks EXCEPT ![q.task] = Patched(tasks[q.task], q)]
    /\ IF Announced(r) = {} THEN Done(r)
       ELSE req' = [req EXCEPT ![r] = [q EXCEPT !.pc = "notify", !.left = Announced(r)]] /\ UNCHANGED count
    /\ UNCHANGED <<led, row, made, archived, agent, notices, mail, msgs, box>>

\* notify: under loop protection, so it may be left out.
Notify(r) ==
    LET q == req[r] to == IF q.pc = "announce" THEN {q.who} ELSE q.left IN
    /\ q.kind = "task" /\ q.pc \in {"announce", "notify"}
    /\ \E s \in to, kept \in BOOLEAN :
         /\ IF kept THEN msgs' = msgs \cup {[from |-> q.by, to |-> s]} /\ agent' = agent \cup {s}
            ELSE UNCHANGED <<msgs, agent>>
         /\ IF to = {s} THEN Done(r) ELSE req' = [req EXCEPT ![r].left = @ \ {s}] /\ UNCHANGED count
    /\ UNCHANGED <<led, row, made, archived, notices, tasks, mail, box>>

-----------------------------------------------------------------------------
(* send_mail, read_mail *)

Recipients(by, to) == IF to = Void THEN ActiveMembers(row[by].team) \ {by} ELSE {to}

MailCheck(r, by, to) ==
    /\ Active(by) /\ Len(mail) < MaxMail
    /\ to # Void => to \in ActiveMembers(row[by].team) \ {by}
    /\ Recipients(by, to) # {}
    /\ Begin(r, [Free EXCEPT !.kind = "mail", !.pc = "store", !.by = by, !.team = row[by].team, !.who = to,
                             !.left = Recipients(by, to)])
    /\ UNCHANGED <<led, row, made, archived, agent, notices, tasks, mail, msgs, box>>

NewMail(t, from, to) == [team |-> t, from |-> from, to |-> to]

\* Under send_lock: the limits, then the mail and one message per recipient.
MailStore(r) ==
    LET q == req[r] IN
    /\ q.pc = "store" /\ Len(mail) < MaxMail
    /\ mail' = Append(mail, NewMail(q.team, q.by, q.who))
    /\ msgs' = msgs \cup {[from |-> q.by, to |-> s] : s \in q.left} /\ Go(r, "deliver")
    /\ UNCHANGED <<led, row, made, archived, agent, notices, tasks, box>>

\* check_limits refuses, and nothing is stored.
MailRefused(r) ==
    /\ req[r].pc = "store" /\ Done(r)
    /\ UNCHANGED <<led, row, made, archived, agent, notices, tasks, mail, msgs, box>>

MailDeliver(r) ==
    /\ req[r].pc = "deliver"
    /\ agent' = agent \cup req[r].left /\ Done(r)
    /\ UNCHANGED <<led, row, made, archived, notices, tasks, mail, msgs, box>>

\* team_mail's filter: the leader sees all, a teammate what is for all, to it or from it.
Visible(s) == {i \in DOMAIN mail : /\ mail[i].team = row[s].team
                                   /\ row[s].role = "leader" \/ mail[i].to = Void \/ s \in {mail[i].to, mail[i].from}}
Oldest(S, n) == {i \in S : Cardinality({j \in S : j < i}) < n}
Newest(S, n) == {i \in S : Cardinality({j \in S : i < j}) < n}

\* The page `after` gives: the first ones after it, or without one the last ones.
Page(s, after) ==
    LET S == {i \in Visible(s) : i > after} IN
    IF after > 0 THEN Oldest(S, MailPage) ELSE Newest(S, MailPage)

\* read_mail --after the newest mail read: ended teammates may still read.
ReadMail(s) ==
    /\ row[s] # NoRow /\ count.read < MaxRead
    /\ LET p == Page(s, box[s].at) IN
       /\ p # {}
       /\ box' = [box EXCEPT ![s] = [at |-> Max(p), ids |-> box[s].ids \cup p,
                                     from |-> IF box[s].at = 0 THEN Min(p) ELSE box[s].from]]
    /\ count' = [count EXCEPT !.read = @ + 1]
    /\ UNCHANGED <<led, row, made, archived, agent, notices, tasks, mail, msgs, req>>

-----------------------------------------------------------------------------
Spawning(r) ==
    \/ \E l \in Leader, n \in Name : SpawnCheck(r, l, n)
    \/ SpawnCreate(r) \/ SpawnCreateFails(r) \/ SpawnTeam(r) \/ SpawnJoin(r)
    \/ SpawnPlaced(r) \/ SpawnPlaceFails(r) \/ SpawnPrompt(r)
Ending(r) == (\E s \in Mate : EndCheck(r, s)) \/ EndRow(r) \/ EndStop(r)
Tasking(r) ==
    \/ \E by \in Session, a \in Session \cup {Void} : AddTask(r, by, a)
    \/ \E by \in Session, i \in 1..MaxTask, a \in Session \cup {Void, "same"}, st \in {"same", "done"} :
         UpdateCheck(r, by, i, a, st)
    \/ UpdateWrite(r) \/ Notify(r)
Mailing(r) ==
    \/ \E by \in Session, to \in Session \cup {Void} : MailCheck(r, by, to)
    \/ MailStore(r) \/ MailRefused(r) \/ MailDeliver(r)

Next == (\E r \in Request : Spawning(r) \/ Ending(r) \/ Tasking(r) \/ Mailing(r)) \/ (\E s \in Session : ReadMail(s))

Spec == Init /\ [][Next]_vars

-----------------------------------------------------------------------------
\* Two spawns that both found the name unused do not both join under it: a name, as it is written,
\* means one active member, and only spawns that crossed give two that differ in case alone.
NamesApart ==
    \A s, t \in Session : (s # t /\ Active(s) /\ Active(t) /\ row[s].team = row[t].team) =>
        /\ row[s].name # row[t].name
        /\ t \in row[s].saw => Lower[row[s].name] # Lower[row[t].name]

\* A teammate two requests end at once leaves once: one notice, and only after its row is ended.
EndedOnce == \A s \in Session : notices[s] <= 1 /\ (notices[s] = 1 => row[s].ended)

\* Messages of the team commands stay inside one team, whoever joins or leaves on the way.
MessagesStayInTeam == \A m \in msgs : row[m.from].team = row[m.to].team /\ row[m.from] # NoRow

\* A member that pages through its mail from one read to the next misses none and sees none of others'.
MailReadWhole ==
    \A s \in Session : box[s].at > 0 => box[s].ids = {i \in Visible(s) : box[s].from <= i /\ i <= box[s].at}

\* A status change takes nothing from an assignment another request made meanwhile.
AssignmentKept ==
    \A r \in Request, i \in DOMAIN tasks :
         (req[r].pc = "write" /\ req'[r].pc # "write" /\ req[r].task = i /\ req[r].who = "same")
             => tasks'[i].assignee = tasks[i].assignee

-----------------------------------------------------------------------------
(***************************************************************************)
(* Proofs.  A row, once it is there, keeps its team, its name and its      *)
(* role, and stays ended: what a request read before it let go of the      *)
(* database still holds of the rows it writes with.                        *)
(***************************************************************************)
Distinct == Leader \cap Mate = {} /\ Void \notin Session /\ "same" \notin Session /\ MailPage \in Nat

InTeam(s, t) == row[s] # NoRow /\ row[s].team = t

Kind == {"free", "spawn", "end", "task", "mail"}
Pc == {Void, "create", "create_new", "team", "join", "place", "prompt", "row", "stop",
       "announce", "write", "notify", "store", "deliver"}
Req == [kind : Kind, pc : Pc, by : Session \cup {Void}, team : Leader \cup {Void},
        who : Session \cup {Void, "same"}, name : Name \cup {Void, "same", "done"}, task : Nat,
        old : [assignee : Session \cup {Void}, status : TaskStatus], left : SUBSET Session]

Rows ==
    /\ led \subseteq Leader /\ made \subseteq Mate
    /\ row \in [Session -> {NoRow} \cup TeamRow]
    /\ \A s \in Session : row[s] # NoRow => row[s].team \in led
    /\ \A l \in Leader : (l \in led <=> row[l] # NoRow) /\ (row[l] # NoRow => row[l].team = l)
    /\ \A s \in Mate : row[s] # NoRow => s \in made

\* The names a spawn saw are still those of the same members, and not its own.
Unlike(S, n) == \A u \in S : u \in Session /\ row[u] # NoRow /\ Lower[row[u].name] # Lower[n]
Seen == \A s \in Session : Unlike(row[s].saw, row[s].name)

Stored ==
    /\ archived \subseteq made /\ agent \subseteq Session
    /\ tasks \in Seq(Task) /\ mail \in Seq(Mail)
    /\ msgs \subseteq [from : Session, to : Session]

\* What a request knows, by the store call it comes to next.
SpawnKnows(q) ==
    /\ q.pc \in {"create", "create_new", "team", "join", "place", "prompt"} =>
           q.by \in Leader /\ q.team = q.by /\ q.name \in Name
    /\ q.pc \in {"create", "create_new", "team", "join"} => Unlike(q.left, q.name)
    /\ q.pc \in {"create", "join", "place", "prompt"} => q.by \in led
    /\ q.pc \in {"team", "join", "place", "prompt"} => q.who \in made
    /\ q.pc \in {"place", "prompt"} => InTeam(q.who, q.team)
    /\ q.pc \in {"row", "stop"} => q.who \in Mate /\ row[q.who] # NoRow
    /\ q.pc = "stop" => row[q.who].ended

MemberKnows(q) ==
    /\ q.pc \in {"announce", "write", "notify", "store", "deliver"} => q.by \in Session /\ row[q.by] # NoRow
    /\ q.pc = "announce" => q.who \in Session /\ InTeam(q.who, row[q.by].team)
    /\ q.pc \in {"write", "store"} => q.team = row[q.by].team
    /\ q.pc = "write" => /\ q.task \in 1..Len(tasks) /\ q.name \in {"same", "done"}
                         /\ q.who \in Session => InTeam(q.who, q.team)
    /\ q.pc \in {"notify", "store", "deliver"} => \A s \in q.left : InTeam(s, row[q.by].team)
    /\ q.pc = "store" => q.who \in Session \cup {Void}

Requests == req \in [Request -> Req] /\ \A r \in Request : SpawnKnows(req[r]) /\ MemberKnows(req[r])

\* The session a spawn has created has no row yet, and no other spawn has it.
Joining(r) == req[r].pc \in {"team", "join"}
Fresh ==
    /\ \A r \in Request : Joining(r) => row[req[r].who] = NoRow
    /\ \A r, x \in Request : (r # x /\ Joining(r) /\ Joining(x)) => req[r].who # req[x].who

\* One request stops a teammate: the one whose UPDATE changed its row.
Stopping(r) == req[r].pc = "stop"
Stops ==
    /\ notices \in [Session -> Nat] /\ EndedOnce
    /\ \A r \in Request : Stopping(r) => notices[req[r].who] = 0
    /\ \A r, x \in Request : (r # x /\ Stopping(r) /\ Stopping(x)) => req[r].who # req[x].who

Boxes ==
    /\ box \in [Session -> [at : Nat, from : Nat, ids : SUBSET Nat]]
    /\ \A s \in Session : IF box[s].at = 0 THEN box[s].ids = {}
                          ELSE row[s] # NoRow /\ box[s].from <= box[s].at /\ box[s].at <= Len(mail)
    /\ MailReadWhole

IInv == Rows /\ Stored /\ Requests /\ Fresh /\ Stops /\ Seen /\ NamesApart /\ MessagesStayInTeam /\ Boxes

\* How the rows grow.
RowsGrow ==
    /\ \A s \in Session : row[s] # NoRow =>
           /\ row'[s] # NoRow /\ row'[s].team = row[s].team /\ row'[s].role = row[s].role
           /\ row'[s].name = row[s].name
           /\ row[s].ended => row'[s].ended
    /\ led \subseteq led' /\ made \subseteq made'

RowStep ==
    \/ UNCHANGED <<led, row>>
    \/ \E l \in Leader \ led :
         /\ led' = led \cup {l}
         /\ row' = [row EXCEPT ![l] = LeaderRow(l)]
    \/ \E s \in made, l \in led, n \in Name, S \in SUBSET Session :
         /\ row[s] = NoRow /\ NameFree(l, n) /\ Unlike(S, n) /\ UNCHANGED led
         /\ row' = [row EXCEPT ![s] = MateRow(l, n, S)]
    \/ \E s \in Mate :
         /\ row[s] # NoRow /\ UNCHANGED led
         /\ row' = [row EXCEPT ![s] = [row[s] EXCEPT !.ended = TRUE]]

\* Names that were unlike the spawn's stay so.
LEMMA UnlikeStays ==
  ASSUME RowsGrow, NEW S, NEW n, Unlike(S, n) PROVE Unlike(S, n)'
BY DEF RowsGrow, Unlike

LEMMA RowsMoved ==
  ASSUME Distinct, Rows, Seen, NamesApart, RowStep, made \subseteq made', made' \subseteq Mate
  PROVE  Rows' /\ Seen' /\ NamesApart' /\ RowsGrow
<1>0. \A s \in Session : row[s].saw \subseteq Session BY DEF Rows, TeamRow, NoRow
<1>1. CASE UNCHANGED <<led, row>>
  BY <1>1 DEF Rows, Seen, Unlike, NamesApart, Active, RowsGrow
<1>2. ASSUME NEW l \in Leader \ led, led' = led \cup {l}, row' = [row EXCEPT ![l] = LeaderRow(l)]
      PROVE  Rows' /\ Seen' /\ NamesApart' /\ RowsGrow
  <2>1. PICK m : m = LeaderRow(l) OBVIOUS
  <2>2. m \in TeamRow /\ m # NoRow /\ m.team = l /\ m.saw = {}
    BY <2>1 DEF LeaderRow, TeamRow, NoRow, Void
  <2>3. /\ row' \in [Session -> {NoRow} \cup TeamRow] /\ row'[l] = m
        /\ \A s \in Session : s # l => row'[s] = row[s]
    BY <1>2, <2>1, <2>2 DEF Rows, Session
  <2>4. row[l] = NoRow /\ l \notin Mate /\ \A s \in Session : row[s] # NoRow => row[s].team # l
    BY DEF Rows, Distinct
  <2>5. Rows' BY <1>2, <2>2, <2>3, <2>4 DEF Rows, Session
  <2>6. NamesApart' BY <2>2, <2>3, <2>4 DEF NamesApart, Active
  <2>7. RowsGrow BY <1>2, <2>3, <2>4 DEF RowsGrow
  <2>8. Seen' BY <2>2, <2>3, <2>4 DEF Seen, Unlike
  <2> QED BY <2>5, <2>6, <2>7, <2>8
<1>3. ASSUME NEW s \in made, NEW l \in led, NEW n \in Name, NEW S \in SUBSET Session, row[s] = NoRow,
             NameFree(l, n), Unlike(S, n), led' = led, row' = [row EXCEPT ![s] = MateRow(l, n, S)]
      PROVE  Rows' /\ Seen' /\ NamesApart' /\ RowsGrow
  <2>1. PICK m : m = MateRow(l, n, S) OBVIOUS
  <2>0. l \in Leader BY DEF Rows
  <2>2. m \in TeamRow /\ m # NoRow /\ m.team = l /\ m.name = n /\ m.saw = S
    BY <2>0, <2>1 DEF MateRow, TeamRow, NoRow, Void
  <2>3. s \in Mate /\ s \in Session /\ s \notin Leader BY DEF Rows, Distinct, Session
  <2>4. /\ row' \in [Session -> {NoRow} \cup TeamRow] /\ row'[s] = m
        /\ \A x \in Session : x # s => row'[x] = row[x]
    BY <1>3, <2>1, <2>2, <2>3 DEF Rows
  <2>5. Rows' BY <1>3, <2>2, <2>3, <2>4 DEF Rows
  <2>6. \A x \in Session : (Active(x) /\ row[x].team = l) => row[x].name # n
    BY <1>3 DEF NameFree, ActiveMembers
  <2>7. \A x \in Session : s \notin row[x].saw BY <1>3 DEF Seen, Unlike
  <2>8. Seen'
    <3>1. Unlike(S, n)' BY <1>3, <2>4 DEF Unlike
    <3>2. ASSUME NEW x \in Session, x # s PROVE Unlike(row[x].saw, row[x].name)'
      <4>1. Unlike(row[x].saw, row[x].name) BY DEF Seen
      <4> QED BY <2>4, <2>7, <3>2, <4>1 DEF Unlike
    <3> QED BY <2>2, <2>4, <3>1, <3>2 DEF Seen, Unlike
  <2>9. NamesApart'
    <3>1. \A x, y \in Session :
             (x # y /\ Active(x)' /\ Active(y)' /\ row'[x].team = row'[y].team) => row'[x].name # row'[y].name
      BY <1>3, <2>2, <2>4, <2>6 DEF NamesApart, Active
    <3>2. \A x \in Session : \A y \in row'[x].saw : Lower[row'[x].name] # Lower[row'[y].name]
      BY <2>8 DEF Seen, Unlike
    <3> QED BY <3>1, <3>2 DEF NamesApart
  <2>10. RowsGrow BY <1>3, <2>4 DEF RowsGrow
  <2> QED BY <2>5, <2>8, <2>9, <2>10
<1>4. ASSUME NEW s \in Mate, row[s] # NoRow, led' = led,
             row' = [row EXCEPT ![s] = [row[s] EXCEPT !.ended = TRUE]]
      PROVE  Rows' /\ Seen' /\ NamesApart' /\ RowsGrow
  <2>1. PICK m : m = [row[s] EXCEPT !.ended = TRUE] OBVIOUS
  <2>2. s \in Session /\ row[s] \in TeamRow /\ s \notin Leader BY <1>4 DEF Rows, Distinct, Session
  <2>3. /\ m \in TeamRow /\ m # NoRow /\ m.team = row[s].team /\ m.name = row[s].name
        /\ m.role = row[s].role /\ m.ended /\ m.saw = row[s].saw
    BY <2>1, <2>2 DEF TeamRow, NoRow, Void
  <2>4. /\ row' \in [Session -> {NoRow} \cup TeamRow] /\ row'[s] = m
        /\ \A x \in Session : x # s => row'[x] = row[x]
    BY <1>4, <2>1, <2>2, <2>3 DEF Rows
  <2>5. Rows' BY <1>4, <2>2, <2>3, <2>4 DEF Rows
  <2>6. NamesApart' BY <2>3, <2>4 DEF NamesApart, Active
  <2>7. RowsGrow BY <1>4, <2>3, <2>4 DEF RowsGrow
  <2>8. Seen'
    <3>1. \A x \in Session : row'[x].saw = row[x].saw /\ row'[x].name = row[x].name
                              /\ (row[x] # NoRow => row'[x] # NoRow)
      BY <2>3, <2>4
    <3>2. ASSUME NEW x \in Session PROVE Unlike(row[x].saw, row[x].name)'
      <4>1. Unlike(row[x].saw, row[x].name) BY DEF Seen
      <4> QED BY <3>1, <4>1 DEF Unlike
    <3> QED BY <3>1, <3>2 DEF Seen
  <2> QED BY <2>5, <2>6, <2>7, <2>8
<1> QED BY <1>1, <1>2, <1>3, <1>4 DEF RowStep

\* What each request does to the teams: a spawn starts one or joins one, the end of a teammate ends its row.
LEMMA RowsStep ==
  ASSUME Distinct, IInv, Next
  PROVE  RowStep /\ made \subseteq made' /\ made' \subseteq Mate /\ archived' \subseteq made'
<1> DEFINE Kept == UNCHANGED <<led, row, made, archived>>
           Goal == RowStep /\ made \subseteq made' /\ made' \subseteq Mate /\ archived' \subseteq made'
<1>1. made \subseteq Mate /\ archived \subseteq made BY DEF IInv, Rows, Stored
<1>2. Kept => Goal BY <1>1 DEF RowStep
<1> HIDE DEF Kept
<1>3. ASSUME NEW r \in Request, SpawnCreate(r) PROVE Goal
  <2>1. PICK s : s = CHOOSE x \in Mate : x \notin made OBVIOUS
  <2>2. s \in Mate BY <1>1, <1>3, <2>1 DEF SpawnCreate
  <2>3. made' = made \cup {s} /\ UNCHANGED <<led, row, archived>> BY <1>3, <2>1 DEF SpawnCreate
  <2> QED BY <1>1, <2>2, <2>3 DEF RowStep
<1>4. ASSUME NEW r \in Request, SpawnTeam(r) PROVE Goal
  <2>1. UNCHANGED <<made, archived>> BY <1>4 DEF SpawnTeam
  <2>2. CASE req[r].by \in led BY <1>1, <1>4, <2>1, <2>2 DEF SpawnTeam, RowStep
  <2>3. CASE req[r].by \notin led
    <3>1. req[r].by \in Leader \ led BY <1>4, <2>3 DEF SpawnTeam, IInv, Requests, SpawnKnows
    <3>2. RowStep BY <1>4, <2>3, <3>1 DEF SpawnTeam, RowStep
    <3> QED BY <1>1, <2>1, <3>2
  <2> QED BY <2>2, <2>3
<1>5. ASSUME NEW r \in Request, SpawnJoin(r) PROVE Goal
  <2>1. PICK q : q = req[r] OBVIOUS
  <2>2. q.who \in made /\ q.by \in led /\ q.team = q.by /\ q.name \in Name
    BY <1>5, <2>1 DEF SpawnJoin, IInv, Requests, SpawnKnows
  <2>3. UNCHANGED <<led, made>> BY <1>5 DEF SpawnJoin
  <2>4. CASE NameFree(q.team, q.name)
    <3>1. row[q.who] = NoRow BY <1>5, <2>1 DEF SpawnJoin, IInv, Fresh, Joining
    <3>2. /\ row' = [row EXCEPT ![q.who] = MateRow(q.team, q.name, q.left)]
          /\ UNCHANGED archived
      BY <1>5, <2>1, <2>4 DEF SpawnJoin
    <3>4. q \in Req /\ q.pc = "join" /\ SpawnKnows(q) BY <1>5, <2>1 DEF SpawnJoin, IInv, Requests
    <3>5. q.left \in SUBSET Session /\ Unlike(q.left, q.name) BY <3>4 DEF SpawnKnows, Req
    <3>3. RowStep BY <2>2, <2>3, <2>4, <3>1, <3>2, <3>5 DEF RowStep
    <3> QED BY <1>1, <2>3, <3>2, <3>3
  <2>5. CASE ~NameFree(q.team, q.name)
    <3>1. archived' = archived \cup {q.who} /\ UNCHANGED row BY <1>5, <2>1, <2>5 DEF SpawnJoin
    <3> QED BY <1>1, <2>2, <2>3, <3>1 DEF RowStep
  <2> QED BY <2>4, <2>5
<1>6. ASSUME NEW s \in Session, s \in Mate, row[s] # NoRow, UNCHANGED led, row' = [row EXCEPT ![s].ended = TRUE]
      PROVE  RowStep
  <2>1. row' = [row EXCEPT ![s] = [row[s] EXCEPT !.ended = TRUE]] BY <1>6
  <2> QED BY <1>6, <2>1 DEF RowStep
<1>7. ASSUME NEW r \in Request, SpawnPlaceFails(r) PROVE Goal
  <2>1. PICK s : s = req[r].who OBVIOUS
  <2>2. s \in made /\ row[s] # NoRow
    BY <1>7, <2>1 DEF SpawnPlaceFails, IInv, Requests, SpawnKnows, InTeam
  <2>3. /\ UNCHANGED <<led, made>> /\ row' = [row EXCEPT ![s].ended = TRUE]
        /\ archived' = archived \cup {s}
    BY <1>7, <2>1 DEF SpawnPlaceFails
  <2>4. RowStep BY <1>1, <1>6, <2>2, <2>3 DEF Session
  <2> QED BY <1>1, <2>2, <2>3, <2>4
<1>8. ASSUME NEW r \in Request, EndRow(r) PROVE Goal
  <2>1. PICK s : s = req[r].who OBVIOUS
  <2>2. s \in Mate /\ row[s] # NoRow BY <1>8, <2>1 DEF EndRow, IInv, Requests, SpawnKnows
  <2>3. UNCHANGED <<led, made, archived>> /\ row' = [row EXCEPT ![s].ended = TRUE] BY <1>8, <2>1 DEF EndRow
  <2>4. RowStep BY <1>6, <2>2, <2>3 DEF Session
  <2> QED BY <1>1, <2>3, <2>4
<1>9. ASSUME NEW r \in Request, Spawning(r) PROVE Goal
  <2>1. ASSUME NEW l \in Leader, NEW n \in Name, SpawnCheck(r, l, n) PROVE Kept
    BY <2>1 DEF SpawnCheck, Kept
  <2>2. (SpawnCreateFails(r) \/ SpawnPlaced(r) \/ SpawnPrompt(r)) => Kept
    BY DEF SpawnCreateFails, SpawnPlaced, SpawnPrompt, Kept
  <2> QED BY <1>2, <1>3, <1>4, <1>5, <1>7, <1>9, <2>1, <2>2 DEF Spawning
<1>10. ASSUME NEW r \in Request, Ending(r) PROVE Goal
  <2>1. ASSUME NEW s \in Mate, EndCheck(r, s) PROVE Kept BY <2>1 DEF EndCheck, Kept
  <2>2. EndStop(r) => Kept BY DEF EndStop, Kept
  <2> QED BY <1>2, <1>8, <1>10, <2>1, <2>2 DEF Ending
<1>11. ASSUME NEW r \in Request, Tasking(r) PROVE Goal
  <2>1. ASSUME NEW by \in Session, NEW a \in Session \cup {Void}, AddTask(r, by, a) PROVE Kept
    BY <2>1 DEF AddTask, Kept
  <2>2. ASSUME NEW by \in Session, NEW i \in 1..MaxTask, NEW a \in Session \cup {Void, "same"},
               NEW st \in {"same", "done"}, UpdateCheck(r, by, i, a, st)
        PROVE  Kept
    BY <2>2 DEF UpdateCheck, Kept
  <2>3. UpdateWrite(r) \/ Notify(r) => Kept BY DEF UpdateWrite, Notify, Kept
  <2> QED BY <1>2, <1>11, <2>1, <2>2, <2>3 DEF Tasking
<1>12. ASSUME NEW r \in Request, Mailing(r) PROVE Goal
  <2>1. ASSUME NEW by \in Session, NEW to \in Session \cup {Void}, MailCheck(r, by, to) PROVE Kept
    BY <2>1 DEF MailCheck, Kept
  <2>2. MailStore(r) \/ MailRefused(r) \/ MailDeliver(r) => Kept
    BY DEF MailStore, MailRefused, MailDeliver, Kept
  <2> QED BY <1>2, <1>12, <2>1, <2>2 DEF Mailing
<1>13. ASSUME NEW s \in Session, ReadMail(s) PROVE Goal
  <2>1. Kept BY <1>13 DEF ReadMail, Kept
  <2> QED BY <1>2, <2>1
<1> QED BY <1>9, <1>10, <1>11, <1>12, <1>13 DEF Next

LEMMA RowsKept == ASSUME Distinct, IInv, Next PROVE Rows' /\ Seen' /\ NamesApart' /\ RowsGrow
BY RowsStep, RowsMoved DEF IInv

\* What may happen to the tasks: one is added, or a request writes its patch to one.
LEMMA TasksStep ==
  ASSUME Distinct, IInv, Next
  PROVE  \/ UNCHANGED tasks
         \/ \E t \in Task : tasks' = Append(tasks, t)
         \/ \E r \in Request : UpdateWrite(r)
<1> DEFINE Goal == \/ UNCHANGED tasks
                   \/ \E t \in Task : tasks' = Append(tasks, t)
                   \/ \E r \in Request : UpdateWrite(r)
<1>1. ASSUME NEW r \in Request, NEW by \in Session, NEW a \in Session \cup {Void}, AddTask(r, by, a) PROVE Goal
  <2>1. PICK t : t = NewTask(row[by].team, a) OBVIOUS
  <2>2. row[by] # NoRow BY <1>1 DEF AddTask, Active
  <2>3. row[by].team \in Leader BY <2>2 DEF IInv, Rows
  <2>4. t \in Task BY <2>1, <2>3 DEF NewTask, Task, TaskStatus
  <2>5. tasks' = Append(tasks, t) BY <1>1, <2>1 DEF AddTask
  <2> QED BY <2>4, <2>5
<1>2. ASSUME NEW r \in Request, Spawning(r) PROVE UNCHANGED tasks
  <2>1. ASSUME NEW l \in Leader, NEW n \in Name, SpawnCheck(r, l, n) PROVE UNCHANGED tasks
    BY <2>1 DEF SpawnCheck
  <2>2. (SpawnCreate(r) \/ SpawnCreateFails(r) \/ SpawnTeam(r) \/ SpawnJoin(r)) => UNCHANGED tasks
    BY DEF SpawnCreate, SpawnCreateFails, SpawnTeam, SpawnJoin
  <2>3. (SpawnPlaced(r) \/ SpawnPlaceFails(r) \/ SpawnPrompt(r)) => UNCHANGED tasks
    BY DEF SpawnPlaced, SpawnPlaceFails, SpawnPrompt
  <2> QED BY <1>2, <2>1, <2>2, <2>3 DEF Spawning
<1>3. ASSUME NEW r \in Request, Ending(r) PROVE UNCHANGED tasks
  <2>1. ASSUME NEW s \in Mate, EndCheck(r, s) PROVE UNCHANGED tasks BY <2>1 DEF EndCheck
  <2>2. (EndRow(r) \/ EndStop(r)) => UNCHANGED tasks BY DEF EndRow, EndStop
  <2> QED BY <1>3, <2>1, <2>2 DEF Ending
<1>4. ASSUME NEW r \in Request, Tasking(r) PROVE Goal
  <2>1. ASSUME NEW by \in Session, NEW i \in 1..MaxTask, NEW a \in Session \cup {Void, "same"},
               NEW st \in {"same", "done"}, UpdateCheck(r, by, i, a, st)
        PROVE  UNCHANGED tasks
    BY <2>1 DEF UpdateCheck
  <2>2. Notify(r) => UNCHANGED tasks BY DEF Notify
  <2> QED BY <1>1, <1>4, <2>1, <2>2 DEF Tasking
<1>5. ASSUME NEW r \in Request, Mailing(r) PROVE UNCHANGED tasks
  <2>1. ASSUME NEW by \in Session, NEW to \in Session \cup {Void}, MailCheck(r, by, to) PROVE UNCHANGED tasks
    BY <2>1 DEF MailCheck
  <2>2. (MailStore(r) \/ MailRefused(r) \/ MailDeliver(r)) => UNCHANGED tasks
    BY DEF MailStore, MailRefused, MailDeliver
  <2> QED BY <1>5, <2>1, <2>2 DEF Mailing
<1>6. ASSUME NEW s \in Session, ReadMail(s) PROVE UNCHANGED tasks BY <1>6 DEF ReadMail
<1> QED BY <1>2, <1>3, <1>4, <1>5, <1>6 DEF Next

\* A task that changes stays a task, and none goes away.
LEMMA TasksKept == ASSUME Distinct, IInv, Next PROVE tasks' \in Seq(Task) /\ Len(tasks) <= Len(tasks')
<1> DEFINE Goal == tasks' \in Seq(Task) /\ Len(tasks) <= Len(tasks')
<1>0. tasks \in Seq(Task) BY DEF IInv, Stored
<1>1. ASSUME NEW t \in Task, tasks' = Append(tasks, t) PROVE Goal BY <1>0, <1>1
<1>2. ASSUME NEW r \in Request, UpdateWrite(r) PROVE Goal
  <2>1. PICK q : q = req[r] OBVIOUS
  <2>2. q \in Req /\ q.task \in 1..Len(tasks) /\ q.name \in {"same", "done"}
    BY <1>2, <2>1 DEF UpdateWrite, IInv, Requests, MemberKnows
  <2>3. PICK t : t = tasks[q.task] OBVIOUS
  <2>4. t \in Task BY <1>0, <2>2, <2>3
  <2>5. PICK u : u = Patched(t, q) OBVIOUS
  <2>6. q.who = "same" \/ q.who \in Session \cup {Void} BY <2>2 DEF Req
  <2>7. PICK a : a = IF q.who = "same" THEN t.assignee ELSE q.who OBVIOUS
  <2>8. PICK st : st = IF q.name = "same" THEN t.status ELSE q.name OBVIOUS
  <2>9. a \in Session \cup {Void} BY <2>4, <2>6, <2>7 DEF Task
  <2>10. st \in TaskStatus BY <2>2, <2>4, <2>8 DEF Task, TaskStatus
  <2>11. u = [t EXCEPT !.assignee = a, !.status = st] BY <2>5, <2>7, <2>8 DEF Patched
  <2>12. u \in Task BY <2>4, <2>9, <2>10, <2>11 DEF Task
  <2>13. tasks' = [tasks EXCEPT ![q.task] = u] BY <1>2, <2>1, <2>3, <2>5 DEF UpdateWrite
  <2> QED BY <1>0, <2>2, <2>12, <2>13
<1> QED BY <1>0, <1>1, <1>2, TasksStep

\* What a request knows stays so, whatever the others do.
LEMMA KnowsStays ==
  ASSUME Rows, RowsGrow, Len(tasks) <= Len(tasks'), tasks \in Seq(Task), tasks' \in Seq(Task),
         NEW q \in Req, SpawnKnows(q), MemberKnows(q)
  PROVE  SpawnKnows(q)' /\ MemberKnows(q)'
<1>0. \A s \in Session : row[s] # NoRow =>
        row'[s] # NoRow /\ row'[s].team = row[s].team /\ (row[s].ended => row'[s].ended)
  BY DEF RowsGrow
<1>1. made \subseteq Session /\ made \subseteq made' /\ led \subseteq led' BY DEF Rows, RowsGrow, Session
<1>2. \A s \in Session, t \in Leader \cup {Void} : InTeam(s, t) => InTeam(s, t)' BY <1>0 DEF InTeam
<1>3. q.team \in Leader \cup {Void} /\ q.who \in Session \cup {Void, "same"} /\ q.left \subseteq Session
  BY DEF Req
<1>4. SpawnKnows(q)'
  <2>1. q.pc \in {"place", "prompt"} => InTeam(q.who, q.team)' BY <1>1, <1>2, <1>3 DEF SpawnKnows
  <2>2. q.pc \in {"row", "stop"} => q.who \in Mate /\ row'[q.who] # NoRow BY <1>0 DEF SpawnKnows, Session
  <2>3. q.pc = "stop" => row'[q.who].ended BY <1>0, <2>2 DEF SpawnKnows, Session
  <2>4. q.pc \in {"create", "create_new", "team", "join"} => Unlike(q.left, q.name)'
    BY UnlikeStays DEF SpawnKnows
  <2> HIDE <1>0
  <2> QED BY <1>1, <2>1, <2>2, <2>3, <2>4 DEF SpawnKnows
<1>5. MemberKnows(q)'
  <2>1. CASE q.pc \notin {"announce", "write", "notify", "store", "deliver"} BY <2>1 DEF MemberKnows
  <2>2. CASE q.pc \in {"announce", "write", "notify", "store", "deliver"}
    <3>1. PICK t : t = row[q.by].team OBVIOUS
    <3>2. q.by \in Session /\ row[q.by] # NoRow BY <2>2 DEF MemberKnows
    <3>3. t \in Leader BY <3>1, <3>2 DEF Rows
    <3>4. row'[q.by] # NoRow /\ row'[q.by].team = t BY <1>0, <3>1, <3>2
    <3>5. \A i \in 1..Len(tasks) : i \in 1..Len(tasks') OBVIOUS
    <3>6. q.pc = "announce" => InTeam(q.who, t)' BY <1>2, <3>1, <3>3 DEF MemberKnows
    <3>7. q.pc = "write" /\ q.who \in Session => InTeam(q.who, q.team)' BY <1>2, <1>3 DEF MemberKnows
    <3>8. q.pc \in {"notify", "store", "deliver"} => \A s \in q.left : InTeam(s, t)'
      BY <1>2, <1>3, <3>1, <3>3 DEF MemberKnows
    <3> HIDE <1>0, <1>2
    <3> QED BY <3>1, <3>2, <3>4, <3>5, <3>6, <3>7, <3>8 DEF MemberKnows, InTeam
  <2> QED BY <2>1, <2>2
<1> QED BY <1>4, <1>5

\* What a step of request r leaves it at, and what it does to the sessions the requests hold.
Takes(r, q) ==
    \/ q.pc \notin {"team", "join", "stop"}
    \/ q.pc \in {"team", "join"} /\ q.who \notin made
    \/ q.pc \in {"team", "join"} /\ Joining(r) /\ q.who = req[r].who
    \/ q.pc = "stop" /\ ~row[q.who].ended

JoinsKept(r) ==
    \A s \in Mate : row[s] = NoRow => row'[s] = NoRow \/ (Joining(r) /\ s = req[r].who /\ ~Joining(r)')

Noticed(r) ==
    \/ UNCHANGED notices
    \/ Stopping(r) /\ ~Stopping(r)' /\ notices' = [notices EXCEPT ![req[r].who] = notices[req[r].who] + 1]

Turn(r) ==
    \E q \in Req : /\ req' = [req EXCEPT ![r] = q] /\ SpawnKnows(q)' /\ MemberKnows(q)'
                   /\ Takes(r, q) /\ JoinsKept(r) /\ Noticed(r)

LEMMA FreeKnows == Free \in Req /\ Free.pc \notin {"team", "join", "stop"}
                   /\ SpawnKnows(Free) /\ MemberKnows(Free) /\ SpawnKnows(Free)' /\ MemberKnows(Free)'
<1>1. Free \in Req /\ Free.pc = "none" BY DEF Free, Req, Void, TaskStatus, Kind, Pc
<1>2. SpawnKnows(Free) /\ SpawnKnows(Free)' BY <1>1 DEF SpawnKnows
<1>3. MemberKnows(Free) /\ MemberKnows(Free)' BY <1>1 DEF MemberKnows
<1> QED BY <1>1, <1>2, <1>3

LEMMA TurnTo ==
  ASSUME Distinct, IInv, Next, NEW r \in Request, NEW q \in Req, SpawnKnows(q), MemberKnows(q),
         req' = [req EXCEPT ![r] = q], UNCHANGED <<row, notices>>, q.pc \notin {"team", "join", "stop"}
  PROVE  Turn(r)
<1>1. RowsGrow BY RowsKept
<1>2. tasks' \in Seq(Task) /\ Len(tasks) <= Len(tasks') BY TasksKept
<1>3. Rows /\ tasks \in Seq(Task) BY DEF IInv, Stored
<1>4. SpawnKnows(q)' /\ MemberKnows(q)' BY <1>1, <1>2, <1>3, KnowsStays
<1> QED BY <1>4 DEF Turn, Takes, JoinsKept, Noticed

LEMMA TurnFree ==
  ASSUME Distinct, IInv, Next, NEW r \in Request, Done(r), UNCHANGED <<row, notices>> PROVE Turn(r)
BY FreeKnows, TurnTo DEF Done

LEMMA SpawnTurns == ASSUME Distinct, IInv, Next, NEW r \in Request, Spawning(r) PROVE Turn(r)
<1> DEFINE q == req[r]
<1>0. q \in Req /\ SpawnKnows(q) /\ MemberKnows(q) BY DEF IInv, Requests
<1>1. req \in [Request -> Req] BY DEF IInv, Requests
<1>2. Rows BY DEF IInv
<1>3. ASSUME NEW l \in Leader, NEW n \in Name, SpawnCheck(r, l, n) PROVE Turn(r)
  <2>1. PICK pc : pc = IF row[l] = NoRow THEN "create_new" ELSE "create" OBVIOUS
  <2>0. PICK S : S = ActiveTeammates(l) OBVIOUS
  <2>9. S \subseteq Session BY <2>0 DEF ActiveTeammates, Session
  <2>2. PICK p : p = [Free EXCEPT !.kind = "spawn", !.by = l, !.team = l, !.name = n, !.left = S, !.pc = pc]
    OBVIOUS
  <2>3. p \in Req /\ p.pc = pc /\ p.by = l /\ p.team = l /\ p.name = n /\ p.left = S
    BY <2>1, <2>2, <2>9 DEF Free, Req, TaskStatus, Session, Kind, Pc
  <2>10. Unlike(S, n)
    <3>1. row[l] = NoRow => S = {} BY <1>2, <2>0 DEF Rows, ActiveTeammates, Active, Session
    <3>2. row[l] # NoRow => \A u \in S : Lower[row[u].name] # Lower[n]
      BY <1>3, <2>0 DEF SpawnCheck, MaySpawn
    <3>3. \A u \in S : row[u] # NoRow BY <2>0 DEF ActiveTeammates, Active
    <3> QED BY <2>9, <3>1, <3>2, <3>3 DEF Unlike
  <2>4. req' = [req EXCEPT ![r] = p] /\ UNCHANGED <<row, notices>>
    BY <1>3, <2>0, <2>1, <2>2 DEF SpawnCheck, Begin
  <2>5. pc = "create" => l \in led BY <1>2, <2>1 DEF Rows
  <2>6. SpawnKnows(p) BY <2>1, <2>3, <2>5, <2>10 DEF SpawnKnows
  <2>7. MemberKnows(p) BY <2>1, <2>3 DEF MemberKnows
  <2>8. p.pc \notin {"team", "join", "stop"} BY <2>1, <2>3
  <2> QED BY <2>3, <2>4, <2>6, <2>7, <2>8, TurnTo
<1>4. ASSUME SpawnCreate(r) PROVE Turn(r)
  <2>1. PICK s : s = CHOOSE x \in Mate : x \notin made OBVIOUS
  <2>2. s \in Mate /\ s \notin made BY <1>2, <1>4, <2>1 DEF SpawnCreate, Rows
  <2>3. PICK pc : pc = IF q.pc = "create_new" THEN "team" ELSE "join" OBVIOUS
  <2>4. PICK p : p = [q EXCEPT !.who = s, !.pc = pc] OBVIOUS
  <2>0. s \in Session \cup {Void, "same"} /\ pc \in Pc BY <2>2, <2>3 DEF Session, Pc
  <2>5. p \in Req /\ p.pc = pc /\ p.who = s /\ p.by = q.by /\ p.team = q.team /\ p.name = q.name
        /\ p.left = q.left
    BY <1>0, <2>4, <2>0 DEF Req
  <2>6. /\ req' = [req EXCEPT ![r] = p] /\ UNCHANGED <<led, row, notices>>
        /\ made' = made \cup {s}
    BY <1>4, <2>1, <2>3, <2>4 DEF SpawnCreate
  <2>7. q.pc \in {"create", "create_new"} BY <1>4 DEF SpawnCreate
  <2>12. Unlike(p.left, p.name)' BY <1>0, <2>5, <2>6, <2>7 DEF SpawnKnows, Unlike
  <2>8. SpawnKnows(p)' BY <1>0, <2>3, <2>5, <2>6, <2>7, <2>12 DEF SpawnKnows
  <2>9. MemberKnows(p)' BY <2>3, <2>5 DEF MemberKnows
  <2>10. Takes(r, p) BY <2>2, <2>3, <2>5 DEF Takes
  <2>11. JoinsKept(r) /\ Noticed(r) BY <2>6 DEF JoinsKept, Noticed
  <2> QED BY <2>5, <2>6, <2>8, <2>9, <2>10, <2>11 DEF Turn
<1>5. ASSUME SpawnCreateFails(r) PROVE Turn(r) BY <1>5, TurnFree DEF SpawnCreateFails
<1>6. ASSUME SpawnTeam(r) PROVE Turn(r)
  <2>1. CASE q.by \in led BY <1>6, <2>1, TurnFree DEF SpawnTeam
  <2>2. CASE q.by \notin led
    <3>1. PICK p : p = [q EXCEPT !.pc = "join"] OBVIOUS
    <3>2. p \in Req /\ p.pc = "join" /\ p.who = q.who /\ p.by = q.by /\ p.team = q.team /\ p.name = q.name
          /\ p.left = q.left
      BY <1>0, <3>1 DEF Req, Pc
    <3>3. /\ req' = [req EXCEPT ![r] = p] /\ UNCHANGED <<made, notices>> /\ led' = led \cup {q.by}
      BY <1>6, <2>2, <3>1 DEF SpawnTeam, Go
    <3>4. q.pc = "team" BY <1>6 DEF SpawnTeam
    <3>5. q.by \in Leader /\ q.by \notin Mate BY <1>0, <3>4 DEF SpawnKnows, Distinct
    <3>11. Unlike(p.left, p.name)'
      <4>1. Unlike(q.left, q.name) BY <1>0, <3>4 DEF SpawnKnows
      <4>2. RowsGrow BY RowsKept
      <4>3. PICK S, n : S = q.left /\ n = q.name OBVIOUS
      <4>4. Unlike(S, n)' BY <4>1, <4>2, <4>3, UnlikeStays
      <4> QED BY <3>2, <4>3, <4>4
    <3>6. SpawnKnows(p)' BY <1>0, <3>2, <3>3, <3>4, <3>11 DEF SpawnKnows
    <3>7. MemberKnows(p)' BY <3>2 DEF MemberKnows
    <3>8. Takes(r, p) BY <3>2, <3>4 DEF Takes, Joining
    <3>9. \A s \in Mate : row'[s] = row[s] BY <1>2, <1>6, <2>2, <3>5 DEF SpawnTeam, Rows, Session
    <3>10. JoinsKept(r) /\ Noticed(r) BY <3>3, <3>9 DEF JoinsKept, Noticed
    <3> QED BY <3>2, <3>3, <3>6, <3>7, <3>8, <3>10 DEF Turn
  <2> QED BY <2>1, <2>2
<1>7. ASSUME SpawnJoin(r) PROVE Turn(r)
  <2>1. q.pc = "join" BY <1>7 DEF SpawnJoin
  <2>2. q.by \in led /\ q.by \in Leader /\ q.team = q.by /\ q.name \in Name /\ q.who \in made /\ q.who \in Session
    BY <1>0, <1>2, <2>1 DEF SpawnKnows, Rows, Session
  <2>3. CASE NameFree(q.team, q.name)
    <3>1. PICK pc \in {"place", "prompt"} : Go(r, pc) BY <1>7, <2>3 DEF SpawnJoin
    <3>2. PICK p : p = [q EXCEPT !.pc = pc] OBVIOUS
    <3>3. p \in Req /\ p.pc = pc /\ p.who = q.who /\ p.by = q.by /\ p.team = q.team /\ p.name = q.name
      BY <1>0, <3>1, <3>2 DEF Req, Pc
    <3>4. req' = [req EXCEPT ![r] = p] /\ UNCHANGED <<led, made, notices>>
      BY <1>7, <3>1, <3>2 DEF SpawnJoin, Go
    <3>5. PICK m : m = MateRow(q.team, q.name, q.left) OBVIOUS
    <3>6. m # NoRow /\ m.team = q.team BY <3>5 DEF MateRow, NoRow, Void
    <3>7. row' = [row EXCEPT ![q.who] = m] BY <1>7, <2>3, <3>5 DEF SpawnJoin
    <3>8. row'[q.who] = m /\ \A s \in Session : s # q.who => row'[s] = row[s]
      BY <1>2, <2>2, <3>7 DEF Rows
    <3>9. InTeam(p.who, p.team)' BY <2>2, <3>3, <3>6, <3>8 DEF InTeam
    <3>10. SpawnKnows(p)' BY <2>2, <3>1, <3>3, <3>4, <3>9 DEF SpawnKnows
    <3>11. MemberKnows(p)' BY <3>1, <3>3 DEF MemberKnows
    <3>12. Takes(r, p) BY <3>1, <3>3 DEF Takes
    <3>13. req'[r] = p BY <1>1, <3>4
    <3>14. Joining(r) /\ ~Joining(r)' BY <2>1, <3>1, <3>3, <3>13 DEF Joining
    <3>15. JoinsKept(r) BY <3>8, <3>14 DEF JoinsKept, Session
    <3> QED BY <3>3, <3>4, <3>10, <3>11, <3>12, <3>15 DEF Turn, Noticed
  <2>4. CASE ~NameFree(q.team, q.name) BY <1>7, <2>4, TurnFree DEF SpawnJoin
  <2> QED BY <2>3, <2>4
<1>8. ASSUME SpawnPlaced(r) PROVE Turn(r)
  <2>1. PICK p : p = [q EXCEPT !.pc = "prompt"] OBVIOUS
  <2>2. p \in Req /\ p.pc = "prompt" /\ p.who = q.who /\ p.by = q.by /\ p.team = q.team /\ p.name = q.name
    BY <1>0, <2>1 DEF Req, Pc
  <2>3. req' = [req EXCEPT ![r] = p] /\ UNCHANGED <<row, notices>> BY <1>8, <2>1 DEF SpawnPlaced, Go
  <2>4. q.pc = "place" BY <1>8 DEF SpawnPlaced
  <2>5. SpawnKnows(p) BY <1>0, <2>2, <2>4 DEF SpawnKnows
  <2>6. MemberKnows(p) BY <2>2 DEF MemberKnows
  <2>7. p.pc \notin {"team", "join", "stop"} BY <2>2
  <2> QED BY <2>2, <2>3, <2>5, <2>6, <2>7, TurnTo
<1>9. ASSUME SpawnPlaceFails(r) PROVE Turn(r)
  <2>1. q.pc = "place" BY <1>9 DEF SpawnPlaceFails
  <2>2. q.who \in Session /\ row[q.who] # NoRow BY <1>0, <1>2, <2>1 DEF SpawnKnows, InTeam, Rows, Session
  <2>3. req' = [req EXCEPT ![r] = Free] /\ UNCHANGED notices BY <1>9 DEF SpawnPlaceFails, Done
  <2>4. \A s \in Session : s # q.who => row'[s] = row[s] BY <1>2, <1>9 DEF SpawnPlaceFails, Rows
  <2>5. JoinsKept(r) BY <2>2, <2>4 DEF JoinsKept, Session
  <2> QED BY <2>3, <2>5, FreeKnows DEF Turn, Takes, Noticed
<1>10. ASSUME SpawnPrompt(r) PROVE Turn(r) BY <1>10, TurnFree DEF SpawnPrompt
<1> QED BY <1>3, <1>4, <1>5, <1>6, <1>7, <1>8, <1>9, <1>10 DEF Spawning

LEMMA EndTurns == ASSUME Distinct, IInv, Next, NEW r \in Request, Ending(r) PROVE Turn(r)
<1>0. Rows /\ req \in [Request -> Req] BY DEF IInv, Requests
<1>1. PICK q \in Req : q = req[r] BY <1>0
<1>2. SpawnKnows(q) BY <1>1 DEF IInv, Requests
<1>3. ASSUME NEW s \in Mate, EndCheck(r, s) PROVE Turn(r)
  <2>1. s \in Session /\ row[s] # NoRow BY <1>3 DEF EndCheck, Active, Session
  <2>2. PICK t : t = row[s].team OBVIOUS
  <2>3. t \in Leader BY <1>0, <2>1, <2>2 DEF Rows
  <2>4. PICK p : p = [Free EXCEPT !.kind = "end", !.pc = "row", !.team = t, !.who = s] OBVIOUS
  <2>5. p \in Req /\ p.pc = "row" /\ p.who = s
    BY <2>1, <2>3, <2>4 DEF Free, Req, TaskStatus, Kind, Pc
  <2>6. req' = [req EXCEPT ![r] = p] /\ UNCHANGED <<row, notices>> BY <1>3, <2>2, <2>4 DEF EndCheck, Begin
  <2>7. SpawnKnows(p) BY <2>1, <2>5 DEF SpawnKnows
  <2>8. MemberKnows(p) BY <2>5 DEF MemberKnows
  <2>9. p.pc \notin {"team", "join", "stop"} BY <2>5
  <2> QED BY <2>5, <2>6, <2>7, <2>8, <2>9, TurnTo
<1>4. ASSUME EndRow(r) PROVE Turn(r)
  <2>1. q.who \in Mate /\ q.who \in Session /\ row[q.who] # NoRow
    BY <1>1, <1>2, <1>4 DEF EndRow, SpawnKnows, Session
  <2>2. row' = [row EXCEPT ![q.who] = [row[q.who] EXCEPT !.ended = TRUE]] BY <1>1, <1>4 DEF EndRow
  <2>3. PICK m : m = [row[q.who] EXCEPT !.ended = TRUE] OBVIOUS
  <2>4. row[q.who] \in TeamRow BY <1>0, <2>1 DEF Rows
  <2>5. m # NoRow /\ m.ended BY <2>3, <2>4 DEF TeamRow, NoRow
  <2>6. row'[q.who] = m /\ \A s \in Session : s # q.who => row'[s] = row[s] BY <1>0, <2>1, <2>2, <2>3 DEF Rows
  <2>7. JoinsKept(r) BY <2>1, <2>6 DEF JoinsKept, Session
  <2>8. UNCHANGED notices BY <1>4 DEF EndRow
  <2>9. CASE Active(q.who)
    <3>1. PICK p : p = [q EXCEPT !.pc = "stop"] OBVIOUS
    <3>2. p \in Req /\ p.pc = "stop" /\ p.who = q.who BY <3>1 DEF Req, Pc
    <3>3. req' = [req EXCEPT ![r] = p] BY <1>1, <1>4, <2>9, <3>1 DEF EndRow, Go
    <3>4. SpawnKnows(p)' BY <2>1, <2>5, <2>6, <3>2 DEF SpawnKnows
    <3>5. MemberKnows(p)' BY <3>2 DEF MemberKnows
    <3>6. Takes(r, p) BY <2>9, <3>2 DEF Takes, Active
    <3> QED BY <2>7, <2>8, <3>2, <3>3, <3>4, <3>5, <3>6 DEF Turn, Noticed
  <2>10. CASE ~Active(q.who)
    <3>1. req' = [req EXCEPT ![r] = Free] BY <1>1, <1>4, <2>10 DEF EndRow, Done
    <3> QED BY <2>7, <2>8, <3>1, FreeKnows DEF Turn, Takes, Noticed
  <2> QED BY <2>9, <2>10
<1>5. ASSUME EndStop(r) PROVE Turn(r)
  <2>1. UNCHANGED row /\ req' = [req EXCEPT ![r] = Free] /\ req[r].pc = "stop" BY <1>5 DEF EndStop, Done
  <2>2. notices' = [notices EXCEPT ![req[r].who] = notices[req[r].who] + 1] BY <1>5 DEF EndStop
  <2>3. req'[r] = Free BY <1>0, <2>1
  <2>4. Stopping(r) /\ ~Stopping(r)' BY <2>1, <2>3, FreeKnows DEF Stopping
  <2>5. Noticed(r) BY <2>2, <2>4 DEF Noticed
  <2> QED BY <2>1, <2>5, FreeKnows DEF Turn, Takes, JoinsKept
<1> QED BY <1>3, <1>4, <1>5 DEF Ending

\* The assignee is an active member of the caller's team, as the rows are now.
LEMMA Assignable ==
  ASSUME Distinct, Rows, NEW by \in Session, NEW a \in Session, MayAssign(by, a)
  PROVE  InTeam(a, row[by].team)
<1>1. a # Void BY DEF Distinct
<1> QED BY <1>1 DEF MayAssign, ActiveMembers, Active, InTeam

LEMMA TaskTurns ==
  ASSUME Distinct, IInv, Next, NEW r \in Request, Tasking(r) PROVE UNCHANGED <<req, row, notices>> \/ Turn(r)
<1>0. Rows /\ req \in [Request -> Req] /\ tasks \in Seq(Task) BY DEF IInv, Requests, Stored
<1>1. PICK q \in Req : q = req[r] BY <1>0
<1>2. MemberKnows(q) BY <1>1 DEF IInv, Requests
<1>3. ASSUME NEW by \in Session, NEW a \in Session \cup {Void}, AddTask(r, by, a)
      PROVE  UNCHANGED <<req, row, notices>> \/ Turn(r)
  <2>1. UNCHANGED <<row, notices>> /\ row[by] # NoRow BY <1>3 DEF AddTask, Active
  <2>2. CASE a \in {Void, by} BY <1>3, <2>1, <2>2 DEF AddTask
  <2>3. CASE a \notin {Void, by}
    <3>1. InTeam(a, row[by].team) BY <1>0, <1>3, <2>3, Assignable DEF AddTask
    <3>2. PICK p : p = [Free EXCEPT !.kind = "task", !.pc = "announce", !.by = by, !.who = a] OBVIOUS
    <3>3. p \in Req /\ p.pc = "announce" /\ p.who = a /\ p.by = by
      BY <3>2 DEF Free, Req, TaskStatus, Kind, Pc
    <3>4. req' = [req EXCEPT ![r] = p] BY <1>3, <2>3, <3>2 DEF AddTask, Begin
    <3>5. SpawnKnows(p) BY <3>3 DEF SpawnKnows
    <3>6. MemberKnows(p) BY <2>1, <2>3, <3>1, <3>3 DEF MemberKnows
    <3>7. p.pc \notin {"team", "join", "stop"} BY <3>3
    <3> QED BY <2>1, <3>3, <3>4, <3>5, <3>6, <3>7, TurnTo
  <2> QED BY <2>2, <2>3
<1>4. ASSUME NEW by \in Session, NEW i \in 1..MaxTask, NEW a \in Session \cup {Void, "same"},
             NEW st \in {"same", "done"}, UpdateCheck(r, by, i, a, st)
      PROVE  Turn(r)
  <2>1. UNCHANGED <<row, notices>> /\ row[by] # NoRow /\ i \in 1..Len(tasks) /\ i \in Nat
    BY <1>0, <1>4 DEF UpdateCheck, Active
  <2>2. PICK t : t = row[by].team OBVIOUS
  <2>3. t \in Leader BY <1>0, <2>1, <2>2 DEF Rows
  <2>4. PICK o : o = [assignee |-> tasks[i].assignee, status |-> tasks[i].status] OBVIOUS
  <2>0. tasks[i] \in Task BY <1>0, <2>1
  <2>5. o \in [assignee : Session \cup {Void}, status : TaskStatus] BY <2>0, <2>4 DEF Task
  <2>6. PICK p : p = [Free EXCEPT !.kind = "task", !.pc = "write", !.by = by, !.team = t, !.task = i, !.who = a,
                                  !.name = st, !.old = o]
    OBVIOUS
  <2>13. p = [kind |-> "task", pc |-> "write", by |-> by, team |-> t, who |-> a, name |-> st, task |-> i,
              old |-> o, left |-> {}]
    BY <2>6 DEF Free
  <2>7. p \in Req /\ p.pc = "write" /\ p.who = a /\ p.by = by /\ p.team = t /\ p.task = i /\ p.name = st
    BY <2>1, <2>3, <2>5, <2>13 DEF Req, Kind, Pc
  <2>8. req' = [req EXCEPT ![r] = p] BY <1>4, <2>2, <2>4, <2>6 DEF UpdateCheck, Begin
  <2>9. a \in Session => InTeam(a, t) BY <1>0, <1>4, <2>2, Assignable DEF UpdateCheck, Distinct
  <2>10. SpawnKnows(p) BY <2>7 DEF SpawnKnows
  <2>11. MemberKnows(p) BY <2>1, <2>2, <2>7, <2>9 DEF MemberKnows
  <2>12. p.pc \notin {"team", "join", "stop"} BY <2>7
  <2> QED BY <2>1, <2>7, <2>8, <2>10, <2>11, <2>12, TurnTo
<1>5. ASSUME UpdateWrite(r) PROVE Turn(r)
  <2>1. q.pc = "write" /\ UNCHANGED <<row, notices>> BY <1>1, <1>5 DEF UpdateWrite
  <2>2. PICK L : L = Announced(r) OBVIOUS
  <2>3. CASE L = {} BY <1>5, <2>1, <2>2, <2>3, TurnFree DEF UpdateWrite
  <2>4. CASE L # {}
    <3>1. PICK p : p = [q EXCEPT !.pc = "notify", !.left = L] OBVIOUS
    <3>2. L \subseteq Session BY <2>2 DEF Announced
    <3>3. p \in Req /\ p.pc = "notify" /\ p.by = q.by /\ p.left = L BY <3>1, <3>2 DEF Req, Pc
    <3>4. req' = [req EXCEPT ![r] = p] BY <1>1, <1>5, <2>2, <2>4, <3>1 DEF UpdateWrite
    <3>5. q.by \in Session /\ row[q.by] # NoRow /\ q.team = row[q.by].team BY <1>2, <2>1 DEF MemberKnows
    <3>6. q.team \in led BY <1>0, <3>5 DEF Rows
    <3>7. InTeam(q.team, q.team) BY <1>0, <3>6 DEF Rows, InTeam
    <3>8. q.who \in Session => InTeam(q.who, q.team) BY <1>2, <2>1 DEF MemberKnows
    <3>9. \A s \in L : s \in Session /\ (s = q.who \/ s = q.team) BY <1>1, <2>2 DEF Announced
    <3>10. \A s \in L : InTeam(s, row[q.by].team) BY <3>5, <3>7, <3>8, <3>9
    <3>11. SpawnKnows(p) BY <3>3 DEF SpawnKnows
    <3>12. MemberKnows(p) BY <3>3, <3>5, <3>10 DEF MemberKnows
    <3>13. p.pc \notin {"team", "join", "stop"} BY <3>3
    <3> QED BY <2>1, <3>3, <3>4, <3>11, <3>12, <3>13, TurnTo
  <2> QED BY <2>3, <2>4
<1>6. ASSUME Notify(r) PROVE Turn(r)
  <2>1. q.pc \in {"announce", "notify"} /\ UNCHANGED <<row, notices>> BY <1>1, <1>6 DEF Notify
  <2>2. CASE Done(r) BY <2>1, <2>2, TurnFree
  <2>3. ASSUME NEW s \in q.left, req' = [req EXCEPT ![r].left = @ \ {s}], q.pc = "notify" PROVE Turn(r)
    <3>1. PICK p : p = [q EXCEPT !.left = q.left \ {s}] OBVIOUS
    <3>2. p \in Req /\ p.pc = q.pc /\ p.by = q.by /\ p.left = q.left \ {s} BY <3>1 DEF Req
    <3>3. req' = [req EXCEPT ![r] = p] BY <1>1, <2>3, <3>1
    <3>4. SpawnKnows(p) BY <2>3, <3>2 DEF SpawnKnows
    <3>5. MemberKnows(p) BY <1>2, <2>3, <3>2 DEF MemberKnows
    <3>6. p.pc \notin {"team", "join", "stop"} BY <2>3, <3>2
    <3> QED BY <2>1, <3>2, <3>3, <3>4, <3>5, <3>6, TurnTo
  <2>4. Done(r) \/ \E s \in q.left : q.pc = "notify" /\ req' = [req EXCEPT ![r].left = @ \ {s}]
    BY <1>1, <1>6 DEF Notify
  <2> QED BY <2>2, <2>3, <2>4
<1> QED BY <1>3, <1>4, <1>5, <1>6 DEF Tasking

LEMMA MailTurns == ASSUME Distinct, IInv, Next, NEW r \in Request, Mailing(r) PROVE Turn(r)
<1>0. Rows /\ req \in [Request -> Req] BY DEF IInv, Requests
<1>1. PICK q \in Req : q = req[r] BY <1>0
<1>2. MemberKnows(q) BY <1>1 DEF IInv, Requests
<1>3. ASSUME NEW by \in Session, NEW to \in Session \cup {Void}, MailCheck(r, by, to) PROVE Turn(r)
  <2>1. UNCHANGED <<row, notices>> /\ row[by] # NoRow BY <1>3 DEF MailCheck, Active
  <2>2. PICK t : t = row[by].team OBVIOUS
  <2>3. t \in Leader BY <1>0, <2>1, <2>2 DEF Rows
  <2>4. PICK L : L = Recipients(by, to) OBVIOUS
  <2>5. \A s \in ActiveMembers(t) : s \in Session /\ InTeam(s, t) BY DEF ActiveMembers, Active, InTeam
  <2>6. L \subseteq ActiveMembers(t) BY <1>3, <2>2, <2>4 DEF MailCheck, Recipients
  <2>7. L \subseteq Session BY <2>5, <2>6
  <2>8. PICK p : p = [Free EXCEPT !.kind = "mail", !.pc = "store", !.by = by, !.team = t, !.who = to, !.left = L]
    OBVIOUS
  <2>9. p \in Req /\ p.pc = "store" /\ p.by = by /\ p.team = t /\ p.who = to /\ p.left = L
    BY <2>3, <2>7, <2>8 DEF Free, Req, TaskStatus, Kind, Pc
  <2>10. req' = [req EXCEPT ![r] = p] BY <1>3, <2>2, <2>4, <2>8 DEF MailCheck, Begin
  <2>11. SpawnKnows(p) BY <2>9 DEF SpawnKnows
  <2>12. MemberKnows(p) BY <2>1, <2>2, <2>5, <2>6, <2>9 DEF MemberKnows
  <2>13. p.pc \notin {"team", "join", "stop"} BY <2>9
  <2> QED BY <2>1, <2>9, <2>10, <2>11, <2>12, <2>13, TurnTo
<1>4. ASSUME MailStore(r) PROVE Turn(r)
  <2>1. q.pc = "store" /\ UNCHANGED <<row, notices>> BY <1>1, <1>4 DEF MailStore
  <2>2. PICK p : p = [q EXCEPT !.pc = "deliver"] OBVIOUS
  <2>3. p \in Req /\ p.pc = "deliver" /\ p.by = q.by /\ p.left = q.left BY <2>2 DEF Req, Pc
  <2>4. req' = [req EXCEPT ![r] = p] BY <1>1, <1>4, <2>2 DEF MailStore, Go
  <2>5. SpawnKnows(p) BY <2>3 DEF SpawnKnows
  <2>6. MemberKnows(p) BY <1>2, <2>1, <2>3 DEF MemberKnows
  <2>7. p.pc \notin {"team", "join", "stop"} BY <2>3
  <2> QED BY <2>1, <2>3, <2>4, <2>5, <2>6, <2>7, TurnTo
<1>5. ASSUME MailRefused(r) \/ MailDeliver(r) PROVE Turn(r)
  BY <1>5, TurnFree DEF MailRefused, MailDeliver
<1> QED BY <1>3, <1>4, <1>5 DEF Mailing

LEMMA Turns == ASSUME Distinct, IInv, Next PROVE UNCHANGED <<req, row, notices>> \/ \E r \in Request : Turn(r)
<1>1. ASSUME NEW s \in Session, ReadMail(s) PROVE UNCHANGED <<req, row, notices>> BY <1>1 DEF ReadMail
<1> QED BY <1>1, SpawnTurns, EndTurns, TaskTurns, MailTurns DEF Next

LEMMA RequestsKept == ASSUME Distinct, IInv, Next PROVE Requests'
<1>1. Rows /\ RowsGrow /\ tasks \in Seq(Task) BY RowsKept DEF IInv, Stored
<1>2. tasks' \in Seq(Task) /\ Len(tasks) <= Len(tasks') BY TasksKept
<1>3. /\ req \in [Request -> Req]
      /\ \A r \in Request : SpawnKnows(req[r]) /\ MemberKnows(req[r])
  BY DEF IInv, Requests
<1>4. ASSUME NEW q \in Req, SpawnKnows(q), MemberKnows(q) PROVE SpawnKnows(q)' /\ MemberKnows(q)'
  BY <1>1, <1>2, <1>4, KnowsStays
<1>5. ASSUME NEW r \in Request, NEW q \in Req, q = req'[r], SpawnKnows(q)', MemberKnows(q)'
      PROVE  (SpawnKnows(req[r]) /\ MemberKnows(req[r]))'
  BY <1>5
<1>6. ASSUME NEW r \in Request, req'[r] = req[r] PROVE (SpawnKnows(req[r]) /\ MemberKnows(req[r]))'
  <2>1. PICK q \in Req : q = req[r] BY <1>3
  <2>2. SpawnKnows(q) /\ MemberKnows(q) BY <1>3, <2>1
  <2>3. SpawnKnows(q)' /\ MemberKnows(q)' BY <1>4, <2>2
  <2> QED BY <1>5, <1>6, <2>1, <2>3
<1>7. CASE UNCHANGED req
  <2>1. \A r \in Request : req'[r] = req[r] BY <1>7
  <2> QED BY <1>3, <1>6, <1>7, <2>1 DEF Requests
<1>8. ASSUME NEW r \in Request, Turn(r) PROVE Requests'
  <2>1. PICK q \in Req : req' = [req EXCEPT ![r] = q] /\ SpawnKnows(q)' /\ MemberKnows(q)'
    BY <1>8 DEF Turn
  <2>2. req' \in [Request -> Req] /\ req'[r] = q /\ \A x \in Request : x # r => req'[x] = req[x]
    BY <1>3, <2>1
  <2>3. \A x \in Request : (SpawnKnows(req[x]) /\ MemberKnows(req[x]))'
    BY <1>5, <1>6, <2>1, <2>2
  <2> QED BY <2>2, <2>3 DEF Requests
<1> QED BY <1>7, <1>8, Turns

LEMMA FreshKept == ASSUME Distinct, IInv, Next PROVE Fresh'
<1>1. CASE UNCHANGED <<req, row, notices>> BY <1>1 DEF IInv, Fresh, Joining
<1>2. ASSUME NEW r \in Request, Turn(r) PROVE Fresh'
  <2>1. PICK q \in Req : req' = [req EXCEPT ![r] = q] /\ SpawnKnows(q)' /\ Takes(r, q) /\ JoinsKept(r)
    BY <1>2 DEF Turn
  <2>2. req \in [Request -> Req] BY DEF IInv, Requests
  <2>3. req'[r] = q /\ \A x \in Request : x # r => req'[x] = req[x] BY <2>1, <2>2
  <2>4. \A x \in Request : Joining(x) => req[x].who \in made /\ row[req[x].who] = NoRow
    BY DEF IInv, Requests, SpawnKnows, Fresh, Joining
  <2>5. made \subseteq Mate /\ made' \subseteq Mate BY RowsStep DEF IInv, Rows
  <2>6. \A x \in Request : x # r /\ Joining(x) /\ Joining(r) => req[x].who # req[r].who
    BY DEF IInv, Fresh
  <2>7. ASSUME NEW x \in Request, x # r, Joining(x)' PROVE row'[req'[x].who] = NoRow
    <3>1. Joining(x) /\ req'[x] = req[x] BY <2>3, <2>7 DEF Joining
    <3> QED BY <2>1, <2>4, <2>5, <2>6, <2>7, <3>1 DEF JoinsKept
  <2>8. ASSUME Joining(r)'
        PROVE  row'[q.who] = NoRow /\ \A x \in Request : x # r /\ Joining(x) => req[x].who # q.who
    <3>1. q.pc \in {"team", "join"} BY <2>3, <2>8 DEF Joining
    <3>2. q.who \notin made \/ (Joining(r) /\ q.who = req[r].who) BY <2>1, <3>1 DEF Takes
    <3>3. q.who \in Mate BY <2>1, <2>5, <3>1 DEF SpawnKnows
    <3>4. row[q.who] = NoRow BY <2>4, <3>2, <3>3 DEF IInv, Rows
    <3>5. row'[q.who] = NoRow BY <2>1, <2>8, <3>3, <3>4 DEF JoinsKept
    <3> QED BY <2>4, <2>6, <3>2, <3>5
  <2>9. \A x \in Request : x # r => (Joining(x)' <=> Joining(x)) BY <2>3 DEF Joining
  <2>10. \A x \in Request : Joining(x)' => row'[req'[x].who] = NoRow BY <2>3, <2>7, <2>8
  <2>11. ASSUME NEW x \in Request, NEW y \in Request, x # y, Joining(x)', Joining(y)'
         PROVE  req'[x].who # req'[y].who
    <3>1. CASE x = r BY <2>3, <2>8, <2>9, <2>11, <3>1
    <3>2. CASE y = r BY <2>3, <2>8, <2>9, <2>11, <3>2
    <3>3. CASE x # r /\ y # r BY <2>3, <2>9, <2>11, <3>3 DEF IInv, Fresh
    <3> QED BY <3>1, <3>2, <3>3
  <2> QED BY <2>10, <2>11 DEF Fresh
<1> QED BY <1>1, <1>2, Turns

LEMMA StopsKept == ASSUME Distinct, IInv, Next PROVE Stops'
<1>0. /\ notices \in [Session -> Nat]
      /\ \A s \in Session : notices[s] <= 1 /\ (notices[s] = 1 => row[s].ended)
  BY DEF IInv, Stops, EndedOnce
<1>1. \A s \in Session : row[s].ended => row'[s].ended
  <2>1. \A s \in Session : row[s].ended => row[s] # NoRow BY DEF NoRow
  <2> QED BY <2>1, RowsKept DEF RowsGrow
<1>2. CASE UNCHANGED <<req, row, notices>> BY <1>2 DEF IInv, Stops, EndedOnce, Stopping
<1>3. ASSUME NEW r \in Request, Turn(r) PROVE Stops'
  <2>1. PICK q \in Req : req' = [req EXCEPT ![r] = q] /\ SpawnKnows(q)' /\ Takes(r, q)
    BY <1>3 DEF Turn
  <2>2. req \in [Request -> Req] BY DEF IInv, Requests
  <2>3. req'[r] = q /\ \A x \in Request : x # r => req'[x] = req[x] BY <2>1, <2>2
  <2>4. \A x \in Request : Stopping(x) =>
          req[x].who \in Session /\ row[req[x].who].ended /\ notices[req[x].who] = 0
    BY DEF IInv, Requests, SpawnKnows, Stops, Stopping, Session
  <2>5. \A x, y \in Request : x # y /\ Stopping(x) /\ Stopping(y) => req[x].who # req[y].who
    BY DEF IInv, Stops
  <2>6. Stopping(r)' => q.who \in Session /\ ~row[q.who].ended /\ notices[q.who] = 0
    <3>1. SUFFICES ASSUME Stopping(r)' PROVE q.who \in Session /\ ~row[q.who].ended /\ notices[q.who] = 0
      OBVIOUS
    <3>2. q.pc = "stop" BY <2>3, <3>1 DEF Stopping
    <3>3. q.who \in Session BY <2>1, <3>2 DEF SpawnKnows, Session
    <3>4. ~row[q.who].ended BY <2>1, <3>2 DEF Takes
    <3>5. notices[q.who] \in Nat /\ notices[q.who] <= 1 BY <1>0, <3>3
    <3> QED BY <1>0, <3>3, <3>4, <3>5
  <2>7. \A x \in Request : x # r => (Stopping(x)' <=> Stopping(x)) BY <2>3 DEF Stopping
  <2>8. ASSUME NEW x \in Request, NEW y \in Request, x # y, Stopping(x)', Stopping(y)'
        PROVE  req'[x].who # req'[y].who
    <3>1. CASE x = r BY <2>3, <2>4, <2>6, <2>7, <2>8, <3>1
    <3>2. CASE y = r BY <2>3, <2>4, <2>6, <2>7, <2>8, <3>2
    <3>3. CASE x # r /\ y # r BY <2>3, <2>5, <2>7, <2>8, <3>3
    <3> QED BY <3>1, <3>2, <3>3
  <2>9. \A x \in Request : Stopping(x)' => req'[x].who \in Session /\ notices[req'[x].who] = 0
    BY <2>3, <2>4, <2>6, <2>7
  <2>10. CASE UNCHANGED notices
    <3>1. EndedOnce' BY <1>0, <1>1, <2>10 DEF EndedOnce
    <3> QED BY <1>0, <2>8, <2>9, <2>10, <3>1 DEF Stops
  <2>11. ASSUME NEW w, w = req[r].who, Stopping(r), ~Stopping(r)',
                notices' = [notices EXCEPT ![w] = notices[w] + 1]
         PROVE  Stops'
    <3>1. w \in Session /\ notices[w] = 0 /\ row'[w].ended BY <1>1, <2>4, <2>11
    <3>2. /\ notices' \in [Session -> Nat] /\ notices'[w] = 1
          /\ \A s \in Session : s # w => notices'[s] = notices[s]
      BY <1>0, <2>11, <3>1
    <3>3. EndedOnce' BY <1>0, <1>1, <3>1, <3>2 DEF EndedOnce
    <3>4. \A x \in Request : Stopping(x)' => req'[x].who # w BY <2>3, <2>5, <2>7, <2>11
    <3>5. \A x \in Request : Stopping(x)' => notices'[req'[x].who] = 0 BY <2>9, <3>2, <3>4
    <3> QED BY <2>8, <3>2, <3>3, <3>5 DEF Stops
  <2>12. Noticed(r) BY <1>3 DEF Turn
  <2> QED BY <2>10, <2>11, <2>12 DEF Noticed
<1> QED BY <1>2, <1>3, Turns

\* A message of a step goes from a member to a member of the same team.
Within(m) == m \in [from : Session, to : Session] /\ row[m.from] # NoRow /\ InTeam(m.to, row[m.from].team)

Posted ==
    /\ agent' \subseteq Session
    /\ \A m \in msgs' : m \in msgs \/ Within(m)
    /\ mail' = mail \/ \E m \in Mail : mail' = Append(mail, m)

LEMMA PostedBySpawn == ASSUME Distinct, IInv, NEW r \in Request, Spawning(r) PROVE Posted /\ UNCHANGED box
<1> USE DEF Posted
<1>0. agent \subseteq Session BY DEF IInv, Stored
<1>1. ASSUME NEW l \in Leader, NEW n \in Name, SpawnCheck(r, l, n) PROVE Posted /\ UNCHANGED box
  BY <1>0, <1>1 DEF SpawnCheck
<1>2. (SpawnCreate(r) \/ SpawnCreateFails(r) \/ SpawnTeam(r) \/ SpawnJoin(r)) => Posted /\ UNCHANGED box
  BY <1>0 DEF SpawnCreate, SpawnCreateFails, SpawnTeam, SpawnJoin
<1>3. (SpawnPlaced(r) \/ SpawnPlaceFails(r)) => Posted /\ UNCHANGED box
  BY <1>0 DEF SpawnPlaced, SpawnPlaceFails
<1>4. ASSUME SpawnPrompt(r) PROVE Posted /\ UNCHANGED box
  <2>1. PICK q \in Req : q = req[r] BY DEF IInv, Requests
  <2>2. q.pc = "prompt" BY <1>4, <2>1 DEF SpawnPrompt
  <2>3. SpawnKnows(q) BY <2>1 DEF IInv, Requests
  <2>4. q.by \in led /\ q.by \in Leader /\ q.team = q.by /\ q.who \in made /\ InTeam(q.who, q.by)
    BY <2>2, <2>3 DEF SpawnKnows
  <2>5. q.by \in Session /\ q.who \in Session /\ row[q.by] # NoRow /\ row[q.by].team = q.by
    BY <2>4 DEF IInv, Rows, Session
  <2>6. PICK m : m = [from |-> q.by, to |-> q.who] OBVIOUS
  <2>7. m \in [from : Session, to : Session] /\ m.from = q.by /\ m.to = q.who BY <2>5, <2>6
  <2>8. Within(m) BY <2>4, <2>5, <2>7 DEF Within
  <2>9. msgs' = msgs \cup {m} /\ agent' = agent \cup {q.who} /\ UNCHANGED <<mail, box>>
    BY <1>4, <2>1, <2>6 DEF SpawnPrompt
  <2> QED BY <1>0, <2>5, <2>8, <2>9
<1> QED BY <1>1, <1>2, <1>3, <1>4 DEF Spawning

LEMMA PostedByEnd == ASSUME Distinct, IInv, NEW r \in Request, Ending(r) PROVE Posted /\ UNCHANGED box
<1>0. agent \subseteq Session BY DEF IInv, Stored
<1>1. ASSUME NEW s \in Mate, EndCheck(r, s) PROVE Posted /\ UNCHANGED box
  BY <1>0, <1>1 DEF EndCheck, Posted
<1>2. (EndRow(r) \/ EndStop(r)) => Posted /\ UNCHANGED box BY <1>0 DEF EndRow, EndStop, Posted
<1> QED BY <1>1, <1>2 DEF Ending

LEMMA PostedByTask == ASSUME Distinct, IInv, NEW r \in Request, Tasking(r) PROVE Posted /\ UNCHANGED box
<1>0. agent \subseteq Session BY DEF IInv, Stored
<1>1. ASSUME NEW by \in Session, NEW a \in Session \cup {Void}, AddTask(r, by, a) PROVE Posted /\ UNCHANGED box
  BY <1>0, <1>1 DEF AddTask, Posted
<1>2. ASSUME NEW by \in Session, NEW i \in 1..MaxTask, NEW a \in Session \cup {Void, "same"},
             NEW st \in {"same", "done"}, UpdateCheck(r, by, i, a, st)
      PROVE  Posted /\ UNCHANGED box
  BY <1>0, <1>2 DEF UpdateCheck, Posted
<1>3. UpdateWrite(r) => Posted /\ UNCHANGED box BY <1>0 DEF UpdateWrite, Posted
<1>4. ASSUME Notify(r) PROVE Posted /\ UNCHANGED box
  <2>1. PICK q \in Req : q = req[r] BY DEF IInv, Requests
  <2>2. q.pc \in {"announce", "notify"} BY <1>4, <2>1 DEF Notify
  <2>3. PICK to : to = IF q.pc = "announce" THEN {q.who} ELSE q.left OBVIOUS
  <2>4. MemberKnows(q) BY <2>1 DEF IInv, Requests
  <2>5. /\ q.by \in Session /\ row[q.by] # NoRow
        /\ \A s \in to : s \in Session /\ InTeam(s, row[q.by].team)
    BY <2>2, <2>3, <2>4 DEF MemberKnows, Req
  <2>6. \E s \in to : \/ msgs' = msgs \cup {[from |-> q.by, to |-> s]} /\ agent' = agent \cup {s}
                      \/ UNCHANGED <<msgs, agent>>
    BY <1>4, <2>1, <2>3 DEF Notify
  <2>7. UNCHANGED <<mail, box>> BY <1>4 DEF Notify
  <2>8. ASSUME NEW s \in to PROVE Within([from |-> q.by, to |-> s]) BY <2>5 DEF Within
  <2> QED BY <1>0, <2>5, <2>6, <2>7, <2>8 DEF Posted
<1> QED BY <1>1, <1>2, <1>3, <1>4 DEF Tasking

LEMMA PostedByMail == ASSUME Distinct, IInv, NEW r \in Request, Mailing(r) PROVE Posted /\ UNCHANGED box
<1>0. agent \subseteq Session BY DEF IInv, Stored
<1>1. ASSUME NEW by \in Session, NEW to \in Session \cup {Void}, MailCheck(r, by, to) PROVE Posted /\ UNCHANGED box
  BY <1>0, <1>1 DEF MailCheck, Posted
<1>2. MailRefused(r) => Posted /\ UNCHANGED box BY <1>0 DEF MailRefused, Posted
<1>3. PICK q \in Req : q = req[r] /\ MemberKnows(q) BY DEF IInv, Requests
<1>4. ASSUME MailDeliver(r) PROVE Posted /\ UNCHANGED box
  <2>1. q.left \subseteq Session BY DEF Req
  <2> QED BY <1>0, <1>3, <1>4, <2>1 DEF MailDeliver, Posted
<1>5. ASSUME MailStore(r) PROVE Posted /\ UNCHANGED box
  <2>1. q.pc = "store" BY <1>3, <1>5 DEF MailStore
  <2>2. /\ q.by \in Session /\ row[q.by] # NoRow /\ q.team = row[q.by].team
        /\ q.who \in Session \cup {Void}
        /\ \A s \in q.left : s \in Session /\ InTeam(s, row[q.by].team)
    BY <1>3, <2>1 DEF MemberKnows, Req
  <2>3. q.team \in Leader BY <2>2 DEF IInv, Rows
  <2>4. NewMail(q.team, q.by, q.who) \in Mail BY <2>2, <2>3 DEF NewMail, Mail
  <2>5. \A s \in q.left : Within([from |-> q.by, to |-> s]) BY <2>2 DEF Within
  <2>6. /\ mail' = Append(mail, NewMail(q.team, q.by, q.who))
        /\ msgs' = msgs \cup {[from |-> q.by, to |-> s] : s \in q.left} /\ UNCHANGED <<agent, box>>
    BY <1>3, <1>5 DEF MailStore
  <2> QED BY <1>0, <2>4, <2>5, <2>6 DEF Posted
<1> QED BY <1>1, <1>2, <1>4, <1>5 DEF Mailing

LEMMA PostedStep ==
  ASSUME Distinct, IInv, Next PROVE Posted /\ (UNCHANGED box \/ \E s \in Session : ReadMail(s))
<1>1. ASSUME NEW s \in Session, ReadMail(s) PROVE Posted BY <1>1 DEF ReadMail, IInv, Stored, Posted
<1> QED BY <1>1, PostedBySpawn, PostedByEnd, PostedByTask, PostedByMail DEF Next

LEMMA StoredKept == ASSUME Distinct, IInv, Next PROVE Stored'
<1>1. archived' \subseteq made' /\ tasks' \in Seq(Task) BY RowsStep, TasksKept
<1>2. Posted BY PostedStep
<1>3. mail \in Seq(Mail) /\ msgs \subseteq [from : Session, to : Session] BY DEF IInv, Stored
<1>4. mail' \in Seq(Mail) BY <1>2, <1>3 DEF Posted
<1>5. msgs' \subseteq [from : Session, to : Session] BY <1>2, <1>3 DEF Posted, Within
<1> QED BY <1>1, <1>2, <1>4, <1>5 DEF Stored, Posted

LEMMA MessagesKept == ASSUME Distinct, IInv, Next PROVE MessagesStayInTeam'
<1>1. Posted /\ RowsGrow BY PostedStep, RowsKept
<1>2. ASSUME NEW m \in msgs PROVE Within(m)
  <2>1. /\ m \in [from : Session, to : Session] /\ row[m.from] # NoRow
        /\ row[m.from].team = row[m.to].team
    BY DEF IInv, Stored, MessagesStayInTeam
  <2>2. row[m.from].team # Void BY <2>1 DEF IInv, Rows, Distinct, Session
  <2>3. row[m.to] # NoRow BY <2>1, <2>2 DEF NoRow
  <2> QED BY <2>1, <2>3 DEF Within, InTeam
<1>3. \A m \in msgs' : Within(m) BY <1>1, <1>2 DEF Posted
<1>4. ASSUME NEW m \in msgs' PROVE row'[m.from].team = row'[m.to].team /\ row'[m.from] # NoRow
  BY <1>1, <1>3 DEF Within, InTeam, RowsGrow
<1> QED BY <1>4 DEF MessagesStayInTeam

\* The oldest of a page come before the others of it, the newest after them.
LEMMA OldestFirst ==
  ASSUME NEW S \in SUBSET Nat, IsFiniteSet(S), NEW n \in Nat, NEW i \in Oldest(S, n), NEW j \in S, j <= i
  PROVE  j \in Oldest(S, n)
<1> DEFINE B(x) == {k \in S : k < x}
<1>1. i \in S /\ Cardinality(B(i)) < n BY DEF Oldest
<1>2. \A k \in B(j) : k \in B(i) BY <1>1
<1>3. B(j) \subseteq B(i) /\ IsFiniteSet(B(i)) BY <1>2, FS_Subset
<1>4. Cardinality(B(j)) <= Cardinality(B(i)) BY <1>3, FS_Subset
<1>5. Cardinality(B(i)) \in Nat /\ Cardinality(B(j)) \in Nat BY <1>3, FS_Subset, FS_CardinalityType
<1>6. Cardinality(B(j)) < n BY <1>1, <1>4, <1>5
<1> QED BY <1>6 DEF Oldest

LEMMA NewestLast ==
  ASSUME NEW S \in SUBSET Nat, IsFiniteSet(S), NEW n \in Nat, NEW i \in Newest(S, n), NEW j \in S, i <= j
  PROVE  j \in Newest(S, n)
<1> DEFINE B(x) == {k \in S : x < k}
<1>1. i \in S /\ Cardinality(B(i)) < n BY DEF Newest
<1>2. \A k \in B(j) : k \in B(i) BY <1>1
<1>3. B(j) \subseteq B(i) /\ IsFiniteSet(B(i)) BY <1>2, FS_Subset
<1>4. Cardinality(B(j)) <= Cardinality(B(i)) BY <1>3, FS_Subset
<1>5. Cardinality(B(i)) \in Nat /\ Cardinality(B(j)) \in Nat BY <1>3, FS_Subset, FS_CardinalityType
<1>6. Cardinality(B(j)) < n BY <1>1, <1>4, <1>5
<1> QED BY <1>6 DEF Newest

\* A page reaches from its least id to its greatest and leaves nothing out between them.
LEMMA PageWhole ==
  ASSUME Distinct, mail \in Seq(Mail), NEW s \in Session, NEW at \in Nat, Page(s, at) # {}
  PROVE  LET p == Page(s, at) IN
         /\ p \subseteq 1..Len(mail) /\ Min(p) \in p /\ Max(p) \in p
         /\ \A i \in p : Min(p) <= i /\ i <= Max(p) /\ at < i /\ i \in Visible(s)
         /\ \A i \in Visible(s) : (at < i /\ i <= Max(p) /\ (at = 0 => Min(p) <= i)) => i \in p
<1>0. MailPage \in Nat BY DEF Distinct
<1>1. PICK p : p = Page(s, at) OBVIOUS
<1>2. PICK S : S = {i \in Visible(s) : i > at} OBVIOUS
<1>3. S \subseteq 1..Len(mail) /\ Visible(s) \subseteq 1..Len(mail) /\ Len(mail) \in Nat
  BY <1>2 DEF Visible
<1>4. S \in SUBSET Nat /\ IsFiniteSet(S)
  <2>1. 1..Len(mail) \subseteq Nat /\ IsFiniteSet(1..Len(mail)) BY <1>3, FS_Interval
  <2> QED BY <1>3, <2>1, FS_Subset
<1>5. p = IF at > 0 THEN Oldest(S, MailPage) ELSE Newest(S, MailPage) BY <1>1, <1>2 DEF Page
<1>6. p \subseteq S BY <1>5 DEF Oldest, Newest
<1>7. p \in SUBSET Nat /\ p # {} /\ \A i \in p : i <= Len(mail)
  <2>1. \A i \in p : i \in 1..Len(mail) BY <1>3, <1>6
  <2> QED BY <1>1, <1>3, <2>1
<1>8. Min(p) \in p /\ \A i \in p : Min(p) <= i BY <1>7, LeastExists
<1>9. Max(p) \in p /\ \A i \in p : Max(p) >= i BY <1>3, <1>7, GreatestExists
<1>10. PICK lo \in Nat, hi \in Nat : lo = Min(p) /\ hi = Max(p) BY <1>7, <1>8, <1>9
<1>11. ASSUME NEW i \in Visible(s), at < i, i <= hi, at = 0 => lo <= i PROVE i \in p
  <2>1. i \in S BY <1>2, <1>3, <1>11
  <2>2. CASE at > 0
    <3>1. p = Oldest(S, MailPage) /\ hi \in Oldest(S, MailPage) BY <1>5, <1>9, <1>10, <2>2
    <3> QED BY <1>0, <1>4, <1>11, <2>1, <3>1, OldestFirst
  <2>3. CASE ~(at > 0)
    <3>1. p = Newest(S, MailPage) /\ lo \in Newest(S, MailPage) BY <1>5, <1>8, <1>10, <2>3
    <3>2. lo <= i BY <1>11, <2>3
    <3> QED BY <1>0, <1>4, <2>1, <3>1, <3>2, NewestLast
  <2> QED BY <2>2, <2>3
<1>12. \A i \in p : lo <= i /\ i <= hi /\ at < i /\ i \in Visible(s)
  BY <1>2, <1>6, <1>7, <1>8, <1>9, <1>10
<1>13. p \subseteq 1..Len(mail) BY <1>3, <1>6
<1> QED BY <1>1, <1>8, <1>9, <1>10, <1>11, <1>12, <1>13

LEMMA VisibleStays ==
  ASSUME Distinct, IInv, Next, NEW s \in Session, row[s] # NoRow, NEW i \in 1..Len(mail)
  PROVE  Len(mail) <= Len(mail') /\ (i \in Visible(s)' <=> i \in Visible(s))
<1>1. row'[s].team = row[s].team /\ row'[s].role = row[s].role BY RowsKept DEF RowsGrow
<1>2. mail \in Seq(Mail) BY DEF IInv, Stored
<1>3. Len(mail) <= Len(mail') /\ i \in 1..Len(mail') /\ mail'[i] = mail[i]
  BY <1>2, PostedStep DEF Posted
<1>4. mail' \in Seq(Mail) BY StoredKept DEF Stored
<1>5. i \in DOMAIN mail /\ i \in DOMAIN mail' BY <1>2, <1>3, <1>4
<1> QED BY <1>1, <1>3, <1>5 DEF Visible

LEMMA BoxesKept == ASSUME Distinct, IInv, Next PROVE Boxes'
<1>1. mail \in Seq(Mail) /\ Len(mail) \in Nat BY DEF IInv, Stored
<1>2. box \in [Session -> [at : Nat, from : Nat, ids : SUBSET Nat]] BY DEF IInv, Boxes
<1>3. \A s \in Session : IF box[s].at = 0 THEN box[s].ids = {}
                         ELSE row[s] # NoRow /\ box[s].from <= box[s].at /\ box[s].at <= Len(mail)
  BY DEF IInv, Boxes
<1>4. \A s \in Session : box[s].at > 0 =>
        box[s].ids = {i \in Visible(s) : box[s].from <= i /\ i <= box[s].at}
  BY DEF IInv, Boxes, MailReadWhole
<1>5. RowsGrow BY RowsKept
<1>6. mail' \in Seq(Mail) BY StoredKept DEF Stored
<1>7. ASSUME NEW s \in Session, box'[s] = box[s]
      PROVE  /\ IF box'[s].at = 0 THEN box'[s].ids = {}
                ELSE row'[s] # NoRow /\ box'[s].from <= box'[s].at /\ box'[s].at <= Len(mail')
             /\ box'[s].at > 0 => box'[s].ids = {i \in Visible(s)' : box'[s].from <= i /\ i <= box'[s].at}
  <2>1. CASE box[s].at = 0 BY <1>3, <1>7, <2>1
  <2>2. CASE box[s].at # 0
    <3>1. PICK at \in Nat, from \in Nat : at = box[s].at /\ from = box[s].from BY <1>2
    <3>2. row[s] # NoRow /\ from <= at /\ at <= Len(mail) /\ at > 0 BY <1>3, <2>2, <3>1
    <3>3. at \in 1..Len(mail) BY <1>1, <3>1, <3>2
    <3>4. Len(mail) <= Len(mail') /\ \A i \in 1..Len(mail) : i \in Visible(s)' <=> i \in Visible(s)
      BY <3>2, <3>3, VisibleStays
    <3>5. Visible(s) \subseteq 1..Len(mail) /\ Visible(s)' \subseteq 1..Len(mail')
      BY <1>1, <1>6 DEF Visible
    <3>6. Len(mail') \in Nat /\ at <= Len(mail') BY <1>1, <1>6, <3>2, <3>4
    <3>7. {i \in Visible(s)' : from <= i /\ i <= at} = {i \in Visible(s) : from <= i /\ i <= at}
      BY <1>1, <3>2, <3>4, <3>5, <3>6
    <3>8. row'[s] # NoRow BY <1>5, <3>2 DEF RowsGrow
    <3> QED BY <1>4, <1>7, <3>1, <3>2, <3>6, <3>7, <3>8
  <2> QED BY <2>1, <2>2
<1>8. CASE UNCHANGED box BY <1>2, <1>7, <1>8 DEF Boxes, MailReadWhole
<1>9. ASSUME NEW s \in Session, ReadMail(s) PROVE Boxes'
  <2>1. PICK at \in Nat, from \in Nat, ids \in SUBSET Nat :
          at = box[s].at /\ from = box[s].from /\ ids = box[s].ids
    BY <1>2
  <2>2. PICK p : p = Page(s, at) OBVIOUS
  <2>3. p # {} /\ row[s] # NoRow /\ UNCHANGED <<row, mail>> BY <1>9, <2>1, <2>2 DEF ReadMail
  <2>4. /\ p \subseteq 1..Len(mail) /\ Min(p) \in p /\ Max(p) \in p
        /\ \A i \in p : Min(p) <= i /\ i <= Max(p) /\ at < i /\ i \in Visible(s)
        /\ \A i \in Visible(s) : (at < i /\ i <= Max(p) /\ (at = 0 => Min(p) <= i)) => i \in p
    BY <1>1, <2>2, <2>3, PageWhole
  <2>5. PICK lo \in 1..Len(mail), hi \in 1..Len(mail) : lo = Min(p) /\ hi = Max(p) BY <2>4
  <2>6. PICK f \in Nat : f = IF at = 0 THEN lo ELSE from BY <1>1
  <2>7. PICK b : b = [at |-> hi, ids |-> ids \cup p, from |-> f] OBVIOUS
  <2>8. /\ b \in [at : Nat, from : Nat, ids : SUBSET Nat]
        /\ b.at = hi /\ b.from = f /\ b.ids = ids \cup p
    BY <1>1, <2>4, <2>7
  <2>9. box' = [box EXCEPT ![s] = b] BY <1>9, <2>1, <2>2, <2>5, <2>6, <2>7 DEF ReadMail
  <2>10. /\ box' \in [Session -> [at : Nat, from : Nat, ids : SUBSET Nat]]
         /\ box'[s] = b /\ \A x \in Session : x # s => box'[x] = box[x]
    BY <1>2, <2>8, <2>9
  <2>11. f <= hi /\ hi <= Len(mail) /\ hi > 0 /\ at < hi
    <3>1. at < hi /\ lo <= hi BY <2>4, <2>5
    <3>2. at # 0 => from <= at BY <1>3, <2>1
    <3> QED BY <1>1, <2>6, <3>1, <3>2
  <2>12. ids \cup p = {i \in Visible(s) : f <= i /\ i <= hi}
    <3>1. Visible(s) \subseteq Nat BY <1>1 DEF Visible
    <3>2. CASE at = 0
      <4>1. ids = {} /\ f = lo BY <1>3, <2>1, <2>6, <3>2
      <4>2. \A i \in p : i \in Visible(s) /\ lo <= i /\ i <= hi BY <2>4, <2>5
      <4>3. lo > 0 /\ lo \in Nat BY <1>1
      <4>4. ASSUME NEW i \in Visible(s), lo <= i, i <= hi PROVE i \in p
        <5>1. at < i BY <3>1, <3>2, <4>3, <4>4
        <5> QED BY <2>4, <2>5, <4>4, <5>1
      <4> QED BY <4>1, <4>2, <4>4
    <3>3. CASE at # 0
      <4>1. f = from /\ from <= at /\ ids = {i \in Visible(s) : from <= i /\ i <= at}
        BY <1>3, <1>4, <2>1, <2>6, <3>3
      <4>2. \A i \in ids \cup p : i \in Visible(s) /\ f <= i /\ i <= hi
        BY <2>4, <2>5, <2>11, <3>1, <4>1
      <4>3. \A i \in Visible(s) : f <= i /\ i <= hi => i \in ids \cup p
        BY <2>4, <2>5, <3>1, <3>3, <4>1
      <4> QED BY <3>1, <4>2, <4>3
    <3> QED BY <3>2, <3>3
  <2>13. Visible(s)' = Visible(s) BY <2>3 DEF Visible
  <2>14. /\ IF box'[s].at = 0 THEN box'[s].ids = {}
            ELSE row'[s] # NoRow /\ box'[s].from <= box'[s].at /\ box'[s].at <= Len(mail')
         /\ box'[s].ids = {i \in Visible(s)' : box'[s].from <= i /\ i <= box'[s].at}
    BY <2>3, <2>8, <2>10, <2>11, <2>12, <2>13
  <2> QED BY <1>7, <2>10, <2>14 DEF Boxes, MailReadWhole
<1> QED BY <1>8, <1>9, PostedStep

LEMMA TypesAgree == IInv => TypeOK
<1> SUFFICES ASSUME IInv PROVE TypeOK OBVIOUS
<1>1. \A s \in Session : row[s] = NoRow \/ (row[s] \in TeamRow /\ row[s].team \in led) BY DEF IInv, Rows
<1>2. \A r \in Request : req[r].kind \in {"free", "spawn", "end", "task", "mail"}
  BY DEF IInv, Requests, Req, Kind
<1> QED BY <1>1, <1>2 DEF TypeOK, IInv, Rows, Stored

LEMMA Initially == ASSUME Distinct, Init PROVE IInv
<1>1. \A s \in Session : row[s] = NoRow /\ notices[s] = 0 /\ box[s] = [at |-> 0, from |-> 0, ids |-> {}]
  BY DEF Init
<1>2. Rows /\ Seen BY <1>1 DEF Init, Rows, Session, Seen, Unlike, NoRow
<1>3. Stored BY DEF Init, Stored
<1>4. req \in [Request -> Req] /\ \A r \in Request : req[r] = Free BY FreeKnows DEF Init
<1>5. Requests BY <1>4, FreeKnows DEF Requests
<1>6. \A r \in Request : ~Joining(r) /\ ~Stopping(r) BY <1>4, FreeKnows DEF Joining, Stopping
<1>7. Fresh BY <1>6 DEF Fresh
<1>8. Stops BY <1>1, <1>6 DEF Init, Stops, EndedOnce
<1>9. NamesApart BY <1>1 DEF NamesApart, Active
<1>10. MessagesStayInTeam BY DEF Init, MessagesStayInTeam
<1>11. Boxes BY <1>1 DEF Init, Boxes, MailReadWhole
<1> QED BY <1>2, <1>3, <1>5, <1>7, <1>8, <1>9, <1>10, <1>11 DEF IInv

LEMMA Stuttering == ASSUME IInv, UNCHANGED vars PROVE IInv'
<1> USE DEF IInv, vars
<1>1. Rows' /\ Seen' /\ Stored' /\ NamesApart' BY DEF Rows, Seen, Unlike, Stored, NamesApart, Active
<1>2. Requests' BY DEF Requests, SpawnKnows, MemberKnows, InTeam, Unlike
<1>3. Fresh' /\ Stops' BY DEF Fresh, Joining, Stops, EndedOnce, Stopping
<1>4. MessagesStayInTeam' /\ Boxes' BY DEF MessagesStayInTeam, Boxes, MailReadWhole, Visible
<1> QED BY <1>1, <1>2, <1>3, <1>4

LEMMA Inductive == ASSUME Distinct PROVE IInv /\ [Next]_vars => IInv'
<1> SUFFICES ASSUME IInv, [Next]_vars PROVE IInv' OBVIOUS
<1>1. CASE Next
  BY <1>1, RowsKept, StoredKept, RequestsKept, FreshKept, StopsKept, MessagesKept, BoxesKept DEF IInv
<1>2. CASE UNCHANGED vars BY <1>2, Stuttering
<1> QED BY <1>1, <1>2

LEMMA TeamsInvariant == ASSUME Distinct PROVE Spec => []IInv
<1>1. Init => IInv BY Initially
<1>2. IInv /\ [Next]_vars => IInv' BY Inductive
<1> QED BY <1>1, <1>2, PTL DEF Spec

\* The team rows, the tasks, the mail, the messages and the requests keep their types (team.rs, a2a/store.rs).
THEOREM TeamsTypeOK == ASSUME Distinct PROVE Spec => []TypeOK
<1>1. IInv => TypeOK BY TypesAgree
<1> QED BY <1>1, TeamsInvariant, PTL

\* add_team_member: two active members of a team never have the same name, although a spawn looks at the
\* names before it creates the session and joins after; and whoever was there when a spawn looked has
\* a name that differs from the new one in more than case (spawns that cross may differ in case only).
THEOREM TeamsNamesApart == ASSUME Distinct PROVE Spec => []NamesApart
<1>1. IInv => NamesApart BY DEF IInv
<1> QED BY <1>1, TeamsInvariant, PTL

\* end_team_member: a teammate that several requests end is told once, and only after its row is ended.
THEOREM TeamsEndedOnce == ASSUME Distinct PROVE Spec => []EndedOnce
<1>1. IInv => EndedOnce BY DEF IInv, Stops
<1> QED BY <1>1, TeamsInvariant, PTL

\* A message that a spawn, a task or a mail sends goes to a member of the sender's team, although the
\* recipients were read before the send.
THEOREM TeamsMessagesStay == ASSUME Distinct PROVE Spec => []MessagesStayInTeam
<1>1. IInv => MessagesStayInTeam BY DEF IInv
<1> QED BY <1>1, TeamsInvariant, PTL

\* team_mail: a member that reads on after the last id it was given gets all that is for it from its first
\* page on, whatever is stored between two reads and however long a page is.
THEOREM TeamsMailReadWhole == ASSUME Distinct PROVE Spec => []MailReadWhole
<1>1. IInv => MailReadWhole BY DEF IInv, Boxes
<1> QED BY <1>1, TeamsInvariant, PTL

LEMMA AssignmentStep == ASSUME Distinct, IInv, Next PROVE AssignmentKept
<1>1. tasks \in Seq(Task) /\ req \in [Request -> Req] BY DEF IInv, Stored, Requests
<1>2. ASSUME NEW t \in Task, tasks' = Append(tasks, t) PROVE AssignmentKept
  <2>1. \A i \in DOMAIN tasks : tasks'[i] = tasks[i] BY <1>1, <1>2
  <2> QED BY <2>1 DEF AssignmentKept
<1>3. ASSUME NEW x \in Request, UpdateWrite(x) PROVE AssignmentKept
  <2>1. PICK q \in Req : q = req[x] BY <1>1
  <2>2. q.task \in DOMAIN tasks BY <1>1, <1>3, <2>1 DEF IInv, Requests, MemberKnows, UpdateWrite
  <2>3. PICK u : u = Patched(tasks[q.task], q) OBVIOUS
  <2>4. tasks' = [tasks EXCEPT ![q.task] = u] BY <1>3, <2>1, <2>3 DEF UpdateWrite
  <2>5. tasks[q.task] \in Task BY <1>1, <2>2
  <2>6. q.who = "same" => u.assignee = tasks[q.task].assignee BY <2>3, <2>5 DEF Patched, Task
  <2>7. tasks'[q.task] = u BY <1>1, <2>2, <2>4
  <2>8. \A r \in Request : r # x => req'[r] = req[r] BY <1>1, <1>3 DEF UpdateWrite, Done
  <2> QED BY <2>1, <2>6, <2>7, <2>8 DEF AssignmentKept
<1>4. CASE UNCHANGED tasks BY <1>4 DEF AssignmentKept
<1> QED BY <1>2, <1>3, <1>4, TasksStep

\* update_team_task: a patch that leaves the assignee out keeps the one another request wrote meanwhile.
THEOREM TeamsAssignmentKept == ASSUME Distinct PROVE Spec => [][AssignmentKept]_vars
<1>1. IInv /\ [Next]_vars => [AssignmentKept]_vars BY AssignmentStep
<1> QED BY <1>1, TeamsInvariant, PTL DEF Spec
=============================================================================
