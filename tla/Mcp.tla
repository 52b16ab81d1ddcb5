-------------------------------- MODULE Mcp ---------------------------------
(* The MCP server registry (server/src/mcp): rows of one table, changed by     *)
(* HTTP handlers that run concurrently. Every statement takes the store's      *)
(* connection for itself, so a handler is a sequence of steps between which    *)
(* others run. A start of an agent lists the rows, then opens the environment  *)
(* of each one that applies to the session's project.                          *)
EXTENDS Naturals, Sequences, FiniteSets

CONSTANTS Id,        \* rows that can be added
          Name, Var, \* server names and environment variables
          Add, Update, Start, \* requests: POST, PATCH, and starts of agents
          Scope,     \* of "all": every project, "ours": that of the sessions that start, "other": another one
          MaxDelete,
          None

VARIABLES rows,  \* the table: the row of each id, or None
          req,   \* what each request has read and is about to write
          given, \* the servers handed to each start: id |-> environment
          deletes \* deleted rows; ids are UUIDs, never used again

vars == <<rows, req, given, deletes>>

Request == Add \cup Update \cup Start
Row == [name : Name, enabled : BOOLEAN, scope : Scope, env : SUBSET Var]
\* A patch: None leaves a field alone; set and unset are its environment changes.
Patch == [name : Name \cup {None}, enabled : BOOLEAN \cup {None}, scope : Scope \cup {None},
          set : SUBSET Var, unset : SUBSET Var]

TypeOK ==
  /\ rows \in [Id -> Row \cup {None}]
  /\ \A r \in Request : req[r].pc \in {"idle", "add", "patch", "env", "row", "open", "done"}
  /\ given \in [Start -> [Id -> SUBSET Var \cup {None}]]
  /\ deletes \subseteq Id

Init ==
  /\ rows = [i \in Id |-> None]
  /\ req = [r \in Request |-> [pc |-> "idle"]]
  /\ given = [s \in Start |-> [i \in Id |-> None]]
  /\ deletes = {}

Done(r) == req' = [req EXCEPT ![r] = [pc |-> "done"]]
Live == {i \in Id : rows[i] # None}
NameTaken(n, except) == \E i \in Live \ {except} : rows[i].name = n

-----------------------------------------------------------------------------
(* add *)

AddChecks(r) ==
  /\ req[r].pc = "idle"
  /\ \E row \in Row : /\ row.enabled
                      /\ IF NameTaken(row.name, None) THEN Done(r)
                         ELSE req' = [req EXCEPT ![r] = [pc |-> "add", row |-> row]]
  /\ UNCHANGED <<rows, given, deletes>>

\* The table's UNIQUE(name): a statement that breaks it fails and changes nothing.
Unique(n, except) == ~NameTaken(n, except)

AddInserts(r) ==
  /\ req[r].pc = "add"
  /\ IF Unique(req[r].row.name, None)
     THEN \E i \in Id \ (Live \cup deletes) : rows' = [rows EXCEPT ![i] = req[r].row]
     ELSE UNCHANGED rows
  /\ Done(r) /\ UNCHANGED <<given, deletes>>

-----------------------------------------------------------------------------
(* update *)

Given(patched, current) == IF patched = None THEN current ELSE patched

\* The row is read, the name checked, and name and scope are settled from what was read.
UpdateReads(r) ==
  /\ req[r].pc = "idle"
  /\ \E i \in Id, p \in Patch :
       /\ p.set \cap p.unset = {}
       /\ IF i \notin Live \/ (p.name # None /\ NameTaken(p.name, i)) THEN Done(r)
          ELSE req' = [req EXCEPT ![r] =
                 [pc |-> IF p.set \cup p.unset = {} THEN "row" ELSE "patch", id |-> i, patch |-> p, crossed |-> FALSE,
                  name |-> Given(p.name, rows[i].name), scope |-> Given(p.scope, rows[i].scope)]]
  /\ UNCHANGED <<rows, given, deletes>>

\* env_of: the stored environment, empty for a row that is gone; the changes are merged into it.
EnvOf(i) == IF i \in Live THEN rows[i].env ELSE {}

UpdateMerges(r) ==
  /\ req[r].pc = "patch"
  /\ req' = [req EXCEPT ![r] = [pc |-> "env", id |-> @.id, patch |-> @.patch, name |-> @.name, scope |-> @.scope,
                                crossed |-> @.crossed,
                                env |-> (EnvOf(@.id) \cup @.patch.set) \ @.patch.unset]]
  /\ UNCHANGED <<rows, given, deletes>>

\* `crossed' is history: another request has changed the row since this one read it.
Crossed(r) ==
  {q \in Update \ {r} : req[q].pc \in {"patch", "env", "row"} /\ req[q].id = req[r].id /\ rows' # rows}
Moves(r, state) ==
  req' = [q \in Request |-> IF q = r THEN state
                            ELSE IF q \in Crossed(r) THEN [req[q] EXCEPT !.crossed = TRUE] ELSE req[q]]

UpdateEnv(r) ==
  /\ req[r].pc = "env"
  /\ rows' = [i \in Id |-> IF i = req[r].id /\ i \in Live THEN [rows[i] EXCEPT !.env = req[r].env] ELSE rows[i]]
  /\ Moves(r, [req[r] EXCEPT !.pc = "row"]) /\ UNCHANGED <<given, deletes>>

WrittenFault(r, row) ==
  [row EXCEPT !.name = req[r].name, !.scope = req[r].scope,
              !.enabled = IF req[r].patch.enabled = None THEN FALSE ELSE req[r].patch.enabled]

\* COALESCE keeps the stored command, arguments and switch; name and scope are written always.
Written(r, row) ==
  [row EXCEPT !.name = req[r].name, !.scope = req[r].scope, !.enabled = Given(req[r].patch.enabled, @)]

UpdateRow(r) ==
  /\ req[r].pc = "row"
  /\ LET i == req[r].id IN
     IF i \in Live /\ Unique(req[r].name, i) THEN rows' = [rows EXCEPT ![i] = Written(r, @)] ELSE UNCHANGED rows
  /\ Moves(r, [pc |-> "done"]) /\ UNCHANGED <<given, deletes>>

Delete(i) ==
  /\ i \in Live /\ Cardinality(deletes) < MaxDelete
  /\ rows' = [rows EXCEPT ![i] = None] /\ deletes' = deletes \cup {i}
  /\ UNCHANGED <<req, given>>

-----------------------------------------------------------------------------
(* A start: servers_for lists the rows, then opens each environment *)

Applies(row) == row.enabled /\ row.scope \in {"all", "ours"}

StartLists(s) ==
  /\ req[s].pc = "idle"
  /\ req' = [req EXCEPT ![s] = [pc |-> "open", left |-> {i \in Live : Applies(rows[i])}]]
  /\ UNCHANGED <<rows, given, deletes>>

StartOpens(s, i) ==
  /\ req[s].pc = "open" /\ i \in req[s].left
  /\ given' = [given EXCEPT ![s][i] = EnvOf(i)]
  /\ req' = [req EXCEPT ![s].left = @ \ {i}]
  /\ UNCHANGED <<rows, deletes>>

Next ==
  \/ \E r \in Add : AddChecks(r) \/ AddInserts(r)
  \/ \E r \in Update : UpdateReads(r) \/ UpdateMerges(r) \/ UpdateEnv(r) \/ UpdateRow(r)
  \/ \E i \in Id : Delete(i)
  \/ \E s \in Start : StartLists(s) \/ \E i \in Id : StartOpens(s, i)

Spec == Init /\ [][Next]_vars

-----------------------------------------------------------------------------
(* Properties *)

\* No two servers share a name, though handlers check the name long before they write it.
NamesUnique == \A i, j \in Live : rows[i].name = rows[j].name => i = j

\* What a change of row i may be, by request r's patch ("`None` leaves a field alone"): of the fields
\* F it changes those that the patch names, to what the patch says.
Patches(r, i, F) ==
  \A f \in F : rows[i][f] # rows'[i][f] => req[r].patch[f] # None /\ rows'[i][f] = req[r].patch[f]
MergesEnv(r, i) ==
  /\ rows'[i].env \ rows[i].env \subseteq req[r].patch.set
  /\ rows[i].env \ rows'[i].env \subseteq req[r].patch.unset

\* A stored server changes only in what the patch of a request under way names ("`env` is merged: a
\* string sets that variable, `null` removes it, unnamed variables stay"), unless another request
\* has changed it since this one read it. Then name, scope and environment may go back to what
\* was read (update writes them from its own copy); the switch still changes as the patch says,
\* and the environment not at all in the statement that writes the others.
PatchExact ==
  \A i \in Live : rows'[i] # None /\ rows'[i] # rows[i] =>
       \E r \in Update :
          /\ req[r].pc \in {"env", "row"} /\ req[r].id = i /\ Patches(r, i, {"enabled"})
          /\ ~req[r].crossed => Patches(r, i, {"name", "scope"}) /\ MergesEnv(r, i)
          /\ req[r].pc = "row" => rows'[i].env = rows[i].env
=============================================================================
