----------------------------- MODULE Transcript -----------------------------
(* How a conversation is reduced from its stored events (client/src/           *)
(* transcript.rs, reduce): assistant text assembled from deltas and replaced   *)
(* by the final message, tool cards filled in by results, approvals resolved   *)
(* or abandoned. A text or an output is named by the number of its event.      *)
EXTENDS Naturals, Sequences, FiniteSets

CONSTANTS Call, Approval, MaxLog

VARIABLES log,                     \* the events so far: kind and id
          items,                   \* the rendered entries
          streaming,               \* the index of the entry that is streaming, or 0
          toolIndex, approvalIndex \* the entry of each call and approval, or 0

vars == <<log, items, streaming, toolIndex, approvalIndex>>

Seq1 == Len(log) + 1
Last == Len(items) + 1

TypeOK ==
  /\ Len(log) <= MaxLog /\ streaming \in 0..Len(items)
  /\ toolIndex \in [Call -> 0..Len(items)] /\ approvalIndex \in [Approval -> 0..Len(items)]

Init ==
  /\ log = <<>> /\ items = <<>> /\ streaming = 0
  /\ toolIndex = [c \in Call |-> 0] /\ approvalIndex = [a \in Approval |-> 0]

Stored(k, id) == Len(log) < MaxLog /\ log' = Append(log, [k |-> k, id |-> id])

\* A streaming message without a final one stays as assembled.
EndStream == IF streaming = 0 THEN items ELSE [items EXCEPT ![streaming].live = FALSE]

Said(live) == [k |-> "said", text |-> <<Seq1>>, live |-> live]
Card(c, result) == [k |-> "card", id |-> c, result |-> result]

UserMessage ==
  /\ Stored("user", 0)
  /\ items' = Append(EndStream, [k |-> "user"]) /\ streaming' = 0
  /\ UNCHANGED <<toolIndex, approvalIndex>>

AssistantDelta ==
  /\ Stored("delta", 0)
  /\ IF streaming # 0
     THEN items' = [items EXCEPT ![streaming].text = Append(@, Seq1)] /\ UNCHANGED streaming
     ELSE items' = Append(items, Said(TRUE)) /\ streaming' = Last
  /\ UNCHANGED <<toolIndex, approvalIndex>>

\* The final message replaces the assembled deltas, in place.
AssistantMessage ==
  /\ Stored("message", 0)
  /\ items' = IF streaming # 0 THEN [items EXCEPT ![streaming] = Said(FALSE)] ELSE Append(items, Said(FALSE))
  /\ streaming' = 0
  /\ UNCHANGED <<toolIndex, approvalIndex>>

ToolCall(c) ==
  /\ Stored("call", c)
  /\ items' = Append(EndStream, Card(c, 0)) /\ streaming' = 0
  /\ toolIndex' = [toolIndex EXCEPT ![c] = Last]
  /\ UNCHANGED approvalIndex

\* A result for a call never seen is shown as a card of its own.
ToolResult(c) ==
  /\ Stored("result", c)
  /\ IF toolIndex[c] # 0
     THEN items' = [items EXCEPT ![toolIndex[c]].result = Seq1] /\ UNCHANGED toolIndex
     ELSE items' = Append(items, Card(c, Seq1)) /\ toolIndex' = [toolIndex EXCEPT ![c] = Last]
  /\ UNCHANGED <<streaming, approvalIndex>>

\* The server never gives two approvals one id.
ApprovalRequested(a) ==
  /\ \A i \in DOMAIN log : log[i] # [k |-> "request", id |-> a]
  /\ Stored("request", a)
  /\ items' = Append(EndStream, [k |-> "approval", id |-> a, state |-> "pending"]) /\ streaming' = 0
  /\ approvalIndex' = [approvalIndex EXCEPT ![a] = Last]
  /\ UNCHANGED toolIndex

ApprovalResolved(a) ==
  /\ Stored("resolve", a)
  /\ items' = IF approvalIndex[a] # 0 THEN [items EXCEPT ![approvalIndex[a]].state = "resolved"] ELSE items
  /\ UNCHANGED <<streaming, toolIndex, approvalIndex>>

\* An approval the turn left unanswered can no longer be answered.
Abandoned(list) ==
  [i \in DOMAIN list |->
     IF list[i].k = "approval" /\ list[i].state = "pending" THEN [list[i] EXCEPT !.state = "abandoned"]
     ELSE list[i]]

TurnEnded ==
  /\ Stored("ended", 0)
  /\ items' = Append(Abandoned(EndStream), [k |-> "ended"]) /\ streaming' = 0
  /\ UNCHANGED <<toolIndex, approvalIndex>>

\* An error or a notice lands mid-turn: it does not end a streaming reply.
Noted ==
  /\ Stored("note", 0)
  /\ items' = Append(items, [k |-> "note"])
  /\ UNCHANGED <<streaming, toolIndex, approvalIndex>>

Next ==
  \/ UserMessage \/ AssistantDelta \/ AssistantMessage \/ TurnEnded \/ Noted
  \/ \E c \in Call : ToolCall(c) \/ ToolResult(c)
  \/ \E a \in Approval : ApprovalRequested(a) \/ ApprovalResolved(a)

Spec == Init /\ [][Next]_vars

-----------------------------------------------------------------------------
At(k, id) == {i \in DOMAIN log : log[i] = [k |-> k, id |-> id]}
Shows(n) == {i \in DOMAIN items : items[i].k = "said" /\ \E j \in DOMAIN items[i].text : items[i].text[j] = n}

\* The first event after n that ends a stream is a final message.
Superseded(n) ==
  \E m \in At("message", 0) : /\ m > n
                              /\ \A i \in (n + 1)..(m - 1) : log[i].k \in {"delta", "result", "resolve", "note"}

\* Every streamed piece is shown in exactly one entry until its final message replaces it, and
\* only one entry at most is still growing.
TextShownOnce ==
  /\ \A n \in At("delta", 0) : Cardinality(Shows(n)) = IF Superseded(n) THEN 0 ELSE 1
  /\ \A n \in At("message", 0) : Cardinality(Shows(n)) = 1
  /\ {i \in DOMAIN items : items[i].k = "said" /\ items[i].live} = {streaming} \ {0}

\* The approvals that can be answered are those asked for and not answered in the turn that runs.
AnswerableIsPending ==
  {items[i].id : i \in {j \in DOMAIN items : items[j].k = "approval" /\ items[j].state = "pending"}}
    = {a \in Approval : \E n \in At("request", a) :
         \A i \in (n + 1)..Len(log) : log[i].k # "ended" /\ log[i] # [k |-> "resolve", id |-> a]}

\* The last result of every call is on one card.
ResultsShown ==
  \A c \in Call : At("result", c) # {} =>
    LET last == CHOOSE n \in At("result", c) : \A m \in At("result", c) : m <= n
    IN Cardinality({i \in DOMAIN items : items[i].k = "card" /\ items[i].result = last}) = 1
=============================================================================
