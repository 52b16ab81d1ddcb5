------------------------------ MODULE Mentions ------------------------------
(* Mentions from the composer: what the app makes of a picked session          *)
(* (app/src/model.rs, ui/conversation.rs) and what the server makes of the     *)
(* sent text (a2a/mention.rs). Text is a sequence of characters; "@" stands    *)
(* for the two signs @@, "Q" for a quote. Letters have no case.                *)
EXTENDS Naturals, Sequences, SequencesExt, FiniteSets

CONSTANTS Session,    \* the sessions this one may message, in the server's order
          Id,         \* [Session -> ids]: sequences of at least four characters
          Titles,     \* titles a session may have
          Alphabet,   \* characters the user types besides "@"
          MaxLen, MaxPick

VARIABLES title,    \* the sessions' titles at the server
          all,      \* the candidates the composer last fetched: titles, or none
          draft, picks,
          sent      \* the message as sent, and the sessions picked in it

vars == <<title, all, draft, picks, sent>>

Void == <<>>
NoMessage == [text |-> <<>>, picked |-> {}]

-----------------------------------------------------------------------------
(* Text *)

Blank(c) == c = " "
Opens(t, i) == i = 1 \/ Blank(t[i - 1]) \/ t[i - 1] = "("

\* Words a token ends with in apply_mentions, and punctuation parse_mentions cuts off a token.
Clean == {" ", "."}
Trimmed == {".", "Q"}

Trim(t) ==
  LET solid == {i \in 1..Len(t) : ~Blank(t[i])}
  IN IF solid = {} THEN <<>>
     ELSE SubSeq(t, CHOOSE i \in solid : \A j \in solid : i <= j, CHOOSE i \in solid : \A j \in solid : j <= i)

TrimEnd(t) ==
  LET kept == {i \in 1..Len(t) : t[i] \notin Trimmed}
  IN SubSeq(t, 1, IF kept = {} THEN 0 ELSE CHOOSE i \in kept : \A j \in kept : j <= i)

Includes(t, part) == \E i \in 0..(Len(t) - Len(part)) : SubSeq(t, i + 1, i + Len(part)) = part
StartsWith(t, part) == Len(part) <= Len(t) /\ SubSeq(t, 1, Len(part)) = part

\* The first index from i on where P holds, or past the end.
From(t, i, P(_)) == CHOOSE j \in i..(Len(t) + 1) : (j = Len(t) + 1 \/ P(t[j])) /\ \A k \in i..(j - 1) : ~P(t[k])

-----------------------------------------------------------------------------
(* The composer *)

\* typed_mention: where the mention being typed starts and what it asks for, or none.
TypedMention(t) ==
  LET signs == {i \in 1..Len(t) : t[i] = "@"}
      at    == CHOOSE i \in signs : \A j \in signs : j <= i
      rest  == SubSeq(t, at + 1, Len(t))
      quoted == rest # <<>> /\ rest[1] = "Q"
      query == IF quoted THEN Tail(rest) ELSE rest
  IN IF signs = {} \/ ~Opens(t, at) THEN Void
     ELSE IF quoted /\ \E i \in 1..Len(query) : query[i] = "Q" THEN Void
     ELSE IF ~quoted /\ \E i \in 1..Len(query) : Blank(query[i]) THEN Void
     ELSE <<[raw |-> SubSeq(t, at, Len(t)), query |-> query]>>

\* filter_mentions
Matches(s, query) == query = <<>> \/ StartsWith(Id[s], Trim(query)) \/ Includes(all[s], Trim(query))

\* mention_token: the title when it is one word or can be quoted and names one candidate, else the id.
MentionToken(s) ==
  LET name == Trim(all[s])
      unique == \A o \in Session \ {s} : Trim(all[o]) # name
  IN IF name = <<>> \/ Includes(name, <<"Q">>) \/ ~unique THEN <<"@">> \o Id[s]
     ELSE IF \E i \in 1..Len(name) : Blank(name[i]) THEN <<"@", "Q">> \o name \o <<"Q">>
     ELSE <<"@">> \o name

\* Where a pick's raw text first stands in t and ends cleanly; 0 when the user typed on from it.
PlaceOf(t, raw) ==
  LET at == {i \in 1..(Len(t) - Len(raw) + 1) :
               /\ SubSeq(t, i, i + Len(raw) - 1) = raw
               /\ i + Len(raw) <= Len(t) => t[i + Len(raw)] \in Clean}
  IN IF at = {} THEN 0 ELSE CHOOSE i \in at : \A j \in at : i <= j

ApplyOne(m, p) ==
  LET i == PlaceOf(m.text, p.raw)
  IN IF i = 0 THEN m
     ELSE [text   |-> SubSeq(m.text, 1, i - 1) \o p.token \o SubSeq(m.text, i + Len(p.raw), Len(m.text)),
           picked |-> IF Opens(m.text, i) THEN m.picked \cup {p.session} ELSE m.picked]

\* apply_mentions: picks in the order they were made.
ApplyMentions(t, ps) == FoldLeft(ApplyOne, [text |-> t, picked |-> {}], ps)

-----------------------------------------------------------------------------
(* The server *)

RECURSIVE ParseFrom(_, _)
ParseFrom(t, i) ==
  IF i >= Len(t) THEN {}
  ELSE IF t[i] # "@" \/ ~Opens(t, i) THEN ParseFrom(t, i + 1)
  ELSE LET quoted == t[i + 1] = "Q"
           start  == IF quoted THEN i + 2 ELSE i + 1
           end    == IF quoted THEN From(t, start, LAMBDA c : c = "Q") ELSE From(t, start, Blank)
           part   == SubSeq(t, start, end - 1)
           token  == IF quoted THEN Trim(part) ELSE TrimEnd(part)
       IN (IF token = <<>> THEN {} ELSE {token}) \cup ParseFrom(t, IF quoted THEN end + 1 ELSE end)

\* parse_mentions
ParseMentions(t) == ParseFrom(t, 1)

\* resolve: the exact id, a unique id prefix, a unique title; else nobody.
Resolve(token) ==
  LET exact  == {s \in Session : Id[s] = token}
      prefix == {s \in Session : Len(token) >= 4 /\ StartsWith(Id[s], token)}
      titled == {s \in Session : Trim(title[s]) = token}
  IN IF exact # {} THEN exact
     ELSE IF Cardinality(prefix) = 1 THEN prefix
     ELSE IF Cardinality(titled) = 1 THEN titled ELSE {}

\* deliver_mentions: who gets a copy.
Mentioned(t) == UNION {Resolve(token) : token \in ParseMentions(t)}

-----------------------------------------------------------------------------
(* The user *)

Init ==
  /\ title \in [Session -> Titles] /\ all = Void
  /\ draft = <<>> /\ picks = <<>> /\ sent = NoMessage

\* A fresh mention fetches the candidates.
Fetches(t) == TypedMention(t) # Void /\ TypedMention(t)[1].query = <<>>

Keystroke(c) ==
  /\ sent = NoMessage \* one message
  /\ Len(draft) < MaxLen /\ draft' = Append(draft, c)
  /\ all' = IF Fetches(draft') /\ ~Fetches(draft) THEN title ELSE all
  /\ UNCHANGED <<title, picks, sent>>

Pick(s) ==
  /\ all # Void /\ TypedMention(draft) # Void /\ Len(picks) < MaxPick
  /\ LET typed == TypedMention(draft)[1]
     IN /\ \A i \in 1..Len(picks) : picks[i].raw # typed.raw
        /\ Matches(s, typed.query)
        /\ picks' = Append(picks, [raw |-> typed.raw, token |-> MentionToken(s), session |-> s])
  /\ UNCHANGED <<title, all, draft, sent>>

Send ==
  /\ Trim(draft) # <<>>
  /\ sent' = ApplyMentions(Trim(draft), picks)
  /\ draft' = <<>> /\ picks' = <<>>
  /\ UNCHANGED <<title, all>>

Next ==
  \/ (\E c \in Alphabet \cup {"@"} : Keystroke(c))
  \/ (\E s \in Session : Pick(s))
  \/ Send

Spec == Init /\ [][Next]_vars

-----------------------------------------------------------------------------
(* Properties *)

TypeOK ==
  /\ title \in [Session -> Titles] /\ all \in [Session -> Titles] \cup {Void}
  /\ Len(draft) <= MaxLen /\ sent.picked \subseteq Session

\* model.rs, mention_token: "The server resolves all three the same way": a session picked in the
\* composer gets the message when its fragment stands where a mention may begin.
PickedAreMentioned == sent.picked \subseteq Mentioned(sent.text)
=============================================================================
