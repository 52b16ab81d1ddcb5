-------------------------------- MODULE Shim --------------------------------
(* ember-exec (server/src/computers/shim.rs) and the client of the node's exec *)
(* socket (node/src/client.rs): an agent's Bash command runs on the node, its  *)
(* stderr comes back in arbitrary chunks, and a marker the command writes at   *)
(* its end, the node's directory, is taken out of it and recorded. Bytes are   *)
(* symbols: the record separator, the rest of the start mark, newline, the     *)
(* directory, and any other.                                                   *)
EXTENDS Naturals, Sequences

CONSTANTS MaxBody,  \* length of the command's own stderr
          MaxSignal,
          Slow      \* a link so slow that output is still on the way DRAIN_GRACE after the exit

Sym == {"rs", "mark", "nl", "x"}
MARK_START == <<"rs", "mark">>
MARK_END == <<"rs", "nl">>
Cwd == "dir"

VARIABLES run,     \* the invocation and its plan: [tool, where, ok], ok: the body succeeds
          left,    \* what the command has still to write to stderr
          written, \* what it wrote
          wire,    \* written and not yet received
          filter,  \* MarkerFilter: pending and cwd
          out,     \* stderr of the shim
          file,    \* the cwd file: "old" or the node's directory
          cmd,     \* the command: "runs", "exited", "failed", "signalled"
          code,    \* the shim's exit code: "none", "0", "1", "128+s", "255"
          signals

vars == <<run, left, written, wire, filter, out, file, cmd, code, signals>>

Bytes == Sym \cup {Cwd}

TypeOK ==
  /\ run \in [tool : BOOLEAN, where : {"local", "remote"}, ok : BOOLEAN]
  /\ left \in Seq(Bytes) /\ written \in Seq(Bytes) /\ wire \in Seq(Bytes) /\ out \in Seq(Bytes)
  /\ filter.pending \in Seq(Bytes) /\ filter.cwd \in {"none", Cwd}
  /\ file \in {"old", Cwd} /\ cmd \in {"runs", "exited", "failed", "signalled"}
  /\ code \in {"none", "0", "1", "128+s", "255"}

-----------------------------------------------------------------------------
(* What is asked: the arguments, and the kind of the command string. Its        *)
(* characters: a slash, a letter, a space, the three quoting characters, an     *)
(* operator of the shell, and the cwd step as one symbol.                       *)

\* A result or, for an error, none.
Push(c, words) == {<<c>> \o w : w \in words}

\* parse_args: the last argument is the command, whatever it looks like.
RECURSIVE Forced(_)
Forced(opts) ==
  IF opts = <<>> THEN {"none"}
  ELSE LET last == opts[Len(opts)]
           before == Forced(SubSeq(opts, 1, Len(opts) - 1))
       IN CASE before = {} -> {}
            [] last = "--" -> before
            [] last = "--local" -> {"local"}
            [] last = "--remote" -> {"remote"}
            [] OTHER -> {}
parse_args(args) ==
  IF args = <<>> THEN {}
  ELSE {[force |-> f, command |-> args[Len(args)]] : f \in Forced(SubSeq(args, 1, Len(args) - 1))}

RECURSIVE TrimEnd(_), Unquoted(_, _)
TrimEnd(s) == IF s # <<>> /\ s[Len(s)] = " " THEN TrimEnd(SubSeq(s, 1, Len(s) - 1)) ELSE s

\* The rest of a word, bare or within quotes.
Unquoted(s, quote) ==
  IF s = <<>> THEN (IF quote = "bare" THEN {<<>>} ELSE {})
  ELSE LET c == Head(s)
           rest == Tail(s)
       IN CASE c = quote -> Unquoted(rest, "bare")
            [] c = "\\" /\ quote # "'" -> IF rest = <<>> THEN {} ELSE Push(Head(rest), Unquoted(Tail(rest), quote))
            [] quote # "bare" -> Push(c, Unquoted(rest, quote))
            [] c \in {"'", "dq"} -> Unquoted(rest, c)
            [] c \in {" ", "&", "step"} -> {}
            [] OTHER -> Push(c, Unquoted(rest, quote))
unquote_word(s) == IF TrimEnd(s) = <<>> THEN {} ELSE Unquoted(TrimEnd(s), "bare")

\* classify: the last cwd step, if what follows it is one word, an absolute path.
classify(s) ==
  LET steps == {i \in 1..Len(s) : s[i] = "step"}
      i == CHOOSE i \in steps : \A j \in steps : j <= i
  IN IF steps = {} THEN {}
     ELSE {[body |-> SubSeq(s, 1, i - 1), cwd_file |-> w] :
             w \in {w \in unquote_word(SubSeq(s, i + 1, Len(s))) : w # <<>> /\ w[1] = "/"}}

\* How Claude Code's shell-quote writes a path (external): bare if nothing in it is special, in
\* single quotes if those are not in it, or in double quotes with escapes.
Special == {" ", "'", "dq", "\\", "&"}
RECURSIVE Escaped(_)
Escaped(p) == IF p = <<>> THEN <<>>
              ELSE (IF Head(p) \in {"dq", "\\"} THEN <<"\\">> ELSE <<>>) \o <<Head(p)>> \o Escaped(Tail(p))
Quoted(p) ==
  {q \in {p} : \A i \in 1..Len(p) : p[i] \notin Special}
  \cup {<<"'">> \o q \o <<"'">> : q \in {q \in {p} : \A i \in 1..Len(p) : p[i] # "'"}}
  \cup {<<"dq">> \o Escaped(p) \o <<"dq">>}

Words == UNION {[1..n -> Special \cup {"/", "x"}] : n \in 0..3}

-----------------------------------------------------------------------------
(* The plan *)

\* Positions of needle in hay, and the parts of hay around one.
Occurs(hay, needle) == {i \in 1..(Len(hay) - Len(needle) + 1) : SubSeq(hay, i, i + Len(needle) - 1) = needle}
First(set) == CHOOSE i \in set : \A j \in set : i <= j
From(s, i) == SubSeq(s, i, Len(s))

\* plan: forced, else local without a node, else by the kind of the command.
Where(force, configured, tool, nonTool) ==
  IF ~configured THEN "local" ELSE IF force # "none" THEN force ELSE IF tool THEN "remote" ELSE nonTool

\* remote_command: a tool's body, then the marker if the body succeeded.
Stderr(body, r) == IF r.tool /\ r.ok THEN body \o MARK_START \o <<Cwd>> \o MARK_END ELSE body

\* The command's own output is any bytes that do not contain a start mark.
Bodies == {b \in UNION {[1..n -> Sym] : n \in 0..MaxBody} : Occurs(b, MARK_START) = {}}

Init ==
  /\ \E force \in {"none", "local", "remote"}, configured, tool, ok \in BOOLEAN, nonTool \in {"local", "remote"}, b \in Bodies :
       /\ run = [tool |-> tool, where |-> Where(force, configured, tool, nonTool), ok |-> ok]
       /\ left = IF run.where = "remote" THEN Stderr(b, run) ELSE b
  /\ written = <<>> /\ wire = <<>> /\ filter = [pending |-> <<>>, cwd |-> "none"] /\ out = <<>>
  /\ file = "old" /\ cmd = "runs" /\ code = "none" /\ signals = 0

Remote == run.where = "remote" /\ code = "none"

-----------------------------------------------------------------------------
(* The command on the node (external) *)

CommandWrites(n) ==
  /\ Remote /\ cmd = "runs" /\ n \in 1..Len(left)
  /\ left' = From(left, n + 1) /\ wire' = wire \o SubSeq(left, 1, n) /\ written' = written \o SubSeq(left, 1, n)
  /\ UNCHANGED <<run, filter, out, file, cmd, code, signals>>

CommandExits ==
  /\ Remote /\ cmd = "runs" /\ left = <<>>
  /\ cmd' = IF run.ok THEN "exited" ELSE "failed"
  /\ UNCHANGED <<run, left, written, wire, filter, out, file, code, signals>>

\* SIGINT, SIGTERM and SIGHUP are forwarded to the remote process group, which ends on them.
Signal ==
  /\ Remote /\ cmd = "runs" /\ signals < MaxSignal
  /\ signals' = signals + 1 /\ left' = <<>> /\ cmd' = "signalled"
  /\ UNCHANGED <<run, written, wire, filter, out, file, code>>

-----------------------------------------------------------------------------
(* MarkerFilter and the shim's receive loop *)

\* partial_prefix: the longest tail of p that could begin a mark; it is held back.
Kept(p) ==
  LET tails == {n \in 1..(Len(MARK_START) - 1) : n <= Len(p) /\ From(p, Len(p) - n + 1) = SubSeq(MARK_START, 1, n)} IN
  IF tails = {} THEN 0 ELSE CHOOSE n \in tails : \A m \in tails : m <= n

\* feed: what passes through, what is held back, and the directory if a whole mark was seen. A
\* stream holds at most one mark, so one pass finds it.
Feed(f, chunk) ==
  LET p == f.pending \o chunk
      at == Occurs(p, MARK_START)
      i == First(at)
      body == From(p, i + Len(MARK_START))
      ends == Occurs(body, MARK_END)
      after == From(body, First(ends) + Len(MARK_END))
      pass(q) == SubSeq(q, 1, Len(q) - Kept(q))
      hold(q) == From(q, Len(q) - Kept(q) + 1)
  IN IF at = {} THEN [pass |-> pass(p), pending |-> hold(p), cwd |-> f.cwd]
     ELSE IF ends = {} THEN [pass |-> SubSeq(p, 1, i - 1), pending |-> From(p, i), cwd |-> f.cwd]
     ELSE [pass |-> SubSeq(p, 1, i - 1) \o pass(after), pending |-> hold(after), cwd |-> body[1]]

Receive(n) ==
  /\ Remote /\ n \in 1..Len(wire)
  /\ LET r == Feed(filter, SubSeq(wire, 1, n)) IN
       out' = out \o r.pass /\ filter' = [pending |-> r.pending, cwd |-> r.cwd]
  /\ wire' = From(wire, n + 1)
  /\ UNCHANGED <<run, left, written, file, cmd, code, signals>>

\* finish: what is held back is written out, and a directory that was seen goes to the cwd file.
Finish(c) ==
  /\ code' = c /\ out' = out \o filter.pending
  /\ file' = IF run.tool /\ filter.cwd # "none" THEN filter.cwd ELSE file
  /\ UNCHANGED <<run, left, written, wire, filter, cmd, signals>>

exit_code == CASE cmd = "exited" -> "0" [] cmd = "failed" -> "1" [] OTHER -> "128+s"

\* The node sends Exit once its pumps have read all output, or their grace has passed.
Exit == Remote /\ cmd # "runs" /\ (~Slow => wire = <<>>) /\ Finish(exit_code)

\* The connection closes, fails or reports an error before the exit.
Lost == Remote /\ Finish("255")

\* A local run is the shell's own.
Local ==
  /\ run.where = "local" /\ code = "none"
  /\ code' = (IF run.ok THEN "0" ELSE "1") /\ out' = left /\ left' = <<>> /\ written' = left
  /\ file' = IF run.tool /\ run.ok THEN Cwd ELSE file
  /\ UNCHANGED <<run, wire, filter, cmd, signals>>

Next == \/ (\E n \in 1..(MaxBody + 5) : CommandWrites(n) \/ Receive(n))
        \/ CommandExits \/ Signal \/ Exit \/ Lost \/ Local

Spec == Init /\ [][Next]_vars

-----------------------------------------------------------------------------
(* Properties *)

\* What the command itself wrote: everything before the mark.
Own(s) == LET at == Occurs(s, MARK_START) IN IF at = {} THEN s ELSE SubSeq(s, 1, First(at) - 1)

\* At a command's end its own stderr has come through whole and nothing else has, wherever the
\* chunks were cut and whatever the output looks like ("wherever chunk boundaries fall").
StderrWhole == code \in {"0", "1"} => out = Own(written)

\* Claude's directory follows the command's: after a tool command that succeeded the cwd file
\* holds the node's directory, and otherwise, a lost connection excepted, the old one.
CwdFollows == run.tool => (code = "0" => file = Cwd) /\ (code \in {"1", "128+s"} /\ cmd # "signalled" => file = "old")

\* The plan is the caller's: a tool command is recognised by its last cwd step and gives back its
\* body and the path that was quoted, however it was quoted; what is followed by more of the shell
\* is not one; the last option decides, and a command is never taken for an option.
CommandsRead ==
  /\ \A p \in Words, body \in {<<>>, <<"x", "step", "/">>} :
       LET path == <<"/">> \o p IN
       \A q \in Quoted(path) :
         /\ classify(body \o <<"step">> \o q) = {[body |-> body, cwd_file |-> path]}
         /\ classify(body \o <<"step">> \o q \o <<" ", "x">>) = {}
         /\ classify(body \o <<"step">> \o q \o <<"&">>) = {}
  /\ \A q \in UNION {Quoted(<<"x">> \o p) : p \in Words} : classify(<<"x", "step">> \o q) = {}
  /\ \A a, b \in {"--local", "--remote", "--"}, c \in {"--local", "-x", "ls"} :
       LET force == IF b # "--" THEN b ELSE a IN
       /\ parse_args(<<a, b, c>>) = {[command |-> c, force |-> CASE force = "--local" -> "local"
                                                                [] force = "--remote" -> "remote"
                                                                [] OTHER -> "none"]}
       /\ parse_args(<<a, c, b>>) = {} <=> c # "--local"
=============================================================================
