------------------------------- MODULE NodeFs -------------------------------
(* File operations of the node that change files (node/src/fs.rs and the       *)
(* handlers in api.rs): atomic writes with a hash precondition, positional     *)
(* writes, renames, removals and hashed reads. Every changing handler holds    *)
(* one write lock while a blocking thread works; a handler whose client goes   *)
(* away is dropped with the lock while its thread runs on.                     *)
EXTENDS Naturals, FiniteSets

CONSTANTS Op,        \* requests
          Path,      \* files
          None, Any, \* no file; no precondition
          MaxInode,  \* files that are ever created
          MaxDrop    \* requests whose client goes away

VARIABLES entry,   \* the directory: each path's inode, or 0
          temp,    \* inodes that have a temporary name
          data,    \* each inode's two blocks; a hash stands for both
          patched, \* inodes written in place
          op,      \* requests: kind, place, paths, expectation, what they read
          lock,    \* holder of the write lock
          dropped

vars == <<entry, temp, data, patched, op, lock, dropped>>

Inode == 1..MaxInode
Used == {i \in Inode : i \in temp \/ data[i] # None}
Hash(i) == IF i = 0 THEN None ELSE data[i]

Kinds == {"write", "pwrite", "rename", "remove", "read"}
Writer == {"write", "pwrite", "rename", "remove"}

TypeOK ==
  /\ entry \in [Path -> 0..MaxInode] /\ temp \subseteq Inode /\ patched \subseteq Inode
  /\ \A o \in Op : /\ op[o].kind \in Kinds \cup {None} /\ op[o].ino \in 0..MaxInode
                   /\ op[o].pc \in {"new", "wait", "begin", "temp", "checked", "failed", "read2", "hash", "done"}
  /\ lock \in Op \cup {None} /\ dropped \subseteq Op

\* Every path holds a file at first, whose blocks both come from the one that made it.
Init ==
  /\ \E f \in [Path -> Inode] :
       /\ \A p, q \in Path : p # q => f[p] # f[q]
       /\ \A p \in Path : f[p] <= Cardinality(Path)
       /\ entry = f /\ data = [i \in Inode |-> IF i <= Cardinality(Path) THEN <<i, i>> ELSE None]
  /\ temp = {} /\ patched = {}
  /\ op = [o \in Op |-> [kind |-> None, pc |-> "new", path |-> None, to |-> None, expect |-> Any,
                         was |-> FALSE, ino |-> 0, got |-> <<>>, sha |-> None]]
  /\ lock = None /\ dropped = {}

Goes(o, pc) == op' = [op EXCEPT ![o].pc = pc]

-----------------------------------------------------------------------------
(* Requests and the write lock *)

\* A client asks for something; a guarded write expects what some file holds now.
Ask(o, k, p, q, e) ==
  /\ op[o].pc = "new" /\ (k = "rename" => p # q) /\ (k # "rename" => q = p) /\ (k # "write" => e = Any)
  /\ op' = [op EXCEPT ![o] = [@ EXCEPT !.kind = k, !.path = p, !.to = q, !.expect = e,
                                       !.pc = IF k \in Writer THEN "wait" ELSE "begin"]]
  /\ UNCHANGED <<entry, temp, data, patched, lock, dropped>>

FreeFault == TRUE

Free == lock = None

Lock(o) ==
  /\ op[o].pc = "wait" /\ Free
  /\ lock' = o /\ Goes(o, "begin")
  /\ UNCHANGED <<entry, temp, data, patched, dropped>>

\* The handler's future is dropped with its guard; the thread it started is not.
Drop(o) ==
  /\ lock = o /\ Cardinality(dropped) < MaxDrop
  /\ lock' = None /\ dropped' = dropped \cup {o}
  /\ UNCHANGED <<entry, temp, data, patched, op>>

Release(o) == lock' = IF lock = o THEN None ELSE lock

-----------------------------------------------------------------------------
(* The blocking threads *)

\* write puts the data in a temporary file of the same directory,
Fresh(o) == CHOOSE i \in Inode \ Used : \A j \in Inode \ Used : i <= j

WriteTemp(o) ==
  /\ op[o].kind = "write" /\ op[o].pc = "begin" /\ Used # Inode
  /\ LET i == Fresh(o) IN
       /\ data' = [data EXCEPT ![i] = <<i, i>>] /\ temp' = temp \cup {i}
       /\ op' = [op EXCEPT ![o].pc = "temp", ![o].ino = i, ![o].was = entry[op[o].path] # 0]
  /\ UNCHANGED <<entry, patched, lock, dropped>>

\* checks the precondition against the file that is there,
Holds(o) ==
  \/ op[o].expect = Any
  \/ IF op[o].was THEN entry[op[o].path] # 0 /\ Hash(entry[op[o].path]) = op[o].expect ELSE op[o].expect = None

WriteCheck(o) ==
  /\ op[o].kind = "write" /\ op[o].pc = "temp"
  /\ Goes(o, IF Holds(o) THEN "checked" ELSE "failed")
  /\ UNCHANGED <<entry, temp, data, patched, lock, dropped>>

\* and renames the temporary file over it.
Renames(o) ==
  /\ op[o].kind = "write" /\ op[o].pc = "checked"
  /\ entry' = [entry EXCEPT ![op[o].path] = op[o].ino] /\ temp' = temp \ {op[o].ino}
  /\ UNCHANGED <<data, patched>>

WriteRename(o) == Renames(o) /\ Goes(o, "done") /\ Release(o) /\ UNCHANGED dropped

\* A write that fails removes its temporary file.
WriteFails(o) ==
  /\ op[o].kind = "write" /\ op[o].pc = "failed"
  /\ temp' = temp \ {op[o].ino} /\ Goes(o, "done") /\ Release(o)
  /\ UNCHANGED <<entry, data, patched, dropped>>

\* pwrite and setattr change the file in place: its second block.
Pwrite(o) ==
  /\ op[o].kind = "pwrite" /\ op[o].pc = "begin"
  /\ LET i == entry[op[o].path] IN
       IF i = 0 THEN UNCHANGED <<data, patched>>
       ELSE data' = [data EXCEPT ![i][2] = @ + MaxInode] /\ patched' = patched \cup {i}
  /\ Goes(o, "done") /\ Release(o) /\ UNCHANGED <<entry, temp, dropped>>

\* rename without overwrite looks for the target first; both are under the lock.
RenameLook(o) ==
  /\ op[o].kind = "rename" /\ op[o].pc = "begin"
  /\ IF entry[op[o].path] # 0 /\ entry[op[o].to] = 0
     THEN Goes(o, "checked") /\ UNCHANGED lock
     ELSE Goes(o, "done") /\ Release(o)
  /\ UNCHANGED <<entry, temp, data, patched, dropped>>

RenameDo(o) ==
  /\ op[o].kind = "rename" /\ op[o].pc = "checked"
  /\ entry' = IF entry[op[o].path] = 0 THEN entry
              ELSE [entry EXCEPT ![op[o].to] = entry[op[o].path], ![op[o].path] = 0]
  /\ Goes(o, "done") /\ Release(o) /\ UNCHANGED <<temp, data, patched, dropped>>

Remove(o) ==
  /\ op[o].kind = "remove" /\ op[o].pc = "begin"
  /\ entry' = [entry EXCEPT ![op[o].path] = 0]
  /\ Goes(o, "done") /\ Release(o) /\ UNCHANGED <<temp, data, patched, dropped>>

\* read opens the file, reads it in pieces, and opens it again for the hash, without the lock.
ReadOpen(o) ==
  /\ op[o].kind = "read" /\ op[o].pc = "begin"
  /\ LET i == entry[op[o].path] IN
       op' = IF i = 0 THEN [op EXCEPT ![o].pc = "done"]
             ELSE [op EXCEPT ![o].pc = "read2", ![o].ino = i, ![o].got = <<data[i][1]>>]
  /\ UNCHANGED <<entry, temp, data, patched, lock, dropped>>

ReadMore(o) ==
  /\ op[o].kind = "read" /\ op[o].pc = "read2"
  /\ op' = [op EXCEPT ![o].pc = "hash", ![o].got = <<@[1], data[op[o].ino][2]>>]
  /\ UNCHANGED <<entry, temp, data, patched, lock, dropped>>

ReadHash(o) ==
  /\ op[o].kind = "read" /\ op[o].pc = "hash"
  /\ op' = [op EXCEPT ![o].pc = "done", ![o].sha = Hash(entry[op[o].path])]
  /\ UNCHANGED <<entry, temp, data, patched, lock, dropped>>

Step(o) == \/ Lock(o) \/ WriteTemp(o) \/ WriteCheck(o) \/ WriteRename(o) \/ WriteFails(o) \/ Pwrite(o)
           \/ RenameLook(o) \/ RenameDo(o) \/ Remove(o) \/ ReadOpen(o) \/ ReadMore(o) \/ ReadHash(o)

Next == \E o \in Op :
  \/ Step(o) \/ Drop(o)
  \/ \E k \in Kinds, p, q \in Path : \E e \in {Hash(entry[x]) : x \in Path} \cup {Any} : Ask(o, k, p, q, e)

Spec == Init /\ [][Next]_vars

-----------------------------------------------------------------------------
(* Properties *)

\* A guarded write replaces exactly the content it expects: no other request changes the file
\* between the check and the rename (write: "the check-then-rename is atomic against other
\* writes through this daemon").
GuardedWriteExact ==
  \A o \in Op : op[o].kind = "write" /\ op[o].pc = "checked" /\ op'[o].pc = "done" /\ op[o].expect # Any
        => Hash(entry[op[o].path]) = op[o].expect

\* A rename that may not overwrite never replaces a file.
RenameKeepsTarget ==
  \A o \in Op : op[o].kind = "rename" /\ op[o].pc = "checked" /\ op'[o].pc = "done"
        => entry[op[o].to] = 0

\* A reader sees the old or the new content of an atomic write, never a mix; only a positional
\* write may be seen half done (write, read).
ReadWhole ==
  \A o \in Op : op[o].kind = "read" /\ op[o].pc \in {"hash", "done"} /\ op[o].got # <<>> /\ op[o].ino \notin patched
                  => op[o].got[1] = op[o].got[2]

\* No temporary file outlives the requests, whichever of them fail.
NoTempLeft == (\A o \in Op : op[o].pc \in {"new", "done"}) => temp = {}
=============================================================================
