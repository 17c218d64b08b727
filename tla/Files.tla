------------------------------- MODULE Files -------------------------------
(***************************************************************************)
(* The files of the device as firmware/src/storage/storage.c writes them,  *)
(* over littlefs.  One thread does file operations: a handler is the list  *)
(* of the operations it still has to do, one step each, so that power can  *)
(* be lost, or the flash can fail, between and inside any two of them.     *)
(*                                                                         *)
(* littlefs replaces the content of a file atomically, when it is closed;  *)
(* a file that is being created exists, empty, from the moment it is       *)
(* opened.  write_file looks at the result of fs_write and not at the one  *)
(* of fs_close, so a write that fails may be reported or not.              *)
(***************************************************************************)
EXTENDS Integers, Sequences

CONSTANTS
  Paths,        \* <<directory, file>>; a directory of its own is <<d, "dir">>
  MaxFaults,    \* bound: power cuts and failed file operations
  None, Empty   \* no such file; a file created and never written

VARIABLES
  disk,      \* what is on the flash
  todo,      \* the file operations the running handler still has to do
  failed,    \* one of them failed and the handler gave up
  nfaults,   \* faults so far
  unnoticed  \* some operation failed and its handler went on as if it had not

fvars == <<disk, todo, failed, nfaults, unnoticed>>

Exists(p)   == disk[p] # None
Readable(p) == disk[p] \notin {None, Empty}

\* write_file, with the operations that follow when it fails; and the same
\* where the code ignores the result.
Put(p, val)   == [path |-> p, val |-> val, must |-> TRUE, undo |-> <<>>]
Try(step)     == [step EXCEPT !.must = FALSE]
OrElse(step, undo) == [step EXCEPT !.undo = undo]
Unlink(p)     == Try(Put(p, None))

\* rm_rf: the unlinks of the files a directory may hold, in the order of the
\* names; the caller gets the result of the last one, which removes the
\* directory.
rm_rf(dir, order) == [i \in 1..Len(order) |-> Unlink(<<dir, order[i]>>)]

\* fs_mkfs: the volume is unmountable until it is done.
mkfs == <<Put(<<"root", "erase">>, None), Put(<<"root", "fs">>, "lfs")>>

Written(step) ==
  IF step.path = <<"root", "erase">> THEN [p \in Paths |-> None]
  ELSE [disk EXCEPT ![step.path] = step.val]

\* A directory is only removed when nothing is left in it.
Blocked(step) ==
  /\ step.path[2] = "dir" /\ step.val = None
  /\ \E p \in Paths : p[1] = step.path[1] /\ p # step.path /\ Exists(p)

\* Nothing to remove: the directory does not list it.
Missing(step) == step.val = None /\ step.path \in Paths /\ ~Exists(step.path)

\* What is on the flash when step is cut short.
Torn(step) ==
  {disk} \cup
  (IF step.path \in Paths /\ step.val # None /\ step.path[2] # "dir" /\ ~Exists(step.path)
   THEN {[disk EXCEPT ![step.path] = Empty]} ELSE {})

Fault == nfaults < MaxFaults /\ nfaults' = nfaults + 1

FInit(d) == disk = d /\ todo = <<>> /\ failed = FALSE /\ nfaults = 0 /\ unnoticed = FALSE

\* A handler starts.
Run(steps) == todo' = steps /\ failed' = FALSE /\ UNCHANGED <<disk, nfaults, unnoticed>>

FileStep ==
  /\ todo # <<>> /\ ~Blocked(Head(todo))
  /\ disk' = Written(Head(todo))
  /\ todo' = Tail(todo)
  /\ UNCHANGED <<failed, nfaults, unnoticed>>

FileFails ==
  /\ todo # <<>> /\ ~Missing(Head(todo))
  /\ LET step == Head(todo) IN
       /\ IF Blocked(step) THEN UNCHANGED <<disk, nfaults>>
          ELSE Fault /\ disk' \in Torn(step)
       /\ IF step.must
          THEN todo' = step.undo /\ failed' = TRUE /\ UNCHANGED unnoticed
          ELSE todo' = Tail(todo) /\ unnoticed' = TRUE /\ UNCHANGED failed

\* fs_close fails and nobody looks.
CloseFails ==
  /\ todo # <<>> /\ Head(todo).val # None /\ Head(todo).path[2] \notin {"dir", "fs"}
  /\ Fault /\ disk' \in Torn(Head(todo))
  /\ todo' = Tail(todo) /\ unnoticed' = TRUE
  /\ UNCHANGED failed

PowerLost ==
  /\ Fault
  /\ disk' \in IF todo = <<>> THEN {disk} ELSE Torn(Head(todo))
  /\ todo' = <<>> /\ failed' = FALSE
  /\ UNCHANGED unnoticed
=============================================================================
