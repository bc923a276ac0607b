------------------------------- MODULE Batch --------------------------------
(***************************************************************************)
(* What the planner hands to the executor: a list of operations, and what  *)
(* makes it a plan that can be carried out.  The planner delivers it, the  *)
(* executor relies on it.                                                  *)
(***************************************************************************)
EXTENDS FileTree

CONSTANTS
    Dates,     \* modification times, in seconds
    Texts,     \* what an operation writes into a file
    Strangers  \* files another program may bring along

-----------------------------------------------------------------------------
(* PlannedOp: what each kind of change needs, and what it does.            *)

Ops ==
    [kind : {"rename"}, from : Paths, to : Paths]
        \cup [kind : {"mkdir"}, path : Paths, file : Dirs]
        \cup [kind : {"write", "overwrite"}, path : Paths, file : Files \ Dirs,
              text : Texts]
        \cup [kind : {"retag"}, path : Paths, text : Texts]
        \cup [kind : {"date"}, path : Paths, value : Dates]

windowable(o) == o.kind \in {"rename", "mkdir"}

\* Undoability::None: nothing is kept to put back.
Irreversible(o) == o.kind \in {"overwrite", "retag"}

Creates(o) == o.kind \in {"mkdir", "write", "overwrite"}

CanDo(o, t) ==
    \/ o.kind = "rename" /\ CanRename(t, o.from, o.to)
    \/ Creates(o) /\ CanCreate(t, o.path)
    \/ o.kind \in {"overwrite", "retag"} /\ Exists(t, o.path) /\ t[o.path] \notin Dirs
    \/ o.kind = "date" /\ Exists(t, o.path)

TreeAfter(o, t) ==
    IF o.kind = "rename" THEN Renamed(t, o.from, o.to)
    ELSE IF Creates(o) /\ ~Exists(t, o.path) THEN Created(t, o.path, o.file)
    ELSE t

DateAfter(o, t, d) ==
    IF o.kind = "date" THEN [d EXCEPT ![t[o.path]] = o.value] ELSE d

\* The planner lists what it plans kind by kind.
Phase(o) ==
    [mkdir |-> 1, rename |-> 2, date |-> 3, retag |-> 3, write |-> 4, overwrite |-> 4][o.kind]

\* A plan that can be carried out: trees[i] and dates[i] are the state its
\* i-th operation finds; a file it creates is a new one; a script's file is
\* written once.
Planned(b) ==
    LET n == Len(b.ops) IN
    /\ b.ops \in Seq(Ops)
    /\ DOMAIN b.trees = 1..(n + 1)
    /\ DOMAIN b.dates = 1..(n + 1)
    /\ \A i \in 1..(n + 1) : IsTree(b.trees[i]) /\ b.dates[i] \in [Files -> Dates]
    /\ \A i \in 1..n :
          /\ CanDo(b.ops[i], b.trees[i])
          /\ b.ops[i].kind = "overwrite" => Exists(b.trees[i], b.ops[i].path)
          /\ b.trees[i + 1] = TreeAfter(b.ops[i], b.trees[i])
          /\ b.dates[i + 1] = DateAfter(b.ops[i], b.trees[i], b.dates[i])
          /\ Creates(b.ops[i]) => b.ops[i].file \notin FilesIn(b.trees[1]) \cup Strangers
    /\ \A i, j \in 1..n : i < j =>
          /\ Phase(b.ops[i]) <= Phase(b.ops[j])
          /\ Creates(b.ops[i]) /\ Creates(b.ops[j]) =>
                /\ b.ops[i].file # b.ops[j].file
                /\ Phase(b.ops[i]) = Phase(b.ops[j]) => b.ops[i].path # b.ops[j].path
=============================================================================
