------------------------------ MODULE FileTree ------------------------------
(***************************************************************************)
(* The names on a volume as the executor changes them: through             *)
(* Platform::rename, which never replaces, and through std::fs for         *)
(* folders and files.                                                      *)
(*                                                                         *)
(* A path is a nonempty sequence of names.  A tree is a function from the  *)
(* paths that exist to the file behind each: the file, not its name, is    *)
(* what must survive, so renaming moves a file from one path to another,   *)
(* with everything below it when it is a folder.                           *)
(***************************************************************************)
EXTENDS Integers, Sequences

CONSTANTS
    Names,  \* one path component
    Files,  \* identities: what is behind a path
    Dirs    \* the files that are folders

ASSUME DirsAssumption == Dirs \subseteq Files

Paths == Seq(Names) \ {<<>>}

\* q is p, or lies in the folder p.
AtOrUnder(p, q) == Len(p) <= Len(q) /\ SubSeq(q, 1, Len(p)) = p

\* The path q of something at or under f, once f is called g.
Rebase(q, f, g) == g \o SubSeq(q, Len(f) + 1, Len(q))

Parent(p) == SubSeq(p, 1, Len(p) - 1)

\* Every folder on the way to an existing path exists and is a folder, and
\* no file has two names.
IsTree(t) ==
    /\ DOMAIN t \subseteq Paths
    /\ t \in [DOMAIN t -> Files]
    /\ \A p \in DOMAIN t : \A n \in 1..(Len(p) - 1) :
          SubSeq(p, 1, n) \in DOMAIN t /\ t[SubSeq(p, 1, n)] \in Dirs
    /\ \A p, q \in DOMAIN t : t[p] = t[q] => p = q

FilesIn(t) == {t[p] : p \in DOMAIN t}

\* symlink_metadata succeeds.
Exists(t, p) == p \in DOMAIN t

\* The folder a new name would go into is there.
HasRoom(t, p) == Len(p) > 1 => Exists(t, Parent(p)) /\ t[Parent(p)] \in Dirs

CanRename(t, f, g) ==
    /\ Exists(t, f)
    /\ ~Exists(t, g)
    /\ HasRoom(t, g)
    /\ ~AtOrUnder(f, g)

Renamed(t, f, g) ==
    LET stays == {p \in DOMAIN t : ~AtOrUnder(f, p)}
        moved == {Rebase(p, f, g) : p \in DOMAIN t \ stays}
    IN  [p \in stays \cup moved |->
            IF p \in stays THEN t[p] ELSE t[Rebase(p, g, f)]]

CanCreate(t, p) == ~Exists(t, p) /\ HasRoom(t, p)

Created(t, p, x) == [q \in DOMAIN t \cup {p} |-> IF q = p THEN x ELSE t[q]]

Removed(t, p) == [q \in DOMAIN t \ {p} |-> t[q]]

\* remove_dir succeeds: a folder, with nothing in it.
IsEmptyDir(t, p) ==
    /\ Exists(t, p)
    /\ t[p] \in Dirs
    /\ \A q \in DOMAIN t : AtOrUnder(p, q) => q = p
=============================================================================
