------------------------------- MODULE Shelf -------------------------------
(***************************************************************************)
(* What a renamer and a tag writer promise about one folder, seen as its   *)
(* user sees it: no hidden names, no half-way states.  As long as nothing  *)
(* but the program touches the folder, and the program is not killed, a    *)
(* file is renamed onto a free name or stays, and its tags are written or  *)
(* are not.  Only trouble - a crash, another program, a swap the system    *)
(* itself broke off - shows the user anything else.                        *)
(*                                                                         *)
(* Volume implements this module: see Volume!IsShelf.                      *)
(***************************************************************************)
CONSTANTS
    Names,          \* what a file in the folder may be called
    Files,          \* what is to survive
    Folded          \* a name in lower case

VARIABLES
    folds,          \* the volume takes names that differ in case only for one
    shelf,          \* name -> [file, ver] for the names in use
    calm            \* nothing but the program's own calls so far

Versions == {"old", "new"}

Alike(n, m) == n = m \/ (folds /\ Folded[n] = Folded[m])

Shelves == UNION {[N -> [file : Files, ver : Versions]] : N \in SUBSET Names}

ShelfInit ==
    /\ folds \in BOOLEAN
    /\ shelf \in Shelves
    /\ \A n \in DOMAIN shelf : shelf[n].ver = "old"
    /\ calm = TRUE

\* The rename: in one step, onto a name nothing else has.
Move(n, m) ==
    /\ n \in DOMAIN shelf /\ m # n
    /\ \A k \in DOMAIN shelf \ {n} : ~Alike(k, m)
    /\ shelf' = [k \in (DOMAIN shelf \ {n}) \cup {m} |->
                    IF k = m THEN shelf[n] ELSE shelf[k]]
    /\ UNCHANGED <<folds, calm>>

\* The new tags: in one step, in the file under the name.
Retag(n) ==
    /\ n \in DOMAIN shelf
    /\ shelf' = [shelf EXCEPT ![n].ver = "new"]
    /\ UNCHANGED <<folds, calm>>

\* Whatever trouble does, and all that follows from it.
Trouble == calm' = FALSE /\ shelf' \in Shelves /\ UNCHANGED folds

ShelfNext ==
    \/ \E n, m \in Names : Move(n, m)
    \/ \E n \in Names : Retag(n)
    \/ Trouble

ShelfSpec == ShelfInit /\ [][ShelfNext]_<<shelf, folds, calm>>
=============================================================================
