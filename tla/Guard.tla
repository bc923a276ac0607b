--------------------------------- MODULE Guard ---------------------------------
(***************************************************************************)
(* The folders the operating system needs left alone (ren-platform,        *)
(* guarded.rs): before a run both front ends ask for the first of them the *)
(* run would touch.  Undo does not help whoever renames inside one, so the *)
(* answer must miss nothing; and it is asked of every listing, so a folder *)
(* is looked at once however many files are in it.                         *)
(***************************************************************************)
EXTENDS Naturals, Sequences, SequencesExt

CONSTANTS
    Nowhere,        \* no folder
    Undecided,      \* no answer yet
    Parts,          \* what a folder may be called
    Fold,           \* a name as it is compared: its case folded, or the name itself
    Roots,          \* the folders guarded, folded, as sequences of names
    Parents,        \* the folders paths lie in, each spelled as it was given
    Place,          \* where a folder spelled so is, "." and ".." resolved
    Requests        \* what may be asked: [dir, paths], a path [parent, name]

ASSUME GuardAssumption ==
    /\ Fold \in [Parts -> Parts]
    /\ Place \in [Parents -> Seq(Parts)]
    /\ Roots \subseteq Seq(Parts)
    /\ Nowhere \notin Parents /\ Nowhere # Undecided
    /\ Nowhere \notin Seq(Parts) /\ Undecided \notin Seq(Parts)
    /\ Requests \subseteq [dir : Parents \cup {Nowhere},
                           paths : Seq([parent : Parents \cup {Nowhere}, name : Parts])]

VARIABLES
    asked,          \* the request
    seen,           \* what is known of the parents met so far: <<parent, verdict>>
    reached,        \* the path looked at next; 0 before the folder browsed
    answer          \* Undecided, Nowhere, or the guarded place a run would touch

guardVars == <<asked, seen, reached, answer>>

-----------------------------------------------------------------------------
(* Paths, with no question to the disk.                                    *)

\* One component more: "." is nothing, ".." undoes the last, at the top it stays.
Resolved(out, c) ==
    CASE c = "."  -> out
      [] c = ".." -> IF out = <<>> THEN <<>> ELSE Front(out)
      [] OTHER    -> Append(out, c)
LexicallyNormal(path) == FoldLeft(Resolved, <<>>, path)

Folded(place) == [i \in DOMAIN place |-> Fold[place[i]]]

\* A whole component at a time: /usrlocal is not under /usr.
UnderARoot(place) == \E r \in Roots : IsPrefix(r, Folded(place))
HoldsARoot(place) == \E r \in Roots, n \in Parts : r = Append(Folded(place), n)

\* The path itself; a path's last component is a name, so nothing is left to resolve.
Lies(p) == Append(Place[p.parent], p.name)

RootsForgotten(place) == IF UnderARoot(place) THEN "guarded" ELSE "clear"
Verdict(place) ==
    IF UnderARoot(place) THEN "guarded" ELSE IF HoldsARoot(place) THEN "holds a root" ELSE "clear"

-----------------------------------------------------------------------------
GuardInit ==
    /\ asked \in Requests
    /\ seen = {}
    /\ reached = 0
    /\ answer = Undecided

\* The folder browsed, before any path: an empty one is refused as well.
Browse ==
    /\ answer = Undecided /\ reached = 0
    /\ IF asked.dir # Nowhere /\ UnderARoot(Place[asked.dir])
         THEN answer' = Place[asked.dir]
         ELSE answer' = answer
    /\ reached' = 1
    /\ UNCHANGED <<asked, seen>>

\* What is known of a parent after it is met: what was known, or a first look.
Known(parent) ==
    IF \E s \in seen : s[1] = parent THEN seen ELSE seen \cup {<<parent, Verdict(Place[parent])>>}

LookUp ==
    /\ answer = Undecided /\ reached > 0 /\ reached <= Len(asked.paths)
    /\ LET p == asked.paths[reached]
       IN IF p.parent = Nowhere                    \* the top has no parent
            THEN UNCHANGED <<seen, answer>>
            ELSE /\ seen' = Known(p.parent)
                 /\ answer' = IF <<p.parent, "guarded">> \in seen' THEN Place[p.parent]
                              ELSE IF <<p.parent, "holds a root">> \in seen' /\ UnderARoot(Lies(p))
                                THEN Lies(p) ELSE answer
    /\ reached' = reached + 1
    /\ UNCHANGED asked

ComesToTheEnd ==
    /\ answer = Undecided /\ reached > Len(asked.paths)
    /\ answer' = Nowhere
    /\ UNCHANGED <<asked, seen, reached>>

GuardNext == Browse \/ LookUp \/ ComesToTheEnd
GuardSpec == GuardInit /\ [][GuardNext]_guardVars

-----------------------------------------------------------------------------
(* Properties                                                              *)

\* The paths of the request that have a parent.
Touched == {asked.paths[i] : i \in {j \in DOMAIN asked.paths : asked.paths[j].parent # Nowhere}}

Danger == \/ asked.dir # Nowhere /\ UnderARoot(Place[asked.dir])
          \/ \E p \in Touched : UnderARoot(Lies(p))

\* What is known of a parent is what a look at it would say, and nothing passed over
\* was guarded: what the loop may rely on half way.
Cleared ==
    /\ \A s \in seen : \E q \in Parents : s = <<q, Verdict(Place[q])>>
    /\ answer = Undecided /\ reached > 0 =>
         /\ ~(asked.dir # Nowhere /\ UnderARoot(Place[asked.dir]))
         /\ \A i \in DOMAIN asked.paths :
              i < reached /\ asked.paths[i].parent # Nowhere => ~UnderARoot(Lies(asked.paths[i]))

\* A run is let through only if neither the folder browsed nor any of its files is
\* a guarded folder or lies beneath one, however they are spelled and however few of
\* their folders were looked at; and it is refused only for a place that is guarded
\* and that the run would touch (first_guarded, guarded.rs).
GuardIsExact ==
    /\ answer = Nowhere => ~Danger
    /\ answer \notin {Undecided, Nowhere} => Danger /\ UnderARoot(answer)

GuardTypeOK ==
    /\ asked \in Requests
    /\ reached \in Nat
    /\ answer \in Seq(Parts) \cup {Undecided, Nowhere}
=============================================================================
