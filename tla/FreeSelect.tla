------------------------------ MODULE FreeSelect ------------------------------
(***************************************************************************)
(* The Free Select set of the window (ren-gui/src/viewmodel/session.rs):   *)
(* paths the user collected, carried through every run, F2 rename and undo *)
(* by the report of what moved.  A path is the sequence of its components. *)
(* The set holds paths only; here each is kept with the thing it was       *)
(* collected for, so that the two can be compared.                         *)
(***************************************************************************)
EXTENDS Integers, Sequences

CONSTANTS
    Things,         \* files and folders
    Laid,           \* thing -> its path at first
    Calls,          \* what a rename may call a thing
    MaxRuns         \* bound: runs

VARIABLES
    where,          \* thing -> its path
    free,           \* thing -> the path Free Select has for it; collected things only
    last,           \* the last run as the journal has it: a set of <<from, to>>, {} for none
    before,         \* where things were before it
    runs,           \* bound
    chained         \* a run gave a folder the path another of its folders left

freeVars == <<where, free, last, before, runs, chained>>

\* What things are called, at first and by a rename.
Called == Calls \cup UNION {{Laid[t][k] : k \in DOMAIN Laid[t]} : t \in Things}
Paths == Seq(Called) \ {<< >>}

\* Where things may be: no two at one path, and a thing at each folder of a path.
Placements ==
    {w \in [Things -> Paths] :
        /\ \A t, u \in Things : w[t] = w[u] => t = u
        /\ \A t \in Things : \A k \in 1..Len(w[t]) : \E u \in Things : w[u] = SubSeq(w[t], 1, k)}

ASSUME FreeAssumption == Laid \in Placements

Drop(path) == SubSeq(path, 1, Len(path) - 1)
Renamed(path, name) == Append(Drop(path), name)
Ancestors(path) == {SubSeq(path, 1, k) : k \in 1..Len(path)}

\* Where a thing is once the batch, a function from things to names, has run.
Carried(w, batch, thing) ==
    [k \in DOMAIN w[thing] |->
        IF \E t \in DOMAIN batch : w[t] = SubSeq(w[thing], 1, k)
        THEN batch[CHOOSE t \in DOMAIN batch : w[t] = SubSeq(w[thing], 1, k)]
        ELSE w[thing][k]]

After(w, batch) == [t \in Things |-> Carried(w, batch, t)]

Batches == UNION {[S -> Calls] : S \in SUBSET Things}

Report(w, batch) == {<<w[t], Renamed(w[t], batch[t])>> : t \in DOMAIN batch}
Backwards(moved) == {<<p[2], p[1]>> : p \in moved}

\* The moves at a depth not yet rewritten of what the path names.
Hits(moved, state) ==
    {p \in moved : p[1] \in Ancestors(state.path) /\ Len(p[1]) \notin state.rewritten}

\* One prefix rewrite, through the deepest ancestor that moved.
Pass(moved, state) ==
    IF Hits(moved, state) = {} THEN state
    ELSE LET hit == CHOOSE p \in Hits(moved, state) :
                        \A q \in Hits(moved, state) : Len(q[1]) <= Len(p[1])
         IN  [path      |-> hit[2] \o SubSeq(state.path, Len(hit[1]) + 1, Len(state.path)),
              rewritten |-> state.rewritten \cup {Len(hit[1])}]

\* As many passes as the path has components: each rewrites a depth of its own.
Rewritings(moved, path) ==
    LET pass[k \in 0..Len(path)] ==
            IF k = 0 THEN [path |-> path, rewritten |-> {}] ELSE Pass(moved, pass[k - 1])
    IN  pass

\* A bug: the path is followed once, through the deepest ancestor that moved.
FollowedOnce(moved, path) == Pass(moved, [path |-> path, rewritten |-> {}]).path

Followed(moved, path) == Rewritings(moved, path)[Len(path)].path

FollowRenames(moved) == free' = [t \in DOMAIN free |-> Followed(moved, free[t])]

IsFolder(w, t) == \E u \in Things \ {t} : w[t] \in Ancestors(w[u])

\* A folder is given the path that another folder of the batch leaves.
Chains(w, batch) ==
    \E t, u \in DOMAIN batch : IsFolder(w, u) /\ Renamed(w[t], batch[t]) = w[u]
-----------------------------------------------------------------------------
FreeInit ==
    /\ where = Laid /\ before = Laid
    /\ free = << >> /\ last = {} /\ runs = 0 /\ chained = FALSE

\* add_to_free_select: what is dropped, or sent there from a row's menu.
Collects(some) ==
    /\ free' = [t \in DOMAIN free \cup some |-> IF t \in DOMAIN free THEN free[t] ELSE where[t]]
    /\ UNCHANGED <<where, last, before, runs, chained>>

\* remove_from_free_select and clear_free_select.
Removes(some) ==
    /\ some # {}
    /\ free' = [t \in DOMAIN free \ some |-> free[t]]
    /\ UNCHANGED <<where, last, before, runs, chained>>

\* A run: whatever the plan said of the rows, and did to some of them.
Runs ==
    /\ runs < MaxRuns /\ runs' = runs + 1
    /\ \E batch \in Batches :
        LET after == After(where, batch)
        IN  /\ DOMAIN batch # {}
            /\ \A t \in DOMAIN batch : batch[t] # where[t][Len(where[t])]
            /\ \A t, u \in Things : after[t] = after[u] => t = u
            /\ where' = after
            /\ FollowRenames(Report(where, batch))
            /\ last' = Report(where, batch)
            /\ chained' = (chained \/ Chains(where, batch))
    /\ before' = where

\* The undo reports its moves the other way round, by the journal's paths.
Undoes ==
    /\ last # {}
    /\ where' = before
    /\ FollowRenames(Backwards(last))
    /\ last' = {}
    /\ UNCHANGED <<before, runs, chained>>

FreeNext ==
    \/ \E some \in SUBSET Things : Collects(some \ DOMAIN free) /\ some \ DOMAIN free # {}
    \/ \E some \in SUBSET DOMAIN free : Removes(some)
    \/ Runs
    \/ Undoes

FreeSpec == FreeInit /\ [][FreeNext]_freeVars
-----------------------------------------------------------------------------
\* Free Select keeps to the things that were collected, through runs and undos
\* that rename folders and what is in them, at any depth: the relist that
\* follows asks for each file under the name it has.  But for a run that gives
\* a folder the name another of its folders leaves (follow_renames, followed).
FollowsTheFile == chained \/ \A t \in DOMAIN free : free[t] = where[t]

\* The same without that exception, which the doc of followed does not make:
\* "That covers every order a report can come in".
FollowsEveryFile == \A t \in DOMAIN free : free[t] = where[t]

\* The last run stands in the journal as it ran, over the names before it.
LastIsAsItRan ==
    last # {} =>
        \E batch \in Batches :
            /\ last = Report(before, batch)
            /\ where = After(before, batch)
            /\ ~chained => ~Chains(before, batch)

\* What every step keeps.
FreeInv ==
    /\ where \in Placements /\ before \in Placements
    /\ chained \in BOOLEAN
    /\ DOMAIN free \subseteq Things
    /\ LastIsAsItRan
    /\ FollowsTheFile
=============================================================================
