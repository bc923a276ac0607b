--------------------------------- MODULE Walk ---------------------------------
(***************************************************************************)
(* Listing a folder (ren-core, listing.rs): a walk that reads the volume   *)
(* while other programs change it, meets folders it may not read, and is   *)
(* told to stop when a newer one is asked for.  What it could not read it  *)
(* must name: a batch over fewer files than the user asked for looks like  *)
(* any other.                                                              *)
(***************************************************************************)
EXTENDS Naturals, Sequences, FiniteSets, SequencesExt

CONSTANTS
    Places,         \* paths beneath the folder listed, as sequences of names
    Branches,       \* those of them that are folders
    Rank,           \* the order the walk comes to them in: by name, a folder first
    Options,        \* what may be asked: ListOptions
    Marks,          \* what the files may be marked as: "", "hidden", "read only"
    MaxBad          \* reads that fail, and files that vanish

\* What is in a folder comes after the folder.
ASSUME WalkAssumption ==
    /\ Places \subseteq Seq(STRING) \ {<<>>} /\ Branches \subseteq Places
    /\ \A p \in Places : \A n \in 1..(Len(p) - 1) : SubSeq(p, 1, n) \in Branches
    /\ Rank \in [Places -> Nat]
    /\ \A p, q \in Places : (Rank[p] = Rank[q] => p = q) /\ (IsPrefix(p, q) => Rank[p] <= Rank[q])

VARIABLES
    option,         \* [files, folders, subfolders, hidden, readOnly, pattern, scope]
    mark,           \* how each place is marked
    there,          \* the places that are still there
    todo,           \* what the walk has read and not come to: [place, ok]
    entries,        \* what it lists
    problems,       \* what it could not read
    outcome,        \* "asked", "walking", "done", "failed" or "abandoned"
    bad

walkVars == <<option, mark, there, todo, entries, problems, outcome, bad>>

-----------------------------------------------------------------------------
IsDir(p) == p \in Branches
Above(p) == {q \in Places : q # p /\ IsPrefix(q, p)}

AppliesTo(scope, dir) == scope = "both" \/ (scope = "folders") = dir

\* Of a kind that is asked for, and past the pattern.
Passes(p) ==
    /\ IF IsDir(p) THEN option.folders ELSE option.files
    /\ AppliesTo(option.scope, IsDir(p)) => Last(p) \in option.pattern

Shows(p) == /\ mark[p] = "hidden" => option.hidden
            /\ mark[p] = "read only" => option.readOnly

\* What is in a folder out of sight is out of sight with it; write protection is
\* a folder's own.
Enters(p) == IsDir(p) /\ mark[p] = "hidden" => option.hidden

\* What a folder holds when it is opened.
Children(folder) == {p \in there : Len(p) = Len(folder) + 1 /\ IsPrefix(folder, p)}
Read(places) == {[place |-> p, ok |-> TRUE] : p \in places}
Unread(p) == {[place |-> p, ok |-> FALSE]}

Depth(p) == option.subfolders \/ Len(p) < 1

WalkInit ==
    /\ option \in Options
    /\ mark \in Marks
    /\ there = Places
    /\ todo = {} /\ entries = <<>> /\ problems = {}
    /\ outcome = "asked" /\ bad = 0

Still == UNCHANGED <<option, mark, there>>
GoesWrong(times) == bad + times <= MaxBad /\ bad' = bad + times

\* A bug: what cannot be read is passed over.
PassedOver(p) == UNCHANGED problems
Reported(p) == problems' = problems \cup {p}

\* A folder asked for the files beneath it is read as it is met; where it cannot
\* be, the walk says so once it comes to them.
Opened(p, fails) ==
    IF ~IsDir(p) \/ ~Depth(p) THEN {}
    ELSE IF fails \/ p \notin there THEN Unread(p)
    ELSE Read(Children(p))

\* The folder itself is read twice: it must be there, and then it is walked.
Opens ==
    /\ outcome = "asked"
    /\ \E failed \in {"no", "at once", "then"} :
          /\ GoesWrong(IF failed = "no" THEN 0 ELSE 1)
          /\ outcome' = IF failed = "at once" THEN "failed" ELSE "walking"
          /\ todo' = CASE failed = "no" -> Read(Children(<<>>))
                       [] failed = "then" -> Unread(<<>>)
                       [] OTHER -> {}
    /\ UNCHANGED <<entries, problems>> /\ Still

\* The walk comes to the first of what it has read.
IsNext(t) == t \in todo /\ \A u \in todo \ {t} : Rank[t.place] < Rank[u.place]

\* It is an entry that could not be read; or one whose folder, or whose metadata, cannot be.
ComesToProblem(t) ==
    /\ ~t.ok /\ Reported(t.place)
    /\ todo' = todo \ {t} /\ UNCHANGED <<entries, bad>>
ComesToEntry(t) ==
    \E shut, blind \in BOOLEAN :
        LET p == t.place
            unknown == blind \/ p \notin there
            entered == unknown \/ Enters(p)
        IN  /\ t.ok
            /\ GoesWrong((IF shut THEN 1 ELSE 0) + (IF blind THEN 1 ELSE 0))
            /\ shut => IsDir(p) /\ Depth(p)
            /\ todo' = (todo \ {t}) \cup (IF entered THEN Opened(p, shut) ELSE {})
            /\ CASE ~entered \/ ~Passes(p) -> UNCHANGED <<entries, problems>>
                 [] entered /\ Passes(p) /\ unknown -> Reported(p) /\ UNCHANGED entries
                 [] OTHER -> /\ entries' = IF Shows(p) THEN Append(entries, p) ELSE entries
                             /\ UNCHANGED problems
WalkStep ==
    /\ outcome = "walking"
    /\ \E t \in todo : IsNext(t) /\ (ComesToProblem(t) \/ ComesToEntry(t))
    /\ UNCHANGED outcome /\ Still

WalkEnds ==
    /\ outcome = "walking" /\ todo = {}
    /\ outcome' = "done"
    /\ UNCHANGED <<todo, entries, problems, bad>> /\ Still

\* Asked before each entry; a walk that is stopped has no result at all.
Abandoned ==
    /\ outcome = "walking" /\ todo # {}
    /\ outcome' = "abandoned" /\ entries' = <<>> /\ problems' = {}
    /\ UNCHANGED <<todo, bad>> /\ Still

\* Another program removes a file, or a folder with all that is in it.
Vanishes ==
    /\ outcome \in {"asked", "walking"} /\ GoesWrong(1)
    /\ \E p \in there : there' = {q \in there : ~IsPrefix(p, q)}
    /\ UNCHANGED <<option, mark, todo, entries, problems, outcome>>

WalkNext == Opens \/ WalkStep \/ WalkEnds \/ Abandoned \/ Vanishes

WalkSpec == WalkInit /\ [][WalkNext]_walkVars
-----------------------------------------------------------------------------
Wanted(p) ==
    /\ Passes(p) /\ Shows(p)
    /\ option.subfolders \/ Len(p) = 1
    /\ \A q \in Above(p) : Shows(q)

\* Named as a problem, or in a folder that is; or still to come to, by way of a folder.
Told(p) == \E q \in problems : IsPrefix(q, p)
ToCome(p) == \E t \in todo : IsPrefix(t.place, p)

Complete == \A p \in there : Wanted(p) => p \in ToSet(entries) \/ Told(p)
OnlyAsked == \A i \in DOMAIN entries : Passes(entries[i]) /\ Shows(entries[i])
InOrder == \A i, j \in DOMAIN entries : i < j => Rank[entries[i]] < Rank[entries[j]]

\* What the walk holds on its way.
WalkInv ==
    /\ there \subseteq Places
    /\ \A p \in there, q \in Places : IsPrefix(q, p) => q \in there
    /\ todo \subseteq [place : Places \cup {<<>>}, ok : BOOLEAN]
    /\ \A t \in todo : t.ok => t.place # <<>>
    /\ entries \in Seq(Places)
    /\ OnlyAsked /\ InOrder
    /\ \A i \in DOMAIN entries, t \in todo : t.ok => Rank[entries[i]] < Rank[t.place]
    /\ outcome = "asked" => entries = <<>> /\ todo = {}
    /\ outcome \in {"walking", "done"} =>
          \A p \in there : Wanted(p) => p \in ToSet(entries) \/ Told(p) \/ ToCome(p)
    /\ outcome = "done" => todo = {}

(* A file that was there all along is listed once, in the walk's order, if the  *)
(* user asked for it; or it, or a folder it is in, is named as a problem.  And  *)
(* nothing is listed that was not asked for, for want of knowing better.        *)
NothingGoesMissing == outcome = "done" => Complete /\ OnlyAsked /\ InOrder
=============================================================================
