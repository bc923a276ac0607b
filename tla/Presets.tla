------------------------------- MODULE Presets -------------------------------
(***************************************************************************)
(* The preset folder (ren-core/src/preset.rs) and what the drawer does     *)
(* with it (ren-gui/src/app.rs), over several windows.  A preset is its    *)
(* name, its description and its steps; the file it lies in is found from  *)
(* its name.  A name is [key, cap]: the key says everything but the case.  *)
(***************************************************************************)
EXTENDS Integers, Sequences, FiniteSets

CONSTANTS
    None,
    Windows,
    Names,          \* what the user calls a preset
    Stored,         \* the first word of a name -> what a file can be called
    Endings,       \* what tells files of one stem apart, "" first
    Tails,          \* what tells the copies of a preset apart
    Defaults,       \* the presets a first run is given: a sequence of names
    MaxCalls,       \* bound: what the user does; the calls number the works, too
    MaxTrouble      \* bound: calls that fail and processes that die

VARIABLES
    folds,          \* the volume takes names that differ in case only for one
    made,           \* the folder exists
    files,          \* file -> [name, about, work] for the presets in the folder
    temps,          \* files whose .toml.tmp lies there
    up,             \* the windows that are open
    cached,         \* window -> the listing it holds, None for none
    foreign,        \* windows whose listing another window has outdated
    at,             \* the call at work, [who, todo, gives]; one at a time
    calls, trouble,
    owed,           \* works the user was told are there, and has given up since by no call
    gone,           \* works the user deleted
    shared          \* a copy was given the name of another preset

presetVars == <<folds, made, files, temps, up, cached, foreign, at, calls, trouble, owed, gone, shared>>

SameName(a, b) == a.key = b.key
SameFile(f, g) == f = g \/ (folds /\ f.key = g.key)

\* A write cut off before its first byte: an empty file, which reads as a
\* preset without steps under the name of its file.
Torn(f) == [name |-> f, about |-> 0, work |-> 0]

\* The file put under a name, in the place of what the volume takes for it.
Put(f, p) == [g \in {h \in DOMAIN files : ~SameFile(h, f)} \cup {f} |-> IF g = f THEN p ELSE files[g]]
Without(f) == [g \in DOMAIN files \ {f} |-> files[g]]

FileStem(n) == IF Len(n.key) = 1 THEN [n EXCEPT !.key = <<Stored[n.key[1]]>>] ELSE n

Candidate(n, i) ==
    LET stem == FileStem(n)
    IN  IF i = 1 THEN stem ELSE [stem EXCEPT !.key = Append(@, Endings[i])]

\* A preset has a file, and two have two; there are defaults, each with a file of its own.
ASSUME PresetsAssumption ==
    /\ \A n \in Names : None \notin {FileStem(n), Candidate(n, 2)} /\ FileStem(n).key # Candidate(n, 2).key
    /\ DOMAIN Endings \subseteq Nat /\ Len(Defaults) \in Nat \ {0}
    /\ \A i, j \in 1..Len(Defaults) :
        /\ FileStem(Defaults[i]) # None
        /\ FileStem(Defaults[i]).key = FileStem(Defaults[j]).key => i = j

\* The first of a set of numbers' candidates.
FirstFree(n, free) ==
    IF free = {} THEN None ELSE Candidate(n, CHOOSE i \in free : \A j \in free : i <= j)

\* A bug: only a file spelt the very same way is in the way.
FreeBySpelling(n, source) ==
    FirstFree(n, {i \in DOMAIN Endings : Candidate(n, i) \notin DOMAIN files \ {source}})

\* Taken means taken ignoring case, whatever the volume does.
FreePath(n, source) ==
    LET taken == {f.key : f \in DOMAIN files \ {source}}
    IN  FirstFree(n, {i \in DOMAIN Endings : Candidate(n, i).key \notin taken})

\* Where a save of the name goes: over the file of its stem when that holds a
\* preset of the name, else to a free one.
PathFor(n) ==
    LET there == {f \in DOMAIN files : f.key = FileStem(n).key /\ SameName(files[f].name, n)}
    IN  IF there = {} THEN FreePath(n, None) ELSE CHOOSE f \in there : TRUE

\* The listing: what is in the folder, or what was when this window last
\* looked, should the folder's time stamp be too coarse to tell.
ListingsOf(w) == {files} \cup ({cached[w]} \ {None})

\* Entries are sorted by name without case, and of one name by path: a capital
\* comes before its small letter, and " (2).toml" before ".toml".
Earlier(f, g) ==
    IF f.cap # g.cap THEN f.cap
    ELSE IF Len(f.key) # Len(g.key) THEN Len(f.key) > Len(g.key)
    ELSE \E i, j \in DOMAIN Endings :
            i < j /\ f.key[Len(f.key)] = Endings[i] /\ g.key[Len(g.key)] = Endings[j]

\* What the first preset listed under the name says of itself.
Description(l, n) ==
    LET found == {f \in DOMAIN l : SameName(l[f].name, n)}
    IN  IF found = {} THEN 0
        ELSE l[CHOOSE f \in found : \A g \in found \ {f} : Earlier(f, g)].about
-----------------------------------------------------------------------------
PresetInit ==
    /\ folds \in BOOLEAN /\ made \in BOOLEAN
    /\ \/ files = << >>
       \/ made /\ \E n \in Names :
            \E there \in {{FileStem(n)}, {FileStem(n), Candidate(n, 2)}} :  \* two, as a rename leaves them
                files = [f \in there |-> LET k == IF f = FileStem(n) THEN 1 ELSE 2
                                         IN  [name |-> n, about |-> k, work |-> k]]
    /\ temps = {} /\ at = None /\ up = {} /\ foreign = {}
    /\ cached = [w \in Windows |-> None]
    /\ calls = 2 /\ trouble = 0
    /\ owed = {files[f].work : f \in DOMAIN files}
    /\ gone = {} /\ shared = FALSE

\* A bug: the store goes on trusting what it read before it wrote.
Trusted(w) == UNCHANGED <<cached, foreign>>
Forgotten(w) == cached' = [cached EXCEPT ![w] = None] /\ foreign' = foreign \ {w}

\* A call's steps on the disk, and the works it is asked to give up.
Begins(w, todo, gives) ==
    /\ w \in up /\ at = None /\ calls < MaxCalls
    /\ calls' = calls + 1
    /\ at' = [who |-> w, todo |-> todo, gives |-> gives]
    /\ Forgotten(w)
    /\ UNCHANGED <<folds, made, files, temps, up, trouble, owed, gone>>

Does(what, f, p) == [do |-> what, file |-> f, held |-> p]

\* save_as: a temporary file beside it, then a rename over it.
SaveAs(f, p) == <<Does("temp", f, p), Does("swap", f, p)>>

\* The drawer saves the pipeline under a name.
Save(w) ==
    /\ \E n \in Names, l \in ListingsOf(w) :
        LET f == PathFor(n)
            about == Description(l, n)
        IN  /\ f # None
            /\ Begins(w, SaveAs(f, [name |-> n, about |-> about, work |-> calls + 1]),
                      IF f \in DOMAIN files THEN {files[f].work} ELSE {})
    /\ UNCHANGED shared

\* A rename's steps: in place when the file stays but for its case, else the
\* new file and then the removal of the old.
RenameSteps(f, t, p) ==
    IF f.key # t.key THEN SaveAs(t, p) \o <<Does("drop", f, p)>>
    ELSE IF t = f THEN SaveAs(f, p)
    ELSE SaveAs(f, p) \o <<[Does("move", f, p) EXCEPT !.held = t]>>

Rename(w) ==
    /\ \E l \in ListingsOf(w) : \E f \in DOMAIN l \cap DOMAIN files, n \in Names :
        LET t == FreePath(n, f)
        IN  t # None /\ Begins(w, RenameSteps(f, t, [files[f] EXCEPT !.name = n]), {})
    /\ UNCHANGED shared

\* The first "(copy)" name no listed preset has.
CopyName(l, n) ==
    LET called(i) == [n EXCEPT !.key = Append(@, Tails[i])]
        free == {i \in DOMAIN Tails : \A f \in DOMAIN l : ~SameName(l[f].name, called(i))}
    IN  IF free = {} THEN None ELSE called(CHOOSE i \in free : \A j \in free : i <= j)

Duplicate(w) ==
    /\ \E l \in ListingsOf(w) : \E f \in DOMAIN l \cap DOMAIN files :
        LET name == CopyName(l, files[f].name)
            t == FreePath(name, None)
        IN  /\ name # None /\ t # None
            /\ Begins(w, SaveAs(t, [files[f] EXCEPT !.name = name, !.work = calls + 1]), {})
            /\ shared' = (shared \/ (w \notin foreign /\ \E g \in DOMAIN files : SameName(files[g].name, name)))

\* A file from outside, with a description of its own.
Import(w) ==
    /\ \E n \in Names :
        LET t == FreePath(n, None)
        IN  t # None /\ Begins(w, SaveAs(t, [name |-> n, about |-> calls + 1, work |-> calls + 1]), {})
    /\ UNCHANGED shared

Delete(w) ==
    /\ w \in up /\ at = None /\ calls < MaxCalls
    /\ calls' = calls + 1
    /\ \E l \in ListingsOf(w) : \E f \in DOMAIN l \cap DOMAIN files :
        LET last == {files[f].work} \ {files[g].work : g \in DOMAIN files \ {f}}
        IN  /\ files' = Without(f)
            /\ owed' = owed \ last
            /\ gone' = gone \cup last
    /\ cached' = [cached EXCEPT ![w] = None]
    /\ foreign' = (foreign \cup Windows) \ {w}
    /\ UNCHANGED <<folds, made, temps, up, at, trouble, shared>>

\* The drawer, the menu and the description of a save read the listing.
Look(w) ==
    /\ w \in up /\ at = None /\ cached[w] # files
    /\ cached' = [cached EXCEPT ![w] = files]
    /\ foreign' = foreign \ {w}
    /\ UNCHANGED <<folds, made, files, temps, up, at, calls, trouble, owed, gone, shared>>

\* Only a folder that does not exist is seeded.
Seeded == made

\* Each default in turn: the file made, then filled.
Seeds ==
    [k \in 1..(2 * Len(Defaults)) |->
        LET i == (k + 1) \div 2
        IN  Does(IF k % 2 = 1 THEN "touch" ELSE "fill", FileStem(Defaults[i]),
                 [name |-> Defaults[i], about |-> -i, work |-> -i])]

Start(w) ==
    /\ w \notin up /\ at = None
    /\ up' = up \cup {w}
    /\ made' = TRUE
    /\ at' = IF Seeded THEN None ELSE [who |-> w, todo |-> Seeds, gives |-> {}]
    /\ UNCHANGED <<folds, files, temps, cached, foreign, calls, trouble, owed, gone, shared>>
-----------------------------------------------------------------------------
\* One call of the file system.
StepOn ==
    /\ at # None
    /\ LET step == Head(at.todo)
           f == step.file
           p == step.held
           writes == step.do \in {"fill", "swap"}
       IN  /\ files' = CASE step.do = "temp" -> files
                         [] step.do = "touch" -> Put(f, Torn(f))
                         [] step.do \in {"fill", "swap"} -> Put(f, p)
                         [] step.do = "move" -> [g \in (DOMAIN files \ {f}) \cup {p} |->
                                                    IF g = p THEN files[f] ELSE files[g]]
                         [] step.do = "drop" -> Without(f)
           /\ temps' = CASE step.do = "temp" -> temps \cup {f}
                         [] step.do = "swap" -> temps \ {f}
                         [] OTHER -> temps
           /\ owed' = IF writes THEN (owed \ at.gives) \cup {p.work} ELSE owed
           /\ foreign' = IF step.do = "temp" THEN foreign ELSE (foreign \cup Windows) \ {at.who}
    /\ at' = IF Len(at.todo) = 1 THEN None ELSE [at EXCEPT !.todo = Tail(@)]
    /\ UNCHANGED <<folds, made, up, cached, calls, trouble, gone, shared>>

\* A temporary file that could not be filled stays; one that could not be
\* renamed is removed.
Left(step) ==
    CASE step.do = "temp" -> {temps, temps \cup {step.file}}
      [] step.do = "swap" -> {temps \ {step.file}}
      [] OTHER -> {temps}

Fails ==
    /\ at # None /\ trouble < MaxTrouble
    /\ trouble' = trouble + 1
    /\ temps' \in Left(Head(at.todo))
    /\ at' = None
    /\ UNCHANGED <<folds, made, files, up, cached, foreign, calls, owed, gone, shared>>

Dies(w) ==
    /\ w \in up /\ trouble < MaxTrouble
    /\ trouble' = trouble + 1
    /\ up' = up \ {w}
    /\ cached' = [cached EXCEPT ![w] = None]
    /\ foreign' = foreign \ {w}
    /\ at' = IF at # None /\ at.who = w THEN None ELSE at
    /\ UNCHANGED <<folds, made, files, temps, calls, owed, gone, shared>>

PresetNext ==
    \/ \E w \in Windows :
        Save(w) \/ Rename(w) \/ Duplicate(w) \/ Import(w) \/ Delete(w) \/ Look(w) \/ Start(w) \/ Dies(w)
    \/ StepOn
    \/ Fails

PresetSpec == PresetInit /\ [][PresetNext]_presetVars
-----------------------------------------------------------------------------
\* What the user was told is saved stays in the folder, whole, through every
\* call that was not asked to replace or delete it: through renames onto names
\* in use, imports and copies on volumes that ignore case, calls that fail at
\* any step and processes that die between two (path_for, free_path,
\* write_atomically, rename).  And a preset the user deleted does not come back,
\* with the defaults of the next start or from a rename that was cut off
\* (seed_defaults).
FolderIsAsTold ==
    LET there == {files[f].work : f \in DOMAIN files}
    IN  owed \subseteq there /\ gone \cap there = {}

\* A copy has a name no other preset has, unless another window got in between:
\* the store's own writes are never read back stale (forget_listing, duplicate).
CopiesHaveTheirOwnName == ~shared

\* A save over a preset keeps its description, as the doc of save_preset says.
\* It does not hold: the description is that of the first preset listed under
\* the name, which need not be the one whose file is written.
DescriptionsAreKept ==
    [][\A f \in DOMAIN files \cap DOMAIN files' :
        (files[f].work > 0 /\ files'[f].work # files[f].work) => files'[f].about = files[f].about]_presetVars

\* A swap ahead replaces nothing that is not given up or written again; what follows a swap
\* leaves its work in the folder.
IsPreset(p) == "work" \in DOMAIN p /\ p.work \in Int /\ p.work <= calls
SwapIsSafe(f, p) ==
    /\ f # None /\ IsPreset(p) /\ p.work \notin gone
    /\ \A h \in DOMAIN files : SameFile(h, f) => files[h].work \in at.gives \cup {p.work}
LastIsSafe(f, p, last) ==
    \/ /\ last.do = "drop" /\ last.file \in DOMAIN files /\ ~SameFile(last.file, f)
       /\ files[last.file].work = p.work
    \/ /\ last.do = "move" /\ last.file = f
       /\ last.held \notin DOMAIN files \cup {None, f} /\ last.held.key = f.key
SaveAhead(n) ==
    LET swap == at.todo[n] IN
    /\ Len(at.todo) \in n..(n + 1)
    /\ swap.do = "swap" /\ SwapIsSafe(swap.file, swap.held)
    /\ Len(at.todo) = n + 1 => LastIsSafe(swap.file, swap.held, at.todo[n + 1])
TempAhead == at.todo[1].do = "temp" /\ SaveAhead(2)
LastAhead ==
    LET f == at.todo[1].file IN
    /\ Len(at.todo) = 1 /\ f \in DOMAIN files
    /\ \/ at.todo[1].do = "drop" /\ \E g \in DOMAIN files \ {f} : files[g].work = files[f].work
       \/ at.todo[1].do = "move" /\ at.todo[1].held \notin DOMAIN files \cup {None} /\ at.todo[1].held.key = f.key
SeedsAhead ==
    \E k \in 1..(2 * Len(Defaults)) :
        /\ Len(at.todo) = 2 * Len(Defaults) - k + 1
        /\ \A i \in 1..Len(at.todo) : at.todo[i] = Seeds[k + i - 1]
        /\ at.gives = {} /\ gone = {} /\ 0 \notin owed
        /\ \A i \in 1..Len(Defaults), h \in DOMAIN files :
            h.key = FileStem(Defaults[i]).key =>
                \/ 2 * i < k
                \/ 2 * i = k /\ h = FileStem(Defaults[i]) /\ files[h].work = 0
IsSequence(s) == s \in Seq({s[i] : i \in DOMAIN s})
CallIsSafe ==
    /\ "todo" \in DOMAIN at /\ IsSequence(at.todo)
    /\ \/ TempAhead
       \/ SaveAhead(1)
       \/ LastAhead
       \/ SeedsAhead
PresetInv ==
    /\ calls \in Nat /\ gone \subseteq Int /\ \A work \in gone : work <= calls
    /\ None \notin DOMAIN files /\ \A f \in DOMAIN files : IsPreset(files[f])
    /\ folds => \A f, g \in DOMAIN files : f.key = g.key => f = g
    /\ ~made => DOMAIN files = {} /\ up = {} /\ at = None /\ gone = {} /\ owed = {}
    /\ FolderIsAsTold
    /\ at # None => CallIsSafe
=============================================================================
