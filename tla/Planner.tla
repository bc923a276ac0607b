------------------------------ MODULE Planner -------------------------------
(***************************************************************************)
(* plan(): from a listing and the names its pipeline produced to the       *)
(* operations of one batch, pass by pass, and then those operations        *)
(* carried out on the volume that was listed.                              *)
(*                                                                         *)
(* Paths are below the browsed folder and names are compared as a case-    *)
(* sensitive volume compares them.  The passes the code skips when no      *)
(* folder is listed find nothing then, and are not skipped here.           *)
(***************************************************************************)
EXTENDS Batch, SequencesExt

CONSTANTS
    Jobs,               \* what plan() is asked, see Asked
    Temps,              \* the temporary names, in the order they are tried
    TEMP_NAMES_ON_DISK, \* how many of them may be taken before a cycle is refused
    NewDirs,            \* path -> the folder that is made there
    NewFiles            \* the files a script's writes make, in their order

\* target_path: the produced name, joined to the folder the row is in.
Aimed(j, i) == Parent(j.rows[i]) \o j.names[i]

\* The folders a row moves through, from the one it is in to the one it goes to.
Way(j, i) == {SubSeq(Aimed(j, i), 1, n) : n \in Len(j.rows[i])..(Len(Aimed(j, i)) - 1)}

\* A listing, the name produced for each row (<<>> stands for one that does
\* not validate), whether the rows are acted on, and what the script writes.
Asked(j) ==
    /\ IsTree(j.tree)
    /\ FilesIn(j.tree) \cap (Range(NewDirs) \cup Range(NewFiles)) = {}
    /\ j.rows \in Seq(DOMAIN j.tree) /\ IsInjective(j.rows)
    /\ j.names \in [DOMAIN j.rows -> Seq(Names)]
    /\ \A i \in DOMAIN j.rows : Way(j, i) \subseteq DOMAIN NewDirs
    /\ j.dated \in BOOLEAN
    /\ j.writes \in Seq(Paths) /\ Len(j.writes) <= Len(NewFiles)

ASSUME ValuesAssumption ==
    /\ Temps \in Seq(Names) /\ IsInjective(Temps)
    /\ TEMP_NAMES_ON_DISK \in Nat
    /\ NewDirs \in [DOMAIN NewDirs -> Dirs \ Strangers] /\ IsInjective(NewDirs)
    /\ NewFiles \in Seq(Files \ (Dirs \cup Strangers)) /\ IsInjective(NewFiles)
    /\ {0, 1} \subseteq Dates /\ "text" \in Texts
ASSUME JobsAssumption == \A j \in Jobs : Asked(j)

VARIABLES
    job,       \* the question: tree, rows, names, dated, writes
    pc,        \* the pass about to run
    state,     \* row -> "changed", "unchanged" or the conflict it is in
    target,    \* row -> the path it goes to
    wanted,    \* the folders to create, parents first
    \* order_renames
    degree,    \* row -> how many rows it still waits for
    ready,     \* rows that wait for none: a stack, of those that came to it at once
    done,      \* rows whose rename is planned
    stuck,     \* rows for which no temporary name was free
    cursor,    \* folder -> where its next temporary name is looked for
    renames,   \* the renames, in order
    finishes,  \* the second halves of those that go by a temporary name
    \* the plan
    lands,     \* row -> where it comes to rest, as far as that is known
    landed,    \* where each of the script's files comes to rest; <<>> if refused
    ops,       \* the operations
    trees,     \* the volume before each of them, as far as they were carried out
    dates      \* ... and when each file was last modified

listing == <<state, target, wanted>>
order == <<degree, ready, done, stuck, cursor, renames, finishes>>
plan == <<lands, landed, ops>>
disk == <<trees, dates>>
vars == <<job, pc, listing, order, plan, disk>>

Rows == DOMAIN job.rows
Source(i) == job.rows[i]
Movers == {i \in Rows : state[i] = "changed"}
Standing == {i \in Rows : state[i] \in {"changed", "unchanged"}}

\* plan_item.
Item(j, i) ==
    IF j.names[i] = <<>> THEN [state |-> "InvalidName", target |-> j.rows[i]]
    ELSE [state |-> IF Aimed(j, i) = j.rows[i] THEN "unchanged" ELSE "changed",
          target |-> Aimed(j, i)]

Init ==
    /\ job \in Jobs
    /\ pc = "blocked"
    /\ state = [i \in Rows |-> Item(job, i).state]
    /\ target = [i \in Rows |-> Item(job, i).target]
    /\ wanted = <<>>
    /\ degree = [i \in Rows |-> 0] /\ ready = <<>> /\ done = {} /\ stuck = {}
    /\ cursor = [p \in {Parent(Source(i)) : i \in Rows} |-> 0]
    /\ renames = <<>> /\ finishes = <<>>
    /\ lands = <<>> /\ landed = <<>> /\ ops = <<>>
    /\ trees = <<job.tree>> /\ dates = <<[f \in Files |-> 0]>>
-----------------------------------------------------------------------------
(* The passes that find conflicts.                                         *)

\* The rows of S are in conflict from here on.
Refuse(S, why) ==
    /\ state' = [i \in Rows |-> IF i \in S THEN why ELSE state[i]]
    /\ UNCHANGED <<job, target, wanted, order, plan, disk>>

\* Of a row both blocked and moving into itself, the file in the way is named.
DetectBlocked ==
    LET t == job.tree
        blocked == {i \in Movers : \E p \in Way(job, i) : Exists(t, p) /\ t[p] \notin Dirs}
        itself == {i \in Movers \ blocked :
                      Len(job.names[i]) > 1 /\ Head(job.names[i]) = Last(Source(i))}
    IN  /\ pc = "blocked" /\ pc' = "duplicates"
        /\ state' = [i \in Rows |-> IF i \in blocked THEN "BlockedByFile"
                                    ELSE IF i \in itself THEN "IntoItself" ELSE state[i]]
        /\ UNCHANGED <<job, target, wanted, order, plan, disk>>

\* Keys::final_key; a row that keeps its name occupies it.
Final(i) == IF i \in Movers THEN target[i] ELSE Source(i)

DetectDuplicates ==
    /\ pc = "duplicates" /\ pc' = "existing"
    /\ Refuse({i \in Movers : \E j \in Standing \ {i} : Final(j) = Final(i)},
              "DuplicateTarget")

\* The names another row of the batch leaves.
Freed == {Source(i) : i \in Movers}

DetectExisting ==
    /\ pc = "existing" /\ pc' = "inside"
    /\ Refuse({i \in Movers : Exists(job.tree, target[i]) /\ target[i] \notin Freed},
              "TargetExists")

DetectIntoRenamed ==
    /\ pc = "inside" /\ pc' = "folders"
    /\ Refuse({i \in Movers : \E j \in Movers : Source(j) \in Way(job, i)},
              "IntoRenamedFolder")

\* The folders on a row's way that are not there, nor to be created yet.
Missing(i) == {p \in Way(job, i) : ~Exists(job.tree, p) /\ ~Contains(wanted, p)}

\* One folder: row by row, the outermost first.
WantedDirectories ==
    /\ pc = "folders"
    /\ \E i \in Movers : \E p \in Missing(i) :
          /\ \A j \in Movers : j < i => Missing(j) = {}
          /\ \A q \in Missing(i) : Len(p) <= Len(q)
          /\ wanted' = Append(wanted, p)
    /\ UNCHANGED <<job, pc, state, target, order, plan, disk>>

DetectNeeded ==
    /\ pc = "folders" /\ pc' = "edges"
    /\ \A i \in Movers : Missing(i) = {}
    /\ Refuse({i \in Movers : Contains(wanted, target[i])}, "NeededAsFolder")
-----------------------------------------------------------------------------
(* order_renames.                                                          *)

StrictlyUnder(p, q) == AtOrUnder(p, q) /\ p # q

\* y runs before x: it leaves the name x takes, or is in the folder x.
WaitsForName(x, y) == y # x /\ Source(y) = target[x]
WaitsFor(x, y) == WaitsForName(x, y) \/ StrictlyUnder(Source(x), Source(y))

\* Deepest first, then in the order of the listing.
Before(i, j) ==
    \/ Len(Source(i)) > Len(Source(j))
    \/ Len(Source(i)) = Len(Source(j)) /\ i < j

Push(stack, S) == IF S = {} THEN stack ELSE Append(stack, S)

Edges ==
    /\ pc = "edges" /\ pc' = "order"
    /\ degree' = [x \in Rows |->
                     IF x \in Movers THEN Cardinality({y \in Movers : WaitsFor(x, y)}) ELSE 0]
    /\ ready' = Push(<<>>, {x \in Movers : degree'[x] = 0})
    /\ UNCHANGED <<job, listing, done, stuck, cursor, renames, finishes, plan, disk>>

\* Who waits for y, and has not been moved out of the way to end a cycle.
Waiting(y) == {x \in Movers \ done : WaitsFor(x, y)}

\* release: y has moved away, to its target or under a temporary name.  Who
\* takes its name comes to the stack before the folder above it: one of each
\* at most, for no two rows take one name, and of two folders above y the
\* outer waits for the inner.
Release(y, left) ==
    LET freed == {x \in Waiting(y) : degree[x] = 1}
    IN  /\ done' = done \cup {y}
        /\ degree' = [x \in Rows |-> IF x \in Waiting(y) THEN degree[x] - 1 ELSE degree[x]]
        /\ ready' = Push(Push(left, {x \in freed : WaitsForName(x, y)}),
                         {x \in freed : StrictlyUnder(Source(x), Source(y))})

Renaming(f, g) == [kind |-> "rename", from |-> f, to |-> g]

\* y comes first of the rows of S.
FirstOf(S, y) == y \in S /\ \A z \in S \ {y} : Before(y, z)

Move ==
    /\ pc = "order" /\ ready # <<>>
    /\ \E y \in Movers :
          /\ FirstOf(Last(ready), y)
          /\ renames' = Append(renames, Renaming(Source(y), target[y]))
          /\ Release(y, Push(Front(ready), Last(ready) \ {y}))
    /\ UNCHANGED <<job, pc, listing, stuck, cursor, finishes, plan, disk>>

\* Every row that is left is in a cycle, or waits for one.
Victims == Movers \ (done \cup stuck)

\* Every name the batch touches.
Reserved == {Source(i) : i \in Movers} \cup {target[i] : i \in Movers} \cup ToSet(wanted)

Temp(p, k) == Parent(p) \o <<Temps[k + 1]>>

\* The temporary names temp_path tries for what is at p, by their numbers.
Limit(p) == cursor[Parent(p)] + Cardinality(Reserved) + TEMP_NAMES_ON_DISK
Free(p) ==
    {k \in cursor[Parent(p)]..(Limit(p) - 1) :
        /\ k < Len(Temps)  \* bound: the code makes them up without end
        /\ Temp(p, k) \notin Reserved /\ ~Exists(job.tree, Temp(p, k))}

Stage ==
    /\ pc = "order" /\ ready = <<>>
    /\ \E v \in Movers :
          /\ FirstOf(Victims, v)
          /\ Free(Source(v)) # {}
          /\ LET p == Source(v)
                 k == Min(Free(p))
             IN  /\ cursor' = [cursor EXCEPT ![Parent(p)] = k + 1]
                 /\ renames' = Append(renames, Renaming(p, Temp(p, k)))
                 /\ finishes' = Append(finishes, Renaming(Temp(p, k), target[v]))
          /\ Release(v, <<>>)
    /\ UNCHANGED <<job, pc, listing, stuck, plan, disk>>

Stick ==
    /\ pc = "order" /\ ready = <<>>
    /\ \E v \in Movers :
          /\ FirstOf(Victims, v)
          /\ Free(Source(v)) = {}
          /\ cursor' = [cursor EXCEPT ![Parent(Source(v))] = Limit(Source(v))]
          /\ stuck' = stuck \cup {v}
    /\ UNCHANGED <<job, pc, listing, degree, ready, done, renames, finishes, plan, disk>>

Finish ==
    /\ pc = "order" /\ ready = <<>> /\ Victims = {}
    /\ pc' = "place"
    /\ state' = [i \in Rows |-> IF i \in stuck THEN "UnresolvedCycle" ELSE state[i]]
    /\ IF stuck = {} THEN UNCHANGED <<renames, finishes>>
       ELSE renames' = <<>> /\ finishes' = <<>>
    /\ UNCHANGED <<job, target, wanted, degree, ready, done, stuck, cursor, plan, disk>>

\* Each finish goes in before the first folder above it moves.
PlacedLast(sequence, f) == Append(sequence, f)  \* mutant: after everything
Placed(sequence, f) ==
    LET above == {n \in DOMAIN sequence : StrictlyUnder(sequence[n].from, f.from)}
    IN  IF above = {} THEN Append(sequence, f) ELSE InsertAt(sequence, Min(above), f)

Place ==
    /\ pc = "place" /\ finishes # <<>>
    /\ renames' = Placed(renames, Head(finishes))
    /\ finishes' = Tail(finishes)
    /\ UNCHANGED <<job, pc, listing, degree, ready, done, stuck, cursor, plan, disk>>
-----------------------------------------------------------------------------
(* The operations.                                                         *)

\* Where a row comes to rest once the folders above it have moved: the
\* nearest listed one carries it, and has been carried itself.
LandsAlone(i) == Final(i)  \* mutant: the folders above are not followed
Lands(i) ==
    LET above == {j \in Rows : StrictlyUnder(Source(j), Source(i))}
        nearest == CHOOSE j \in above : \A k \in above : Len(Source(k)) <= Len(Source(j))
    IN  IF above = {} THEN Final(i) ELSE Rebase(Final(i), Source(nearest), lands[nearest])

Unresolved == Rows \ DOMAIN lands

\* One row, the shallowest first.
ResolveTarget ==
    /\ pc = "place" /\ finishes = <<>>
    /\ \E i \in Unresolved :
          /\ \A j \in Unresolved : Len(Source(i)) <= Len(Source(j))
          /\ \A j \in Unresolved : Len(Source(i)) = Len(Source(j)) => i <= j
          /\ lands' = [j \in DOMAIN lands \cup {i} |-> IF j = i THEN Lands(i) ELSE lands[j]]
          /\ target' = IF i \in Standing THEN [target EXCEPT ![i] = Lands(i)] ELSE target
    /\ UNCHANGED <<job, pc, state, wanted, order, landed, ops, disk>>

AllResolved ==
    /\ pc = "place" /\ finishes = <<>> /\ Unresolved = {}
    /\ pc' = "write"
    /\ UNCHANGED <<job, listing, order, plan, disk>>

\* WriteCheck::landing: a script names a folder as the listing did; the file
\* goes where the deepest row at or above its path comes to rest.
Landing(p) ==
    LET moved == {i \in Standing : target[i] # Source(i) /\ AtOrUnder(Source(i), p)}
        deepest == CHOOSE i \in moved : \A j \in moved : Len(Source(j)) <= Len(Source(i))
    IN  IF moved = {} THEN p ELSE Rebase(p, Source(deepest), target[deepest])

\* WriteCheck::plan: where a script may write.  A name is claimed by the path
\* a row was given before any folder moved.
Claimed == {Aimed(job, i) : i \in Movers}
MayWrite(p) ==
    /\ Parent(p) \in {Parent(Source(i)) : i \in Rows}
    /\ p \notin Claimed
    /\ p \notin Freed
    /\ ~Contains(wanted, p)
    /\ Exists(job.tree, p) => job.tree[p] \notin Dirs
    /\ ~Contains(landed, Landing(p))

\* The operation a write becomes.
Writing(n) ==
    [kind |-> IF Exists(job.tree, job.writes[n]) THEN "overwrite" ELSE "write",
     path |-> Landing(job.writes[n]), file |-> NewFiles[n], text |-> "text"]

PlanWrite ==
    /\ pc = "write" /\ Len(landed) < Len(job.writes)
    /\ LET n == Len(landed) + 1
           p == job.writes[n]
       IN  IF MayWrite(p)
           THEN landed' = Append(landed, Landing(p)) /\ ops' = Append(ops, Writing(n))
           ELSE landed' = Append(landed, <<>>) /\ UNCHANGED ops
    /\ UNCHANGED <<job, pc, listing, order, lands, disk>>

\* is_executable.
Executable == Standing = Rows /\ ~Contains(landed, <<>>)

CreateDirs == [n \in DOMAIN wanted |->
                  [kind |-> "mkdir", path |-> wanted[n], file |-> NewDirs[wanted[n]]]]
ActAt(i) == IF i \in Standing THEN target[i] ELSE Source(i)
Acts == IF job.dated
        THEN [i \in Rows |-> [kind |-> "date", path |-> ActAt(i), value |-> 1]] ELSE <<>>

Conclude ==
    /\ pc = "write" /\ Len(landed) = Len(job.writes)
    /\ ops' = CreateDirs \o renames \o Acts \o ops
    /\ pc' = IF Executable THEN "run" ELSE "refused"
    /\ UNCHANGED <<job, listing, order, lands, landed, disk>>

\* The executor, on the volume the plan was made for.
Now == Last(trees)
Goes == Len(trees) <= Len(ops) /\ CanDo(ops[Len(trees)], Now)

Carry ==
    /\ pc = "run" /\ Goes
    /\ trees' = Append(trees, TreeAfter(ops[Len(trees)], Now))
    /\ dates' = Append(dates, DateAfter(ops[Len(trees)], Now, Last(dates)))
    /\ UNCHANGED <<job, pc, listing, order, plan>>

Carried == pc = "run" /\ Len(trees) = Len(ops) + 1

Ended == (pc = "refused" \/ (pc = "run" /\ ~Goes)) /\ UNCHANGED vars

Next ==
    \/ DetectBlocked \/ DetectDuplicates \/ DetectExisting \/ DetectIntoRenamed
    \/ WantedDirectories \/ DetectNeeded
    \/ Edges \/ Move \/ Stage \/ Stick \/ Finish \/ Place
    \/ ResolveTarget \/ AllResolved \/ PlanWrite \/ Conclude \/ Carry \/ Ended

Spec == Init /\ [][Next]_vars
-----------------------------------------------------------------------------
(* What a plan promises.                                                   *)

\* What the executor is handed, with the states it is planned to pass through.
PlannedBatch == [ops |-> ops, trees |-> trees, dates |-> dates]

\* A plan that says it can run does: no operation finds its file gone, its
\* name taken or its folder missing, and the whole is what the executor takes
\* for granted of a batch.
PlanIsSound ==
    /\ pc = "run" => Goes \/ Carried
    /\ Carried => Planned(PlannedBatch)

\* What the preview says of a row is where the run leaves it, whether the row
\* was renamed, moved, or carried along by a folder.
PreviewIsTrue ==
    Carried => \A i \in Rows :
        Exists(Now, target[i]) /\ Now[target[i]] = job.tree[Source(i)]

\* The folder n levels above p: the file, whatever it is called.
FolderAbove(t, p, n) == IF Len(p) <= n THEN "browsed" ELSE t[SubSeq(p, 1, Len(p) - n)]

\* The name a file is to have: what its row asks for, or the one it has.
NameFor(p) ==
    IF \E i \in Rows : Source(i) = p
    THEN job.names[CHOOSE i \in Rows : Source(i) = p] ELSE <<Last(p)>>

\* A run leaves every file of the volume, listed or not, in the folder it was
\* in, wherever that went, under the name asked for and no other.
AsAsked ==
    Carried => \A p \in DOMAIN job.tree : \E q \in DOMAIN Now :
        /\ Now[q] = job.tree[p]
        /\ IsSuffix(NameFor(p), q)
        /\ FolderAbove(Now, q, Len(NameFor(p))) = FolderAbove(job.tree, p, 1)

\* A script's file goes into the folder the script named, though the run has
\* renamed that folder since, and replaces what was there under that name and
\* nothing else.
WritesLandWhereNamed ==
    Carried => \A n \in DOMAIN job.writes :
        LET p == job.writes[n]
            q == landed[n]
            t == Now
        IN  /\ Exists(t, q) /\ Last(q) = Last(p)
            /\ FolderAbove(t, q, 1) = FolderAbove(job.tree, p, 1)
            /\ IF Exists(job.tree, p) THEN t[q] = job.tree[p] ELSE t[q] \notin FilesIn(job.tree)

\* An action reaches the file its row lists, whatever the file is called by then.
ActsReachTheirRow ==
    Carried /\ job.dated => \A i \in Rows :
        LET n == Len(wanted) + Len(renames) + i
        IN  trees[n][ops[n].path] = job.tree[Source(i)]

\* The files in the way of the temporary names beside p.
InTheWay(p) == {q \in DOMAIN job.tree : Parent(q) = Parent(p) /\ Last(q) \in ToSet(Temps)}

\* No cycle is refused before as many temporary names are taken on the disk as
\* the bound allows for: those the batch itself touches never use it up.
CyclesResolve == \A i \in stuck : Cardinality(InTheWay(Source(i))) >= TEMP_NAMES_ON_DISK

\* Files that only exchange their names can always do so.
Permutation ==
    /\ \A i \in Rows : job.names[i] # <<>> /\ Len(job.names[i]) = 1
    /\ {Aimed(job, i) : i \in Rows} = {Source(i) : i \in Rows}
PermutationsRun == pc = "refused" /\ Permutation => stuck # {} \/ Contains(landed, <<>>)
=============================================================================
