------------------------------- MODULE Thumbs -------------------------------
(***************************************************************************)
(* The thumbnails of the rows on screen (ren-gui, thumbs): the frame asks  *)
(* for what is visible and not held, a pool of threads decodes one picture *)
(* at a time from one queue, the next frame takes delivery, and a cache    *)
(* bounded by cost keeps what was drawn.  Scrolling abandons what was      *)
(* asked for; a run renames files under all of it.                         *)
(***************************************************************************)
EXTENDS Integers, Sequences, FiniteSets, SequencesExt

CONSTANTS
    Rows,           \* the paths, in the order of the list
    Files, Threads, None,
    Stamp,          \* file -> its length and date, as a picture is filed under
    Pictures,       \* the files that can be decoded
    Disk,           \* path -> file: what the folder holds at first
    Moves,          \* what a run or its undo may rename: sets of <<from, to>>
    Screens,        \* the sets of rows that can be on screen
    Budget, Ceiling,
    Restless,       \* the pointer moves now and then, and a frame is drawn
    MaxEvents       \* bound of the model: scrolls, runs and refreshes

VARIABLES
    disk,           \* path -> file
    listing,        \* path -> file, as the session last listed the folder
    relist,         \* the folder is being listed again
    moved,          \* what a finished run renamed and the frame has not heard of
    screen,         \* the paths on screen; None: a view without pictures
    due,            \* a frame has been asked for
    cache,          \* newest first: [key, pic, hot]
    budget,
    staged,         \* decoded, not drawn yet: key -> [pic, late]
    outstanding,    \* the keys asked for and not answered
    generation,     \* of the newest set asked for
    pending,        \* how many answers that set still waits for
    queue,          \* jobs, [gen, key]
    busy,           \* thread -> its job
    answers,        \* [gen, key, pic]
    events

view   == <<screen, due, cache, budget, staged, outstanding, generation, pending>>
pool   == <<queue, busy, answers>>
folder == <<disk, listing, relist, moved>>
vars   == <<view, pool, folder, events>>

\* What identifies a picture: the path and the stamp the listing has.
Key(p, l) == <<p, Stamp[l[p]]>>

\* A refusal is an entry too, and every entry costs its floor.
Cost(pic) == IF pic = None THEN 1 ELSE 2

-----------------------------------------------------------------------------
(* The cache.                                                              *)

KeysOf(c)     == {c[i].key : i \in DOMAIN c}
Pic(c, k)     == c[CHOOSE i \in DOMAIN c : c[i].key = k].pic
Without(c, k) == SelectSeq(c, LAMBDA e : e.key # k)

RECURSIVE Bytes(_)
Bytes(c) == IF c = <<>> THEN 0 ELSE Cost(c[1].pic) + Bytes(Tail(c))

\* The least recently used goes, one at a time, until the budget is met;
\* never one that was drawn in this frame.
RECURSIVE Evicted(_, _)
Evicted(c, b) ==
    LET Cold == {i \in DOMAIN c : ~c[i].hot}
    IN  IF Bytes(c) <= b \/ Cold = {} THEN c
        ELSE Evicted(RemoveAt(c, CHOOSE i \in Cold : \A j \in Cold : j <= i), b)

Inserted(c, k, pic, b) ==
    Evicted(<<[key |-> k, pic |-> pic, hot |-> TRUE]>> \o Without(c, k), b)

\* A read marks the entry recently used.
Touched(c, k) == <<[key |-> k, pic |-> Pic(c, k), hot |-> TRUE]>> \o Without(c, k)

\* The picture follows its file: one key after another, as they were held.
Follow(c, k, mv, b) ==
    IF k \in KeysOf(c) /\ \E m \in mv : m[1] = k[1]
    THEN LET to == (CHOOSE m \in mv : m[1] = k[1])[2]
         IN  Inserted(Without(c, k), <<to, k[2]>>, Pic(c, k), b)
    ELSE c
RECURSIVE RekeyedAll(_, _, _, _)
RekeyedAll(c, keys, mv, b) ==
    IF keys = <<>> THEN c ELSE RekeyedAll(Follow(c, keys[1], mv, b), Tail(keys), mv, b)
Rekeyed(c, mv, b) == RekeyedAll(c, [i \in DOMAIN c |-> c[i].key], mv, b)

\* The rows drawn, from the top: a picture that has just come is put in the
\* cache, one that is held is read.
Tile(c, k, came, b) ==
    IF k \in KeysOf(c) THEN Touched(c, k)
    ELSE IF k \in DOMAIN came THEN Inserted(c, k, came[k].pic, b)
    ELSE c
RECURSIVE Drawn(_, _, _, _)
Drawn(c, keys, came, b) ==
    IF keys = <<>> THEN c ELSE Drawn(Tile(c, keys[1], came, b), Tail(keys), came, b)

-----------------------------------------------------------------------------
(* A frame.                                                                *)

\* As a bug would have it: every answer counts, an abandoned one too.
AllAnswers(i) == TRUE

\* Only the newest set is waited for.
Counts(i) == answers[i].gen = generation

\* As a bug would have it: what was asked for is forgotten only when the
\* whole set is answered.
StillAwaited(keys, landed) == IF keys \subseteq landed THEN {} ELSE keys

Awaited(keys, landed) == keys \ landed

\* Nothing is asked for while all that is missing is on its way.
AllComing(missing, coming) == missing \subseteq coming

\* The rows on screen, from the top.
Shown == SelectSeq(Rows, LAMBDA x : screen # None /\ x \in DOMAIN listing /\ x \in screen)
WantedSeq == [i \in DOMAIN Shown |-> Key(Shown[i], listing)]
Wanted == ToSet(WantedSeq)

\* begin_frame, poll, want, and the tile of every row on screen.  hear: the
\* report of a finished run was in, before any of it.
Frame(hear) ==
    LET mv     == IF hear THEN moved ELSE {}
        cache0 == IF hear THEN Rekeyed(cache, mv, budget) ELSE cache
        out0   == IF mv # {} THEN {} ELSE outstanding
        cold   == [i \in DOMAIN cache0 |-> [cache0[i] EXCEPT !.hot = FALSE]]
        landed == {answers[i].key : i \in DOMAIN answers}
        kept   == {k \in DOMAIN staged : ~staged[k].late} \cup landed
        last(k) == CHOOSE i \in DOMAIN answers : /\ answers[i].key = k
                                                 /\ \A j \in DOMAIN answers : answers[j].key = k => j <= i
        came   == [k \in kept |-> IF k \in landed THEN [pic |-> answers[last(k)].pic, late |-> FALSE]
                                  ELSE [staged[k] EXCEPT !.late = TRUE]]
        counted == Cardinality({i \in DOMAIN answers : Counts(i)})
        left   == IF counted < pending THEN pending - counted ELSE 0
        out1   == Awaited(out0, landed)
        room   == 2 * Cardinality(Wanted)
        b      == IF room <= budget THEN budget ELSE IF room <= Ceiling THEN room ELSE Ceiling
        asked  == SelectSeq(WantedSeq, LAMBDA k : k \notin KeysOf(cold) /\ k \notin kept)
        missing == ToSet(asked)
        ask    == ~AllComing(missing, out1)
        cancel == screen # None /\ missing = {} /\ out1 # {}
    IN  /\ hear => moved # None
        /\ IF hear THEN moved' = None /\ relist' = TRUE ELSE UNCHANGED <<moved, relist>>
        /\ answers' = <<>>
        /\ budget' = b
        /\ cache' = Drawn(cold, WantedSeq, came, b)
        /\ staged' = [k \in kept \ (Wanted \ KeysOf(cold)) |-> came[k]]
        /\ outstanding' = IF ask THEN missing ELSE IF cancel THEN {} ELSE out1
        /\ generation' = IF ask \/ cancel THEN generation + 1 ELSE generation
        /\ pending' = IF ask THEN Cardinality(missing) ELSE IF cancel THEN 0 ELSE left
        /\ queue' = queue \o [i \in 1..(IF ask THEN Len(asked) ELSE 0) |->
                                [gen |-> generation + 1, key |-> asked[i]]]
        /\ due' = FALSE
        /\ UNCHANGED <<disk, listing, screen, busy, events>>

-----------------------------------------------------------------------------
(* The threads.                                                            *)

\* A job older than the newest set is thrown away.
Take(t) ==
    /\ busy[t] = None /\ queue # <<>>
    /\ queue' = Tail(queue)
    /\ IF queue[1].gen < generation THEN UNCHANGED busy ELSE busy' = [busy EXCEPT ![t] = queue[1]]
    /\ UNCHANGED <<answers, view, folder, events>>

\* Whatever has the path by now is decoded, or refused.
Decode(t) ==
    /\ busy[t] # None
    /\ LET k == busy[t].key
           f == IF k[1] \in DOMAIN disk THEN disk[k[1]] ELSE None
       IN  answers' = Append(answers, [gen |-> busy[t].gen, key |-> k,
                                       pic |-> IF f \in Pictures THEN f ELSE None])
    /\ busy' = [busy EXCEPT ![t] = None]
    /\ due' = TRUE
    /\ UNCHANGED <<queue, screen, cache, budget, staged, outstanding, generation, pending,
                   folder, events>>

-----------------------------------------------------------------------------
(* What else happens.                                                      *)

\* The user scrolls, or shows another view.
Scroll(s) ==
    /\ events < MaxEvents /\ s # screen
    /\ screen' = s /\ due' = TRUE /\ events' = events + 1
    /\ UNCHANGED <<cache, budget, staged, outstanding, generation, pending,
                   pool, folder>>

\* A run or an undo renames files, and its report is on its way.
Run(mv) ==
    /\ events < MaxEvents /\ moved = None /\ ~relist
    /\ \A m \in mv : /\ m[1] \in DOMAIN disk
                     /\ m[2] \in DOMAIN disk => \E n \in mv : n[1] = m[2]
    /\ disk' = [p \in (DOMAIN disk \ {m[1] : m \in mv}) \cup {m[2] : m \in mv} |->
                   IF \E m \in mv : m[2] = p
                   THEN disk[(CHOOSE m \in mv : m[2] = p)[1]] ELSE disk[p]]
    /\ moved' = mv /\ due' = TRUE /\ events' = events + 1
    /\ UNCHANGED <<screen, cache, budget, staged, outstanding, generation, pending,
                   pool, listing, relist>>

\* The new listing arrives, and every row's key with it.
Listed ==
    /\ relist
    /\ listing' = disk /\ relist' = FALSE /\ due' = TRUE
    /\ UNCHANGED <<screen, cache, budget, staged, outstanding, generation, pending,
                   pool, disk, moved, events>>

\* F9: every picture is forgotten.
Clear ==
    /\ events < MaxEvents
    /\ cache' = <<>> /\ staged' = <<>> /\ outstanding' = {}
    /\ relist' = TRUE /\ due' = TRUE /\ events' = events + 1
    /\ UNCHANGED <<screen, budget, generation, pending, pool, disk, listing, moved>>

\* A frame nobody asked for: the pointer moves.
Wake ==
    /\ Restless /\ ~due /\ due' = TRUE
    /\ UNCHANGED <<screen, cache, budget, staged, outstanding, generation, pending,
                   pool, folder, events>>

Init ==
    /\ disk = Disk /\ listing = Disk /\ relist = FALSE /\ moved = None
    /\ screen \in Screens /\ due = TRUE
    /\ cache = <<>> /\ budget = Budget /\ staged = <<>> /\ outstanding = {}
    /\ generation = 0 /\ pending = 0
    /\ queue = <<>> /\ busy = [t \in Threads |-> None] /\ answers = <<>>
    /\ events = 0

Next ==
    \/ \E hear \in BOOLEAN : Frame(hear)
    \/ \E t \in Threads : Take(t) \/ Decode(t)
    \/ \E s \in Screens : Scroll(s)
    \/ \E mv \in Moves : Run(mv)
    \/ Listed \/ Clear \/ Wake

\* The threads run, a listing ends, a frame that was asked for is drawn (only
\* Frame clears due, and it always can) and hears of a finished run.
Fairness ==
    /\ \A t \in Threads : WF_vars(Take(t)) /\ WF_vars(Decode(t))
    /\ WF_vars(Listed) /\ WF_vars(Wake)
    /\ WF_due(due /\ due' = FALSE)
    /\ WF_moved(moved # None /\ moved' = None)

Spec == Init /\ [][Next]_vars /\ Fairness

-----------------------------------------------------------------------------
(* Properties.                                                             *)

\* What is waited for is what is still to come: every job of the newest set,
\* queued, being decoded or answered, is counted once, and no other.
PendingIsTrue ==
    pending = Cardinality({i \in DOMAIN queue : queue[i].gen = generation})
            + Cardinality({t \in Threads : busy[t] # None /\ busy[t].gen = generation})
            + Cardinality({i \in DOMAIN answers : answers[i].gen = generation})

\* Once the user, the runs and the listings are done, every row on screen has
\* its picture or its refusal, and nothing is waited for.
ViewFills ==
    <>[](Wanted \subseteq KeysOf(cache) /\ pending = 0)

\* A picture drawn under a name is that file's (doc of ThumbKey::renamed_to:
\* "A wrong picture under a right name cannot happen").
RightPicture ==
    ~relist /\ moved = None =>
        \A i \in DOMAIN cache : \A p \in DOMAIN listing :
            cache[i].key = Key(p, listing) /\ listing[p] \in Pictures =>
                cache[i].pic = listing[p]
=============================================================================
