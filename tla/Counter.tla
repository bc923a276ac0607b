--------------------------------- MODULE Counter ---------------------------------
(***************************************************************************)
(* The counter (ren-core/src/counter.rs, run.rs) and the running counter   *)
(* of the window (app.rs): the value each row is given, and where the next *)
(* run begins.  A setup is [start, step, running, folders, bases, limit];  *)
(* a row is [folder, base], base being the name without its digits.        *)
(***************************************************************************)
EXTENDS Integers, Sequences

CONSTANTS NoLimit,     \* "Reset at" is not ticked
          MaxCount,    \* the counter's width, 2^63 - 1 in the code
          Setups,      \* what the run settings may say
          Entries,     \* [folder, base]
          Listings,    \* the listings a run may be over
          MaxCounts    \* bound: runs

ASSUME CounterAssumption ==
    /\ MaxCount \in Nat /\ MaxCounts \in Nat /\ NoLimit \notin Int
    /\ Setups \subseteq [start : Int, step : Int, running : BOOLEAN, folders : BOOLEAN,
                         bases : BOOLEAN, limit : Int \cup {NoLimit}]
    /\ Listings \subseteq Seq(Entries) \ {<<>>}

VARIABLES setup,     \* the run settings as they are
          first,     \* the run settings as the user made them
          list,      \* the listing being numbered, <<>> when none is
          values,    \* what its rows were given so far
          current,   \* what the next row would be given
          used,      \* the values given by the runs that were completed
          counted,   \* the rows those runs were over
          counts

counterVars == <<setup, first, list, values, current, used, counted, counts>>

-----------------------------------------------------------------------------
(* One value and the next.                                                 *)

Saturated(n) == IF n > MaxCount THEN MaxCount ELSE IF n < -MaxCount - 1 THEN -MaxCount - 1 ELSE n

Passed(c, n) == IF c.step < 0 THEN n <= c.limit ELSE n >= c.limit
Beyond(c, n) == IF c.step < 0 THEN n < c.limit ELSE n > c.limit

Advance(c, n) ==
    LET next == Saturated(n + c.step)
    IN  IF c.limit # NoLimit /\ (Passed(c, n) \/ Beyond(c, next)) THEN c.start ELSE next

\* The row before it was in another folder, or had another base name.
StartsOver(c, row, before) ==
    \/ c.folders /\ row.folder # before.folder
    \/ c.bases /\ row.base # before.base

\* As it once was: the next run starts a bare step on.
BareStep(c, given) ==
    IF given = <<>> THEN c.start ELSE Saturated(given[Len(given)] + c.step)

NextStart(c, given) == IF given = <<>> THEN c.start ELSE Advance(c, given[Len(given)])

-----------------------------------------------------------------------------
(* Runs of the window.                                                     *)

CounterInit ==
    /\ setup \in Setups /\ first = setup /\ current = setup.start
    /\ list = <<>> /\ values = <<>> /\ used = <<>> /\ counted = <<>>
    /\ counts = 0

\* The listing is numbered when the run is built.
Begin(l) ==
    /\ list = <<>> /\ counts < MaxCounts
    /\ list' = l
    /\ values' = <<>>
    /\ current' = setup.start
    /\ counts' = counts + 1
    /\ UNCHANGED <<setup, first, used, counted>>

Number ==
    LET i == Len(values) + 1
        value == IF i > 1 /\ StartsOver(setup, list[i], list[i - 1]) THEN setup.start ELSE current
    IN  /\ i <= Len(list)
        /\ values' = Append(values, value)
        /\ current' = Advance(setup, value)
        /\ UNCHANGED <<setup, first, list, used, counted, counts>>

\* A run that did all it was to do moves the start on.
Completed ==
    /\ list # <<>> /\ Len(values) = Len(list)
    /\ setup' = [setup EXCEPT !.start = IF setup.running THEN NextStart(setup, values) ELSE @]
    /\ used' = used \o values
    /\ counted' = counted \o list
    /\ list' = <<>>
    /\ UNCHANGED <<first, values, current, counts>>

\* One that was cancelled or failed somewhere does not, nor does a simulation.
Unfinished ==
    /\ list # <<>> /\ Len(values) = Len(list)
    /\ list' = <<>>
    /\ UNCHANGED <<setup, first, values, current, used, counted, counts>>

CounterNext == (\E l \in Listings : Begin(l)) \/ Number \/ Completed \/ Unfinished

CounterSpec == CounterInit /\ [][CounterNext]_counterVars

-----------------------------------------------------------------------------
(* Properties.                                                             *)

CounterTypeOK ==
    /\ first \in Setups
    /\ setup.start \in Int /\ setup = [first EXCEPT !.start = setup.start]
    /\ current \in Int /\ counts \in 0..MaxCounts
    /\ list \in Listings \cup {<<>>} /\ counted \in Seq(Entries)
    /\ values \in Seq(Int) /\ used \in Seq(Int)

\* A counter whose start the user left on the near side of "Reset at" gives no
\* row a value past it, however far a step jumps and however many runs the
\* running counter goes through (counter.rs, run.rs next_start).
HasLimit == first.limit # NoLimit /\ ~Beyond(first, first.start)
NeverPastLimit == HasLimit => \A i \in DOMAIN used : ~Beyond(first, used[i])
=============================================================================
