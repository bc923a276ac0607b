---------------------------- MODULE WindowProofs ----------------------------
(***************************************************************************)
(* What Window promises, for any folders, card stacks and selections, any  *)
(* number of things the user does and of failures: a run is of what is on  *)
(* screen and was agreed to (RunIsAsAgreed), and of files as they are now  *)
(* (JobsAreSeen).  The inductive invariant is WindowInv: the newest answer *)
(* each worker owes, in whichever channel it is, is of what is on screen,  *)
(* unless a newer one has yet to be asked for.  At the end, the scripts    *)
(* its threads load (Scripts).                                             *)
(***************************************************************************)
EXTENDS Window, Scripts, TLAPS

-----------------------------------------------------------------------------
(* Channels.                                                               *)

LEMMA Appended ==
    ASSUME NEW S, NEW q \in Seq(S), NEW x \in S
    PROVE  /\ Append(q, x) \in Seq(S)
           /\ \A i \in DOMAIN Append(q, x) :
                 \/ i \in DOMAIN q /\ Append(q, x)[i] = q[i]
                 \/ Append(q, x)[i] = x
  OBVIOUS

LEMMA Emptied == \A S : <<>> \in Seq(S) /\ DOMAIN <<>> = {}
  OBVIOUS

LEMMA Last ==
    ASSUME NEW S, NEW q \in Seq(S), q # <<>>
    PROVE  Len(q) \in DOMAIN q /\ q[Len(q)] \in S
  OBVIOUS

LEMMA Elements ==
    ASSUME NEW S, NEW q \in Seq(S)
    PROVE  \A i \in DOMAIN q : q[i] \in S
  OBVIOUS

-----------------------------------------------------------------------------
(* The beginning.                                                          *)

LEMMA WindowStart == ASSUME Init PROVE WindowInv
  <1>1. /\ 0 \in Nat /\ 1 \in Nat /\ <<>> \in Seq(Wanted) /\ <<>> \in Seq(Walked) /\ <<>> \in Seq(Planned)
        /\ <<>> \in Seq([generation : Nat, plan : Plans \cup {None}])
    BY Emptied
  <1>2. TypeOK
  <2>1. rows \in Listings /\ setup \in Setups
    BY DEF Init, Listings, Setups
  <2>2. ScreenTyped
    BY <2>1, WindowAssumption DEF Init, ScreenTyped
  <2>3. RunningTyped
    BY DEF Init, RunningTyped
  <2>4. listing \in ListingType
    BY <1>1 DEF Init, ListingType
  <2>5. preview \in PreviewType
    BY <1>1 DEF Init, PreviewType
  <2>6. job \in JobType
    BY DEF Init, JobType
  <2>7. frame = "polls" /\ volume = 0 /\ batches = 0 /\ relistWanted \in BOOLEAN
        /\ needsPreview \in BOOLEAN /\ astray \in BOOLEAN
    BY DEF Init
  <2> QED BY <2>2, <2>3, <2>4, <2>5, <2>6, <2>7 DEF TypeOK
  <1>3. JobInv
    BY WindowAssumption DEF Init, JobInv
  <1>4. SeenInv /\ ConsentInv
    BY DEF Init, SeenInv, ConsentInv, Updating
  <1>5. ListingInv /\ InOrder /\ NewestIsOfTheScreen
    BY DEF Init, ListingInv, InOrder, NewestIsOfTheScreen, Updating
  <1> QED BY <1>2, <1>3, <1>4, <1>5 DEF WindowInv

-----------------------------------------------------------------------------
(* run(): what is owed after it, and when it starts a job.                 *)

AsType == [dialog : Planned \cup {None}, consent : Nat \cup {None}, real : BOOLEAN,
           deferred : BOOLEAN, agreed : Plans \cup {None}]
AsGood(as) ==
    /\ as.dialog # None => ConsentIsFor(as.dialog.generation, as.dialog.plan)
    /\ as.consent # None => ConsentIsFor(as.consent, as.agreed)

Starting(as, what) ==
    StartsRun(as, what) /\ ~Updating /\ ~Stale /\ ~Blocked /\ ~NeedsConsent(as)

LEMMA AsIsGood == ASSUME TypeOK, ConsentInv PROVE AsIs \in AsType /\ AsGood(AsIs)
  BY DEF TypeOK, RunningTyped, ConsentInv, AsIs, AsType, AsGood

LEMMA OwesKeeps ==
    ASSUME NEW as \in AsType, NEW what \in Presses \cup {None}, AsGood(as),
           Owes(as, what), preview' = preview
    PROVE  RunningTyped' /\ ConsentInv' /\ job' = job
  <1>1. /\ confirming' = as.dialog /\ consentedFor' = as.consent /\ realOnce' = as.real
        /\ runWhenReady' = as.deferred /\ agreed' = as.agreed /\ asked' = what /\ job' = job
    BY DEF Owes
  <1>2. RunningTyped'
    BY <1>1 DEF RunningTyped, AsType
  <1>3. ConsentInv'
    BY <1>1 DEF ConsentInv, ConsentIsFor, AsGood
  <1> QED BY <1>1, <1>2, <1>3

LEMMA RunOwes ==
    ASSUME TypeOK, InOrder, NEW as \in AsType, NEW what \in Presses \cup {None}, AsGood(as),
           Run(as, what), preview' = preview
    PROVE  RunningTyped' /\ ConsentInv' /\ (job' = job \/ Starting(as, what))
  <1>0. asked \in Presses \cup {None} /\ preview.ready \in Planned \cup {None}
        /\ preview.answered \in Nat
    BY DEF TypeOK, RunningTyped, PreviewType
  <1>1. ASSUME NEW a \in AsType, NEW w \in Presses \cup {None}, AsGood(a), Owes(a, w)
        PROVE  RunningTyped' /\ ConsentInv' /\ job' = job
    BY <1>1, OwesKeeps
  <1>2. /\ [as EXCEPT !.real = FALSE] \in AsType /\ AsGood([as EXCEPT !.real = FALSE])
        /\ [as EXCEPT !.deferred = TRUE] \in AsType /\ AsGood([as EXCEPT !.deferred = TRUE])
        /\ [as EXCEPT !.deferred = FALSE, !.real = FALSE] \in AsType
        /\ AsGood([as EXCEPT !.deferred = FALSE, !.real = FALSE])
        /\ [as EXCEPT !.consent = None, !.real = FALSE] \in AsType
        /\ AsGood([as EXCEPT !.consent = None, !.real = FALSE])
    BY DEF AsType, AsGood
  <1>3. [as EXCEPT !.dialog = preview.ready] \in AsType /\ AsGood([as EXCEPT !.dialog = preview.ready])
  <2>1. preview.ready # None => ConsentIsFor(preview.ready.generation, preview.ready.plan)
    BY <1>0 DEF InOrder, ConsentIsFor
  <2> QED BY <1>0, <2>1 DEF AsType, AsGood
  <1>4. CASE as.dialog # None
    BY <1>0, <1>1, <1>2, <1>4 DEF Run
  <1>5. CASE as.dialog = None /\ Updating
    BY <1>1, <1>2, <1>5 DEF Run, Refused
  <1>6. CASE as.dialog = None /\ ~Updating /\ Stale
    BY <1>1, <1>2, <1>6 DEF Run
  <1>7. CASE as.dialog = None /\ ~Updating /\ ~Stale /\ Blocked
    BY <1>1, <1>2, <1>7 DEF Run, Refused
  <1>8. CASE as.dialog = None /\ ~Updating /\ ~Stale /\ ~Blocked
  <2>1. CASE Owes([as EXCEPT !.dialog = preview.ready], what)
    BY <1>1, <1>3, <2>1
  <2>2. CASE Owes([as EXCEPT !.consent = None, !.real = FALSE], what)
    BY <1>1, <1>2, <2>2
  <2>3. CASE StartsRun(as, what) /\ ~NeedsConsent(as)
      <3>1. /\ confirming' = None /\ consentedFor' = None /\ realOnce' = FALSE
            /\ runWhenReady' = as.deferred /\ agreed' = None /\ asked' = what
        BY <2>3 DEF StartsRun
      <3>2. RunningTyped'
        BY <3>1 DEF RunningTyped, AsType
      <3>3. ConsentInv'
        BY <3>1 DEF ConsentInv
      <3> QED BY <1>8, <2>3, <3>2, <3>3 DEF Starting
  <2> QED BY <1>8, <2>1, <2>2, <2>3 DEF Run
  <1> QED BY <1>4, <1>5, <1>6, <1>7, <1>8

\* A run that starts is of the screen, of the source, and agreed to.
LEMMA RunStarts ==
    ASSUME WindowInv, NEW as \in AsType, NEW what \in Presses \cup {None}, AsGood(as),
           Starting(as, what)
    PROVE  /\ job.busy = None /\ job'.busy = "Run" /\ job' \in JobType
           /\ job'.work.plan = Plan /\ rows.of = source
           /\ ~astray => rows.seen = volume
           /\ job'.work.real /\ job'.work.plan.setup.cards \in Consents =>
                 job'.work.agreed = job'.work.plan
           /\ job'.work.left = OpsPerJob /\ job'.work.kind = "Run" /\ job'.out = None
  <1> DEFINE work == [kind |-> "Run", plan |-> preview.ready.plan, real |-> ForReal(as),
                      left |-> OpsPerJob, asked |-> what, agreed |-> as.agreed]
  <1>1. /\ job.busy = None /\ job' = Sent(work)
        /\ ~Updating /\ ~needsPreview /\ ~(preview.answered < preview.generation)
        /\ preview.ready # None /\ ~NeedsConsent(as)
    BY DEF Starting, StartsRun, Stale, Blocked
  <1>2. job \in JobType /\ preview.ready \in Planned /\ preview.answered \in Nat
        /\ preview.generation \in Nat /\ simulate \in BOOLEAN
    BY <1>1 DEF WindowInv, TypeOK, ScreenTyped, PreviewType
  <1>3. job.out = None
    BY <1>1 DEF WindowInv, JobInv
  <1>4. /\ job'.busy = "Run" /\ job'.work = work /\ job'.out = None
    BY <1>1, <1>2, <1>3 DEF Sent, JobType
  <1>5. work \in Sendings
  <2>1. ForReal(as) \in BOOLEAN
    BY <1>2 DEF ForReal, AsType
  <2>2. preview.ready.plan \in Plans /\ as.agreed \in Plans \cup {None}
    BY <1>2 DEF Planned, AsType
  <2>3. OpsPerJob \in 0 .. OpsPerJob
    BY WindowAssumption
  <2> QED BY <2>1, <2>2, <2>3 DEF Sendings, Kinds
  <1>6. job' \in JobType
    BY <1>1, <1>2, <1>5 DEF Sent, JobType, Kinds
  <1>7. preview.ready.generation = preview.generation
    BY <1>1, <1>2 DEF WindowInv, InOrder
  <1>8. preview.ready.plan = Plan
    BY <1>1, <1>7 DEF WindowInv, InOrder, NewestIsOfTheScreen, Newest
  <1>9. rows.of = source
    BY <1>1 DEF WindowInv, ListingInv
  <1>10. ~astray => rows.seen = volume
    BY <1>1 DEF WindowInv, SeenInv, Untouched
  <1>11. ForReal(as) /\ preview.ready.plan.setup.cards \in Consents => as.agreed = preview.ready.plan
  <2>1. SUFFICES ASSUME ForReal(as), preview.ready.plan.setup.cards \in Consents
                 PROVE  as.agreed = preview.ready.plan
    OBVIOUS
  <2>2. as.consent = preview.ready.generation
    BY <1>1, <2>1 DEF NeedsConsent, Consented
  <2>3. preview.ready.generation \in Nat
    BY <1>2 DEF Planned
  <2>4. as.consent # None
    BY <2>2, <2>3, WindowAssumption
  <2> QED BY <1>1, <2>2, <2>4 DEF AsGood, ConsentIsFor
  <1>12. /\ work.plan = preview.ready.plan /\ work.agreed = as.agreed /\ work.real = ForReal(as)
         /\ work.left = OpsPerJob /\ work.kind = "Run"
    OBVIOUS
  <1> HIDE DEF work
  <1>13. job'.work.real /\ job'.work.plan.setup.cards \in Consents =>
            job'.work.agreed = job'.work.plan
    BY <1>4, <1>11, <1>12
  <1> QED BY <1>1, <1>4, <1>6, <1>8, <1>9, <1>10, <1>12, <1>13

-----------------------------------------------------------------------------
(* What the user does, in three of the five parts of a frame.              *)

\* A job is started, is told to stop, or is left alone.
JobMoves ==
    \/ job' = job
    \/ /\ job.busy = None /\ job' \in JobType /\ job'.busy \in Kinds
       /\ job'.work.kind = job'.busy /\ job'.out = None
       /\ job'.busy = "Undo" => batches > 0
    \/ /\ job' \in JobType /\ job'.busy = job.busy /\ job'.work = job.work /\ job'.out = job.out

\* None of it touches a channel; what changes the source or what is planned is
\* followed by a request.
UserStep ==
    /\ JobMoves /\ RunningTyped' /\ ConsentInv' /\ ScreenTyped'
    /\ listing' = listing /\ preview' = preview /\ rows' = rows
    /\ frame' \in {"polls", "keys", "deferred", "window", "requests"}
    /\ relistWanted' \in BOOLEAN /\ needsPreview' \in BOOLEAN /\ astray' \in BOOLEAN
    /\ volume' \in Nat /\ batches' \in Int /\ batches' >= batches
    /\ (relistWanted => relistWanted') /\ (needsPreview => needsPreview')
    /\ source' = source \/ relistWanted'
    /\ (scope' = scope /\ setup' = setup) \/ needsPreview'
    /\ (volume' = volume /\ astray' = astray) \/ relistWanted' \/ astray'
    /\ astray => astray'

LEMMA JobMovesKeeps ==
    ASSUME TypeOK, JobInv, JobMoves, batches' \in Int, batches' >= batches
    PROVE  job' \in JobType /\ JobInv' /\ (Untouched' => Untouched)
  <1>1. job \in JobType /\ batches \in Int
    BY DEF TypeOK
  <1>2. CASE job' = job
    BY <1>1, <1>2 DEF JobInv, Untouched, Relists
  <1>3. CASE /\ job.busy = None /\ job' \in JobType /\ job'.busy \in Kinds
             /\ job'.work.kind = job'.busy /\ job'.out = None
             /\ job'.busy = "Undo" => batches > 0
  <2>1. job'.busy # None
    BY <1>3, WindowAssumption DEF Kinds
  <2>2. Untouched
    BY <1>3 DEF Untouched
  <2> QED BY <1>1, <1>3, <2>1, <2>2 DEF JobInv
  <1>4. CASE job' \in JobType /\ job'.busy = job.busy /\ job'.work = job.work /\ job'.out = job.out
    BY <1>1, <1>4 DEF JobInv, Untouched, Relists
  <1> QED BY <1>2, <1>3, <1>4 DEF JobMoves

LEMMA UserKeeps == ASSUME WindowInv, UserStep PROVE WindowInv'
  <1>1. job' \in JobType /\ JobInv' /\ (Untouched' => Untouched)
    BY JobMovesKeeps DEF WindowInv, UserStep
  <1>2. TypeOK'
  <2>1. listing' \in ListingType /\ preview' \in PreviewType
    BY DEF UserStep, WindowInv, TypeOK
  <2> QED BY <1>1, <2>1 DEF UserStep, TypeOK
  <1>3. Updating' \/ (source' = source /\ ~relistWanted' /\ ~relistWanted /\ ~Updating)
    BY DEF UserStep, Updating, WindowInv, TypeOK
  <1>4. ListingInv'
  <2>1. ASSUME NEW g, NEW of, OfTheSource(g, of) PROVE OfTheSource(g, of)'
    BY <2>1 DEF OfTheSource, UserStep
  <2>2. listing' = listing /\ rows' = rows
    BY DEF UserStep
  <2>3. ~Updating' => rows'.of = source'
    BY <1>3, <2>2 DEF WindowInv, ListingInv
  <2>4. /\ \A i \in DOMAIN listing.queue :
              OfTheSource(listing.queue[i].generation, listing.queue[i].of)'
        /\ listing.work # None => OfTheSource(listing.work.generation, listing.work.rows.of)'
        /\ \A i \in DOMAIN listing.out :
              OfTheSource(listing.out[i].generation, listing.out[i].rows.of)'
    BY <2>1, <2>2 DEF WindowInv, ListingInv, UserStep, OfTheSource
  <2> QED BY <2>2, <2>3, <2>4 DEF WindowInv, ListingInv
  <1>5. InOrder'
    BY DEF WindowInv, InOrder, UserStep
  <1>6. NewestIsOfTheScreen'
  <2>1. CASE Updating' \/ needsPreview'
    BY <2>1 DEF NewestIsOfTheScreen
  <2>2. CASE ~Updating' /\ ~needsPreview'
      <3>1. preview' = preview /\ Plan' = Plan /\ ~Updating /\ ~needsPreview
        BY <1>3, <2>2 DEF UserStep, Plan
      <3> QED BY <3>1 DEF WindowInv, NewestIsOfTheScreen, Newest
  <2> QED BY <2>1, <2>2
  <1>7. SeenInv'
  <2>1. CASE astray' \/ ~Untouched'
    BY <2>1 DEF SeenInv
  <2>2. CASE ~astray' /\ Untouched' /\ relistWanted'
    BY <2>2 DEF SeenInv, Updating
  <2>3. CASE ~astray' /\ Untouched' /\ ~relistWanted'
      <3>1. /\ volume' = volume /\ ~astray /\ ~relistWanted /\ Untouched
            /\ listing' = listing /\ rows' = rows /\ (~Updating' => ~Updating)
        BY <1>1, <1>3, <2>3 DEF UserStep
      <3> QED BY <3>1 DEF WindowInv, SeenInv, UpToDate
  <2> QED BY <2>1, <2>2, <2>3
  <1> QED BY <1>1, <1>2, <1>4, <1>5, <1>6, <1>7 DEF WindowInv, UserStep

\* A run that starts is of the screen, of the files as they are, and agreed to.
Agreed ==
    Starts =>
        /\ job'.work.plan = Plan /\ rows.of = source
        /\ ~astray => rows.seen = volume
        /\ job'.work.real /\ job'.work.plan.setup.cards \in Consents =>
              job'.work.agreed = job'.work.plan

Moves == RunningTyped' /\ ConsentInv' /\ JobMoves /\ Agreed

LEMMA RunMoves ==
    ASSUME WindowInv, NEW as \in AsType, NEW what \in Presses \cup {None}, AsGood(as),
           Run(as, what), preview' = preview
    PROVE  Moves
  <1>1. RunningTyped' /\ ConsentInv' /\ (job' = job \/ Starting(as, what))
    BY RunOwes DEF WindowInv
  <1>2. CASE job' = job
  <2>1. ~Starts
    BY <1>2, WindowAssumption DEF Starts
  <2> QED BY <1>1, <1>2, <2>1 DEF Moves, JobMoves, Agreed
  <1>3. CASE Starting(as, what)
  <2>1. /\ job.busy = None /\ job'.busy = "Run" /\ job' \in JobType
        /\ job'.work.kind = "Run" /\ job'.out = None
    BY <1>3, RunStarts
  <2>2. JobMoves
    BY <2>1 DEF JobMoves, Kinds
  <2>3. Agreed
    BY <1>3, RunStarts DEF Agreed
  <2> QED BY <1>1, <2>2, <2>3 DEF Moves
  <1> QED BY <1>1, <1>2, <1>3

LEMMA StayMoves == ASSUME WindowInv, UNCHANGED running, preview' = preview PROVE Moves
  <1>1. ~Starts
    BY WindowAssumption DEF Starts, running
  <1>2. RunningTyped'
    BY DEF running, WindowInv, TypeOK, RunningTyped
  <1>3. ConsentInv'
    BY DEF running, WindowInv, ConsentInv, ConsentIsFor
  <1> QED BY <1>1, <1>2, <1>3 DEF Moves, JobMoves, Agreed, running

LEMMA StartMoves ==
    ASSUME WindowInv, NEW kind \in {"Undo", "Rollback"}, kind = "Undo" => batches > 0,
           StartsJob(kind), preview' = preview
    PROVE  Moves
  <1> DEFINE work == [kind |-> kind, plan |-> None, real |-> TRUE, left |-> OpsPerJob,
                      asked |-> None, agreed |-> None]
  <1>1. /\ job.busy = None /\ job' = Sent(work)
        /\ runWhenReady' = runWhenReady /\ realOnce' = realOnce /\ confirming' = confirming
        /\ consentedFor' = consentedFor /\ asked' = asked /\ agreed' = agreed
    BY DEF StartsJob
  <1>2. OpsPerJob \in 0 .. OpsPerJob
    BY WindowAssumption
  <1>3. work \in Sendings
    BY <1>2 DEF Sendings, Kinds
  <1>4. job \in JobType /\ job.out = None
    BY <1>1 DEF WindowInv, TypeOK, JobInv
  <1>5. /\ job' \in JobType /\ job'.busy = kind /\ job'.work = work /\ job'.out = None
    BY <1>1, <1>3, <1>4 DEF Sent, JobType, Kinds
  <1>6. work.kind = kind
    OBVIOUS
  <1>7. JobMoves /\ ~Starts
    BY <1>1, <1>5, <1>6 DEF JobMoves, Starts, Kinds
  <1>8. RunningTyped'
    BY <1>1 DEF WindowInv, TypeOK, RunningTyped
  <1>9. ConsentInv'
    BY <1>1 DEF WindowInv, ConsentInv, ConsentIsFor
  <1> QED BY <1>7, <1>8, <1>9 DEF Moves, Agreed

LEMMA Pressing == ASSUME TypeOK PROVE Pressed \in Presses /\ asked \in Presses \cup {None}
  BY DEF TypeOK, ScreenTyped, RunningTyped, Pressed, Presses

LEMMA KeysStep == ASSUME WindowInv, Keys PROVE UserStep /\ Agreed
  <1>1. /\ frame' = "deferred" /\ volume' = volume /\ setup' = setup /\ rows' = rows
        /\ scope' = scope /\ simulate' = simulate /\ simulation' = simulation
        /\ batches' = batches /\ listing' = listing /\ preview' = preview /\ astray' = astray
    BY DEF Keys, past, troubles
  <1>2. Pressed \in Presses /\ AsIs \in AsType /\ AsGood(AsIs)
    BY Pressing, AsIsGood DEF WindowInv
  <1>3. /\ Moves
        /\ relistWanted' \in BOOLEAN /\ needsPreview' \in BOOLEAN
        /\ (relistWanted => relistWanted') /\ (needsPreview => needsPreview')
        /\ source' \in Sources /\ (source' = source \/ relistWanted')
  <2>0. source \in Sources /\ relistWanted \in BOOLEAN /\ needsPreview \in BOOLEAN
    BY DEF WindowInv, TypeOK, ScreenTyped
  <2>1. CASE UNCHANGED <<source, owed, running>>
    BY <1>1, <2>0, <2>1, StayMoves DEF owed
  <2>2. CASE Drops
    BY <1>1, <2>0, <2>2, StayMoves DEF Drops
  <2>3. CASE Run(AsIs, Pressed) /\ UNCHANGED <<source, owed>>
    BY <1>1, <1>2, <2>0, <2>3, RunMoves DEF owed
  <2>4. CASE relistWanted' = TRUE /\ UNCHANGED running /\ UNCHANGED <<source, needsPreview>>
    BY <1>1, <2>0, <2>4, StayMoves
  <2>5. CASE batches > 0 /\ StartsJob("Undo") /\ UNCHANGED <<source, owed>>
    BY <1>1, <2>0, <2>5, StartMoves DEF owed
  <2> QED BY <2>1, <2>2, <2>3, <2>4, <2>5 DEF Keys, owed
  <1>4. ScreenTyped' /\ volume' \in Nat /\ batches' \in Int /\ batches' >= batches /\ astray' \in BOOLEAN
    BY <1>1, <1>3 DEF WindowInv, TypeOK, ScreenTyped
  <1> QED BY <1>1, <1>3, <1>4 DEF UserStep, Moves

LEMMA DeferredStep == ASSUME WindowInv, Deferred PROVE UserStep /\ Agreed
  <1>1. /\ frame' = "window" /\ volume' = volume /\ setup' = setup /\ rows' = rows /\ source' = source
        /\ scope' = scope /\ simulate' = simulate /\ simulation' = simulation
        /\ batches' = batches /\ listing' = listing /\ preview' = preview /\ astray' = astray
        /\ relistWanted' = relistWanted /\ needsPreview' = needsPreview
    BY DEF Deferred, past, troubles, screen, owed
  <1>2. Moves
  <2>1. AsIs \in AsType /\ AsGood(AsIs) /\ asked \in Presses \cup {None}
    BY Pressing, AsIsGood DEF WindowInv
  <2>2. [AsIs EXCEPT !.deferred = FALSE] \in AsType /\ AsGood([AsIs EXCEPT !.deferred = FALSE])
    BY <2>1 DEF AsType, AsGood
  <2>3. CASE Run([AsIs EXCEPT !.deferred = FALSE], asked)
    BY <1>1, <2>1, <2>2, <2>3, RunMoves
  <2>4. CASE UNCHANGED running
    BY <1>1, <2>4, StayMoves
  <2> QED BY <2>3, <2>4 DEF Deferred
  <1>3. /\ ScreenTyped' /\ volume' \in Nat /\ batches' \in Int /\ batches' >= batches
        /\ astray' \in BOOLEAN /\ relistWanted' \in BOOLEAN /\ needsPreview' \in BOOLEAN
    BY <1>1 DEF WindowInv, TypeOK, ScreenTyped
  <1> QED BY <1>1, <1>2, <1>3 DEF UserStep, Moves

\* The rest of what the user may do, in the window itself.
ActStep ==
    /\ Moves /\ ScreenTyped' /\ rows' = rows
    /\ relistWanted' \in BOOLEAN /\ needsPreview' \in BOOLEAN /\ astray' \in BOOLEAN
    /\ volume' \in Nat /\ batches' \in Int /\ batches' >= batches
    /\ (relistWanted => relistWanted') /\ (needsPreview => needsPreview')
    /\ source' = source \/ relistWanted'
    /\ (scope' = scope /\ setup' = setup) \/ needsPreview'
    /\ (volume' = volume /\ astray' = astray) \/ relistWanted' \/ astray'
    /\ astray => astray'

LEMMA StillOwed ==
    ASSUME WindowInv
    PROVE  /\ source \in Sources /\ setup \in Setups /\ rows \in Listings /\ scope \in Scopes
           /\ simulate \in BOOLEAN /\ simulation \in Plans \cup {None}
           /\ relistWanted \in BOOLEAN /\ needsPreview \in BOOLEAN /\ astray \in BOOLEAN
           /\ volume \in Nat /\ batches \in Int /\ asked \in Presses \cup {None}
           /\ job \in JobType /\ confirming \in Planned \cup {None}
  BY DEF WindowInv, TypeOK, ScreenTyped, RunningTyped

LEMMA NothingElse ==
    ASSUME WindowInv, UNCHANGED <<volume, screen, owed, past, troubles>>, Moves
    PROVE  ActStep
  <1>1. /\ volume' = volume /\ setup' = setup /\ rows' = rows /\ source' = source
        /\ scope' = scope /\ simulate' = simulate /\ simulation' = simulation
        /\ batches' = batches /\ astray' = astray
        /\ relistWanted' = relistWanted /\ needsPreview' = needsPreview
    BY DEF past, troubles, screen, owed
  <1>2. batches' >= batches
    BY <1>1, StillOwed
  <1> QED BY <1>1, <1>2, StillOwed DEF ActStep, ScreenTyped

LEMMA ConfirmStep == ASSUME WindowInv, ConfirmDialog, preview' = preview PROVE ActStep
  <1>1. AsIs \in AsType /\ AsGood(AsIs) /\ asked \in Presses \cup {None}
    BY Pressing, AsIsGood DEF WindowInv
  <1> DEFINE yes == [AsIs EXCEPT !.dialog = None, !.consent = confirming.generation,
                                 !.agreed = confirming.plan]
             no == [AsIs EXCEPT !.dialog = None, !.consent = None, !.real = FALSE,
                                !.deferred = FALSE]
  <1>2. confirming # None /\ confirming \in Planned
    BY StillOwed DEF ConfirmDialog
  <1>3. ConsentIsFor(confirming.generation, confirming.plan)
    BY <1>2 DEF WindowInv, ConsentInv
  <1>4. yes \in AsType /\ AsGood(yes)
    BY <1>1, <1>2, <1>3 DEF AsType, AsGood, Planned
  <1>5. no \in AsType /\ AsGood(no)
    BY <1>1 DEF AsType, AsGood
  <1> HIDE DEF yes, no
  <1>6. Moves
  <2>1. CASE Run(yes, asked)
    BY <1>1, <1>4, <2>1, RunMoves
  <2>2. CASE Owes(no, asked)
      <3>1. RunningTyped' /\ ConsentInv' /\ job' = job
        BY <1>1, <1>5, <2>2, OwesKeeps
      <3>2. ~Starts
        BY <3>1, WindowAssumption DEF Starts
      <3> QED BY <3>1, <3>2 DEF Moves, JobMoves, Agreed
  <2> QED BY <2>1, <2>2 DEF ConfirmDialog, yes, no
  <1> QED BY <1>6, NothingElse DEF ConfirmDialog

LEMMA SimulationStep == ASSUME WindowInv, SimulationWindow, preview' = preview PROVE ActStep
  <1>1. AsIs \in AsType /\ AsGood(AsIs)
    BY AsIsGood DEF WindowInv
  <1> DEFINE now == [AsIs EXCEPT !.real = TRUE]
             what == [rows |-> rows, simulated |-> simulation]
  <1>2. now \in AsType /\ AsGood(now)
    BY <1>1 DEF AsType, AsGood
  <1>3. what \in Presses \cup {None}
    BY StillOwed DEF Presses
  <1> HIDE DEF now, what
  <1>4. Moves
  <2>1. CASE Run(now, what)
    BY <1>2, <1>3, <2>1, RunMoves
  <2>2. CASE UNCHANGED running
    BY <2>2, StayMoves
  <2> QED BY <2>1, <2>2 DEF SimulationWindow, now, what
  <1>5. /\ volume' = volume /\ setup' = setup /\ rows' = rows /\ source' = source
        /\ scope' = scope /\ simulate' = simulate /\ simulation' = None
        /\ batches' = batches /\ astray' = astray
        /\ relistWanted' = relistWanted /\ needsPreview' = needsPreview
    BY DEF past, troubles, owed, SimulationWindow
  <1>6. batches' >= batches
    BY <1>5, StillOwed
  <1> QED BY <1>4, <1>5, <1>6, StillOwed DEF ActStep, ScreenTyped

LEMMA EditsStep == ASSUME WindowInv, EditsSetup, preview' = preview PROVE ActStep
  <1>1. AsIs \in AsType /\ AsGood(AsIs) /\ Pressed \in Presses
    BY AsIsGood, Pressing DEF WindowInv
  <1> DEFINE soon == [AsIs EXCEPT !.deferred = TRUE]
  <1>2. soon \in AsType /\ AsGood(soon)
    BY <1>1 DEF AsType, AsGood
  <1> HIDE DEF soon
  <1>3. Moves
  <2>1. CASE Owes(soon, Pressed)
      <3>1. RunningTyped' /\ ConsentInv' /\ job' = job
        BY <1>1, <1>2, <2>1, OwesKeeps
      <3>2. ~Starts
        BY <3>1, WindowAssumption DEF Starts
      <3> QED BY <3>1, <3>2 DEF Moves, JobMoves, Agreed
  <2>2. CASE UNCHANGED running
    BY <2>2, StayMoves
  <2> QED BY <2>1, <2>2 DEF EditsSetup, soon
  <1>4. setup' \in Setups
    BY StillOwed DEF EditsSetup, Setups
  <1>5. /\ volume' = volume /\ rows' = rows /\ source' = source /\ needsPreview' = TRUE
        /\ scope' = scope /\ simulate' = simulate /\ simulation' = simulation
        /\ batches' = batches /\ astray' = astray /\ relistWanted' = relistWanted
    BY DEF past, troubles, EditsSetup
  <1>6. batches' >= batches
    BY <1>5, StillOwed
  <1> QED BY <1>3, <1>4, <1>5, <1>6, StillOwed DEF ActStep, ScreenTyped

LEMMA ChoosingStep ==
    ASSUME WindowInv, Selects \/ ChangesSource \/ SwitchesSimulate, preview' = preview
    PROVE  ActStep
  <1>1. Moves
    BY StayMoves DEF Selects, ChangesSource, SwitchesSimulate
  <1>2. /\ volume' = volume /\ rows' = rows /\ setup' = setup /\ simulation' = simulation
        /\ batches' = batches /\ astray' = astray
    BY DEF past, troubles, Selects, ChangesSource, SwitchesSimulate
  <1>3. batches' >= batches
    BY <1>2, StillOwed
  <1>4. CASE Selects
    BY <1>1, <1>2, <1>3, <1>4, StillOwed DEF ActStep, ScreenTyped, Selects
  <1>5. CASE ChangesSource
    BY <1>1, <1>2, <1>3, <1>5, StillOwed DEF ActStep, ScreenTyped, ChangesSource
  <1>6. CASE SwitchesSimulate
  <2>1. simulate' \in BOOLEAN
    BY <1>6 DEF SwitchesSimulate
  <2>2. /\ source' = source /\ scope' = scope
        /\ relistWanted' = relistWanted /\ needsPreview' = needsPreview
    BY <1>6 DEF SwitchesSimulate, owed
  <2> QED BY <1>1, <1>2, <1>3, <2>1, <2>2, StillOwed DEF ActStep, ScreenTyped
  <1> QED BY <1>4, <1>5, <1>6

LEMMA ButtonsStep == ASSUME WindowInv, Buttons, preview' = preview PROVE ActStep
  <1>1. AsIs \in AsType /\ AsGood(AsIs) /\ Pressed \in Presses
    BY AsIsGood, Pressing DEF WindowInv
  <1>2. CASE Run(AsIs, Pressed)
    BY <1>1, <1>2, RunMoves, NothingElse DEF Buttons
  <1>3. CASE batches > 0 /\ StartsJob("Undo")
    BY <1>3, StartMoves, NothingElse DEF Buttons
  <1>4. CASE StartsJob("Rollback")
    BY <1>4, StartMoves, NothingElse DEF Buttons
  <1>5. CASE /\ job.busy = "Run" /\ job' = [job EXCEPT !.cancel = TRUE]
             /\ UNCHANGED <<runWhenReady, realOnce, confirming, consentedFor, asked, agreed>>
  <2>1. /\ job' \in JobType /\ job'.busy = job.busy /\ job'.work = job.work /\ job'.out = job.out
    BY <1>5, StillOwed DEF JobType
  <2>2. JobMoves /\ ~Starts
    BY <1>5, <2>1, WindowAssumption DEF JobMoves, Starts
  <2>3. RunningTyped'
    BY <1>5 DEF WindowInv, TypeOK, RunningTyped
  <2>4. ConsentInv'
    BY <1>5 DEF WindowInv, ConsentInv, ConsentIsFor
  <2> QED BY <2>2, <2>3, <2>4, NothingElse DEF Moves, Agreed, Buttons
  <1> QED BY <1>2, <1>3, <1>4, <1>5 DEF Buttons

LEMMA RenamesStep == ASSUME WindowInv, RenamesOne, preview' = preview PROVE ActStep
  <1>1. Moves
    BY StayMoves DEF RenamesOne
  <1>2. /\ rows' = rows /\ setup' = setup /\ simulation' = simulation /\ source' = source
        /\ scope' = scope /\ simulate' = simulate /\ needsPreview' = needsPreview
    BY DEF RenamesOne, screen
  <1>3. ScreenTyped'
    BY <1>2, StillOwed DEF ScreenTyped
  <1>4. /\ volume' \in Nat /\ batches' \in Int /\ batches' >= batches
        /\ relistWanted' \in BOOLEAN /\ astray' \in BOOLEAN
        /\ (relistWanted => relistWanted') /\ (astray => astray')
        /\ (volume' = volume /\ astray' = astray) \/ relistWanted' \/ astray'
  <2>1. volume \in Nat /\ batches \in Int /\ relistWanted \in BOOLEAN /\ astray \in BOOLEAN
    BY StillOwed
  <2>2. CASE volume' = volume /\ relistWanted' = relistWanted /\ batches' = batches /\ astray' = astray
    BY <2>1, <2>2
  <2>3. CASE volume' = volume + 1 /\ batches' = batches + 1 /\ relistWanted' = TRUE /\ astray' = astray
    BY <2>1, <2>3
  <2>4. CASE volume' \in {volume, volume + 1} /\ astray' = TRUE /\ relistWanted' = relistWanted
             /\ batches' = batches
    BY <2>1, <2>4
  <2> QED BY <2>2, <2>3, <2>4 DEF RenamesOne, past
  <1> QED BY <1>1, <1>2, <1>3, <1>4, StillOwed DEF ActStep

LEMMA WindowStep == ASSUME WindowInv, ShowsWindow PROVE UserStep /\ Agreed
  <1>1. frame' = "requests" /\ listing' = listing /\ preview' = preview
    BY DEF ShowsWindow
  <1>2. ActStep
  <2>1. CASE UNCHANGED <<volume, screen, owed, running, past, troubles>>
    BY <1>1, <2>1, StayMoves, NothingElse
  <2>2. CASE UserInput
    BY <1>1, <2>2, ConfirmStep, SimulationStep, EditsStep, ChoosingStep, ButtonsStep,
       RenamesStep DEF UserInput
  <2> QED BY <2>1, <2>2 DEF ShowsWindow
  <1> QED BY <1>1, <1>2 DEF ActStep, UserStep, Moves

-----------------------------------------------------------------------------
(* The listing worker.                                                     *)

\* What no worker touches.
Aside ==
    /\ UNCHANGED <<frame, source, setup, rows, scope, simulate, simulation, relistWanted,
                   needsPreview, batches, astray>>
    /\ UNCHANGED <<runWhenReady, realOnce, confirming, consentedFor, asked, agreed>>

LEMMA WorkersStandAside == ASSUME Worker PROVE Aside
  BY DEF Worker, Aside, screen, owed, past, running

LEMMA AsideTyped ==
    ASSUME TypeOK, Aside, volume' \in Nat, listing' \in ListingType, preview' \in PreviewType,
           job' \in JobType
    PROVE  TypeOK'
  BY DEF TypeOK, Aside, ScreenTyped, RunningTyped

LEMMA ListingTakesStep ==
    ASSUME WindowInv, ListingTakes, Aside, UNCHANGED <<preview, job, volume>>
    PROVE  WindowInv'
  <1> DEFINE newest == listing.queue[Len(listing.queue)]
             work == [generation |-> newest.generation,
                      rows |-> [of |-> newest.of, seen |-> volume, ok |-> TRUE]]
  <1>1. /\ listing.work = None /\ listing.queue # <<>>
        /\ listing' = [listing EXCEPT !.queue = <<>>, !.work = work]
    BY DEF ListingTakes
  <1>2. listing \in ListingType /\ volume \in Nat
    BY DEF WindowInv, TypeOK
  <1>3. Len(listing.queue) \in DOMAIN listing.queue /\ newest \in Wanted
    BY <1>1, <1>2, Last DEF ListingType
  <1>4. work \in Walked
    BY <1>2, <1>3 DEF Wanted, Walked, Listings
  <1>5. /\ listing'.generation = listing.generation /\ listing'.answered = listing.answered
        /\ listing'.queue = <<>> /\ listing'.work = work /\ listing'.out = listing.out
    BY <1>1, <1>2 DEF ListingType
  <1>6. work.generation = newest.generation /\ work.rows.of = newest.of /\ work.rows.seen = volume
    OBVIOUS
  <1>7. OfTheSource(newest.generation, newest.of)
    BY <1>3 DEF WindowInv, ListingInv
  <1> HIDE DEF newest, work
  <1>8. listing' \in ListingType
    BY <1>1, <1>2, <1>4, Emptied DEF ListingType
  <1>9. TypeOK'
    BY <1>2, <1>8, AsideTyped DEF WindowInv, TypeOK
  <1>10. Updating' = Updating
    BY <1>5 DEF Updating, Aside
  <1>11. ListingInv'
  <2>1. listing'.generation = listing.generation /\ relistWanted' = relistWanted /\ source' = source
    BY <1>5 DEF Aside
  <2>2. (\A i \in DOMAIN listing.queue :
            OfTheSource(listing.queue[i].generation, listing.queue[i].of))'
    BY <1>5, Emptied
  <2>3. OfTheSource(listing.work.generation, listing.work.rows.of)'
    BY <1>5, <1>6, <1>7, <2>1 DEF OfTheSource
  <2>4. (\A i \in DOMAIN listing.out :
            OfTheSource(listing.out[i].generation, listing.out[i].rows.of))'
    BY <1>5, <2>1 DEF WindowInv, ListingInv, OfTheSource
  <2>5. ~Updating' => rows'.of = source'
    BY <1>10 DEF WindowInv, ListingInv, Aside
  <2>6. listing'.answered <= listing'.generation
    BY <1>5 DEF WindowInv, ListingInv
  <2> QED BY <1>5, <2>2, <2>3, <2>4, <2>5, <2>6 DEF ListingInv
  <1>12. SeenInv'
  <2>1. Untouched' => Untouched
    BY DEF Untouched, Relists
  <2>2. UpToDate(listing.work)'
    BY <1>5, <1>6 DEF UpToDate
  <2>3. (\A i \in DOMAIN listing.out : UpToDate(listing.out[i])) =>
           (\A i \in DOMAIN listing.out : UpToDate(listing.out[i]))'
    BY <1>5 DEF UpToDate
  <2> QED BY <1>5, <1>10, <2>1, <2>2, <2>3 DEF WindowInv, SeenInv, Aside
  <1>13. NewestIsOfTheScreen'
    BY <1>10 DEF WindowInv, NewestIsOfTheScreen, Newest, Plan, Aside
  <1>14. JobInv' /\ InOrder' /\ ConsentInv'
    BY DEF WindowInv, JobInv, InOrder, ConsentInv, ConsentIsFor, Aside
  <1> QED BY <1>9, <1>11, <1>12, <1>13, <1>14 DEF WindowInv

LEMMA ListingAnswersStep ==
    ASSUME WindowInv, ListingAnswers, Aside, UNCHANGED <<preview, job, volume>>
    PROVE  WindowInv'
  <1>1. PICK readable \in BOOLEAN :
           /\ listing.work # None
           /\ listing' = [listing EXCEPT !.work = None,
                            !.out = IF listing.work.generation = listing.generation
                                    THEN Append(@, [listing.work EXCEPT !.rows.ok = readable])
                                    ELSE @]
    BY DEF ListingAnswers
  <1> DEFINE answer == [listing.work EXCEPT !.rows.ok = readable]
  <1>2. listing \in ListingType /\ volume \in Nat
    BY DEF WindowInv, TypeOK
  <1>3. listing.work \in Walked
    BY <1>1, <1>2 DEF ListingType
  <1>4. answer \in Walked /\ answer.generation = listing.work.generation
        /\ answer.rows.of = listing.work.rows.of /\ answer.rows.seen = listing.work.rows.seen
    BY <1>3 DEF Walked, Listings
  <1> HIDE DEF answer
  <1>5. /\ listing'.generation = listing.generation /\ listing'.answered = listing.answered
        /\ listing'.queue = listing.queue /\ listing'.work = None
        /\ listing'.out \in {listing.out, Append(listing.out, answer)}
        /\ listing' \in [generation : Nat, answered : Nat, queue : Seq(Wanted), work : {None},
                         out : {listing.out, Append(listing.out, answer)}]
    BY <1>1, <1>2 DEF ListingType, answer
  <1>6. /\ listing'.out \in Seq(Walked)
        /\ \A i \in DOMAIN listing'.out :
              \/ i \in DOMAIN listing.out /\ listing'.out[i] = listing.out[i]
              \/ listing'.out[i] = answer
  <2>1. listing.out \in Seq(Walked)
    BY <1>2 DEF ListingType
  <2>2. /\ Append(listing.out, answer) \in Seq(Walked)
        /\ \A i \in DOMAIN Append(listing.out, answer) :
              \/ i \in DOMAIN listing.out /\ Append(listing.out, answer)[i] = listing.out[i]
              \/ Append(listing.out, answer)[i] = answer
    BY <1>4, <2>1, Appended
  <2>3. CASE listing'.out = listing.out
    BY <2>1, <2>3
  <2>4. CASE listing'.out = Append(listing.out, answer)
    BY <2>2, <2>4
  <2> QED BY <1>5, <2>3, <2>4
  <1>7. listing' \in ListingType
    BY <1>5, <1>6 DEF ListingType
  <1>8. TypeOK'
    BY <1>2, <1>7, AsideTyped DEF WindowInv, TypeOK
  <1>9. Updating' = Updating
    BY <1>5 DEF Updating, Aside
  <1>10. ListingInv'
  <2>1. listing'.generation = listing.generation /\ relistWanted' = relistWanted /\ source' = source
    BY <1>5 DEF Aside
  <2>2. (\A i \in DOMAIN listing.queue :
            OfTheSource(listing.queue[i].generation, listing.queue[i].of))'
    BY <1>5, <2>1 DEF WindowInv, ListingInv, OfTheSource
  <2>3. OfTheSource(listing.work.generation, listing.work.rows.of)
    BY <1>1 DEF WindowInv, ListingInv
  <2>4. (\A i \in DOMAIN listing.out :
            OfTheSource(listing.out[i].generation, listing.out[i].rows.of))'
      <3>1. ASSUME NEW i \in DOMAIN listing'.out
            PROVE  OfTheSource(listing.out[i].generation, listing.out[i].rows.of)'
        <4>1. CASE i \in DOMAIN listing.out /\ listing'.out[i] = listing.out[i]
          <5>1. OfTheSource(listing.out[i].generation, listing.out[i].rows.of)
            BY <4>1 DEF WindowInv, ListingInv
          <5> QED BY <2>1, <4>1, <5>1 DEF OfTheSource
        <4>2. CASE listing'.out[i] = answer
          BY <1>4, <2>1, <2>3, <4>2 DEF OfTheSource
        <4> QED BY <1>6, <3>1, <4>1, <4>2
      <3> QED BY <3>1
  <2>5. ~Updating' => rows'.of = source'
    BY <1>9 DEF WindowInv, ListingInv, Aside
  <2>6. listing'.answered <= listing'.generation
    BY <1>5 DEF WindowInv, ListingInv
  <2> QED BY <1>5, <2>2, <2>4, <2>5, <2>6 DEF ListingInv
  <1>11. SeenInv'
  <2>1. Untouched' => Untouched
    BY DEF Untouched, Relists
  <2>2. SUFFICES ASSUME ~astray, Untouched
                 PROVE  /\ ~Updating => rows.seen = volume
                        /\ ~relistWanted => (\A i \in DOMAIN listing.out : UpToDate(listing.out[i]))'
    BY <1>5, <1>9, <2>1 DEF SeenInv, Aside
  <2>3. ~Updating => rows.seen = volume
    BY <2>2 DEF WindowInv, SeenInv
  <2>4. ASSUME ~relistWanted, NEW i \in DOMAIN listing'.out PROVE UpToDate(listing.out[i])'
      <3>1. UpToDate(listing.work) /\ \A j \in DOMAIN listing.out : UpToDate(listing.out[j])
        BY <1>1, <2>2, <2>4 DEF WindowInv, SeenInv
      <3>2. \/ i \in DOMAIN listing.out /\ listing'.out[i] = listing.out[i]
            \/ listing'.out[i] = answer
        BY <1>6, <2>4
      <3> QED BY <1>4, <1>5, <3>1, <3>2 DEF UpToDate
  <2> QED BY <2>3, <2>4
  <1>12. NewestIsOfTheScreen'
    BY <1>9 DEF WindowInv, NewestIsOfTheScreen, Newest, Plan, Aside
  <1>13. JobInv' /\ InOrder' /\ ConsentInv'
    BY DEF WindowInv, JobInv, InOrder, ConsentInv, ConsentIsFor, Aside
  <1> QED BY <1>8, <1>10, <1>11, <1>12, <1>13 DEF WindowInv

-----------------------------------------------------------------------------
(* The preview worker.                                                     *)

Answers == [generation : Nat, plan : Plans \cup {None}]

LEMMA PreviewTakesStep ==
    ASSUME WindowInv, PreviewTakes, Aside, UNCHANGED <<listing, job, volume>>
    PROVE  WindowInv'
  <1> DEFINE newest == preview.queue[Len(preview.queue)]
  <1>1. /\ preview.work = None /\ preview.queue # <<>>
        /\ preview' = [preview EXCEPT !.queue = <<>>, !.work = newest]
    BY DEF PreviewTakes
  <1>2. preview \in PreviewType /\ volume \in Nat
    BY DEF WindowInv, TypeOK
  <1>3. Len(preview.queue) \in DOMAIN preview.queue /\ newest \in Planned
    BY <1>1, <1>2, Last DEF PreviewType
  <1>4. /\ preview'.generation = preview.generation /\ preview'.answered = preview.answered
        /\ preview'.queue = <<>> /\ preview'.work = newest /\ preview'.out = preview.out
        /\ preview'.ready = preview.ready
    BY <1>1, <1>2 DEF PreviewType
  <1>5. /\ preview.answered < newest.generation /\ newest.generation <= preview.generation
        /\ \A i \in DOMAIN preview.out : preview.out[i].generation < newest.generation
    BY <1>3 DEF WindowInv, InOrder
  <1>6. preview' \in PreviewType
    BY <1>1, <1>2, <1>3, Emptied DEF PreviewType
  <1>7. TypeOK'
    BY <1>2, <1>6, AsideTyped DEF WindowInv, TypeOK
  <1>8. InOrder'
  <2>1. \A j \in DOMAIN preview'.queue : FALSE
    BY <1>4, Emptied
  <2> HIDE DEF newest
  <2> QED BY <1>4, <1>5, <2>1 DEF WindowInv, InOrder
  <1>9. Updating' = Updating /\ Plan' = Plan /\ needsPreview' = needsPreview
    BY DEF Updating, Plan, Aside
  <1>10. NewestIsOfTheScreen'
  <2>1. SUFFICES ASSUME ~Updating, ~needsPreview
                 PROVE  /\ (\A i \in DOMAIN preview.queue : Newest(preview.queue[i]))'
                        /\ (preview.work # None => Newest(preview.work))'
                        /\ (\A i \in DOMAIN preview.out : Newest(preview.out[i]))'
                        /\ (preview.ready # None => Newest(preview.ready))'
    BY <1>9 DEF NewestIsOfTheScreen
  <2>2. /\ Newest(newest)
        /\ \A i \in DOMAIN preview.out : Newest(preview.out[i])
        /\ preview.ready # None => Newest(preview.ready)
    BY <1>3, <2>1 DEF WindowInv, NewestIsOfTheScreen
  <2>3. (\A i \in DOMAIN preview.queue : Newest(preview.queue[i]))'
    BY <1>4, Emptied
  <2> HIDE DEF newest
  <2> QED BY <1>4, <1>9, <2>2, <2>3 DEF Newest
  <1>11. ConsentInv'
    BY <1>4 DEF WindowInv, ConsentInv, ConsentIsFor, Aside
  <1>12. ListingInv'
    BY <1>9 DEF WindowInv, ListingInv, OfTheSource, Aside
  <1>13. SeenInv'
    BY <1>9 DEF WindowInv, SeenInv, UpToDate, Untouched, Relists, Aside
  <1>14. JobInv'
    BY DEF WindowInv, JobInv, Aside
  <1> QED BY <1>7, <1>8, <1>10, <1>11, <1>12, <1>13, <1>14 DEF WindowInv

LEMMA PreviewAnswersStep ==
    ASSUME WindowInv, PreviewAnswers, Aside, UNCHANGED <<listing, job, volume>>
    PROVE  WindowInv'
  <1>1. PICK plan \in {preview.work.plan, None} :
           /\ preview.work # None
           /\ preview' = [preview EXCEPT !.work = None,
                            !.out = Append(@, [preview.work EXCEPT !.plan = plan])]
    BY DEF PreviewAnswers
  <1> DEFINE answer == [preview.work EXCEPT !.plan = plan]
  <1>2. preview \in PreviewType /\ volume \in Nat
    BY DEF WindowInv, TypeOK
  <1>3. preview.work \in Planned
    BY <1>1, <1>2 DEF PreviewType
  <1>4. answer \in Answers /\ answer.generation = preview.work.generation /\ answer.plan = plan
    BY <1>3 DEF Planned, Answers
  <1> HIDE DEF answer
  <1>5. /\ preview'.generation = preview.generation /\ preview'.answered = preview.answered
        /\ preview'.queue = preview.queue /\ preview'.work = None
        /\ preview'.out = Append(preview.out, answer) /\ preview'.ready = preview.ready
        /\ preview' = [preview EXCEPT !.work = None, !.out = Append(preview.out, answer)]
    BY <1>1, <1>2 DEF PreviewType, answer
  <1>6. /\ preview'.out \in Seq(Answers)
        /\ \A i \in DOMAIN preview'.out :
              \/ i \in DOMAIN preview.out /\ preview'.out[i] = preview.out[i]
              \/ preview'.out[i] = answer
  <2>1. preview.out \in Seq(Answers)
    BY <1>2 DEF PreviewType, Answers
  <2> QED BY <1>4, <1>5, <2>1, Appended
  <1>7. preview' \in PreviewType
    BY <1>2, <1>5, <1>6 DEF PreviewType, Answers
  <1>8. TypeOK'
    BY <1>2, <1>7, AsideTyped DEF WindowInv, TypeOK
  <1>9. InOrder'
  <2>1. /\ preview.answered < answer.generation /\ answer.generation <= preview.generation
        /\ \A j \in DOMAIN preview.queue : answer.generation < preview.queue[j].generation
    BY <1>1, <1>4 DEF WindowInv, InOrder
  <2>2. \A i \in DOMAIN preview'.out :
           /\ preview.answered < preview'.out[i].generation
           /\ preview'.out[i].generation <= preview.generation
           /\ \A j \in DOMAIN preview.queue :
                 preview'.out[i].generation < preview.queue[j].generation
      <3>1. \A i \in DOMAIN preview.out :
               /\ preview.answered < preview.out[i].generation
               /\ preview.out[i].generation <= preview.generation
               /\ \A j \in DOMAIN preview.queue :
                     preview.out[i].generation < preview.queue[j].generation
        BY DEF WindowInv, InOrder
      <3> TAKE i \in DOMAIN preview'.out
      <3>2. CASE i \in DOMAIN preview.out /\ preview'.out[i] = preview.out[i]
        BY <3>1, <3>2
      <3>3. CASE preview'.out[i] = answer
        BY <2>1, <3>3
      <3> QED BY <1>6, <3>2, <3>3
  <2>3. /\ preview.answered <= preview.generation
        /\ \A j \in DOMAIN preview.queue :
              preview.answered < preview.queue[j].generation
              /\ preview.queue[j].generation <= preview.generation
        /\ preview.ready # None =>
              preview.ready.generation = preview.answered /\ preview.ready.plan # None
    BY DEF WindowInv, InOrder
  <2> QED BY <1>5, <2>2, <2>3 DEF InOrder
  <1>10. Updating' = Updating /\ Plan' = Plan /\ needsPreview' = needsPreview
    BY DEF Updating, Plan, Aside
  <1>11. NewestIsOfTheScreen'
  <2>1. SUFFICES ASSUME ~Updating, ~needsPreview
                 PROVE  /\ (\A i \in DOMAIN preview.queue : Newest(preview.queue[i]))'
                        /\ (\A i \in DOMAIN preview.out : Newest(preview.out[i]))'
                        /\ (preview.ready # None => Newest(preview.ready))'
    BY <1>5, <1>10 DEF NewestIsOfTheScreen
  <2>2. /\ Newest(preview.work)
        /\ \A i \in DOMAIN preview.queue : Newest(preview.queue[i])
        /\ \A i \in DOMAIN preview.out : Newest(preview.out[i])
        /\ preview.ready # None => Newest(preview.ready)
    BY <1>1, <2>1 DEF WindowInv, NewestIsOfTheScreen
  <2>3. answer.generation = preview.generation => answer.plan \in {Plan, None}
    BY <1>1, <1>4, <2>2 DEF Newest
  <2>4. ASSUME NEW i \in DOMAIN preview'.out PROVE Newest(preview.out[i])'
      <3>1. CASE i \in DOMAIN preview.out /\ preview'.out[i] = preview.out[i]
        BY <1>5, <1>10, <2>2, <3>1 DEF Newest
      <3>2. CASE preview'.out[i] = answer
        BY <1>5, <1>10, <2>3, <3>2 DEF Newest
      <3> QED BY <1>6, <2>4, <3>1, <3>2
  <2>5. (\A i \in DOMAIN preview.queue : Newest(preview.queue[i]))'
    BY <1>5, <1>10, <2>2 DEF Newest
  <2>6. (preview.ready # None => Newest(preview.ready))'
    BY <1>5, <1>10, <2>2 DEF Newest
  <2> QED BY <2>4, <2>5, <2>6
  <1>12. ConsentInv'
    BY <1>5 DEF WindowInv, ConsentInv, ConsentIsFor, Aside
  <1>13. ListingInv'
    BY <1>10 DEF WindowInv, ListingInv, OfTheSource, Aside
  <1>14. SeenInv'
    BY <1>10 DEF WindowInv, SeenInv, UpToDate, Untouched, Relists, Aside
  <1>15. JobInv'
    BY DEF WindowInv, JobInv, Aside
  <1> QED BY <1>8, <1>9, <1>11, <1>12, <1>13, <1>14, <1>15 DEF WindowInv

-----------------------------------------------------------------------------
(* The apply worker.                                                       *)

\* A job that goes on or lands: the files it has touched are read again.
JobGoesOn ==
    /\ volume' \in Nat /\ job' \in JobType /\ JobInv' /\ job'.busy = job.busy
    /\ Untouched' => Untouched /\ volume' = volume

LEMMA JobKeeps ==
    ASSUME WindowInv, JobGoesOn, Aside, UNCHANGED <<listing, preview>>
    PROVE  WindowInv'
  <1>1. TypeOK'
  <2>1. listing \in ListingType /\ preview \in PreviewType
    BY DEF WindowInv, TypeOK
  <2> QED BY <2>1, AsideTyped DEF WindowInv, JobGoesOn
  <1>2. Updating' = Updating /\ Plan' = Plan
    BY DEF Updating, Plan, Aside
  <1>3. ListingInv'
    BY <1>2 DEF WindowInv, ListingInv, OfTheSource, Aside
  <1>4. SeenInv'
    BY <1>2 DEF WindowInv, SeenInv, UpToDate, JobGoesOn, Aside
  <1>5. NewestIsOfTheScreen'
    BY <1>2 DEF WindowInv, NewestIsOfTheScreen, Newest, Aside
  <1>6. InOrder' /\ ConsentInv'
    BY DEF WindowInv, InOrder, ConsentInv, ConsentIsFor, Aside
  <1> QED BY <1>1, <1>3, <1>4, <1>5, <1>6 DEF WindowInv, JobGoesOn

LEMMA JobChangesStep ==
    ASSUME WindowInv, JobChangesAFile, batches' = batches
    PROVE  JobGoesOn
  <1>1. /\ job.work # None /\ job.work.left > 0
        /\ job' = [job EXCEPT !.work.left = @ - 1]
        /\ volume' = volume + (IF job.work.real THEN 1 ELSE 0)
    BY DEF JobChangesAFile
  <1>2. job \in JobType /\ volume \in Nat /\ OpsPerJob \in Nat
    BY WindowAssumption DEF WindowInv, TypeOK
  <1>3. job.work \in Sendings
    BY <1>1, <1>2 DEF JobType
  <1>4. job.out = None /\ job.work.kind = job.busy /\ job.busy # None
    BY <1>1 DEF WindowInv, JobInv
  <1> DEFINE work == [job.work EXCEPT !.left = @ - 1]
  <1>5. /\ work \in Sendings /\ work.left = job.work.left - 1 /\ work.kind = job.work.kind
        /\ work.real = job.work.real
    BY <1>1, <1>2, <1>3 DEF Sendings
  <1>6. /\ job'.work = work /\ job'.busy = job.busy /\ job'.out = job.out
        /\ job' \in JobType
    BY <1>1, <1>2, <1>5 DEF JobType
  <1> HIDE DEF work
  <1>7. JobInv'
    BY <1>4, <1>5, <1>6 DEF WindowInv, JobInv
  <1>8. volume' \in Nat
    BY <1>1, <1>2
  <1>9. Untouched' => Untouched /\ volume' = volume
  <2>1. job.work.left \in 0 .. OpsPerJob /\ job.work.real \in BOOLEAN
    BY <1>3 DEF Sendings
  <2>2. work.left # OpsPerJob
    BY <1>2, <1>5, <2>1
  <2>3. Untouched' => ~job.work.real
    BY <1>4, <1>5, <1>6, <2>2 DEF Untouched
  <2>4. ~job.work.real => volume' = volume /\ Untouched
    BY <1>1, <1>2 DEF Untouched
  <2> QED BY <2>3, <2>4
  <1> QED BY <1>6, <1>7, <1>8, <1>9 DEF JobGoesOn

LEMMA JobLandsStep ==
    ASSUME WindowInv, JobLands, batches' = batches
    PROVE  JobGoesOn
  <1>1. job.work # None /\ volume' = volume
    BY DEF JobLands
  <1>2. job \in JobType /\ volume \in Nat /\ OpsPerJob \in Nat
    BY WindowAssumption DEF WindowInv, TypeOK
  <1>3. job.work \in Sendings
    BY <1>1, <1>2 DEF JobType
  <1>4. job.out = None /\ job.work.kind = job.busy /\ job.busy # None
    BY <1>1 DEF WindowInv, JobInv
  <1>5. PICK result \in {"report", "interrupted", "untouched", "panicked"}, cancelled \in BOOLEAN :
           /\ Lands(result, cancelled)
           /\ result = "untouched" => job.work.left = OpsPerJob
    BY DEF JobLands
  <1> DEFINE out == [kind |-> job.work.kind, real |-> job.work.real, plan |-> job.work.plan,
                     result |-> result, cancelled |-> cancelled]
  <1>6. out \in Outcomes /\ out.kind = job.work.kind /\ out.real = job.work.real
        /\ out.result = result
    BY <1>3 DEF Outcomes, Sendings
  <1>7. /\ job'.work = None /\ job'.busy = job.busy /\ job'.out = out /\ job' \in JobType
    BY <1>2, <1>5, <1>6 DEF JobType, Lands
  <1> HIDE DEF out
  <1>8. JobInv'
    BY <1>4, <1>6, <1>7 DEF WindowInv, JobInv
  <1>9. Untouched' => Untouched
  <2>1. SUFFICES ASSUME Untouched' PROVE Untouched
    OBVIOUS
  <2>2. ~(out.result = "panicked" \/ (out.result # "untouched" /\ out.real))
    BY <1>4, <1>7, <2>1 DEF Untouched, Relists
  <2>3. job.work.real \in BOOLEAN
    BY <1>3 DEF Sendings
  <2>4. CASE result = "untouched"
    BY <1>1, <1>5, <2>4 DEF Untouched
  <2>5. CASE result # "untouched"
    BY <1>1, <1>6, <2>2, <2>5 DEF Untouched
  <2> QED BY <2>4, <2>5
  <1> QED BY <1>1, <1>2, <1>7, <1>8, <1>9 DEF JobGoesOn

-----------------------------------------------------------------------------
(* A frame's requests.                                                     *)

\* A channel after a request, or without one: what was asked for last is of the
\* source, and of the files as they are unless a job has touched them.
DrainedIs(l, wanted) ==
    /\ l \in ListingType /\ l.answered = listing.answered
    /\ l.work = listing.work /\ l.out = listing.out
    /\ l.answered <= l.generation /\ (wanted => l.answered < l.generation)
    /\ ~wanted => l.generation = listing.generation
    /\ \A i \in DOMAIN l.queue :
          /\ l.queue[i].generation <= l.generation
          /\ l.queue[i].generation = l.generation => l.queue[i].of = source
    /\ l.work # None =>
          /\ l.work.generation <= l.generation
          /\ l.work.generation = l.generation => l.work.rows.of = source
    /\ \A i \in DOMAIN l.out :
          /\ l.out[i].generation <= l.generation
          /\ l.out[i].generation = l.generation => l.out[i].rows.of = source
    /\ ~astray /\ (Untouched \/ wanted) =>
          /\ l.work # None /\ l.work.generation = l.generation => l.work.rows.seen = volume
          /\ \A i \in DOMAIN l.out :
                l.out[i].generation = l.generation => l.out[i].rows.seen = volume

LEMMA DrainedFacts ==
    ASSUME WindowInv, NEW wanted \in BOOLEAN, relistWanted => wanted
    PROVE  DrainedIs(Drained(wanted), wanted)
  <1>1. listing \in ListingType /\ source \in Sources /\ relistWanted \in BOOLEAN
    BY DEF WindowInv, TypeOK, ScreenTyped
  <1>2. /\ listing.answered <= listing.generation
        /\ listing.generation \in Nat /\ listing.answered \in Nat
        /\ listing.queue \in Seq(Wanted) /\ listing.out \in Seq(Walked)
        /\ listing.work # None => listing.work \in Walked
    BY <1>1 DEF ListingType, WindowInv, ListingInv
  <1>3. /\ \A i \in DOMAIN listing.queue : listing.queue[i] \in Wanted
        /\ \A i \in DOMAIN listing.out : listing.out[i] \in Walked
    BY <1>2, Elements
  <1>4. CASE ~wanted
  <2>1. Drained(wanted) = listing /\ ~relistWanted
    BY <1>4 DEF Drained
  <2>2. /\ \A i \in DOMAIN listing.queue :
              OfTheSource(listing.queue[i].generation, listing.queue[i].of)
        /\ listing.work # None => OfTheSource(listing.work.generation, listing.work.rows.of)
        /\ \A i \in DOMAIN listing.out :
              OfTheSource(listing.out[i].generation, listing.out[i].rows.of)
    BY DEF WindowInv, ListingInv
  <2>3. ~astray /\ Untouched =>
           /\ listing.work # None /\ listing.work.generation = listing.generation =>
                 listing.work.rows.seen = volume
           /\ \A i \in DOMAIN listing.out :
                 listing.out[i].generation = listing.generation => listing.out[i].rows.seen = volume
    BY <2>1 DEF WindowInv, SeenInv, UpToDate
  <2>4. DrainedIs(listing, FALSE)
    BY <1>1, <1>2, <2>1, <2>2, <2>3 DEF OfTheSource, DrainedIs
  <2> QED BY <1>4, <2>1, <2>4
  <1>5. CASE wanted
  <2> DEFINE request == [generation |-> listing.generation + 1, of |-> source]
  <2>1. request \in Wanted /\ request.generation = listing.generation + 1 /\ request.of = source
    BY <1>1, <1>2 DEF Wanted
  <2>2. Drained(wanted) =
           [listing EXCEPT !.generation = @ + 1, !.queue = Append(@, request)]
    BY <1>5 DEF Drained, Relisted
  <2> HIDE DEF request
  <2> DEFINE l == Drained(wanted)
  <2>3. /\ l.generation = listing.generation + 1 /\ l.queue = Append(listing.queue, request)
        /\ l.answered = listing.answered /\ l.work = listing.work /\ l.out = listing.out
    BY <1>1, <2>2 DEF ListingType
  <2>4. /\ Append(listing.queue, request) \in Seq(Wanted)
        /\ \A i \in DOMAIN Append(listing.queue, request) :
              \/ i \in DOMAIN listing.queue
                 /\ Append(listing.queue, request)[i] = listing.queue[i]
              \/ Append(listing.queue, request)[i] = request
    BY <1>2, <2>1, Appended
  <2>5. l \in ListingType
      <3>1. listing.generation + 1 \in Nat
        BY <1>2
      <3>2. l = [listing EXCEPT !.generation = listing.generation + 1,
                                !.queue = Append(listing.queue, request)]
        BY <1>1, <2>2 DEF ListingType
      <3> QED BY <1>1, <2>4, <3>1, <3>2 DEF ListingType
  <2>6. /\ \A i \in DOMAIN listing.queue : listing.queue[i].generation <= listing.generation
        /\ listing.work # None => listing.work.generation <= listing.generation
        /\ \A i \in DOMAIN listing.out : listing.out[i].generation <= listing.generation
    BY DEF WindowInv, ListingInv, OfTheSource
  <2> HIDE DEF l
  <2>7. ASSUME NEW i \in DOMAIN l.queue
        PROVE  /\ l.queue[i].generation <= l.generation
               /\ l.queue[i].generation = l.generation => l.queue[i].of = source
      <3>1. CASE i \in DOMAIN listing.queue /\ l.queue[i] = listing.queue[i]
        <4>1. listing.queue[i].generation \in Nat
          BY <1>3, <3>1 DEF Wanted
        <4> QED BY <1>2, <2>3, <2>6, <3>1, <4>1
      <3>2. CASE l.queue[i] = request
        BY <1>2, <2>1, <2>3, <3>2
      <3> QED BY <2>3, <2>4, <2>7, <3>1, <3>2
  <2>8. l.work # None => l.work.generation < l.generation
      <3>1. listing.work # None => listing.work.generation \in Nat
        BY <1>2 DEF Walked
      <3> QED BY <1>2, <2>3, <2>6, <3>1
  <2>9. \A i \in DOMAIN l.out : l.out[i].generation < l.generation
      <3>1. \A i \in DOMAIN listing.out : listing.out[i].generation \in Nat
        BY <1>3 DEF Walked
      <3> QED BY <1>2, <2>3, <2>6, <3>1
  <2>10. /\ l.work # None => l.work.generation \in Nat
         /\ \A i \in DOMAIN l.out : l.out[i].generation \in Nat
    BY <1>2, <1>3, <2>3 DEF Walked
  <2>11. l.answered < l.generation /\ l.generation \in Nat /\ l.answered \in Nat
    BY <1>2, <2>3
  <2>12. DrainedIs(l, TRUE)
    BY <2>3, <2>5, <2>7, <2>8, <2>9, <2>10, <2>11 DEF DrainedIs
  <2> QED BY <1>5, <2>12 DEF l
  <1> QED BY <1>4, <1>5

LEMMA RequestsStep == ASSUME WindowInv, SendsRequests PROVE WindowInv' /\ Agreed
  <1> DEFINE item == [generation |-> preview.generation + 1, plan |-> Plan]
  <1>1. /\ frame' = "polls" /\ relistWanted' = FALSE /\ needsPreview' = FALSE
        /\ listing' = Drained(relistWanted) /\ volume' = volume
        /\ UNCHANGED <<source, setup, rows, scope, simulate, simulation, astray, batches, job>>
        /\ UNCHANGED <<runWhenReady, realOnce, confirming, consentedFor, asked, agreed>>
    BY DEF SendsRequests, Drained, screen, running, past, troubles
  <1>2. /\ ~needsPreview => preview' = preview
        /\ needsPreview => preview' = [preview EXCEPT !.generation = @ + 1, !.queue = Append(@, item)]
    BY DEF SendsRequests
  <1>3. listing \in ListingType /\ preview \in PreviewType /\ volume \in Nat
        /\ relistWanted \in BOOLEAN /\ needsPreview \in BOOLEAN /\ ScreenTyped
    BY DEF WindowInv, TypeOK
  <1>4. item \in Planned /\ item.generation = preview.generation + 1 /\ item.plan = Plan
    BY <1>3 DEF Planned, Plan, Plans, ScreenTyped, PreviewType
  <1> HIDE DEF item
  <1>5. DrainedIs(listing', relistWanted)
    BY <1>1, <1>3, DrainedFacts
  <1>6. Updating' = Updating
  <2>1. CASE relistWanted
    BY <1>1, <1>5, <2>1 DEF Updating, DrainedIs
  <2>2. CASE ~relistWanted
    BY <1>1, <1>5, <2>2 DEF Updating, DrainedIs
  <2> QED BY <2>1, <2>2
  <1>7. ASSUME ~needsPreview
        PROVE  preview' \in PreviewType /\ InOrder' /\ ConsentInv' /\ NewestIsOfTheScreen'
  <2>1. preview' = preview
    BY <1>2, <1>7
  <2>2. preview' \in PreviewType /\ InOrder' /\ ConsentInv'
    BY <1>1, <1>3, <2>1 DEF WindowInv, InOrder, ConsentInv, ConsentIsFor
  <2>3. NewestIsOfTheScreen'
    BY <1>1, <1>6, <1>7, <2>1 DEF WindowInv, NewestIsOfTheScreen, Newest, Plan
  <2> QED BY <2>2, <2>3
  <1>8. ASSUME needsPreview
        PROVE  preview' \in PreviewType /\ InOrder' /\ ConsentInv' /\ NewestIsOfTheScreen'
  <2>1. preview' = [preview EXCEPT !.generation = @ + 1, !.queue = Append(@, item)]
    BY <1>2, <1>8
  <2>2. /\ preview'.generation = preview.generation + 1
        /\ preview'.answered = preview.answered /\ preview'.work = preview.work
        /\ preview'.out = preview.out /\ preview'.ready = preview.ready
        /\ preview'.queue = Append(preview.queue, item)
    BY <1>3, <2>1 DEF PreviewType
  <2>3. preview.queue \in Seq(Planned) /\ preview.generation \in Nat /\ preview.answered \in Nat
        /\ (preview.work # None => preview.work.generation \in Nat)
        /\ (preview.ready # None => preview.ready.generation \in Nat)
        /\ preview.out \in Seq(Answers)
    BY <1>3 DEF PreviewType, Planned, Answers
  <2>4. /\ \A i \in DOMAIN preview.queue : preview.queue[i].generation \in Nat
        /\ \A i \in DOMAIN preview.out : preview.out[i].generation \in Nat
      <3>1. \A i \in DOMAIN preview.queue : preview.queue[i] \in Planned
        BY <2>3, Elements
      <3>2. \A i \in DOMAIN preview.out : preview.out[i] \in Answers
        BY <2>3, Elements
      <3> QED BY <3>1, <3>2 DEF Planned, Answers
  <2>5. /\ preview'.queue \in Seq(Planned)
        /\ \A i \in DOMAIN preview'.queue :
              \/ i \in DOMAIN preview.queue /\ preview'.queue[i] = preview.queue[i]
              \/ preview'.queue[i] = item
    BY <1>4, <2>2, <2>3, Appended
  <2>6. preview' \in PreviewType
      <3>1. preview.generation + 1 \in Nat /\ Append(preview.queue, item) \in Seq(Planned)
        BY <2>2, <2>3, <2>5
      <3>2. preview' = [preview EXCEPT !.generation = preview.generation + 1,
                                       !.queue = Append(preview.queue, item)]
        BY <1>3, <2>1 DEF PreviewType
      <3> QED BY <1>3, <3>1, <3>2 DEF PreviewType
  <2>7. InOrder'
      <3>1. ASSUME NEW j \in DOMAIN preview'.queue
            PROVE  /\ preview.answered < preview'.queue[j].generation
                   /\ preview'.queue[j].generation <= preview.generation + 1
                   /\ \A i \in DOMAIN preview.out :
                         preview.out[i].generation < preview'.queue[j].generation
                   /\ preview.work # None => preview.work.generation < preview'.queue[j].generation
        <4>1. CASE j \in DOMAIN preview.queue /\ preview'.queue[j] = preview.queue[j]
          <5>1. /\ preview.answered < preview.queue[j].generation
                /\ preview.queue[j].generation <= preview.generation
                /\ \A i \in DOMAIN preview.out :
                      preview.out[i].generation < preview.queue[j].generation
                /\ preview.work # None => preview.work.generation < preview.queue[j].generation
            BY <4>1 DEF WindowInv, InOrder
          <5> QED BY <2>3, <2>4, <4>1, <5>1
        <4>2. CASE preview'.queue[j] = item
          <5>1. /\ preview.answered <= preview.generation
                /\ \A i \in DOMAIN preview.out : preview.out[i].generation <= preview.generation
                /\ preview.work # None => preview.work.generation <= preview.generation
            BY DEF WindowInv, InOrder
          <5> QED BY <1>4, <2>3, <2>4, <4>2, <5>1
        <4> QED BY <2>5, <3>1, <4>1, <4>2
      <3>2. /\ preview.answered <= preview.generation + 1
            /\ \A i \in DOMAIN preview.out :
                  preview.answered < preview.out[i].generation
                  /\ preview.out[i].generation <= preview.generation + 1
            /\ preview.work # None =>
                  /\ preview.answered < preview.work.generation
                  /\ preview.work.generation <= preview.generation + 1
                  /\ \A i \in DOMAIN preview.out :
                        preview.out[i].generation < preview.work.generation
            /\ preview.ready # None =>
                  preview.ready.generation = preview.answered /\ preview.ready.plan # None
        BY <2>3, <2>4 DEF WindowInv, InOrder
      <3> QED BY <2>2, <3>1, <3>2 DEF InOrder
  <2>8. Plan' = Plan
    BY <1>1 DEF Plan
  <2>9. NewestIsOfTheScreen'
      <3>1. ASSUME NEW j \in DOMAIN preview'.queue PROVE Newest(preview.queue[j])'
        <4>1. CASE j \in DOMAIN preview.queue /\ preview'.queue[j] = preview.queue[j]
          <5>1. preview.queue[j].generation <= preview.generation
            BY <4>1 DEF WindowInv, InOrder
          <5> QED BY <2>2, <2>3, <2>4, <4>1, <5>1 DEF Newest
        <4>2. CASE preview'.queue[j] = item
          BY <1>4, <2>8, <4>2 DEF Newest
        <4> QED BY <2>5, <3>1, <4>1, <4>2
      <3>2. (preview.work # None => Newest(preview.work))'
        BY <2>2, <2>3 DEF WindowInv, InOrder, Newest
      <3>3. (\A i \in DOMAIN preview.out : Newest(preview.out[i]))'
        BY <2>2, <2>3, <2>4 DEF WindowInv, InOrder, Newest
      <3>4. (preview.ready # None => Newest(preview.ready))'
        BY <2>2, <2>3 DEF WindowInv, InOrder, Newest
      <3> QED BY <3>1, <3>2, <3>3, <3>4 DEF NewestIsOfTheScreen
  <2>10. ConsentInv'
    BY <1>1, <2>2 DEF WindowInv, ConsentInv, ConsentIsFor
  <2> QED BY <2>6, <2>7, <2>9, <2>10
  <1>9. preview' \in PreviewType /\ InOrder' /\ ConsentInv' /\ NewestIsOfTheScreen'
    BY <1>3, <1>7, <1>8
  <1>10. TypeOK'
  <2>1. RunningTyped'
    BY <1>1 DEF WindowInv, TypeOK, RunningTyped
  <2>2. ScreenTyped'
    BY <1>1, <1>3 DEF ScreenTyped
  <2>3. job' \in JobType /\ batches' \in Int /\ astray' \in BOOLEAN
    BY <1>1 DEF WindowInv, TypeOK
  <2>4. listing' \in ListingType
    BY <1>5 DEF DrainedIs
  <2> QED BY <1>1, <1>3, <1>9, <2>1, <2>2, <2>3, <2>4 DEF TypeOK
  <1>11. ListingInv'
  <2>1. ~Updating' => rows'.of = source'
    BY <1>1, <1>6 DEF WindowInv, ListingInv
  <2> QED BY <1>1, <1>5, <2>1 DEF ListingInv, OfTheSource, DrainedIs
  <1>12. SeenInv'
  <2>1. SUFFICES ASSUME ~astray, Untouched
                 PROVE  /\ ~Updating => rows.seen = volume
                        /\ (listing.work # None => UpToDate(listing.work))'
                        /\ (\A i \in DOMAIN listing.out : UpToDate(listing.out[i]))'
    BY <1>1, <1>6 DEF SeenInv, Untouched, Relists
  <2>2. ~Updating => rows.seen = volume
    BY <2>1 DEF WindowInv, SeenInv
  <2> QED BY <1>1, <1>5, <2>1, <2>2 DEF UpToDate, DrainedIs
  <1>13. JobInv'
    BY <1>1 DEF WindowInv, JobInv
  <1>14. ~Starts
    BY <1>1, WindowAssumption DEF Starts
  <1> QED BY <1>9, <1>10, <1>11, <1>12, <1>13, <1>14 DEF WindowInv, Agreed

-----------------------------------------------------------------------------
(* The beginning of a frame.                                               *)

\* The plans that were delivered: the last answer, if there is one.
LEMMA DeliveredFacts ==
    ASSUME WindowInv, preview' = Delivered(preview)
    PROVE  /\ preview' \in PreviewType /\ preview'.generation = preview.generation
           /\ preview'.queue = preview.queue /\ preview'.work = preview.work /\ preview'.out = <<>>
           /\ \/ preview.out = <<>> /\ preview' = preview
              \/ /\ Len(preview.out) \in DOMAIN preview.out
                 /\ preview'.answered = preview.out[Len(preview.out)].generation
                 /\ preview'.ready = None \/ (/\ preview'.ready = preview.out[Len(preview.out)]
                                              /\ preview'.ready.plan # None)
  <1> DEFINE last == preview.out[Len(preview.out)]
  <1>1. preview \in PreviewType
    BY DEF WindowInv, TypeOK
  <1>2. CASE preview.out = <<>>
    BY <1>1, <1>2 DEF Delivered
  <1>3. CASE preview.out # <<>>
  <2>1. Len(preview.out) \in DOMAIN preview.out /\ last \in Answers
      <3>1. preview.out \in Seq(Answers)
        BY <1>1 DEF PreviewType, Answers
      <3> QED BY <1>3, <3>1, Last
  <2>2. preview' = [preview EXCEPT !.out = <<>>, !.answered = last.generation,
                                   !.ready = IF last.plan = None THEN None ELSE last]
    BY <1>3 DEF Delivered
  <2> HIDE DEF last
  <2>3. last.generation \in Nat /\ (last.plan # None => last \in Planned)
    BY <2>1 DEF Answers, Planned
  <2>4. <<>> \in Seq(Answers)
    BY Emptied
  <2>5. preview' \in PreviewType
    BY <1>1, <2>2, <2>3, <2>4 DEF PreviewType, Answers
  <2>6. /\ preview'.generation = preview.generation
        /\ preview'.queue = preview.queue /\ preview'.work = preview.work /\ preview'.out = <<>>
        /\ preview'.answered = last.generation
        /\ preview'.ready = IF last.plan = None THEN None ELSE last
    BY <1>1, <2>2 DEF PreviewType
  <2> QED BY <2>1, <2>5, <2>6 DEF last
  <1> QED BY <1>2, <1>3

LEMMA DeliveredKeeps ==
    ASSUME WindowInv, preview' = Delivered(preview)
    PROVE  /\ InOrder'
           /\ (UNCHANGED <<confirming, consentedFor, agreed>> => ConsentInv')
           /\ (~Updating /\ ~needsPreview /\ Plan' = Plan => NewestIsOfTheScreen')
  <1> DEFINE last == preview.out[Len(preview.out)]
  <1>1. /\ preview' \in PreviewType /\ preview'.generation = preview.generation
        /\ preview'.queue = preview.queue /\ preview'.work = preview.work /\ preview'.out = <<>>
    BY DeliveredFacts
  <1>2. preview \in PreviewType
    BY DEF WindowInv, TypeOK
  <1>3. CASE preview.out = <<>> /\ preview' = preview
  <2>1. InOrder'
    BY <1>3 DEF WindowInv, InOrder
  <2>2. UNCHANGED <<confirming, consentedFor, agreed>> => ConsentInv'
    BY <1>3 DEF WindowInv, ConsentInv, ConsentIsFor
  <2>3. ~Updating /\ ~needsPreview /\ Plan' = Plan => NewestIsOfTheScreen'
    BY <1>3 DEF WindowInv, NewestIsOfTheScreen, Newest
  <2> QED BY <2>1, <2>2, <2>3
  <1>4. CASE /\ Len(preview.out) \in DOMAIN preview.out /\ preview'.answered = last.generation
             /\ preview'.ready = None \/ (preview'.ready = last /\ preview'.ready.plan # None)
  <2>1. /\ preview.answered < last.generation /\ last.generation <= preview.generation
        /\ preview.work # None => /\ last.generation < preview.work.generation
                                  /\ preview.work.generation <= preview.generation
        /\ \A j \in DOMAIN preview.queue :
              /\ last.generation < preview.queue[j].generation
              /\ preview.queue[j].generation <= preview.generation
              /\ preview.work # None => preview.work.generation < preview.queue[j].generation
    BY <1>4 DEF WindowInv, InOrder
  <2>2. \A i \in DOMAIN preview'.out : FALSE
    BY <1>1, Emptied
  <2>3. /\ ~Updating /\ ~needsPreview =>
              /\ Newest(last) /\ (preview.work # None => Newest(preview.work))
              /\ \A j \in DOMAIN preview.queue : Newest(preview.queue[j])
    BY <1>4 DEF WindowInv, NewestIsOfTheScreen
  <2> HIDE DEF last
  <2>4. InOrder'
    BY <1>1, <1>4, <2>1, <2>2 DEF InOrder
  <2>5. UNCHANGED <<confirming, consentedFor, agreed>> => ConsentInv'
      <3>1. SUFFICES ASSUME UNCHANGED <<confirming, consentedFor, agreed>> PROVE ConsentInv'
        OBVIOUS
      <3>2. preview.answered \in Nat /\ last.generation \in Nat
        <4>1. preview'.answered \in Nat
          BY <1>1 DEF PreviewType
        <4> QED BY <1>2, <1>4, <4>1 DEF PreviewType
      <3>3. ASSUME NEW g \in Nat, g <= preview.answered
            PROVE  g <= preview'.answered /\ (preview'.ready # None => preview'.ready.generation # g)
        BY <1>4, <2>1, <3>2, <3>3
      <3>4. confirming # None =>
               confirming.generation \in Nat /\ confirming.generation <= preview.answered
        BY DEF WindowInv, TypeOK, RunningTyped, ConsentInv, ConsentIsFor, Planned
      <3>5. consentedFor # None => consentedFor \in Nat /\ consentedFor <= preview.answered
        BY DEF WindowInv, TypeOK, RunningTyped, ConsentInv, ConsentIsFor
      <3>6. (confirming # None => ConsentIsFor(confirming.generation, confirming.plan))'
        BY <3>1, <3>3, <3>4 DEF ConsentIsFor
      <3>7. (consentedFor # None => ConsentIsFor(consentedFor, agreed))'
        BY <3>1, <3>3, <3>5 DEF ConsentIsFor
      <3> QED BY <3>6, <3>7 DEF ConsentInv
  <2>6. ~Updating /\ ~needsPreview /\ Plan' = Plan => NewestIsOfTheScreen'
      <3>1. SUFFICES ASSUME ~Updating, ~needsPreview, Plan' = Plan PROVE NewestIsOfTheScreen'
        OBVIOUS
      <3>2. (\A j \in DOMAIN preview.queue : Newest(preview.queue[j]))'
        BY <1>1, <2>3, <3>1 DEF Newest
      <3>3. (preview.work # None => Newest(preview.work))'
        BY <1>1, <2>3, <3>1 DEF Newest
      <3>4. (preview.ready # None => Newest(preview.ready))'
        BY <1>1, <1>4, <2>3, <3>1 DEF Newest
      <3> QED BY <2>2, <3>2, <3>3, <3>4 DEF NewestIsOfTheScreen
  <2> QED BY <2>4, <2>5, <2>6
  <1> QED BY <1>3, <1>4, DeliveredFacts

\* The job that has landed, if one has: what it leaves to be read again is asked
\* for, unless it has touched nothing.
Owing == relistWanted \/ (job.out # None /\ Relists(job.out))

LEMMA PollJobsFacts ==
    ASSUME WindowInv, PollJobs
    PROVE  /\ job' \in JobType /\ JobInv' /\ batches' \in Int /\ ~Starts
           /\ simulation' \in Plans \cup {None} /\ setup' \in Setups
           /\ ~Owing => setup' = setup
           /\ Untouched' => Untouched \/ Owing
  <1>1. job \in JobType /\ setup \in Setups /\ simulation \in Plans \cup {None} /\ batches \in Int
    BY DEF WindowInv, TypeOK, ScreenTyped
  <1>2. CASE job.out = None /\ UNCHANGED <<job, simulation, setup, past>>
  <2>1. batches' = batches /\ job' = job /\ ~Starts
    BY <1>2, WindowAssumption DEF past, Starts
  <2> QED BY <1>1, <1>2, <2>1 DEF WindowInv, JobInv, Untouched, Relists
  <1>3. CASE job.out # None /\ job' = Freed
             /\ (\/ job.out.kind = "Run" /\ RunLanded(job.out)
                 \/ job.out.kind = "Undo" /\ UndoLanded(job.out)
                 \/ job.out.kind = "Rollback" /\ RollbackLanded(job.out))
  <2>1. job.out \in Outcomes /\ job.out.kind = job.busy /\ job.work = None
    BY <1>1, <1>3 DEF JobType, WindowInv, JobInv
  <2>2. /\ job' \in JobType /\ job'.busy = None /\ job'.work = None /\ job'.out = None
    BY <1>1, <1>3, <2>1 DEF JobType, Freed
  <2>3. /\ batches' \in Int /\ batches' >= 0 /\ simulation' \in Plans \cup {None}
        /\ setup' \in Setups /\ (~Owing => setup' = setup)
      <3>1. batches >= 0 /\ (job.busy = "Undo" => batches >= 1)
        <4>1. batches >= (IF job.busy = "Undo" THEN 1 ELSE 0)
          BY DEF WindowInv, JobInv
        <4> QED BY <1>1, <4>1
      <3>2. CASE RunLanded(job.out)
        <4>1. batches' \in Int /\ batches' >= 0
          BY <1>1, <3>1, <3>2 DEF RunLanded
        <4>2. simulation' \in Plans \cup {None}
          BY <1>1, <2>1, <3>2 DEF RunLanded, Outcomes
        <4>3. PICK start \in {setup.start, setup.start + 1} :
                 /\ start # setup.start => job.out.result = "report" /\ job.out.real
                 /\ setup' = [setup EXCEPT !.start = start]
          BY <3>2 DEF RunLanded
        <4>4. start \in Nat
          BY <1>1, <4>3 DEF Setups
        <4>5. setup' \in Setups
          BY <1>1, <4>3, <4>4 DEF Setups
        <4>6. start = setup.start => setup' = setup
          BY <1>1, <4>3 DEF Setups
        <4>7. start # setup.start => Owing
          BY <1>3, <4>3 DEF Owing, Relists
        <4> QED BY <4>1, <4>2, <4>5, <4>6, <4>7
      <3>3. CASE job.out.kind = "Undo" /\ UndoLanded(job.out)
        <4>1. batches' \in {batches, batches - 1} /\ simulation' = simulation /\ setup' = setup
          BY <3>3 DEF UndoLanded
        <4>2. batches >= 1
          BY <2>1, <3>1, <3>3
        <4> QED BY <1>1, <4>1, <4>2
      <3>4. CASE RollbackLanded(job.out)
        BY <1>1, <3>1, <3>4 DEF RollbackLanded
      <3> QED BY <1>3, <3>2, <3>3, <3>4
  <2>4. JobInv'
    BY <2>2, <2>3, WindowAssumption DEF JobInv
  <2>5. ~Starts
    BY <2>2, WindowAssumption DEF Starts
  <2>6. Untouched \/ Owing
    BY <1>3 DEF Untouched, Owing
  <2> QED BY <2>2, <2>3, <2>4, <2>5, <2>6
  <1> QED BY <1>2, <1>3 DEF PollJobs

LEMMA PollsStep == ASSUME WindowInv, Polls PROVE WindowInv' /\ Agreed
  <1>1. /\ frame' = "keys" /\ PollJobs /\ PollListing(Drained(Owing))
        /\ relistWanted' = FALSE /\ preview' = Delivered(preview)
        /\ UNCHANGED <<volume, source, simulate, runWhenReady, realOnce, confirming, consentedFor,
                       asked, agreed, astray>>
    BY DEF Polls, Owing, troubles
  <1> DEFINE l == Drained(Owing)
  <1>2. /\ listing \in ListingType /\ volume \in Nat /\ ScreenTyped /\ RunningTyped
        /\ relistWanted \in BOOLEAN /\ needsPreview \in BOOLEAN /\ astray \in BOOLEAN
    BY DEF WindowInv, TypeOK
  <1>3. Owing \in BOOLEAN /\ (relistWanted => Owing) /\ (~Owing => ~relistWanted)
    BY DEF Owing
  <1>4. DrainedIs(l, Owing)
    BY <1>3, DrainedFacts
  <1>5. /\ job' \in JobType /\ JobInv' /\ batches' \in Int /\ ~Starts
        /\ simulation' \in Plans \cup {None} /\ setup' \in Setups
        /\ ~Owing => setup' = setup
        /\ Untouched' => Untouched \/ Owing
    BY <1>1, PollJobsFacts
  <1>6. preview' \in PreviewType /\ InOrder' /\ ConsentInv'
    BY <1>1, DeliveredFacts, DeliveredKeeps
  <1> HIDE DEF l
  <1>7. /\ l \in ListingType /\ l.answered <= l.generation
        /\ l.generation \in Nat /\ l.answered \in Nat
    BY <1>4 DEF DrainedIs, ListingType
  <1>8. RunningTyped'
    BY <1>1, <1>2 DEF RunningTyped
  <1>9. CASE /\ listing' = [l EXCEPT !.out = <<>>]
             /\ UNCHANGED <<rows, scope, needsPreview>>
  <2>1. /\ listing'.generation = l.generation /\ listing'.answered = l.answered
        /\ listing'.queue = l.queue /\ listing'.work = l.work /\ listing'.out = <<>>
    BY <1>7, <1>9 DEF ListingType
  <2>2. listing' \in ListingType
    BY <1>7, <1>9, Emptied DEF ListingType
  <2>3. \A i \in DOMAIN listing'.out : FALSE
    BY <2>1, Emptied
  <2>4. ~Updating' => ~Owing /\ ~Updating
    BY <1>1, <1>3, <1>4, <2>1 DEF Updating, DrainedIs
  <2>5. TypeOK'
      <3>1. ScreenTyped'
        BY <1>1, <1>2, <1>5, <1>9 DEF ScreenTyped
      <3>2. needsPreview' \in BOOLEAN /\ relistWanted' \in BOOLEAN
        BY <1>1, <1>2, <1>9
      <3> QED BY <1>1, <1>2, <1>5, <1>6, <1>8, <2>2, <3>1, <3>2 DEF TypeOK
  <2>6. ListingInv'
      <3>1. ~Updating' => rows'.of = source'
        BY <1>1, <1>9, <2>4 DEF WindowInv, ListingInv
      <3> QED BY <1>1, <1>4, <2>1, <2>3, <3>1 DEF ListingInv, OfTheSource, DrainedIs
  <2>7. NewestIsOfTheScreen'
      <3>1. CASE Updating' \/ needsPreview'
        BY <3>1 DEF NewestIsOfTheScreen
      <3>2. CASE ~Updating' /\ ~needsPreview'
        <4>1. ~Updating /\ ~needsPreview /\ Plan' = Plan
          BY <1>5, <1>9, <2>4, <3>2 DEF Plan
        <4> QED BY <1>1, <4>1, DeliveredKeeps
      <3> QED BY <3>1, <3>2
  <2>8. SeenInv'
      <3>1. SUFFICES ASSUME ~astray, Untouched \/ Owing
                     PROVE  /\ ~Updating' => rows.seen = volume
                            /\ (listing.work # None => UpToDate(listing.work))'
        BY <1>1, <1>5, <1>9, <2>3 DEF SeenInv
      <3>2. ~Updating' => rows.seen = volume
        BY <2>4, <3>1 DEF WindowInv, SeenInv
      <3> QED BY <1>1, <1>4, <2>1, <3>1, <3>2 DEF UpToDate, DrainedIs
  <2> QED BY <1>5, <1>6, <2>5, <2>6, <2>7, <2>8 DEF WindowInv, Agreed
  <1>10. ASSUME NEW i \in DOMAIN l.out, IsAwaited(l, l.out[i]),
                listing' = [l EXCEPT !.out = <<>>, !.answered = l.out[i].generation],
                rows' = l.out[i].rows, scope' = All, needsPreview' = TRUE
         PROVE  WindowInv' /\ Agreed
  <2>1. l.out[i] \in Walked
      <3>1. l.out \in Seq(Walked)
        BY <1>7 DEF ListingType
      <3> QED BY <1>10, <3>1, Elements
  <2>2. l.out[i].generation \in Nat /\ l.out[i].rows \in Listings
    BY <2>1 DEF Walked
  <2>3. l.out[i].generation = l.generation
      <3>1. l.out[i].generation <= l.generation
        BY <1>4, <1>10 DEF DrainedIs
      <3>2. l.out[i].generation >= l.generation
        BY <1>10 DEF IsAwaited
      <3> QED BY <1>7, <2>2, <3>1, <3>2
  <2>4. /\ listing'.generation = l.generation /\ listing'.answered = l.generation
        /\ listing'.queue = l.queue /\ listing'.work = l.work /\ listing'.out = <<>>
    BY <1>7, <1>10, <2>3 DEF ListingType
  <2>5. listing' \in ListingType
    BY <1>7, <1>10, <2>2, Emptied DEF ListingType
  <2>6. \A j \in DOMAIN listing'.out : FALSE
    BY <2>4, Emptied
  <2>7. l.out[i].rows.of = source
    BY <1>4, <1>10, <2>3 DEF DrainedIs
  <2>8. TypeOK'
      <3>1. All \in Scopes
        BY WindowAssumption
      <3>2. ScreenTyped'
        BY <1>1, <1>2, <1>5, <1>10, <2>2, <3>1 DEF ScreenTyped
      <3>3. needsPreview' \in BOOLEAN /\ relistWanted' \in BOOLEAN
        BY <1>1, <1>10
      <3> QED BY <1>1, <1>2, <1>5, <1>6, <1>8, <2>5, <3>2, <3>3 DEF TypeOK
  <2>9. ListingInv'
    BY <1>1, <1>4, <1>7, <1>10, <2>4, <2>6, <2>7 DEF ListingInv, OfTheSource, DrainedIs
  <2>10. NewestIsOfTheScreen'
    BY <1>10 DEF NewestIsOfTheScreen
  <2>11. SeenInv'
      <3>1. SUFFICES ASSUME ~astray, Untouched \/ Owing
                     PROVE  /\ rows'.seen = volume
                            /\ (listing.work # None => UpToDate(listing.work))'
        BY <1>1, <1>5, <2>6 DEF SeenInv
      <3>2. rows'.seen = volume
        BY <1>4, <1>10, <2>3, <3>1 DEF DrainedIs
      <3> QED BY <1>1, <1>4, <2>4, <3>1, <3>2 DEF UpToDate, DrainedIs
  <2> QED BY <1>5, <1>6, <2>8, <2>9, <2>10, <2>11 DEF WindowInv, Agreed
  <1> QED BY <1>1, <1>9, <1>10 DEF PollListing, l

-----------------------------------------------------------------------------
(* The theorems.                                                           *)

LEMMA WindowStays == ASSUME WindowInv, [Next]_vars PROVE WindowInv' /\ Agreed
  <1>1. CASE Polls
    BY <1>1, PollsStep
  <1>2. CASE SendsRequests
    BY <1>2, RequestsStep
  <1>3. CASE Keys \/ Deferred \/ ShowsWindow
    BY <1>3, KeysStep, DeferredStep, WindowStep, UserKeeps
  <1>4. CASE Worker
  <2>1. Aside
    BY <1>4, WorkersStandAside
  <2>2. CASE (ListingTakes \/ ListingAnswers) /\ UNCHANGED <<preview, running, volume>>
      <3>1. UNCHANGED <<preview, job, volume>>
        BY <2>2 DEF running
      <3>2. WindowInv'
        BY <2>1, <2>2, <3>1, ListingTakesStep, ListingAnswersStep
      <3>3. ~Starts
        BY <3>1, WindowAssumption DEF Starts
      <3> QED BY <3>2, <3>3 DEF Agreed
  <2>3. CASE (PreviewTakes \/ PreviewAnswers) /\ UNCHANGED <<listing, running, volume>>
      <3>1. UNCHANGED <<listing, job, volume>>
        BY <2>3 DEF running
      <3>2. WindowInv'
        BY <2>1, <2>3, <3>1, PreviewTakesStep, PreviewAnswersStep
      <3>3. ~Starts
        BY <3>1, WindowAssumption DEF Starts
      <3> QED BY <3>2, <3>3 DEF Agreed
  <2>4. CASE (JobChangesAFile \/ JobLands) /\ UNCHANGED <<listing, preview>>
      <3>1. JobGoesOn
        BY <2>1, <2>4, JobChangesStep, JobLandsStep DEF Aside
      <3>2. WindowInv'
        BY <2>1, <2>4, <3>1, JobKeeps
      <3>3. ~Starts
        BY <3>1, WindowAssumption DEF JobGoesOn, Starts
      <3> QED BY <3>2, <3>3 DEF Agreed
  <2> QED BY <1>4, <2>2, <2>3, <2>4 DEF Worker
  <1>5. CASE UNCHANGED vars
  <2>1. WindowInv'
    BY <1>5 DEF vars, screen, owed, running, past, troubles, WindowInv, TypeOK, ScreenTyped,
                RunningTyped, JobInv, ListingInv, OfTheSource, InOrder, NewestIsOfTheScreen,
                Newest, Plan, SeenInv, UpToDate, Untouched, Relists, ConsentInv, ConsentIsFor,
                Updating
  <2>2. ~Starts
    BY <1>5, WindowAssumption DEF vars, running, Starts
  <2> QED BY <2>1, <2>2 DEF Agreed
  <1> QED BY <1>1, <1>2, <1>3, <1>4, <1>5 DEF Next, Frame

\* The invariant: what each worker was asked for last is of what is on screen,
\* wherever it has got to, and consent is for one plan (request_preview,
\* drain_listing_request, consented_for).
THEOREM WindowInductive == Spec => []WindowInv
  <1>1. Init => WindowInv
    BY WindowStart
  <1>2. WindowInv /\ [Next]_vars => WindowInv'
    BY WindowStays
  <1> QED BY <1>1, <1>2, PTL DEF Spec

\* A run is of the rows, the selection and the cards on screen, and one that
\* cannot be taken back is of the very plan that was agreed to, whatever the
\* workers have answered meanwhile (run, P35, consented_for).
THEOREM RunIsAsAgreedHolds == Spec => RunIsAsAgreed
  <1>1. WindowInv /\ [Next]_vars =>
           [Starts => job'.work.plan = Plan /\ rows.of = source]_vars
    BY WindowStays DEF Agreed
  <1>2. WindowInv /\ [Next]_vars =>
           [Starts /\ job'.work.real /\ job'.work.plan.setup.cards \in Consents
              => job'.work.agreed = job'.work.plan]_vars
    BY WindowStays DEF Agreed
  <1> QED BY <1>1, <1>2, WindowInductive, PTL
          DEF Spec, RunIsAsAgreed, RunIsOfTheScreen, ConsentIsForThePlan

\* A run is of files as they are after every change this program has made
\* before, however its jobs ended, unless F2's own journal failed (Relists,
\* rename_one).
THEOREM JobsAreSeenHolds == Spec => JobsAreSeen
  <1>1. WindowInv /\ [Next]_vars => [Starts /\ ~astray => job'.work.plan.rows.seen = volume]_vars
    BY WindowStays DEF Agreed, Plan
  <1> QED BY <1>1, WindowInductive, PTL DEF Spec, JobsAreSeen

-----------------------------------------------------------------------------
(***************************************************************************)
(* The compiled scripts that every thread shares.  A script is kept under  *)
(* the stamp it had before it was read, so what is kept may be newer than  *)
(* its stamp says: harmless, as no file bears that stamp again.            *)
(***************************************************************************)

LEMMA StandsStill ==
    ASSUME UNCHANGED <<folder, clock, saves>>, NEW l, LoadStands(l)
    PROVE  LoadStands(l)'
BY DEF LoadStands, Exists, CacheKey, Stamp

\* A file is written, locked, let go of or deleted.  One that is there and has the stamp it had
\* holds what it held, but one written now has a date nothing is kept of.
LEMMA WritingKeeps ==
    ASSUME ScriptsInv, DOMAIN folder' = Paths, saves' = saves + 1, clock' \in Nat, clock' >= clock,
           UNCHANGED <<compiled, loading, loads>>,
           \A p \in Paths : Exists(p)' =>
                \/ folder'[p].modified = clock' /\ clock' > clock /\ DOMAIN folder'[p] = {"source", "modified", "readable"}
                \/ Exists(p) /\ DOMAIN folder'[p] = DOMAIN folder[p] /\ Stamp(p)' = Stamp(p) /\ folder'[p].source = folder[p].source /\ folder'[p].modified = folder[p].modified
    PROVE  ScriptsInv'
<1>1. /\ DOMAIN loading = Loaders /\ saves \in Nat /\ clock \in Nat
      /\ \A p \in Paths : Exists(p) =>
            DOMAIN folder[p] = {"source", "modified", "readable"} /\ folder[p].modified \in 1..clock
      /\ \A key \in DOMAIN compiled : key[3] \in 0..clock
      /\ \A p \in Paths : Exists(p) /\ CacheKey(p) \in DOMAIN compiled => compiled[CacheKey(p)] = Compile(folder[p].source)
      /\ \A t \in Loaders : LoadStands(loading[t])
    BY DEF ScriptsInv, DatesArePast, KeptIsTheFile
<1>2. ASSUME NEW p \in Paths, Exists(p)'
      PROVE  \/ CacheKey(p)'[3] = clock' /\ clock' > clock
             \/ Exists(p) /\ CacheKey(p)' = CacheKey(p) /\ folder'[p].source = folder[p].source
    BY <1>2 DEF CacheKey, Stamp
<1>3. DatesArePast'
    BY <1>1 DEF DatesArePast
<1>4. KeptIsTheFile'
  <2>1. \A key \in DOMAIN compiled : key[3] \in 0..clock'
      BY <1>1
  <2>2. ASSUME NEW p \in Paths, Exists(p)', CacheKey(p)' \in DOMAIN compiled
        PROVE  compiled[CacheKey(p)'] = Compile(folder'[p].source)
    <3>1. CacheKey(p)'[3] \in 0..clock
        BY <1>1, <2>2
    <3>2. Exists(p) /\ CacheKey(p)' = CacheKey(p) /\ folder'[p].source = folder[p].source
        BY <1>1, <1>2, <2>2, <3>1
    <3> QED BY <1>1, <2>2, <3>2
  <2> QED BY <2>1, <2>2 DEF KeptIsTheFile
<1>5. ASSUME NEW t \in Loaders PROVE LoadStands(loading[t])'
  <2> DEFINE l == loading[t]
  <2>1. l' = l /\ LoadStands(l)
      BY <1>1
  <2>2. l.since \in 0..saves /\ l.since # saves' /\ l.since \in 0..saves'
      BY <1>1, <2>1 DEF LoadStands
  <2>3. ASSUME l.step = "keep", Exists(l.path)', l.key = CacheKey(l.path)'
        PROVE  l.answer = Compile(folder'[l.path].source)
    <3>1. l.path \in Paths /\ l.key[3] \in 0..clock
        BY <2>1, <2>3 DEF LoadStands
    <3>2. Exists(l.path) /\ CacheKey(l.path)' = CacheKey(l.path) /\ folder'[l.path].source = folder[l.path].source
        BY <1>1, <1>2, <2>3, <3>1
    <3> QED BY <2>1, <2>3, <3>2 DEF LoadStands
  <2>4. l.step \in {"read", "keep"} => l.key[3] \in 0..clock'
      BY <1>1, <2>1 DEF LoadStands
  <2> QED BY <2>1, <2>2, <2>3, <2>4 DEF LoadStands
<1> QED BY <1>1, <1>3, <1>4, <1>5 DEF ScriptsInv

LEMMA SaveKeeps ==
    ASSUME ScriptsInv, ~Coarse, NEW p \in Paths, NEW content, Save(p, content)
    PROVE  ScriptsInv'
<1>1. /\ saves' = saves + 1 /\ clock' = clock + 1 /\ UNCHANGED <<compiled, loading, loads>>
      /\ folder' = [folder EXCEPT ![p] = File(content)]
    BY DEF Save, Now
<1>2. clock \in Nat /\ DOMAIN folder = Paths
    BY DEF ScriptsInv, DatesArePast
<1>3. DOMAIN folder' = Paths /\ folder'[p] = [source |-> content, modified |-> clock', readable |-> TRUE]
      /\ \A q \in Paths \ {p} : folder'[q] = folder[q]
    BY <1>1, <1>2 DEF File
<1>4. \A q \in Paths : Exists(q)' =>
         \/ folder'[q].modified = clock' /\ clock' > clock /\ DOMAIN folder'[q] = {"source", "modified", "readable"}
         \/ Exists(q) /\ DOMAIN folder'[q] = DOMAIN folder[q] /\ Stamp(q)' = Stamp(q) /\ folder'[q].source = folder[q].source /\ folder'[q].modified = folder[q].modified
    BY <1>1, <1>2, <1>3 DEF Exists, Stamp
<1> QED BY <1>1, <1>2, <1>3, <1>4, WritingKeeps

LEMMA LockKeeps ==
    ASSUME ScriptsInv, NEW p \in Paths, Lock(p)
    PROVE  ScriptsInv'
<1>1. /\ saves' = saves + 1 /\ clock' = clock /\ UNCHANGED <<compiled, loading, loads>> /\ Exists(p)
      /\ folder' = [folder EXCEPT ![p] = [folder[p] EXCEPT !.readable = ~folder[p].readable]]
    BY DEF Lock
<1>2. clock \in Nat /\ DOMAIN folder = Paths /\ DOMAIN folder[p] = {"source", "modified", "readable"}
    BY <1>1 DEF ScriptsInv, DatesArePast
<1>3. DOMAIN folder' = Paths /\ \A q \in Paths \ {p} : folder'[q] = folder[q]
    BY <1>1, <1>2
<1>4. DOMAIN folder'[p] = DOMAIN folder[p] /\ folder'[p].source = folder[p].source /\ folder'[p].modified = folder[p].modified
    BY <1>1, <1>2
<1>5. \A q \in Paths : Exists(q)' =>
         Exists(q) /\ DOMAIN folder'[q] = DOMAIN folder[q] /\ Stamp(q)' = Stamp(q) /\ folder'[q].source = folder[q].source /\ folder'[q].modified = folder[q].modified
    BY <1>1, <1>3, <1>4 DEF Exists, Stamp
<1> QED BY <1>1, <1>2, <1>3, <1>5, WritingKeeps

LEMMA DeleteKeeps ==
    ASSUME ScriptsInv, NEW p \in Paths, Delete(p)
    PROVE  ScriptsInv'
<1>1. /\ saves' = saves + 1 /\ clock' = clock /\ UNCHANGED <<compiled, loading, loads>>
      /\ folder' = [folder EXCEPT ![p] = Absent]
    BY DEF Delete
<1>2. clock \in Nat /\ DOMAIN folder = Paths
    BY DEF ScriptsInv, DatesArePast
<1>3. DOMAIN folder' = Paths /\ folder'[p] = Absent /\ \A q \in Paths \ {p} : folder'[q] = folder[q]
    BY <1>1, <1>2
<1>5. \A q \in Paths : Exists(q)' =>
         Exists(q) /\ DOMAIN folder'[q] = DOMAIN folder[q] /\ Stamp(q)' = Stamp(q) /\ folder'[q].source = folder[q].source /\ folder'[q].modified = folder[q].modified
    BY <1>1, <1>3 DEF Exists, Stamp
<1> QED BY <1>1, <1>2, <1>3, <1>5, WritingKeeps

LEMMA SeedKeeps ==
    ASSUME ScriptsInv, ~Coarse, SeedDefaults
    PROVE  ScriptsInv'
<1>1. /\ saves' = saves + 1 /\ clock' = clock + 1 /\ UNCHANGED <<compiled, loading, loads>>
      /\ folder' = [p \in Paths |-> IF Seeds(p) THEN File(Shipped[p.stem]) ELSE folder[p]]
    BY DEF SeedDefaults, Now
<1>2. clock \in Nat
    BY DEF ScriptsInv, DatesArePast
<1>3. DOMAIN folder' = Paths
      /\ \A q \in Paths : folder'[q] = [source |-> Shipped[q.stem], modified |-> clock', readable |-> TRUE] \/ folder'[q] = folder[q]
    BY <1>1 DEF File
<1>4. ASSUME NEW q \in Paths, Exists(q)'
      PROVE
         \/ folder'[q].modified = clock' /\ clock' > clock /\ DOMAIN folder'[q] = {"source", "modified", "readable"}
         \/ Exists(q) /\ DOMAIN folder'[q] = DOMAIN folder[q] /\ Stamp(q)' = Stamp(q) /\ folder'[q].source = folder[q].source /\ folder'[q].modified = folder[q].modified
  <2>1. CASE folder'[q] = [source |-> Shipped[q.stem], modified |-> clock', readable |-> TRUE]
      BY <1>1, <1>2, <2>1
  <2>2. CASE folder'[q] = folder[q]
      BY <1>4, <2>2 DEF Exists, Stamp
  <2> QED BY <1>3, <2>1, <2>2
<1> QED BY <1>1, <1>2, <1>3, <1>4, WritingKeeps

\* A load of a thread goes on; the rest stand where they stood.
LEMMA GoesOn ==
    ASSUME ScriptsInv, NEW t \in Loaders, NEW l, loading' = [loading EXCEPT ![t] = l], LoadStands(l),
           UNCHANGED <<folder, clock, saves>>, KeptIsTheFile'
    PROVE  ScriptsInv'
<1>1. /\ DOMAIN folder = Paths /\ DOMAIN loading = Loaders /\ saves \in Nat /\ DatesArePast
      /\ \A u \in Loaders : LoadStands(loading[u])
    BY DEF ScriptsInv
<1>2. DatesArePast'
    BY <1>1 DEF DatesArePast, Exists
<1>3. DOMAIN loading' = Loaders /\ \A u \in Loaders : loading'[u] = IF u = t THEN l ELSE loading[u]
    BY <1>1
<1>4. ASSUME NEW u \in Loaders PROVE LoadStands(loading[u])'
  <2>1. PICK k : k = loading'[u]
      OBVIOUS
  <2>2. LoadStands(k)
      BY <1>1, <1>3, <2>1
  <2>3. LoadStands(k)'
      BY <2>2, StandsStill
  <2> QED BY <2>1, <2>3 DEF LoadStands
<1> QED BY <1>1, <1>2, <1>3, <1>4 DEF ScriptsInv

LEMMA StartKeeps ==
    ASSUME ScriptsInv, NEW t \in Loaders, NEW stem \in Stems, StartLoad(t, stem)
    PROVE  ScriptsInv'
<1>1. UNCHANGED <<folder, clock, saves, compiled>>
    BY DEF StartLoad
<1>2. PICK p \in PathOf(stem) :
         loading' = [loading EXCEPT ![t] =
                IF CacheKey(p) \in DOMAIN compiled
                THEN [step |-> "told", path |-> p, key |-> CacheKey(p), answer |-> compiled[CacheKey(p)], since |-> saves]
                ELSE [step |-> "read", path |-> p, key |-> CacheKey(p), answer |-> Absent, since |-> saves]]
    BY DEF StartLoad
<1>3. p \in Paths
    BY ScriptsAssumption DEF PathOf, Paths, Path
<1>4. KeptIsTheFile /\ saves \in Nat /\ clock \in Nat /\ (Exists(p) => folder[p].modified \in 1..clock)
    BY <1>3 DEF ScriptsInv, DatesArePast
<1> DEFINE l == IF CacheKey(p) \in DOMAIN compiled
                THEN [step |-> "told", path |-> p, key |-> CacheKey(p), answer |-> compiled[CacheKey(p)], since |-> saves]
                ELSE [step |-> "read", path |-> p, key |-> CacheKey(p), answer |-> Absent, since |-> saves]
<1>5. ASSUME CacheKey(p) \in DOMAIN compiled PROVE LoadStands(l)
  <2>1. /\ l.step = "told" /\ l.path = p /\ l.answer = compiled[CacheKey(p)] /\ l.since = saves
        /\ DOMAIN l = {"step", "path", "key", "answer", "since"}
      BY <1>5
  <2>2. Exists(p) => l.answer = Compile(folder[p].source)
      BY <1>3, <1>4, <1>5, <2>1 DEF KeptIsTheFile
  <2> HIDE DEF l
  <2>3. LoadStands(l)
      BY <1>3, <1>4, <2>1, <2>2 DEF LoadStands
  <2> QED BY <2>3
<1>6. ASSUME CacheKey(p) \notin DOMAIN compiled PROVE LoadStands(l)
  <2>1. /\ l.step = "read" /\ l.path = p /\ l.key = CacheKey(p) /\ l.since = saves
        /\ DOMAIN l = {"step", "path", "key", "answer", "since"}
      BY <1>6
  <2>2. CacheKey(p)[1] = p /\ CacheKey(p)[3] \in 0..clock
      BY <1>4 DEF CacheKey, Stamp
  <2> HIDE DEF l
  <2>3. LoadStands(l)
      BY <1>3, <1>4, <2>1, <2>2 DEF LoadStands
  <2> QED BY <2>3
<1>7. loading' = [loading EXCEPT ![t] = l] /\ LoadStands(l)
    BY <1>2, <1>5, <1>6
<1>8. KeptIsTheFile'
    BY <1>1, <1>4 DEF KeptIsTheFile, Exists, CacheKey, Stamp
<1> HIDE DEF l
<1> QED BY <1>1, <1>7, <1>8, GoesOn

LEMMA ReadKeeps ==
    ASSUME ScriptsInv, NEW t \in Loaders, ReadSource(t)
    PROVE  ScriptsInv'
<1>1. loading[t].step = "read" /\ UNCHANGED <<folder, clock, saves, compiled>>
    BY DEF ReadSource
<1>2. KeptIsTheFile /\ LoadStands(loading[t])
    BY DEF ScriptsInv
<1> DEFINE was == loading[t]
           p == was.path
           l == IF Exists(p) /\ folder[p].readable
                THEN [was EXCEPT !.step = "keep", !.answer = Compile(folder[p].source)]
                ELSE Unread1(t)
<1>3. loading' = [loading EXCEPT ![t] = l]
    BY DEF ReadSource
<1>4. /\ DOMAIN was = {"step", "path", "key", "answer", "since"} /\ was.since \in 0..saves
      /\ p \in Paths /\ was.key[1] = p /\ was.key[3] \in 0..clock
    BY <1>1, <1>2 DEF LoadStands
<1>5. ASSUME Exists(p) /\ folder[p].readable PROVE LoadStands(l)
  <2>1. /\ l.step = "keep" /\ l.path = p /\ l.key = was.key /\ l.since = was.since
        /\ l.answer = Compile(folder[p].source) /\ DOMAIN l = {"step", "path", "key", "answer", "since"}
      BY <1>4, <1>5
  <2> HIDE DEF l, was, p
  <2>2. LoadStands(l)
      BY <1>4, <2>1 DEF LoadStands
  <2> QED BY <2>2
<1>6. ASSUME ~(Exists(p) /\ folder[p].readable) PROVE LoadStands(l)
  <2>1. /\ l.step = "told" /\ l.path = p /\ l.since = was.since /\ DOMAIN l = {"step", "path", "key", "answer", "since"}
      BY <1>6 DEF Unread1
  <2> HIDE DEF l, was, p
  <2>2. LoadStands(l)
      BY <1>4, <1>6, <2>1 DEF LoadStands
  <2> QED BY <2>2
<1>7. KeptIsTheFile'
    BY <1>1, <1>2 DEF KeptIsTheFile, Exists, CacheKey, Stamp
<1> HIDE DEF l
<1> QED BY <1>1, <1>3, <1>5, <1>6, <1>7, GoesOn

LEMMA KeepKeeps ==
    ASSUME ScriptsInv, NEW t \in Loaders, Keep(t)
    PROVE  ScriptsInv'
<1> DEFINE was == loading[t]
           l == [was EXCEPT !.step = "told"]
           kept == IF Cardinality(DOMAIN compiled) >= COMPILED_CAPACITY THEN <<>> ELSE compiled
<1>1. was.step = "keep" /\ UNCHANGED <<folder, clock, saves>> /\ loading' = [loading EXCEPT ![t] = l]
    BY DEF Keep
<1>2. compiled' = [key \in DOMAIN kept \cup {was.key} |-> IF key = was.key THEN was.answer ELSE kept[key]]
    BY DEF Keep
<1>3. KeptIsTheFile /\ LoadStands(was)
    BY DEF ScriptsInv
<1>4. DOMAIN kept \subseteq DOMAIN compiled /\ \A key \in DOMAIN kept : kept[key] = compiled[key]
    OBVIOUS
<1>5. /\ DOMAIN was = {"step", "path", "key", "answer", "since"} /\ was.since \in 0..saves
      /\ was.path \in Paths /\ was.key[1] = was.path /\ was.key[3] \in 0..clock
      /\ Exists(was.path) /\ was.key = CacheKey(was.path) => was.answer = Compile(folder[was.path].source)
      /\ was.since = saves /\ Exists(was.path) /\ folder[was.path].readable => was.answer = Compile(folder[was.path].source)
    BY <1>1, <1>3 DEF LoadStands
<1>6. /\ l.step = "told" /\ l.path = was.path /\ l.since = was.since /\ l.answer = was.answer
      /\ DOMAIN l = {"step", "path", "key", "answer", "since"}
    BY <1>5
<1> HIDE DEF l, was, kept
<1>7. LoadStands(l)
    BY <1>5, <1>6 DEF LoadStands
<1>8. KeptIsTheFile'
  <2>1. DOMAIN compiled' = DOMAIN kept \cup {was.key} /\ compiled'[was.key] = was.answer
        /\ \A key \in DOMAIN kept : key # was.key => compiled'[key] = kept[key]
      BY <1>2
  <2>2. \A key \in DOMAIN compiled' : key[3] \in 0..clock'
      BY <1>1, <1>3, <1>4, <1>5, <2>1 DEF KeptIsTheFile
  <2>3. ASSUME NEW p \in Paths, Exists(p), CacheKey(p) \in DOMAIN compiled'
        PROVE  compiled'[CacheKey(p)] = Compile(folder[p].source)
    <3>1. CASE CacheKey(p) = was.key
      <4>1. p = was.path
          BY <1>5, <3>1 DEF CacheKey
      <4> QED BY <1>5, <2>1, <2>3, <3>1, <4>1
    <3>2. CASE CacheKey(p) # was.key
        BY <1>3, <1>4, <2>1, <2>3, <3>2 DEF KeptIsTheFile
    <3> QED BY <3>1, <3>2
  <2>4. \A p \in Paths : Exists(p)' = Exists(p) /\ CacheKey(p)' = CacheKey(p)
      BY <1>1 DEF Exists, CacheKey, Stamp
  <2> QED BY <1>1, <2>2, <2>3, <2>4 DEF KeptIsTheFile
<1> QED BY <1>1, <1>7, <1>8, GoesOn

LEMMA ToldKeeps ==
    ASSUME ScriptsInv, NEW t \in Loaders, Told(t)
    PROVE  ScriptsInv'
<1>1. UNCHANGED <<folder, clock, saves, compiled>> /\ loading' = [loading EXCEPT ![t] = Resting]
    BY DEF Told
<1>2. KeptIsTheFile /\ saves \in Nat
    BY DEF ScriptsInv
<1>3. LoadStands(Resting)
    BY <1>2 DEF LoadStands, Resting
<1>4. KeptIsTheFile'
    BY <1>1, <1>2 DEF KeptIsTheFile, Exists, CacheKey, Stamp
<1> QED BY <1>1, <1>3, <1>4, GoesOn

\* What is kept of a stamp is what the file that bears it holds, where dates never come twice.
THEOREM ScriptsInductive == ASSUME ~Coarse PROVE ScriptsSpec => []ScriptsInv
<1>1. ScriptsInit => ScriptsInv
  <2> SUFFICES ASSUME ScriptsInit PROVE ScriptsInv
      OBVIOUS
  <2>1. /\ folder = [p \in Paths |-> Absent] /\ clock = 1 /\ saves = 0
        /\ compiled = <<>> /\ loading = [t \in Loaders |-> Resting]
      BY DEF ScriptsInit
  <2>2. \A p \in Paths : ~Exists(p)
      BY <2>1 DEF Exists
  <2>3. LoadStands(Resting)
      BY <2>1 DEF LoadStands, Resting
  <2>4. \A t \in Loaders : LoadStands(loading[t])
      BY <2>1, <2>3
  <2>5. DatesArePast /\ KeptIsTheFile
      BY <2>1, <2>2 DEF DatesArePast, KeptIsTheFile
  <2> QED BY <2>1, <2>4, <2>5 DEF ScriptsInv
<1>2. ScriptsInv /\ [ScriptsNext]_scriptsVars => ScriptsInv'
  <2> SUFFICES ASSUME ScriptsInv, [ScriptsNext]_scriptsVars PROVE ScriptsInv'
      OBVIOUS
  <2>1. ASSUME NEW p \in Paths, NEW content \in Contents, Save(p, content) PROVE ScriptsInv'
      BY <2>1, SaveKeeps
  <2>2. ASSUME NEW p \in Paths, Lock(p) \/ Delete(p) PROVE ScriptsInv'
      BY <2>2, LockKeeps, DeleteKeeps
  <2>3. CASE SeedDefaults
      BY <2>3, SeedKeeps
  <2>4. ASSUME NEW t \in Loaders, NEW stem \in Stems, StartLoad(t, stem) PROVE ScriptsInv'
      BY <2>4, StartKeeps
  <2>5. ASSUME NEW t \in Loaders, ReadSource(t) \/ Keep(t) \/ Told(t) PROVE ScriptsInv'
      BY <2>5, ReadKeeps, KeepKeeps, ToldKeeps
  <2>6. CASE UNCHANGED folderVars
    <3>1. UNCHANGED <<folder, clock, saves, compiled, loading, loads>>
        BY <2>6 DEF folderVars
    <3>2. DatesArePast' /\ KeptIsTheFile'
        BY <3>1 DEF ScriptsInv, DatesArePast, KeptIsTheFile, Exists, CacheKey, Stamp
    <3>3. ASSUME NEW t \in Loaders PROVE LoadStands(loading[t])'
      <4>1. PICK l : l = loading[t]
          OBVIOUS
      <4>2. LoadStands(l)'
          BY <3>1, <4>1, StandsStill DEF ScriptsInv
      <4> QED BY <3>1, <4>1, <4>2 DEF LoadStands
    <3> QED BY <3>1, <3>2, <3>3 DEF ScriptsInv
  <2>7. CASE FolderNext
      BY <2>1, <2>2, <2>3, <2>4, <2>5, <2>7 DEF FolderNext
  <2> QED BY <2>6, <2>7 DEF ScriptsNext, scriptsVars
<1> QED BY <1>1, <1>2, PTL DEF ScriptsSpec

\* A load answers with the file as it stands, if nobody touched it since the load began, whatever
\* other threads keep and however small the cache is (store.rs: load).
THEOREM LoadIsTheFileHolds == ASSUME ~Coarse PROVE ScriptsSpec => []LoadIsTheFile
<1>1. ScriptsInv => LoadIsTheFile
    BY DEF ScriptsInv, LoadStands, LoadIsTheFile
<1> QED BY <1>1, ScriptsInductive, PTL
==============================================================================
