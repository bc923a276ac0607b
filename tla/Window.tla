------------------------------- MODULE Window -------------------------------
(***************************************************************************)
(* The window and the three threads that work for it: RenameItApp::show,   *)
(* frame by frame, with the ListingWorker that reads a folder, the         *)
(* PreviewWorker that plans over what was read, and the ApplyWorker that   *)
(* carries a plan out.  Requests and answers travel through channels; what *)
(* a frame holds may be older than what it last asked for, and the rows on *)
(* screen older than the files.                                            *)
(*                                                                         *)
(* "volume" counts the changes jobs have made to the files: rows are up to *)
(* date when they were read after the last of them.  A plan is the rows,   *)
(* the selection and the setup (pipeline, settings, answers) it was made   *)
(* of.                                                                     *)
(***************************************************************************)
EXTENDS Integers, Sequences

CONSTANTS
    None,       \* nothing there
    Sources,    \* what can be listed: folders, a Free Select set
    Pipelines,  \* the card stacks the user may set up
    Consents,   \* those of them whose plan cannot be taken back
    Scopes,     \* what may be selected
    All,        \* nothing selected: every row
    OpsPerJob,  \* bound: changes a job makes
    MaxInputs,  \* bound: things the user does
    MaxFaults   \* bound: panics, refused calls, folders that cannot be read

ASSUME WindowAssumption ==
    /\ All \in Scopes /\ Consents \subseteq Pipelines
    /\ OpsPerJob \in Nat \ {0} /\ MaxInputs \in Nat /\ MaxFaults \in Nat
    /\ None \notin Nat \cup {"Run", "Undo", "Rollback"}

VARIABLES
    frame,         \* the next thing the frame does
    volume,        \* how many changes jobs have made
    \* on screen
    source,        \* what the user wants listed
    setup,         \* the card stack and the running counter
    rows,          \* the listing: of what, of when, and whether it could be read
    scope,         \* the selection
    simulate,      \* the Simulate switch
    simulation,    \* the plan in the simulation window
    \* what is owed
    relistWanted, needsPreview, runWhenReady, realOnce,
    confirming,    \* the preview in the dialog that asks for consent
    consentedFor,  \* the generation it was given for
    batches,       \* the Undo list
    unfinished,    \* the recovery banner has something to roll back
    \* the workers, each with its channels
    listing, preview, job,
    \* history, read by no action of the program
    asked,         \* what a deferred run, or one asked about, was pressed on
    agreed,        \* the plan the user last consented to
    stopped,       \* Cancel was pressed for the job that is out
    astray,        \* F2's journal failed
    inputs, faults

screen == <<source, setup, rows, scope, simulate, simulation>>
owed == <<relistWanted, needsPreview>>
running == <<runWhenReady, realOnce, confirming, consentedFor, job, asked, agreed, stopped>>
past == <<batches, unfinished>>
troubles == <<faults, astray>>
vars == <<frame, volume, screen, owed, running, past, listing, preview, inputs, troubles>>

Plan == [rows |-> rows, scope |-> scope, setup |-> setup]

Init ==
    /\ frame = "polls" /\ volume = 0
    /\ source \in Sources
    /\ setup \in [cards : Pipelines, start : {1}]
    /\ rows = [of |-> source, seen |-> 0, ok |-> FALSE]
    /\ scope = All /\ simulate \in BOOLEAN /\ simulation = None
    /\ relistWanted = TRUE /\ needsPreview = FALSE
    /\ runWhenReady = FALSE /\ realOnce = FALSE
    /\ confirming = None /\ consentedFor = None
    /\ batches = 0 /\ unfinished = FALSE
    /\ listing = [generation |-> 0, answered |-> 0, queue |-> <<>>, work |-> None, out |-> <<>>]
    /\ preview = [generation |-> 0, answered |-> 0, queue |-> <<>>, work |-> None, out |-> <<>>,
                  ready |-> None]
    /\ job = [busy |-> None, work |-> None, out |-> None, cancel |-> FALSE]
    /\ asked = None /\ agreed = None /\ stopped = FALSE
    /\ astray = FALSE /\ inputs = 0 /\ faults = 0

Fault == faults < MaxFaults /\ faults' = faults + 1
NoFault == faults' = faults

-----------------------------------------------------------------------------
(* ListingWorker.                                                          *)

\* A request, from the frame.
Relisted(l) ==
    [l EXCEPT !.generation = @ + 1,
              !.queue = Append(@, [generation |-> l.generation + 1, of |-> source])]

\* The newest request in the channel is the one that is walked.
ListingTakes ==
    /\ listing.work = None /\ listing.queue # <<>>
    /\ LET newest == listing.queue[Len(listing.queue)] IN
       listing' = [listing EXCEPT !.queue = <<>>,
                      !.work = [generation |-> newest.generation,
                                rows |-> [of |-> newest.of, seen |-> volume, ok |-> TRUE]]]
    /\ NoFault

\* A walk that was superseded, or that is abandoned because it was, is no answer.
ListingAnswers ==
    /\ listing.work # None
    /\ \E readable \in BOOLEAN :
          /\ IF readable THEN NoFault ELSE Fault
          /\ listing' = [listing EXCEPT !.work = None,
                            !.out = IF listing.work.generation = listing.generation
                                    THEN Append(@, [listing.work EXCEPT !.rows.ok = readable])
                                    ELSE @]

\* poll: the answer to the newest request, and no other.
IsAwaited(l, answer) ==
    answer.generation >= l.generation /\ answer.generation > l.answered

Updating == relistWanted \/ listing.answered < listing.generation

-----------------------------------------------------------------------------
(* PreviewWorker.                                                          *)

PreviewTakes ==
    /\ preview.work = None /\ preview.queue # <<>>
    /\ preview' = [preview EXCEPT !.queue = <<>>, !.work = preview.queue[Len(preview.queue)]]
    /\ NoFault

\* The engine panics on a listing, or plans it.
PreviewAnswers ==
    /\ preview.work # None
    /\ \E plan \in {preview.work.plan, None} :
          /\ IF plan = None THEN Fault ELSE NoFault
          /\ preview' = [preview EXCEPT !.work = None,
                            !.out = Append(@, [preview.work EXCEPT !.plan = plan])]

\* What is known once the channel is empty: a failure is an answer too.
\* mutant: only a plan is
PlanDelivered(p) ==
    LET last == p.out[Len(p.out)] IN
    IF p.out = <<>> \/ last.plan = None THEN [p EXCEPT !.out = <<>>]
    ELSE [p EXCEPT !.out = <<>>, !.answered = last.generation, !.ready = last]
Delivered(p) ==
    LET last == p.out[Len(p.out)] IN
    IF p.out = <<>> THEN p
    ELSE [p EXCEPT !.out = <<>>, !.answered = last.generation,
                   !.ready = IF last.plan = None THEN None ELSE last]

IsStale == preview.answered < preview.generation  \* mutant: what was not asked for yet is forgotten
Stale == needsPreview \/ preview.answered < preview.generation

-----------------------------------------------------------------------------
(* ApplyWorker.                                                            *)

\* One at a time; the flag of the last job is taken down first.
SentAsIs(work) == [job EXCEPT !.busy = work.kind, !.work = work]  \* mutant: it stays up
Sent(work) == [job EXCEPT !.busy = work.kind, !.work = work, !.cancel = FALSE]

JobChangesAFile ==
    /\ job.work # None /\ job.work.left > 0
    /\ ~(job.work.kind = "Run" /\ job.cancel)
    /\ job' = [job EXCEPT !.work.left = @ - 1]
    /\ volume' = volume + (IF job.work.real THEN 1 ELSE 0)
    /\ NoFault

Lands(result, cancelled) ==
    job' = [job EXCEPT !.work = None,
               !.out = [kind |-> job.work.kind, real |-> job.work.real, plan |-> job.work.plan,
                        result |-> result, cancelled |-> cancelled]]

\* Carried out, or stopped with a report of what was done; the journal failed
\* (ExecError::Interrupted); nothing was touched (any other); or it panicked.
JobLands ==
    /\ job.work # None
    /\ UNCHANGED volume
    /\ LET kind == job.work.kind IN
       \/ job.work.left = 0 /\ Lands("report", FALSE) /\ NoFault
       \/ job.work.left > 0 /\ kind = "Run" /\ job.cancel /\ Lands("report", TRUE) /\ NoFault
       \/ job.work.left > 0 /\ Lands("report", FALSE) /\ Fault
       \/ kind = "Run" /\ job.work.real /\ Lands("interrupted", FALSE) /\ Fault
       \/ job.work.left = OpsPerJob /\ kind # "Rollback" /\ Lands("untouched", FALSE) /\ Fault
       \/ Lands("panicked", FALSE) /\ Fault

Worker ==
    /\ \/ (ListingTakes \/ ListingAnswers) /\ UNCHANGED <<preview, running, volume>>
       \/ (PreviewTakes \/ PreviewAnswers) /\ UNCHANGED <<listing, running, volume>>
       \/ /\ JobChangesAFile \/ JobLands
          /\ UNCHANGED <<listing, preview, runWhenReady, realOnce, confirming, consentedFor,
                         asked, agreed, stopped>>
    /\ UNCHANGED <<frame, screen, owed, past, astray, inputs>>

-----------------------------------------------------------------------------
(* The beginning of a frame: what has landed.                              *)

\* What a job that landed leaves to be read again.
RelistsOnReport(o) == o.result = "report" /\ o.real  \* mutant: no report, nothing to read
Relists(o) == o.result = "panicked" \/ (o.result # "untouched" /\ o.real)

RunLanded(o) ==
    /\ simulation' = IF o.result = "report" /\ ~o.real THEN o.plan ELSE simulation
    \* the running counter goes on, after a whole run only
    /\ \E start \in {setup.start, setup.start + 1} :
          /\ start # setup.start => o.result = "report" /\ o.real /\ ~o.cancelled
          /\ setup' = [setup EXCEPT !.start = start]
    \* the Undo list takes a batch that has something to put back
    /\ \E undoable \in {0, 1} :
          /\ undoable = 1 => o.result = "report" /\ o.real
          /\ batches' = batches + undoable
    \* the journals are looked through again
    /\ \E found \in BOOLEAN :
          /\ o.result \in {"report", "untouched"} => found = unfinished
          /\ unfinished' = found

UndoLanded(o) ==
    /\ UNCHANGED <<simulation, setup>>
    /\ unfinished' \in IF o.result = "panicked" THEN BOOLEAN ELSE {unfinished}
    /\ batches' \in IF o.result = "report" THEN {batches - 1}
                    ELSE IF o.result = "untouched" THEN {batches, batches - 1} ELSE {batches}

\* It stops at the first batch that cannot be rolled back.
RollbackLanded(o) ==
    /\ UNCHANGED <<simulation, setup, batches>>
    /\ unfinished' \in BOOLEAN

OnlyRead == [job EXCEPT !.out = None]  \* mutant: read, and still out
Freed == [job EXCEPT !.busy = None, !.out = None]

\* logic_pass: the job that landed.
PollJobs ==
    IF job.out = None
    THEN UNCHANGED <<job, simulation, setup, past>>
    ELSE /\ job' = Freed
         /\ \/ job.out.kind = "Run" /\ RunLanded(job.out)
            \/ job.out.kind = "Undo" /\ UndoLanded(job.out)
            \/ job.out.kind = "Rollback" /\ RollbackLanded(job.out)

\* drain_listing_request: in the frame that asked for it.
Drained(wanted) == IF wanted THEN Relisted(listing) ELSE listing

\* A relist drops the selection, whose rows were the old ones.
PollListing(l) ==
    LET awaited == {i \in DOMAIN l.out : IsAwaited(l, l.out[i])} IN
    \/ /\ awaited = {}
       /\ listing' = [l EXCEPT !.out = <<>>]
       /\ UNCHANGED <<rows, scope, needsPreview>>
    \/ \E i \in awaited :
          /\ \A j \in awaited : j <= i
          /\ listing' = [l EXCEPT !.out = <<>>, !.answered = l.out[i].generation]
          /\ rows' = l.out[i].rows /\ scope' = All /\ needsPreview' = TRUE

Polls ==
    /\ frame = "polls" /\ frame' = "keys"
    /\ PollJobs
    /\ PollListing(Drained(relistWanted \/ (job.out # None /\ Relists(job.out))))
    /\ relistWanted' = FALSE
    /\ preview' = Delivered(preview)
    /\ UNCHANGED <<volume, source, simulate, runWhenReady, realOnce, confirming, consentedFor,
                   asked, agreed, stopped, inputs, troubles>>

-----------------------------------------------------------------------------
(* run(): every way a run starts.                                          *)

AsIs ==
    [dialog |-> confirming, consent |-> consentedFor, real |-> realOnce,
     deferred |-> runWhenReady, agreed |-> agreed]

Owes(as, what) ==
    /\ confirming' = as.dialog /\ consentedFor' = as.consent
    /\ realOnce' = as.real /\ runWhenReady' = as.deferred
    /\ agreed' = as.agreed /\ asked' = what
    /\ UNCHANGED <<job, stopped>>

\* Rename now was for this press only.
RefusedYetReal(as, what) == Owes([as EXCEPT !.deferred = FALSE], what)  \* mutant
Refused(as, what) == Owes([as EXCEPT !.deferred = FALSE, !.real = FALSE], what)

Blocked == preview.ready # None => ~preview.ready.plan.rows.ok

ForReal(as) == as.real \/ ~simulate
AnyConsent(as) == as.consent # None  \* mutant: a flag, not a generation
Consented(as) == as.consent = preview.ready.generation
NeedsConsent(as) ==
    ForReal(as) /\ preview.ready.plan.setup.cards \in Consents /\ ~Consented(as)

StartsRun(as, what) ==
    /\ job.busy = None
    /\ job' = Sent([kind |-> "Run", plan |-> preview.ready.plan, real |-> ForReal(as),
                    left |-> OpsPerJob, asked |-> what, agreed |-> as.agreed])
    /\ confirming' = None /\ consentedFor' = None
    /\ realOnce' = FALSE /\ runWhenReady' = as.deferred
    /\ agreed' = None /\ asked' = what /\ stopped' = FALSE

\* as: what is owed by now; what: what the press was made on.
Run(as, what) ==
    \/ /\ as.dialog # None
       /\ Owes([as EXCEPT !.real = FALSE], asked)
    \/ /\ as.dialog = None /\ Updating
       /\ Refused(as, what)
    \/ /\ as.dialog = None /\ ~Updating /\ Stale
       /\ Owes([as EXCEPT !.deferred = TRUE], what)
    \/ /\ as.dialog = None /\ ~Updating /\ ~Stale /\ Blocked
       /\ Refused(as, what)
    \/ /\ as.dialog = None /\ ~Updating /\ ~Stale /\ ~Blocked
       /\ \/ NeedsConsent(as) /\ Owes([as EXCEPT !.dialog = preview.ready], what)
          \/ ~NeedsConsent(as) /\ StartsRun(as, what)
          \/ /\ ~NeedsConsent(as) /\ job.busy # None
             /\ Owes([as EXCEPT !.consent = None, !.real = FALSE], what)

Pressed == [rows |-> rows, simulated |-> None]

\* An undo or a rollback: from its journal, whatever is on screen.
StartsJob(kind) ==
    /\ job.busy = None
    /\ job' = Sent([kind |-> kind, plan |-> None, real |-> TRUE, left |-> OpsPerJob,
                    asked |-> None, agreed |-> None])
    /\ stopped' = FALSE
    /\ UNCHANGED <<runWhenReady, realOnce, confirming, consentedFor, asked, agreed>>

-----------------------------------------------------------------------------
(* The rest of the frame: the keys, the run that waited, the window.       *)

Input == inputs < MaxInputs /\ inputs' = inputs + 1
NoInput == inputs' = inputs

\* Files dropped on the window, whatever is in front of it.
Drops ==
    /\ \E dropped \in Sources \ {source} : source' = dropped
    /\ relistWanted' = TRUE /\ needsPreview' = TRUE
    /\ UNCHANGED running

Keys ==
    /\ frame = "keys" /\ frame' = "deferred"
    /\ \/ NoInput /\ UNCHANGED <<source, owed, running>>
       \/ Input /\ Drops
       \/ /\ Input /\ confirming = None
          /\ UNCHANGED <<source, needsPreview>>
          /\ \/ Run(AsIs, Pressed) /\ UNCHANGED relistWanted                       \* F5
             \/ relistWanted' = TRUE /\ UNCHANGED running                          \* F9
             \/ batches > 0 /\ StartsJob("Undo") /\ UNCHANGED relistWanted         \* F4
    /\ UNCHANGED <<volume, setup, rows, scope, simulate, simulation, past, listing, preview,
                   troubles>>

Deferred ==
    /\ frame = "deferred" /\ frame' = "window"
    /\ IF runWhenReady /\ ~Stale
       THEN Run([AsIs EXCEPT !.deferred = FALSE], asked)
       ELSE UNCHANGED running
    /\ UNCHANGED <<volume, screen, owed, past, listing, preview, inputs, troubles>>

\* The dialogs take the pointer from all that is behind them.
ConfirmDialog ==
    /\ confirming # None
    /\ \/ Run([AsIs EXCEPT !.dialog = None, !.consent = confirming.generation,
                           !.agreed = confirming.plan], asked)
       \/ Owes([AsIs EXCEPT !.dialog = None, !.consent = None, !.real = FALSE,
                            !.deferred = FALSE], asked)
    /\ UNCHANGED <<volume, screen, owed, past, troubles>>

SimulationWindow ==
    /\ confirming = None /\ simulation # None
    /\ simulation' = None
    /\ \/ Run([AsIs EXCEPT !.real = TRUE], [rows |-> rows, simulated |-> simulation])
       \/ UNCHANGED running
    /\ UNCHANGED <<volume, source, setup, rows, scope, simulate, owed, past, troubles>>

\* A card is edited, a preset loaded, and run as soon as it has a preview.
EditsSetup ==
    /\ \E cards \in Pipelines \ {setup.cards} : setup' = [setup EXCEPT !.cards = cards]
    /\ needsPreview' = TRUE
    /\ \/ UNCHANGED running
       \/ Owes([AsIs EXCEPT !.deferred = TRUE], Pressed)
    /\ UNCHANGED <<volume, source, rows, scope, simulate, simulation, relistWanted, past, troubles>>

Selects ==
    /\ \E chosen \in Scopes \ {scope} : scope' = chosen
    /\ needsPreview' = TRUE
    /\ UNCHANGED <<volume, source, setup, rows, simulate, simulation, relistWanted, running, past, troubles>>

ChangesSource ==
    /\ \E chosen \in Sources \ {source} : source' = chosen
    /\ relistWanted' = TRUE
    /\ UNCHANGED <<volume, setup, rows, scope, simulate, simulation, needsPreview, running, past, troubles>>

SwitchesSimulate ==
    /\ simulate' = ~simulate
    /\ UNCHANGED <<volume, source, setup, rows, scope, simulation, owed, running, past, troubles>>

Buttons ==
    /\ UNCHANGED <<volume, screen, owed, past, troubles>>
    /\ \/ job.busy = None /\ ~Updating /\ Run(AsIs, Pressed)           \* Rename
       \/ batches > 0 /\ StartsJob("Undo")                              \* Undo
       \/ unfinished /\ StartsJob("Rollback")                           \* Roll back
       \/ /\ job.busy = "Run" /\ job' = [job EXCEPT !.cancel = TRUE]    \* Cancel
          /\ stopped' = TRUE
          /\ UNCHANGED <<runWhenReady, realOnce, confirming, consentedFor, asked, agreed>>

\* F2: one file, now, on this thread; its journal may fail as any other.
RenamesOne ==
    /\ job.busy = None /\ ~Updating /\ rows.ok
    /\ \/ simulate /\ NoFault /\ UNCHANGED <<volume, relistWanted, past, astray>>
       \/ /\ ~simulate /\ NoFault
          /\ volume' = volume + 1 /\ batches' = batches + 1
          /\ relistWanted' = TRUE /\ UNCHANGED <<unfinished, astray>>
       \/ /\ ~simulate /\ Fault
          /\ volume' \in {volume, volume + 1} /\ astray' = TRUE
          /\ UNCHANGED <<relistWanted, past>>
    /\ UNCHANGED <<screen, needsPreview, running>>

UserInput ==
    \/ ConfirmDialog
    \/ SimulationWindow
    \/ confirming = None /\ simulation = None
       /\ (EditsSetup \/ Selects \/ ChangesSource \/ SwitchesSimulate \/ Buttons \/ RenamesOne)

ShowsWindow ==
    /\ frame = "window" /\ frame' = "requests"
    /\ \/ NoInput /\ UNCHANGED <<volume, screen, owed, running, past, troubles>>
       \/ Input /\ UserInput
    /\ UNCHANGED <<listing, preview>>

\* drain_listing_request and request_preview.
SendsRequests ==
    /\ frame = "requests" /\ frame' = "polls"
    /\ listing' = IF relistWanted THEN Relisted(listing) ELSE listing
    /\ relistWanted' = FALSE
    /\ preview' = IF ~needsPreview THEN preview
                  ELSE [preview EXCEPT !.generation = @ + 1,
                          !.queue = Append(@, [generation |-> preview.generation + 1,
                                               plan |-> Plan])]
    /\ needsPreview' = FALSE
    /\ UNCHANGED <<volume, screen, running, past, inputs, troubles>>

Frame == Polls \/ Keys \/ Deferred \/ ShowsWindow \/ SendsRequests

Next == Frame \/ Worker

Spec == Init /\ [][Next]_vars

\* Each thread goes on with what it has been given; an answer repaints the
\* window, so that a frame follows it.
FairSpec == Spec /\ WF_vars(Frame) /\ WF_vars(ListingTakes /\ Worker)
                 /\ WF_vars(ListingAnswers /\ Worker) /\ WF_vars(PreviewTakes /\ Worker)
                 /\ WF_vars(PreviewAnswers /\ Worker)
                 /\ WF_vars((JobChangesAFile \/ JobLands) /\ Worker)
-----------------------------------------------------------------------------
(* Properties.                                                             *)

Listings == [of : Sources, seen : Nat, ok : BOOLEAN]
Setups == [cards : Pipelines, start : Nat]
Plans == [rows : Listings, scope : Scopes, setup : Setups]
Wanted == [generation : Nat, of : Sources]
Walked == [generation : Nat, rows : Listings]
Planned == [generation : Nat, plan : Plans]
Presses == [rows : Listings, simulated : Plans \cup {None}]
Kinds == {"Run", "Undo", "Rollback"}
Sendings == [kind : Kinds, plan : Plans \cup {None}, real : BOOLEAN, left : 0 .. OpsPerJob,
             asked : Presses \cup {None}, agreed : Plans \cup {None}]
Outcomes == [kind : Kinds, plan : Plans \cup {None}, real : BOOLEAN,
             result : {"report", "interrupted", "untouched", "panicked"}, cancelled : BOOLEAN]

ListingType == [generation : Nat, answered : Nat, queue : Seq(Wanted),
                work : Walked \cup {None}, out : Seq(Walked)]
PreviewType == [generation : Nat, answered : Nat, queue : Seq(Planned),
                work : Planned \cup {None},
                out : Seq([generation : Nat, plan : Plans \cup {None}]),
                ready : Planned \cup {None}]
JobType == [busy : Kinds \cup {None}, work : Sendings \cup {None},
            out : Outcomes \cup {None}, cancel : BOOLEAN]

ScreenTyped ==
    /\ source \in Sources /\ setup \in Setups /\ rows \in Listings /\ scope \in Scopes
    /\ simulate \in BOOLEAN /\ simulation \in Plans \cup {None}

RunningTyped ==
    /\ runWhenReady \in BOOLEAN /\ realOnce \in BOOLEAN
    /\ confirming \in Planned \cup {None} /\ consentedFor \in Nat \cup {None}
    /\ agreed \in Plans \cup {None} /\ asked \in Presses \cup {None}

\* What is on screen, in the channels and with the workers (RenameItApp and the
\* three workers).
TypeOK ==
    /\ frame \in {"polls", "keys", "deferred", "window", "requests"}
    /\ volume \in Nat /\ batches \in Int
    /\ ScreenTyped /\ RunningTyped
    /\ relistWanted \in BOOLEAN /\ needsPreview \in BOOLEAN /\ astray \in BOOLEAN
    /\ listing \in ListingType /\ preview \in PreviewType /\ job \in JobType

Starts == job.busy = None /\ job'.busy = "Run"

\* A run is of the rows, the selection and the setup on screen when it starts,
\* never of a plan that is a keystroke, a relist or a click behind (run, P35).
RunIsOfTheScreen == [][Starts => job'.work.plan = Plan /\ rows.of = source]_vars

\* ... and of rows that were read after the last change this program made: the
\* same plan is never applied to the files it has already renamed.
RunIsOfTheVolume == [][Starts => job'.work.plan.rows.seen = volume]_vars

\* It is so for the changes of the thread's jobs, however they end, and of F2 as
\* long as its journal holds.
JobsAreSeen == [][Starts /\ ~astray => job'.work.plan.rows.seen = volume]_vars

\* A run that cannot be taken back is of the very plan the user consented to,
\* however many previews have been answered since (consented_for).
ConsentIsForThePlan ==
    [][Starts /\ job'.work.real /\ job'.work.plan.setup.cards \in Consents
         => job'.work.agreed = job'.work.plan]_vars

\* What is done is what the user saw and said yes to.
RunIsAsAgreed == RunIsOfTheScreen /\ ConsentIsForThePlan

\* Rename now is for one run: the switch is overridden only while that run is
\* put off or asked about (P123).
OverrideIsPending == realOnce => runWhenReady \/ confirming # None

\* A run that says it was stopped is one the user stopped, not one that found the
\* flag of the run before it.
CancelIsForThisRun == job.out # None /\ job.out.cancelled => stopped

\* Once the user stops, the window catches up: no answer is waited for that will
\* never come, panics and unreadable folders included.
CaughtUp == ~Updating /\ ~Stale /\ job.busy = None
CatchesUp == <>[]CaughtUp

\* A run is of the listing it was asked of: "Refused rather than deferred: a
\* deferred run would wait for the new listing and apply the pipeline a second
\* time to the renamed files."
RunIsOfTheListingPressedOn ==
    [][Starts => job'.work.asked.rows = job'.work.plan.rows]_vars

\* Rename now in the simulation window: "the same plan, for real".
RenameNowIsWhatWasSimulated ==
    [][Starts /\ job'.work.asked.simulated # None
         => job'.work.plan = job'.work.asked.simulated]_vars

-----------------------------------------------------------------------------
(* The inductive invariant behind RunIsAsAgreed and JobsAreSeen.           *)

\* One job at a time; an undo has a batch to take off the list.
JobInv ==
    /\ job.busy = None => job.work = None /\ job.out = None
    /\ job.work # None => job.out = None /\ job.work.kind = job.busy
    /\ job.out # None => job.out.kind = job.busy
    /\ batches >= (IF job.busy = "Undo" THEN 1 ELSE 0)

\* What was asked for last is of what is on screen, wherever it has got to.
OfTheSource(generation, of) ==
    /\ generation <= listing.generation
    /\ generation = listing.generation /\ ~relistWanted => of = source

ListingInv ==
    /\ listing.answered <= listing.generation
    /\ \A i \in DOMAIN listing.queue :
          OfTheSource(listing.queue[i].generation, listing.queue[i].of)
    /\ listing.work # None => OfTheSource(listing.work.generation, listing.work.rows.of)
    /\ \A i \in DOMAIN listing.out :
          OfTheSource(listing.out[i].generation, listing.out[i].rows.of)
    /\ ~Updating => rows.of = source

\* Requests are answered in their order;
InOrder ==
    /\ preview.answered <= preview.generation
    /\ \A i \in DOMAIN preview.out :
          preview.answered < preview.out[i].generation /\ preview.out[i].generation <= preview.generation
    /\ preview.work # None =>
          /\ preview.answered < preview.work.generation
          /\ preview.work.generation <= preview.generation
          /\ \A i \in DOMAIN preview.out : preview.out[i].generation < preview.work.generation
    /\ \A j \in DOMAIN preview.queue :
          /\ preview.answered < preview.queue[j].generation
          /\ preview.queue[j].generation <= preview.generation
          /\ \A i \in DOMAIN preview.out : preview.out[i].generation < preview.queue[j].generation
          /\ preview.work # None => preview.work.generation < preview.queue[j].generation
    /\ preview.ready # None =>
          preview.ready.generation = preview.answered /\ preview.ready.plan # None

\* the newest, unless another is owed, is of what is on screen.
Newest(item) == item.generation = preview.generation => item.plan \in {Plan, None}

NewestIsOfTheScreen ==
    ~Updating /\ ~needsPreview =>
        /\ \A i \in DOMAIN preview.queue : Newest(preview.queue[i])
        /\ preview.work # None => Newest(preview.work)
        /\ \A i \in DOMAIN preview.out : Newest(preview.out[i])
        /\ preview.ready # None => Newest(preview.ready)

\* No job has touched a file since its outcome was last read.
Untouched ==
    \/ job.busy = None
    \/ job.work # None /\ (~job.work.real \/ job.work.left = OpsPerJob)
    \/ job.out # None /\ ~Relists(job.out)

UpToDate(item) == item.generation = listing.generation => item.rows.seen = volume

SeenInv ==
    ~astray /\ Untouched =>
        /\ ~Updating => rows.seen = volume
        /\ ~relistWanted =>
              /\ listing.work # None => UpToDate(listing.work)
              /\ \A i \in DOMAIN listing.out : UpToDate(listing.out[i])

\* Consent is for one plan: a later one has another generation.
ConsentIsFor(generation, plan) ==
    /\ generation <= preview.answered
    /\ preview.ready # None /\ preview.ready.generation = generation => preview.ready.plan = plan

ConsentInv ==
    /\ confirming # None => ConsentIsFor(confirming.generation, confirming.plan)
    /\ consentedFor # None => ConsentIsFor(consentedFor, agreed)

WindowInv ==
    TypeOK /\ JobInv /\ ListingInv /\ InOrder /\ NewestIsOfTheScreen /\ SeenInv /\ ConsentInv
=============================================================================
