------------------------------- MODULE Leaving -------------------------------
(***************************************************************************)
(* How the window comes to close, and what the updater does on the way out *)
(* (ren-gui, app.rs and viewmodel/update.rs).  A close is held back while  *)
(* a job is out; the updater checks once a day, downloads, and has its     *)
(* installer started by the user, or by the Automatic mode as the window   *)
(* closes.  What it tried, and when, must last from one session to the     *)
(* next, or an installer that fails would run on every exit.               *)
(***************************************************************************)
EXTENDS Integers, Sequences, FiniteSets

CONSTANTS
    None,
    Installs,       \* how the copy came to be here
    Day, RetryAfter,
    Clocks,         \* what the clock can say
    Newest,         \* the newest release there will be
    MaxPresses, MaxTicks, MaxKills      \* bounds of the model

ASSUME LeavingAssumption ==
    /\ Clocks \subseteq Int /\ RetryAfter \in Int /\ Newest \in Nat
    /\ None \notin Int /\ None \notin [v : 1..Newest, at : Int]

VARIABLES
    install,        \* "portable", "user", "machine"
    up,             \* the program runs
    asked,          \* the window has been asked to close; the next frame hears
    held,           \* a close held back for a job (close_when_idle)
    job,            \* "none", "run", "undo"
    waiting,        \* a run waits for its plan (run_when_ready)
    mode, lastCheck, attempt,
    status,         \* [s, v]
    installWhenReady,
    ready,          \* the verified installer on the disk: its version
    request,        \* what the worker was asked
    answer,         \* and what it answered
    stored,         \* the settings as they were last saved
    build, newest,  \* the version installed, and the newest released
    installers,     \* the installers running: their versions
    clock,
    byUser,         \* versions the user has had installed in this session
    lastAuto,       \* version -> the stamp its last automatic install went by
    tooSoon, twice, cut,    \* what must not happen
    presses, ticks, kills

window  == <<up, asked, held, job, waiting>>
updater == <<mode, lastCheck, attempt, status, installWhenReady, ready, request, answer>>
outside == <<install, stored, build, newest, installers, clock>>
ghosts  == <<byUser, lastAuto, tooSoon, twice, cut>>
bounds  == <<presses, ticks, kills>>
vars    == <<window, updater, outside, ghosts, bounds>>

Modes    == {"manual", "notify", "automatic"}
Versions == 1..Newest
Idle     == [s |-> "idle", v |-> None]
Is(s)    == status.s = s

-----------------------------------------------------------------------------
(* The rules of the updater.                                               *)

CheckDue(last, now) == last = None \/ (last # None => now - last >= Day \/ last > now)

\* As a bug would have it: one day, as for a check.
RetriedDaily(a, v, now) == a = None \/ a.v # v \/ now - a.at >= Day \/ a.at > now

MayAutoInstall(a, v, now) ==
    a = None \/ a.v # v \/ now - a.at >= RetryAfter \/ a.at > now

AutomaticPossible == install = "user"

Busy(st) == st.s \in {"checking", "downloading"}

\* As a bug would have it: the copy that was saved knows nothing of the try.
SavedWithoutAttempt == [mode |-> mode', lastCheck |-> lastCheck', attempt |-> None]

Saved == [mode |-> mode', lastCheck |-> lastCheck', attempt |-> attempt']

\* What poll makes of an answer: [st, att, req, inst, iwr] from then on.
Answered ==
    LET same == [st |-> status, att |-> attempt, req |-> request, inst |-> ready,
                 iwr |-> installWhenReady, go |-> FALSE]
    IN  CASE answer = None -> same
          [] answer # None /\ ~answer.ok ->
                [same EXCEPT !.st = [s |-> "failed", v |-> None], !.iwr = FALSE]
          [] answer # None /\ answer.ok /\ answer.of = "check" ->
                IF answer.v = None THEN [same EXCEPT !.st = [s |-> "uptodate", v |-> None]]
                ELSE IF mode = "automatic" /\ AutomaticPossible
                        /\ MayAutoInstall(attempt, answer.v, clock)
                THEN [same EXCEPT !.st = [s |-> "downloading", v |-> answer.v],
                                  !.req = [of |-> "download", v |-> answer.v]]
                ELSE [same EXCEPT !.st = [s |-> "available", v |-> answer.v]]
          [] OTHER ->
                [same EXCEPT !.st = [s |-> "ready", v |-> answer.v], !.inst = answer.v,
                             !.iwr = FALSE, !.go = installWhenReady,
                             !.att = IF installWhenReady THEN attempt
                                     ELSE [v |-> answer.v, at |-> clock]]

-----------------------------------------------------------------------------
(* A frame.                                                                *)

\* As a bug would have it: a close refused is forgotten.
Forgotten(busy) == held

\* A close asked for while a job is out is held back.
HeldBack(busy) == held \/ (asked /\ busy)

\* The installer starts, or does not (a prompt declined): ok.  When it does,
\* the window must close.
Launches(v, ok) == installers' = IF ok THEN Append(installers, v) ELSE installers

\* The Automatic mode's install, as the app exits.
OnExit(st, inst) ==
    mode = "automatic" /\ AutomaticPossible /\ st.s = "ready" /\ inst # None

\* logic_pass, and what show starts after it.  landed: the job is done;
\* planned: the plan a run waited for is in; ok: an installer asked for
\* starts.
Frame(landed, planned, ok) ==
    LET granted == asked /\ job = "none"
        held1   == HeldBack(job # "none")
        job1    == IF landed THEN "none" ELSE job
        idle    == held1 /\ job1 = "none"
        a       == Answered
        st1     == IF a.go /\ ~ok THEN [s |-> "failed", v |-> None] ELSE a.st
        due     == /\ mode # "manual" /\ ~Busy(st1) /\ st1.s # "ready"
                   /\ CheckDue(lastCheck, clock)
        job2    == IF waiting /\ planned /\ job1 = "none" THEN "run" ELSE job1
        exit    == granted /\ OnExit(st1, a.inst)
    IN  /\ up
        /\ landed => job # "none"
        /\ planned => waiting
        /\ held' = (held1 /\ ~idle)
        /\ waiting' = (waiting /\ ~planned /\ ~granted)
        /\ status' = IF due THEN [s |-> "checking", v |-> None] ELSE st1
        /\ request' = IF due THEN [of |-> "check", v |-> None] ELSE a.req
        /\ answer' = None
        /\ lastCheck' = IF due THEN clock ELSE lastCheck
        /\ attempt' = a.att /\ ready' = a.inst /\ installWhenReady' = a.iwr
        /\ mode' = mode
        /\ IF a.go THEN Launches(a.inst, ok)
           ELSE IF exit THEN Launches(a.inst, TRUE)
           ELSE UNCHANGED installers
        /\ byUser' = IF a.go /\ ok THEN byUser \cup {a.inst} ELSE byUser
        /\ IF granted
           THEN /\ up' = FALSE /\ asked' = FALSE /\ job' = "none"
                /\ stored' = Saved
                /\ cut' = job2
                /\ twice' = (twice \/ (exit /\ a.inst \in byUser'))
                /\ IF exit /\ a.inst \notin byUser' /\ a.att # None
                   THEN /\ tooSoon' = \/ tooSoon
                                      \/ /\ lastAuto[a.inst] # None
                                         /\ a.att.at \in lastAuto[a.inst] ..
                                                         (lastAuto[a.inst] + RetryAfter - 1)
                        /\ lastAuto' = [lastAuto EXCEPT ![a.inst] =
                                          IF a.att.at <= clock THEN a.att.at ELSE None]
                   ELSE UNCHANGED <<tooSoon, lastAuto>>
           ELSE /\ up' = TRUE /\ job' = job2
                /\ asked' = (idle \/ (a.go /\ ok))
                /\ UNCHANGED <<stored, cut, twice, tooSoon, lastAuto>>
        /\ UNCHANGED <<install, build, newest, clock, bounds>>

-----------------------------------------------------------------------------
(* What the user does, each in a frame of its own.                         *)

Presses == up /\ ~asked /\ presses < MaxPresses /\ presses' = presses + 1

\* The close button.
AsksClose ==
    /\ Presses /\ asked' = TRUE
    /\ UNCHANGED <<up, held, job, waiting, updater, outside, ghosts, ticks, kills>>

\* Rename, while the plan is still being made.
PressesRename ==
    /\ Presses /\ job = "none" /\ ~waiting /\ waiting' = TRUE
    /\ UNCHANGED <<up, asked, held, job, updater, outside, ghosts, ticks, kills>>

PressesUndo ==
    /\ Presses /\ job = "none" /\ job' = "undo"
    /\ UNCHANGED <<up, asked, held, waiting, updater, outside, ghosts, ticks, kills>>

SetsMode(m) ==
    /\ Presses /\ m # mode /\ (m = "automatic" => AutomaticPossible) /\ mode' = m
    /\ UNCHANGED <<window, lastCheck, attempt, status, installWhenReady, ready, request,
                   answer, outside, ghosts, ticks, kills>>

\* Check now: not while a request is out, nor once an installer waits.
ChecksNow ==
    /\ Presses /\ ~Busy(status) /\ ~Is("ready")
    /\ lastCheck' = clock /\ status' = [s |-> "checking", v |-> None]
    /\ request' = [of |-> "check", v |-> None]
    /\ UNCHANGED <<window, mode, attempt, installWhenReady, ready, answer, outside,
                   ghosts, ticks, kills>>

\* Update, or Install now; greyed while a job is out and for a portable copy.
InstallsNow(ok) ==
    /\ Presses /\ job = "none" /\ install # "portable"
    /\ \/ /\ Is("available")
          /\ installWhenReady' = TRUE
          /\ status' = [s |-> "downloading", v |-> status.v]
          /\ request' = [of |-> "download", v |-> status.v]
          /\ UNCHANGED <<asked, installers, byUser>>
       \/ /\ Is("ready")
          /\ Launches(ready, ok)
          /\ byUser' = IF ok THEN byUser \cup {ready} ELSE byUser
          /\ asked' = ok
          /\ status' = IF ok THEN status ELSE [s |-> "failed", v |-> None]
          /\ UNCHANGED <<installWhenReady, request>>
    /\ UNCHANGED <<up, held, job, waiting, mode, lastCheck, attempt, ready, answer,
                   install, stored, build, newest, clock, lastAuto, tooSoon, twice, cut,
                   ticks, kills>>

-----------------------------------------------------------------------------
(* What happens elsewhere.                                                 *)

\* The worker answers: there is a newer release or not, the download is
\* there and verified, or something went wrong.
Worker(ok) ==
    /\ up /\ request # None
    /\ answer' = [of |-> request.of, ok |-> ok,
                  v |-> IF request.of = "download" THEN request.v
                        ELSE IF newest > build THEN newest ELSE None]
    /\ request' = None
    /\ UNCHANGED <<window, mode, lastCheck, attempt, status, installWhenReady, ready,
                   outside, ghosts, bounds>>

\* eframe saves the settings every now and then.
Saves ==
    /\ up /\ stored' = [mode |-> mode, lastCheck |-> lastCheck, attempt |-> attempt]
    /\ UNCHANGED <<window, updater, install, build, newest, installers, clock, ghosts, bounds>>

\* An installer ends: it replaces the program once that is down, or fails.
InstallerEnds(ok) ==
    /\ installers # <<>> /\ (ok => ~up)
    /\ build' = IF ok THEN installers[1] ELSE build
    /\ installers' = Tail(installers)
    /\ UNCHANGED <<window, updater, install, stored, newest, clock, ghosts, bounds>>

\* The program is started, with the settings that were saved.
Starts ==
    /\ ~up /\ up' = TRUE
    /\ mode' = stored.mode /\ lastCheck' = stored.lastCheck /\ attempt' = stored.attempt
    /\ status' = Idle /\ installWhenReady' = FALSE /\ ready' = None
    /\ request' = None /\ answer' = None /\ byUser' = {}
    /\ UNCHANGED <<asked, held, job, waiting, outside, lastAuto, tooSoon, twice, cut, bounds>>

\* It is killed, and saves nothing.
Killed ==
    /\ up /\ kills < MaxKills /\ kills' = kills + 1
    /\ up' = FALSE /\ asked' = FALSE /\ held' = FALSE /\ job' = "none" /\ waiting' = FALSE
    /\ UNCHANGED <<updater, outside, ghosts, presses, ticks>>

\* Time passes, or the clock is set; a release may come out.  What was done
\* before the clock was set back is held against nobody.
Ticks(t, v) ==
    /\ ticks < MaxTicks /\ ticks' = ticks + 1
    /\ v >= newest /\ clock' = t /\ newest' = v
    /\ lastAuto' = IF t < clock THEN [w \in Versions |-> None] ELSE lastAuto
    /\ UNCHANGED <<window, updater, install, stored, build, installers, byUser, tooSoon,
                   twice, cut, presses, kills>>

Init ==
    /\ install \in Installs
    /\ up = TRUE /\ asked = FALSE /\ held = FALSE /\ job = "none" /\ waiting = FALSE
    /\ mode \in Modes /\ lastCheck = None /\ attempt = None
    /\ status = Idle /\ installWhenReady = FALSE /\ ready = None
    /\ request = None /\ answer = None
    /\ stored = [mode |-> mode, lastCheck |-> None, attempt |-> None]
    /\ build = 1 /\ newest \in Versions /\ installers = <<>>
    /\ clock \in Clocks
    /\ byUser = {} /\ lastAuto = [v \in Versions |-> None]
    /\ tooSoon = FALSE /\ twice = FALSE /\ cut = "none"
    /\ presses = 0 /\ ticks = 0 /\ kills = 0

Next ==
    \/ \E landed, planned, ok \in BOOLEAN : Frame(landed, planned, ok)
    \/ AsksClose \/ PressesRename \/ PressesUndo \/ ChecksNow
    \/ \E m \in Modes : SetsMode(m)
    \/ \E ok \in BOOLEAN : InstallsNow(ok) \/ Worker(ok) \/ InstallerEnds(ok)
    \/ Saves \/ Starts \/ Killed
    \/ \E t \in Clocks, v \in Versions : Ticks(t, v)

\* A close request and a finished job bring a frame; a job ends.
Fairness ==
    /\ WF_vars(asked /\ \E ok \in BOOLEAN : Frame(FALSE, FALSE, ok))
    /\ WF_vars(\E ok \in BOOLEAN : Frame(TRUE, FALSE, ok))

Spec == Init /\ [][Next]_vars /\ Fairness

-----------------------------------------------------------------------------
(* Properties.                                                             *)

\* An installer that does not take is not started again by every exit: the
\* Automatic mode's tries of one version go by downloads a week apart, from
\* one session to the next, unless the clock was set back in between.
NotEveryExit == ~tooSoon

\* Why: whatever was tried on a way out is in the settings, of that version or of a later
\* one, stamped no earlier; what is being fetched on the updater's own account may be
\* tried by then; and an installer that waits is the one the last try was stamped for,
\* unless the user has had it started.
Tries == [v : Versions, at : Int]
LeavingTypeOK ==
    /\ clock \in Int /\ newest \in Versions
    /\ lastAuto \in [Versions -> Int \cup {None}]
    /\ attempt \in Tries \cup {None} /\ stored.attempt \in Tries \cup {None}
    /\ attempt # None => attempt.v <= newest
    /\ stored.attempt # None => stored.attempt.v <= newest

\* A request and its answer are never out together, and the status says which it is.
OneAtATime ==
    /\ request # None =>
          /\ answer = None
          /\ \/ request.of = "check" /\ status.s = "checking"
             \/ request.of = "download" /\ status.s = "downloading"
    /\ answer # None =>
          /\ request = None
          /\ \/ answer.of = "check" /\ status.s = "checking"
             \/ answer.of = "download" /\ status.s = "downloading"

\* A version looked up is no older than any that was tried.
Offered(v) == v \in Versions /\ v <= newest
NewsIsNewest ==
    /\ answer # None /\ answer.of = "check" /\ answer.v # None =>
          Offered(answer.v) /\ (attempt # None => attempt.v <= answer.v)
    /\ status.s = "available" => Offered(status.v)

MayBeTried(v) ==
    /\ Offered(v)
    /\ ~installWhenReady =>
          /\ attempt # None => attempt.v <= v
          /\ lastAuto[v] # None => clock >= lastAuto[v] + RetryAfter
FetchedInTime ==
    up => /\ request # None /\ request.of = "download" => MayBeTried(request.v)
          /\ answer # None /\ answer.of = "download" => MayBeTried(answer.v)

TriesAreKept ==
    \A v \in Versions : lastAuto[v] # None =>
        /\ lastAuto[v] <= clock
        /\ \A a \in {attempt, stored.attempt} :
              /\ a # None /\ a.v >= v
              /\ a.v = v => a.at \in lastAuto[v] .. clock

WaitingIsStamped ==
    up /\ status.s = "ready" /\ ready \notin byUser =>
        /\ ready \in Versions /\ attempt # None /\ attempt.v = ready
        /\ lastAuto[ready] # None => attempt.at >= lastAuto[ready] + RetryAfter

LeavingInv ==
    /\ LeavingTypeOK /\ OneAtATime /\ NewsIsNewest /\ FetchedInTime
    /\ TriesAreKept /\ WaitingIsStamped /\ NotEveryExit

\* A close that was asked for is granted once the job that held it back is
\* done, on every way there.
CloseIsGranted == asked \/ held ~> ~up

\* An installer the user has had started is not started a second time as the
\* window closes for it (docs of Status::Ready and App::on_exit: the install
\* at exit is of one that is "downloaded and waiting").
OneInstaller == ~twice

\* The window is never closed over a job (doc of handle_close_request: "So
\* the close waits for the job").
JobsOutliveTheWindow == cut = "none"
=============================================================================
