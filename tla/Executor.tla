------------------------------ MODULE Executor ------------------------------
(***************************************************************************)
(* One batch of changes, from exec::apply through its write-ahead journal  *)
(* to exec::undo and exec::recover, with everything that can happen to it  *)
(* on the way: an I/O call refused, the run stopped by its user, the       *)
(* process killed, the power cut, another program changing the same files. *)
(*                                                                         *)
(* The journal is the set of its records: undo and recovery ask which      *)
(* records are there, never in what order.  "synced" is the part of it a   *)
(* power cut cannot take; any subset of the rest may be lost.  The changes *)
(* themselves are taken to be as durable as the journal that was synced    *)
(* after them, which is what one journalling volume gives.                 *)
(***************************************************************************)
EXTENDS Batch

CONSTANTS
    Batches,     \* the plans, each with the states it was planned through
    Spots,       \* paths another program uses
    MaxFaults,   \* bound: I/O calls refused
    MaxKills,    \* bound: processes killed
    MaxCuts,     \* bound: power cuts
    MaxOutside,  \* bound: changes made by another program
    MaxUndos     \* bound: undo attempts

WideWindow == 2  \* mutant: announced two at a time
WRITE_AHEAD_WINDOW == 1

\* Seconds by which two timestamps may differ and still be the same one.
TIME_TOLERANCE == 2

Bodies == Texts \cup {"old", "half", "edited"}

ASSUME BatchesAssumption == \A b \in Batches : Planned(b)
ASSUME ValuesAssumption ==
    /\ Dates \subseteq Nat
    /\ Texts \cap {"old", "half", "edited"} = {}
    /\ Strangers \subseteq Files \ Dirs
    /\ Spots \subseteq Paths
    /\ \A b \in Batches : FilesIn(b.trees[1]) \cap Strangers = {}
ASSUME BoundsAssumption ==
    /\ MaxFaults \in Nat /\ MaxKills \in Nat /\ MaxCuts \in Nat
    /\ MaxOutside \in Nat /\ MaxUndos \in Nat

-----------------------------------------------------------------------------
VARIABLES
    batch,      \* the plan being run, with its history of states
    options,    \* ApplyOptions: simulate, allow_irreversible or neither
    \* the volume
    tree,       \* path -> file
    date,       \* file -> modification time
    body,       \* file -> contents
    \* the journal
    journal,    \* the records in the file
    synced,     \* those of them a power cut cannot take
    image,      \* the before-image in the plan record of each "date" op
    \* the run
    pc,         \* where the program is
    at, end,    \* the window: ops at .. end - 1
    cur,        \* the op of the window in hand
    refused,    \* ops of the window whose before-image could not be read
    completed,  \* what ExecError::Interrupted tells the caller
    outcome,    \* how the run ended
    \* the undo
    upos,       \* the next op of the reverse walk
    folders,    \* created folders left to remove
    skipped,    \* something was left as it was
    kept,       \* a created folder was left in place
    result,     \* what the undo reported
    \* history, read by no action of the program
    done,       \* ops whose change has happened
    torn,       \* a script's file was left half-written
    balked,     \* the volume refused a call of the undo
    added,      \* files another program made or edited
    gone,       \* files another program removed
    undos, faults, kills, cuts, meddled  \* counters under the bounds

disk == <<tree, date, body>>
log == <<journal, synced, image>>
run == <<at, end, cur, refused, completed, outcome>>
walk == <<upos, folders, skipped, kept, result>>
fixed == <<batch, options>>
history == <<done, torn, balked, added, gone, undos, faults, kills, cuts, meddled>>
vars == <<fixed, disk, log, pc, run, walk, history>>

N == Len(batch.ops)
Op(i) == batch.ops[i]

Begin == [rec |-> "Begin", seq |-> 0]
Commit == [rec |-> "Commit", seq |-> 0]
Undone == [rec |-> "Undone", seq |-> 0]
Plan(i) == [rec |-> "Plan", seq |-> i]
Completed(i) == [rec |-> "Completed", seq |-> i]
Failed(i) == [rec |-> "Failed", seq |-> i]

Records ==
    {Begin, Commit, Undone} \cup [rec : {"Plan", "Completed", "Failed"}, seq : 1..N]

Announced == {i \in 1..N : Plan(i) \in journal}
Settled == {i \in 1..N : Completed(i) \in journal \/ Failed(i) \in journal}
Unconfirmed == Announced \ Settled

Running == {"head", "announce", "sync", "perform", "writing", "confirm", "fail",
            "close", "seal"}
Undoing == {"undo", "folders"}

Init ==
    /\ batch \in Batches
    /\ options \in {"simulate", "allow_irreversible", "plain"}
    /\ tree = batch.trees[1]
    /\ date = batch.dates[1]
    /\ body = [f \in Files |-> "old"]
    /\ journal = {} /\ synced = {}
    /\ image = [i \in 1..N |-> 0]
    /\ pc = "idle"
    /\ at = 1 /\ end = 1 /\ cur = 1 /\ refused = {}
    /\ completed = 0 /\ outcome = "none"
    /\ upos = 0 /\ folders = {} /\ skipped = FALSE /\ kept = FALSE /\ result = "none"
    /\ done = 0 /\ torn = FALSE /\ balked = FALSE /\ added = {} /\ gone = {}
    /\ undos = 0 /\ faults = 0 /\ kills = 0 /\ cuts = 0 /\ meddled = 0
-----------------------------------------------------------------------------
(* The run: apply and apply_journalled.                                    *)

\* The volume refuses a call.
Fault == faults < MaxFaults /\ faults' = faults + 1
NoFault == faults' = faults

\* write(): appended and synced.
Write(r) ==
    /\ journal' = journal \cup {r}
    /\ synced' = journal'

\* sync(): all that was appended is on the disk.
FlushLater == synced' = synced  \* mutant: left to the system
Flush == synced' = journal

\* A journal write fails.  The record may be in the file even so: all of its
\* line but the newline, or all of it with only the sync refused.
WriteFails(r) ==
    /\ Fault
    /\ journal' \in {journal, journal \cup {r}}
    /\ synced' = synced

\* ... and once the run has begun, that ends it, with no Commit.
Interrupted(r) ==
    /\ WriteFails(r)
    /\ pc' = "over"
    /\ outcome' = "interrupted"
    /\ UNCHANGED <<fixed, disk, image, at, end, cur, refused, completed, walk,
                   done, torn, balked, added, gone, undos, kills, cuts, meddled>>

Goto(where) == pc' = where /\ UNCHANGED <<torn, balked, added, gone, undos, kills, cuts, meddled>>

\* Ends before a journal exists: nothing to do, nothing to be done, or a
\* change that cannot be taken back and was not asked for.
NeedsConsent == options = "plain" /\ \E i \in 1..N : Irreversible(Op(i))

Start ==
    /\ pc = "idle"
    /\ UNCHANGED <<fixed, disk, image, at, end, cur, refused, completed, walk, done>>
    /\ \/ /\ options = "simulate" \/ N = 0 \/ NeedsConsent
          /\ outcome' = IF NeedsConsent THEN "refused" ELSE "nothing to do"
          /\ NoFault /\ Goto("over") /\ UNCHANGED <<journal, synced>>
       \/ /\ options # "simulate" /\ N > 0 /\ ~NeedsConsent
          /\ \/ Write(Begin) /\ NoFault /\ Goto("head") /\ UNCHANGED outcome
             \* no Begin, no journal: its file is removed again
             \/ /\ Fault /\ outcome' = "error" /\ Goto("over")
                /\ UNCHANGED <<journal, synced>>

\* The ops from i on that are announced together.
WindowEnd(i) ==
    IF windowable(Op(i))
    THEN CHOOSE e \in (i + 1)..(i + WRITE_AHEAD_WINDOW) :
            /\ e <= N + 1
            /\ \A j \in i..(e - 1) : windowable(Op(j))
            /\ e < i + WRITE_AHEAD_WINDOW /\ e <= N => ~windowable(Op(e))
    ELSE i + 1

\* The head of the loop: the end of the plan, the user's Stop, or a window.
NextWindow ==
    /\ pc = "head"
    /\ UNCHANGED <<fixed, disk, log, at, completed, walk, done>>
    /\ NoFault
    /\ \/ /\ at > N
          /\ outcome' = "finished" /\ Goto("close") /\ UNCHANGED <<end, cur, refused>>
       \/ /\ at <= N
          /\ outcome' = "cancelled" /\ Goto("close") /\ UNCHANGED <<end, cur, refused>>
       \/ /\ at <= N
          /\ end' = WindowEnd(at) /\ cur' = at /\ refused' = {}
          /\ Goto("announce") /\ UNCHANGED outcome

\* read_before: the date an op is about to replace.
Readable(i) == Op(i).kind = "date" => Exists(tree, Op(i).path)
NoBeforeImage(i) == image  \* mutant: the date is not kept
BeforeImage(i) ==
    IF Op(i).kind = "date" THEN [image EXCEPT ![i] = date[tree[Op(i).path]]] ELSE image

NextToAnnounce ==
    IF cur + 1 = end THEN cur' = at /\ Goto("sync") ELSE cur' = cur + 1 /\ Goto(pc)

Announce ==
    /\ pc = "announce"
    /\ UNCHANGED <<fixed, disk, synced, at, end, completed, outcome, walk, done>>
    /\ NextToAnnounce
    /\ \/ /\ Readable(cur)
          /\ journal' = journal \cup {Plan(cur)}
          /\ image' = BeforeImage(cur)
          /\ NoFault /\ UNCHANGED refused
       \* no before-image, no attempt: nothing is announced
       \/ /\ Op(cur).kind = "date"
          /\ IF Readable(cur) THEN Fault ELSE NoFault
          /\ refused' = refused \cup {cur}
          /\ UNCHANGED <<journal, image>>

AnnounceFails ==
    /\ pc = "announce"
    /\ Readable(cur)
    /\ WriteFails(Plan(cur))
    /\ image' = BeforeImage(cur)
    /\ outcome' = "interrupted" /\ Goto("over")
    /\ UNCHANGED <<fixed, disk, at, end, cur, refused, completed, walk, done>>

Sync ==
    /\ pc = "sync"
    /\ UNCHANGED <<fixed, disk, journal, image, at, end, cur, refused, completed, walk, done>>
    /\ \/ Flush /\ NoFault /\ Goto("perform") /\ UNCHANGED outcome
       \/ Fault /\ outcome' = "interrupted" /\ Goto("over") /\ UNCHANGED synced

\* mutant: counted with its confirmation, not when it happened
PerformedUncounted ==
    /\ done' = done + 1
    /\ UNCHANGED completed
    /\ Goto("confirm")
Performed ==
    /\ done' = done + 1
    /\ completed' = completed + 1
    /\ Goto("confirm")

\* The text a write or a rewrite leaves in the file at the op's path.
Rewritten(o, t, text) == [body EXCEPT ![t[o.path]] = text]

Perform ==
    /\ pc = "perform"
    /\ cur \notin refused
    /\ CanDo(Op(cur), tree)
    /\ NoFault
    /\ UNCHANGED <<fixed, log, at, end, cur, refused, outcome, walk>>
    /\ tree' = TreeAfter(Op(cur), tree)
    /\ date' = DateAfter(Op(cur), tree, date)
    /\ \/ /\ Op(cur).kind \in {"write", "overwrite"}
          \* open, which creates or truncates; the contents come next
          /\ body' = Rewritten(Op(cur), tree', "half")
          /\ Goto("writing") /\ UNCHANGED <<done, completed>>
       \/ /\ Op(cur).kind = "retag"
          \* a copy is written and swapped in whole
          /\ body' = Rewritten(Op(cur), tree, Op(cur).text) /\ Performed
       \/ Op(cur).kind \in {"rename", "mkdir", "date"} /\ UNCHANGED body /\ Performed

\* The file being written: the handle keeps it whatever its name is now.
Handle == CHOOSE f \in Files : body[f] = "half"

\* write_all.
FinishWriting ==
    /\ pc = "writing"
    /\ body' = [body EXCEPT ![Handle] = Op(cur).text]
    /\ NoFault
    /\ Performed
    /\ UNCHANGED <<fixed, tree, date, log, at, end, cur, refused, outcome, walk>>

PerformFails ==
    /\ \/ /\ pc = "perform"
          /\ IF cur \in refused \/ ~CanDo(Op(cur), tree) THEN NoFault ELSE Fault
          /\ torn' = torn
       \/ /\ pc = "writing"
          /\ Fault
          /\ torn' = TRUE
    /\ pc' = "fail"
    /\ UNCHANGED <<fixed, disk, log, run, walk,
                   done, balked, added, gone, undos, kills, cuts, meddled>>

\* Completed is appended and left for the next sync.
Confirm ==
    /\ pc = "confirm"
    /\ journal' = journal \cup {Completed(cur)}
    /\ NoFault
    /\ IF cur + 1 = end
       THEN at' = end /\ Goto("head") /\ UNCHANGED cur
       ELSE cur' = cur + 1 /\ Goto("perform") /\ UNCHANGED at
    /\ UNCHANGED <<fixed, disk, synced, image, end, refused, completed, outcome, walk, done>>

ConfirmFails == pc = "confirm" /\ Interrupted(Completed(cur))

\* The first failure ends the run; what happened before it stays undoable.
RecordFailure ==
    /\ pc = "fail"
    /\ Write(Failed(cur))
    /\ NoFault
    /\ outcome' = "failed"
    /\ Goto("close")
    /\ UNCHANGED <<fixed, disk, image, at, end, cur, refused, completed, walk, done>>

RecordFailureFails == pc = "fail" /\ Interrupted(Failed(cur))

\* Commit carries the confirmations before it to the disk; between its append
\* and the end of its sync, either may get there first.
Close ==
    /\ pc = "close"
    /\ journal' = journal \cup {Commit}
    /\ NoFault
    /\ Goto("seal")
    /\ UNCHANGED <<fixed, disk, synced, image, run, walk, done>>

Seal ==
    /\ pc = "seal"
    /\ Flush
    /\ NoFault
    /\ Goto("over")
    /\ UNCHANGED <<fixed, disk, journal, image, run, walk, done>>

CloseFails == pc \in {"close", "seal"} /\ Interrupted(Commit)

RunStep ==
    \/ Start \/ NextWindow \/ Announce \/ AnnounceFails \/ Sync
    \/ Perform \/ FinishWriting \/ PerformFails
    \/ Confirm \/ ConfirmFails \/ RecordFailure \/ RecordFailureFails
    \/ Close \/ Seal \/ CloseFails
-----------------------------------------------------------------------------
(* Recovery and undo: unfinished, latest_undoable and undo_transaction.    *)

\* unfinished: no terminal record, and something announced.
\* mutant: a batch of which nothing was confirmed is taken for one that never began
UnfinishedIfConfirmed ==
    Commit \notin journal /\ Undone \notin journal /\ Announced \cap Settled # {}
Unfinished == Commit \notin journal /\ Undone \notin journal /\ Announced # {}

\* What it says of such a batch.  A folder in flight leaves no file to name.
InFlightRenames == {i \in Unconfirmed : Op(i).kind = "rename"}  \* mutant
InFlight == {i \in Unconfirmed : Op(i).kind # "mkdir"}

\* The name a file in flight is named by: where it was before the stage that
\* took it out of a cycle, if that stage was announced, or where it is taken from.
KnownAs(i) ==
    LET stages == {j \in Announced :
                      j < i /\ Op(j).kind = "rename" /\ Op(j).to = Op(i).from}
    IN  IF stages = {} THEN Op(i).from ELSE Op(CHOOSE j \in stages : TRUE).from

\* latest_undoable: an undo would put something back.
HasReversibleWork ==
    \E i \in Announced : Completed(i) \in journal /\ ~Irreversible(Op(i))

BeginUndo ==
    /\ pc = "over"
    /\ undos < MaxUndos
    /\ Undone \notin journal
    /\ Unfinished \/ HasReversibleWork
    /\ pc' = "undo"
    /\ upos' = N /\ folders' = {} /\ skipped' = FALSE /\ kept' = FALSE
    /\ result' = "none"
    /\ undos' = undos + 1
    /\ UNCHANGED <<fixed, disk, log, run, done, torn, balked, added, gone,
                   faults, kills, cuts, meddled>>

\* One step of the reverse walk is over.
\* mutant: the same op again
WalkedNowhere ==
    /\ upos' = upos
    /\ UNCHANGED <<fixed, log, pc, run, kept, result, done, torn, added, gone,
                   undos, kills, cuts, meddled>>
Walked ==
    /\ upos' = upos - 1
    /\ UNCHANGED <<fixed, log, pc, run, kept, result, done, torn, added, gone,
                   undos, kills, cuts, meddled>>

\* The volume carries out what the walk asks of it, or refuses and is skipped.
\* mutant: a refusal goes unreported
TryQuietly(change) ==
    \/ change /\ NoFault /\ UNCHANGED <<balked, skipped>>
    \/ Fault /\ balked' = TRUE /\ UNCHANGED <<disk, skipped>>
Try(change) ==
    \/ change /\ NoFault /\ UNCHANGED <<balked, skipped>>
    \/ Fault /\ balked' = TRUE /\ skipped' = TRUE /\ UNCHANGED disk

\* Nothing is tried; a confirmed change that is left as it is, is a skip.
Leave(reported) ==
    /\ skipped' = (skipped \/ reported)
    /\ NoFault
    /\ UNCHANGED <<disk, balked>>

Confirmed(i) == Completed(i) \in journal

\* check_staleness: the file is where the batch put it, its old name is free.
Reversible(o, t) == Exists(t, o.to) /\ ~Exists(t, o.from)

UndoRename(i) ==
    /\ Op(i).kind = "rename"
    /\ IF Reversible(Op(i), tree)
       THEN IF CanRename(tree, Op(i).to, Op(i).from)
            THEN Try(/\ tree' = Renamed(tree, Op(i).to, Op(i).from)
                     /\ UNCHANGED <<date, body>>)
            ELSE Leave(TRUE)
       ELSE Leave(Confirmed(i))
    /\ UNCHANGED folders

\* A folder waits until everything that moved into it has moved out again.
UndoCreateDir(i) ==
    /\ Op(i).kind = "mkdir"
    /\ folders' = IF Confirmed(i) \/ Exists(tree, Op(i).path)
                  THEN folders \cup {Op(i).path} ELSE folders
    /\ Leave(FALSE)

\* remove_written: only a file that holds exactly what was written.
IsFile(p) == Exists(tree, p) /\ tree[p] \notin Dirs
HoldsSomething(o) == IsFile(o.path)  \* mutant: without reading it
Holds(o) == IsFile(o.path) /\ body[tree[o.path]] = o.text

UndoWrite(i) ==
    /\ Op(i).kind = "write"
    /\ IF Holds(Op(i))
       THEN Try(tree' = Removed(tree, Op(i).path) /\ UNCHANGED <<date, body>>)
       ELSE Leave(Confirmed(i) /\ Exists(tree, Op(i).path))
    /\ UNCHANGED folders

\* times_agree: ours, as far as the coarsest volume can tell.
Agree(d, e) == d - e <= TIME_TOLERANCE /\ e - d <= TIME_TOLERANCE
StillThere(o) == Exists(tree, o.path)  \* mutant: whatever its date
StillOurs(o) == Exists(tree, o.path) /\ Agree(date[tree[o.path]], o.value)

UndoDate(i) ==
    /\ Op(i).kind = "date"
    /\ IF StillOurs(Op(i))
       THEN Try(/\ date' = [date EXCEPT ![tree[Op(i).path]] = image[i]]
                /\ UNCHANGED <<tree, body>>)
       ELSE Leave(Confirmed(i))
    /\ UNCHANGED folders

\* Not announced, known to have failed, or never to be taken back.
SparedUnlessPlanned(i) == i \notin Announced \/ Irreversible(Op(i))  \* mutant: Failed ignored
Spared(i) == i \notin Announced \/ Failed(i) \in journal \/ Irreversible(Op(i))

\* The look that decides is refused (a share that is gone, a file that cannot
\* be read): to each of the checks that is a file which no longer matches.
LookFails(i) ==
    /\ Fault /\ balked' = TRUE
    /\ Op(i).kind = "mkdir" => ~Confirmed(i)
    /\ skipped' = (skipped \/ Confirmed(i))
    /\ UNCHANGED <<disk, folders>>

UndoOp ==
    /\ pc = "undo"
    /\ upos > 0
    /\ Walked
    /\ \/ Spared(upos) /\ Leave(FALSE) /\ UNCHANGED folders
       \/ /\ ~Spared(upos)
          /\ \/ UndoRename(upos) \/ UndoCreateDir(upos) \/ UndoWrite(upos) \/ UndoDate(upos)
             \/ LookFails(upos)

WalkIsOver ==
    /\ pc = "undo"
    /\ upos = 0
    /\ pc' = "folders"
    /\ UNCHANGED <<fixed, disk, log, run, walk, history>>

\* remove_dir.
RemovableAnyway(p) == Exists(tree, p)  \* mutant: with all that is in it
Removable(p) == IsEmptyDir(tree, p)

\* The deepest go first; one that is not empty is kept.
RemoveFolder ==
    /\ pc = "folders"
    /\ \E p \in folders :
          /\ \A q \in folders : Len(q) <= Len(p)
          /\ folders' = folders \ {p}
          /\ \/ ~Exists(tree, p) /\ NoFault /\ UNCHANGED <<tree, kept, balked>>
             \/ Removable(p) /\ NoFault /\ tree' = Removed(tree, p) /\ UNCHANGED <<kept, balked>>
             \/ /\ Exists(tree, p) /\ ~Removable(p) /\ NoFault
                /\ kept' = TRUE /\ UNCHANGED <<tree, balked>>
             \/ Removable(p) /\ Fault /\ kept' = TRUE /\ balked' = TRUE /\ UNCHANGED tree
    /\ UNCHANGED <<fixed, date, body, log, pc, run, upos, skipped, result,
                   done, torn, added, gone, undos, kills, cuts, meddled>>

\* The files have moved by now: a stamp that fails is reported, not an error.
Stamp ==
    /\ pc = "folders"
    /\ folders = {}
    /\ pc' = "over"
    /\ \/ Write(Undone) /\ NoFault
          /\ result' = IF skipped THEN "incomplete" ELSE "complete"
       \/ WriteFails(Undone) /\ result' = "not recorded"
    /\ UNCHANGED <<fixed, disk, image, run, upos, folders, skipped, kept,
                   done, torn, balked, added, gone, undos, kills, cuts, meddled>>

UndoStep == BeginUndo \/ UndoOp \/ WalkIsOver \/ RemoveFolder \/ Stamp

-----------------------------------------------------------------------------
(* What the program does not choose.                                       *)

\* The process is gone; what it was doing is done or not done.
Dies ==
    /\ pc' = "over"
    /\ outcome' = IF pc \in Running THEN "died" ELSE outcome
    /\ torn' = (torn \/ pc = "writing")
    /\ UNCHANGED <<fixed, disk, image, at, end, cur, refused, completed, walk,
                   done, balked, added, gone, undos, faults, meddled>>

ProcessKilled ==
    /\ pc \in Running \cup Undoing
    /\ kills < MaxKills /\ kills' = kills + 1
    /\ Dies
    /\ UNCHANGED <<journal, synced, cuts>>

\* Of what was never synced, anything may be lost: zeros where data should be.
PowerCut ==
    /\ pc # "idle"
    /\ cuts < MaxCuts /\ cuts' = cuts + 1
    /\ Dies
    /\ \E lost \in SUBSET (journal \ synced) : journal' = journal \ lost
    /\ synced' = journal'
    /\ UNCHANGED kills

\* Another program.
Meddle ==
    /\ meddled < MaxOutside /\ meddled' = meddled + 1
    /\ UNCHANGED <<fixed, log, pc, run, walk, done, torn, balked, undos, faults, kills, cuts>>

OutsideCreates ==
    /\ Meddle
    /\ \E f \in Strangers \ (FilesIn(tree) \cup gone), p \in Spots :
          /\ CanCreate(tree, p)
          /\ tree' = Created(tree, p, f)
          /\ added' = added \cup {f}
    /\ UNCHANGED <<date, body, gone>>

OutsideRemoves ==
    /\ Meddle
    /\ \E p \in DOMAIN tree :
          /\ tree[p] \notin Dirs
          /\ tree' = Removed(tree, p)
          /\ gone' = gone \cup {tree[p]}
    /\ UNCHANGED <<date, body, added>>

OutsideMoves ==
    /\ Meddle
    /\ \E p \in DOMAIN tree, q \in Spots :
          CanRename(tree, p, q) /\ tree' = Renamed(tree, p, q)
    /\ UNCHANGED <<date, body, added, gone>>

\* Saving a file changes its contents and its date.
OutsideEdits ==
    /\ Meddle
    /\ \E p \in DOMAIN tree, d \in Dates :
          /\ tree[p] \notin Dirs /\ body[tree[p]] # "half"
          /\ body' = [body EXCEPT ![tree[p]] = "edited"]
          /\ date' = [date EXCEPT ![tree[p]] = d]
          /\ added' = added \cup {tree[p]}
    /\ UNCHANGED <<tree, gone>>

Outside == OutsideCreates \/ OutsideRemoves \/ OutsideMoves \/ OutsideEdits

Next == RunStep \/ UndoStep \/ ProcessKilled \/ PowerCut \/ Outside

Spec == Init /\ [][Next]_vars

\* The run and the undo are loops on threads of their own: once in one, the
\* program goes on.  Nobody has to start an undo.
FairSpec == Spec /\ WF_vars(RunStep) /\ WF_vars(UndoStep /\ pc # "over")
-----------------------------------------------------------------------------
(* Properties.                                                             *)

TypeOK ==
    /\ batch \in Batches
    /\ options \in {"simulate", "allow_irreversible", "plain"}
    /\ IsTree(tree)
    /\ date \in [Files -> Dates]
    /\ body \in [Files -> Bodies]
    /\ synced \subseteq journal /\ journal \subseteq Records
    /\ image \in [1..N -> Nat]
    /\ pc \in {"idle", "over"} \cup Running \cup Undoing
    /\ at \in 1..(N + 1) /\ end \in 1..(N + 1) /\ cur \in 1..(N + 1)
    /\ refused \subseteq 1..N
    /\ completed \in 0..N /\ done \in 0..N
    /\ outcome \in {"none", "refused", "nothing to do", "error", "finished",
                    "cancelled", "failed", "interrupted", "died"}
    /\ upos \in 0..N /\ folders \subseteq Paths
    /\ skipped \in BOOLEAN /\ kept \in BOOLEAN /\ torn \in BOOLEAN /\ balked \in BOOLEAN
    /\ result \in {"none", "complete", "incomplete", "not recorded"}
    /\ added \subseteq Files /\ gone \subseteq Files
    /\ undos \in Nat /\ faults \in Nat /\ kills \in Nat /\ cuts \in Nat /\ meddled \in Nat

\* Write-ahead: nothing on the volume has changed whose intent a power cut
\* could still take.
WriteAhead ==
    /\ \A i \in 1..done : Plan(i) \in synced
    /\ pc = "writing" \/ (pc = "perform" /\ cur \notin refused) => Plan(cur) \in synced

\* What makes the disk decisive for recovery (WRITE_AHEAD_WINDOW): only the op
\* in hand and the one before it, which has run, are ever announced and
\* unconfirmed.
TwoUnconfirmed == Unconfirmed \subseteq {done, done + 1}

\* A run that reported its end has all of it on the disk: whatever the power
\* does afterwards, it is never taken for a batch that did not finish.
ReportedIsDurable ==
    outcome \in {"finished", "cancelled", "failed"} /\ pc \notin Running =>
        /\ Commit \in synced
        /\ \A i \in 1..done : Completed(i) \in synced

\* What an interrupted run says it changed is what it changed.
InterruptedTellsAll == outcome = "interrupted" => completed = done

Restored == tree = batch.trees[1] /\ date = batch.dates[1]

\* An undo ended that was the first to be tried, on files only the batch changed.
FirstUndo == pc = "over" /\ result # "none" /\ undos = 1 /\ meddled = 0 /\ ~torn

\* Wherever the run stopped and whatever a power cut took, one undo puts every
\* name and every date back, and finds nothing to skip or to keep.
UndoIsExact == FirstUndo /\ ~balked => Restored /\ ~skipped /\ ~kept

\* ... and one that reports no skip and kept no folder has restored everything,
\* refused calls or not: when every change it went by was confirmed.
CompleteMeansRestored ==
    FirstUndo /\ result = "complete" /\ ~kept /\ Unconfirmed = {} => Restored

\* What an undo says nothing of, because nothing confirms it, never ran.
SilenceMeansNotRun == FirstUndo /\ result = "complete" /\ ~kept => Restored

\* Of a batch that did not finish, the banner names every file a write may have
\* left in pieces, and every file by the name its user knows it by.
DamageIsNamed ==
    Unfinished /\ undos = 0 =>
        /\ torn => done + 1 \in InFlight \/ Failed(done + 1) \in journal
        /\ \A i \in InFlight : Op(i).kind = "rename" =>
              /\ Exists(batch.trees[1], KnownAs(i))
              /\ batch.trees[1][KnownAs(i)] = batch.trees[i][Op(i).from]

\* A batch that does not put one text both into a file of its own and into one
\* that was there: the undo knows a file it wrote by its text alone.
WrittenApart(b) ==
    \A i, j \in 1..Len(b.ops) :
        b.ops[i].kind = "write" /\ b.ops[j].kind \in {"overwrite", "retag"}
            => b.ops[i].text # b.ops[j].text

\* No file is ever lost to the batch or to its undo: not one of the user's, not
\* one another program brought along, not a script's once the user edited it.
\* (An empty folder may be: one that another program put where the batch had
\* created one goes in its stead.)
NothingLost ==
    (FilesIn(batch.trees[1]) \cup added) \ (gone \cup Dirs) \subseteq FilesIn(tree)

\* No state the batch has passed through looks as if a later op had been done.
Looks(o, t, d) ==
    \/ o.kind = "rename" /\ Reversible(o, t)
    \/ o.kind \in {"write", "mkdir"} /\ Exists(t, o.path)
    \/ o.kind = "date" /\ Exists(t, o.path) /\ Agree(d[t[o.path]], o.value)
Decisive(b) ==
    \A i \in 1..Len(b.ops), j \in 1..Len(b.ops) :
        j <= i => ~Looks(b.ops[i], b.trees[j], b.dates[j])

\* For a batch like that, an undo that was itself cut short can be repeated,
\* any number of times, and still ends where the batch began.
UndoIsRepeatable ==
    pc = "over" /\ result # "none" /\ meddled = 0 /\ ~torn /\ ~balked /\ Decisive(batch)
        => Restored /\ ~kept

\* An undo cut short before its stamp, or whose stamp failed, and tried again:
\* the entries that no longer match are skipped, not forced, so what the first
\* one put back stays put.
RepeatedUndoIsHarmless ==
    pc = "over" /\ result = "complete" /\ meddled = 0 /\ ~torn /\ ~balked => Restored

\* A change that can be taken back is on offer, as an unfinished batch or as an
\* undo, until it has been.
ChangesAreOffered ==
    pc = "over" /\ (\E i \in 1..done : ~Irreversible(Op(i))) /\ Undone \notin journal
        => Unfinished \/ HasReversibleWork

\* A stranger at the name a failed rename was meant to take stays there.
FailedStaysPut ==
    [][\A i \in 1..N :
          /\ Op(i).kind = "rename"
          /\ Failed(i) \in journal
          /\ meddled' = meddled
          /\ Exists(tree, Op(i).to)
          => Exists(tree', Op(i).to) /\ tree'[Op(i).to] = tree[Op(i).to]]_vars

\* A run or an undo, once started, comes to its end.
EveryRunEnds == (pc \in Running \cup Undoing) ~> (pc = "over")
=============================================================================
