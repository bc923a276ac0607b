------------------------------ MODULE Journals ------------------------------
(***************************************************************************)
(* The folder of journals and those who share it: windows, each with its   *)
(* Undo list and its recovery banner, and command-line runs.  A batch is   *)
(* one change here; what is inside a batch is the Executor's business.     *)
(*                                                                         *)
(* A journal is the segments between its newlines, and whether the last    *)
(* segment has got one.  A segment is a record, by its kind, or "torn", or *)
(* "nul", the zeros a power cut leaves.                                    *)
(***************************************************************************)
EXTENDS Integers, Sequences, FiniteSets, SequencesExt

CONSTANTS
    None,
    Windows,      \* processes that show a window
    Tools,        \* processes of the command line
    Pid,          \* their numbers
    Found,        \* what the folder may hold before any of them starts
    MaxClock,     \* bound: the clock's values
    MaxRuns,      \* bound: batches
    MaxUndos,     \* bound: undos and rollbacks asked for
    MaxFaults,    \* bound: failed appends, kills, journals deleted
    MaxUnlocked   \* bound: journals opened by another between create and lock

Procs == Windows \cup Tools

ASSUME JournalsAssumption ==
    /\ Windows \cap Tools = {} /\ None \notin Procs \cup Nat \X Nat
    /\ Pid \in [Procs -> Nat] /\ \A p, q \in Procs : Pid[p] = Pid[q] => p = q
    /\ \A files \in Found : DOMAIN files \subseteq Nat \X Nat
    /\ {MaxClock, MaxRuns, MaxUndos, MaxFaults, MaxUnlocked} \subseteq Nat

VARIABLES
    folder,    \* the journals, by name
    holder,    \* who holds each journal's exclusive lock
    task, on,  \* what each process is doing, and on which journal
    todo, by,  \* what it has still to undo, and what asked for that
    batches,   \* each window's Undo list, newest last
    offered,   \* each window's recovery banner: batches to roll back
    problems,  \* and the journals it could not judge
    \* history, read by no action of the program
    earlier,   \* the journals that existed when each was named
    kept,      \* the records whose write was acknowledged
    applied,   \* whether the batch's change is on the disk
    deleted,   \* the names somebody has deleted a journal of
    undos, faults, unlocked

lists == <<batches, offered, problems>>
work == <<todo, by>>
past == <<earlier, kept, applied, deleted>>
journalVars == <<folder, holder, task, on, work, lists, past, undos, faults, unlocked>>

-----------------------------------------------------------------------------
(* Names.                                                                  *)

Names == (0 .. MaxClock + MaxRuns) \X {Pid[p] : p \in Procs}

Before(a, b) == a[1] < b[1] \/ (a[1] = b[1] /\ a[2] < b[2])

\* The first of Journal::list, which is newest first.
Newest(n, names) == n \in names /\ \A m \in names : m = n \/ Before(m, n)

\* mutant: the clock alone
StampOfTheClock(stamp, now, names) == stamp = now

\* new_txn_id: the clock, or one past the newest stamp already here.
Stamp(stamp, now, names) ==
    /\ stamp >= now /\ \A n \in names : stamp > n[1]
    /\ stamp = now \/ \E n \in names : stamp = n[1] + 1

-----------------------------------------------------------------------------
(* Reading.                                                                *)

Padding(segment) == segment = "nul"

\* Journal::read_from: only an unterminated last segment may fail to parse.
Corrupt(file) ==
    \E i \in DOMAIN file.lines : file.lines[i] = "torn" /\ (i < Len(file.lines) \/ file.ended)

\* What it reads: the kinds of record there are.
Read(file) == {file.lines[i] : i \in DOMAIN file.lines} \ {"torn", "nul"}

\* ends_finished: the last segment that is not padding, whole.
EndsFinished(file) ==
    \E i \in DOMAIN file.lines :
        /\ file.lines[i] \in {"commit", "undone"}
        /\ \A j \in DOMAIN file.lines : j > i => Padding(file.lines[j])

Understood(kinds) == "future" \notin kinds

\* mutant: only what is known to have completed is worth rolling back
AnnouncedAndDone(kinds) == kinds \cap {"plan", "tags"} # {} /\ "done" \in kinds

\* A change that was announced: a rename, or a tag write that keeps nothing.
Announced(kinds) == kinds \cap {"plan", "tags"} # {}

\* examine: "offer", "finished" or why it cannot be told.
Examined(file) ==
    IF EndsFinished(file) THEN "finished"
    ELSE IF Corrupt(file) THEN "unreadable"
    ELSE IF /\ Read(file) \cap {"commit", "undone"} = {}
            /\ Understood(Read(file)) /\ Announced(Read(file))
         THEN "offer" ELSE "finished"

Undoable(file) ==
    /\ ~Corrupt(file) /\ Understood(Read(file))
    /\ "undone" \notin Read(file) /\ {"plan", "done"} \subseteq Read(file)

\* mutant: a journal is opened without asking for its lock
NotInUse(name) == FALSE

\* open_idle and open_exclusive: held by a run or an undo.
InUse(name) == holder[name] # None

\* mutant: what cannot be judged is passed over
LatestReadable(n) == Newest(n, {m \in DOMAIN folder : ~InUse(m) /\ Undoable(folder[m])})

\* latest_undoable: the walk stops at a journal it cannot judge.
Latest(n) ==
    LET stops(m) == InUse(m) \/ Corrupt(folder[m])
    IN  /\ Newest(n, {m \in DOMAIN folder : stops(m) \/ Undoable(folder[m])})
        /\ ~stops(n)

-----------------------------------------------------------------------------
(* Writing.                                                                *)

Appended(file, kind) == [lines |-> Append(file.lines, kind), ended |-> TRUE]

\* What a write that was cut short, or whose sync failed, may leave.
Cut(file, kind) ==
    {file, Appended(file, kind)} \cup
    {[lines |-> Append(file.lines, s), ended |-> FALSE] : s \in {"torn", "nul", kind}}

\* mutant: the stamp is written behind the tail, whatever it is; a record
\* glued to a fragment is a line that does not parse
NotRepaired(file) == [file EXCEPT !.ended = TRUE]

\* stamp: a tail that parses gets its newline, any other is cut off.
Repaired(file) ==
    LET last == Len(file.lines) IN
    IF file.ended \/ file.lines = <<>> THEN file
    ELSE IF file.lines[last] \in {"torn", "nul"}
         THEN [lines |-> SubSeq(file.lines, 1, last - 1), ended |-> TRUE]
         ELSE [file EXCEPT !.ended = TRUE]

-----------------------------------------------------------------------------
(* What a process does.                                                    *)

Idle(p) == task[p] = "nothing"

Fault == faults < MaxFaults /\ faults' = faults + 1

Extend(f, x, v) == [y \in DOMAIN f \cup {x} |-> IF y = x THEN v ELSE f[y]]
Without(f, x) == [y \in DOMAIN f \ {x} |-> f[y]]

\* unfinished: each journal is examined, unless it is in use.
Offers(files, held) ==
    {n \in DOMAIN files : ~held[n] /\ Examined(files[n]) = "offer"}
Problems(files, held) ==
    {n \in DOMAIN files : held[n] \/ Examined(files[n]) = "unreadable"}

\* History::rescan.
Rescan(w, files, held) ==
    /\ offered' = [offered EXCEPT ![w] = Offers(files, held)]
    /\ problems' = [problems EXCEPT ![w] = Problems(files, held)]

HeldByOthers(p) == [n \in DOMAIN folder |-> InUse(n) /\ holder[n] # p]
HeldNow == HeldByOthers(None)

JournalsInit ==
    /\ folder \in Found
    /\ holder = [n \in DOMAIN folder |-> None]
    /\ task = [p \in Procs |-> "nothing"] /\ on = [p \in Procs |-> None]
    /\ todo = [p \in Procs |-> {}] /\ by = [p \in Procs |-> "nobody"]
    /\ batches = [w \in Windows |-> <<>>]
    /\ offered = [w \in Windows |-> Offers(folder, HeldNow)]
    /\ problems = [w \in Windows |-> Problems(folder, HeldNow)]
    /\ earlier = [n \in DOMAIN folder |-> {}]
    /\ kept = [n \in DOMAIN folder |-> {}]
    /\ applied = [n \in DOMAIN folder |-> FALSE]
    /\ deleted = {}
    /\ undos = 0 /\ faults = 0 /\ unlocked = 0

\* A run names its journal: the clock says anything, for it may be set, forwards
\* and back, between two runs;
NamesJournal(p) ==
    /\ Idle(p) /\ Cardinality(DOMAIN earlier) < MaxRuns
    /\ \E now \in 0 .. MaxClock : \E stamp \in {now} \cup {n[1] + 1 : n \in DOMAIN folder} :
       /\ Stamp(stamp, now, DOMAIN folder)
       /\ on' = [on EXCEPT ![p] = <<stamp, Pid[p]>>]
       /\ earlier' = Extend(earlier, <<stamp, Pid[p]>>, DOMAIN folder)
    /\ task' = [task EXCEPT ![p] = "names"]
    /\ UNCHANGED <<folder, holder, work, lists, kept, applied, deleted, undos, faults, unlocked>>

\* creates it, and locks it unless another has opened it meanwhile.
CreatesJournal(p) ==
    /\ task[p] = "names"
    /\ LET name == on[p] IN
       /\ folder' = Extend(folder, name, [lines |-> <<>>, ended |-> TRUE])
       /\ \/ holder' = Extend(holder, name, p) /\ UNCHANGED unlocked
          \/ /\ unlocked < MaxUnlocked /\ unlocked' = unlocked + 1
             /\ holder' = Extend(holder, name, None)
       /\ kept' = Extend(kept, name, {}) /\ applied' = Extend(applied, name, FALSE)
    /\ task' = [task EXCEPT ![p] = "runs"]
    /\ UNCHANGED <<on, work, lists, earlier, deleted, undos, faults>>

\* What the run writes next.
NextKinds(lines) ==
    IF lines = <<>> THEN {"begin"}
    ELSE IF lines = <<"begin">> THEN {"plan", "tags"}
    ELSE IF Len(lines) = 2 THEN {"done", "failed"}
    ELSE IF Len(lines) = 3 THEN {"commit"}
    ELSE {}

\* A change is made between its announcement and its confirmation.
Appends(p) ==
    /\ task[p] = "runs"
    /\ \E kind \in NextKinds(folder[on[p]].lines) :
          /\ folder' = [folder EXCEPT ![on[p]] = Appended(@, kind)]
          /\ kept' = [kept EXCEPT ![on[p]] = @ \cup {kind}]
          /\ applied' = [applied EXCEPT ![on[p]] = @ \/ kind = "done"]
    /\ UNCHANGED <<holder, task, on, work, lists, earlier, deleted, undos, faults, unlocked>>

Released(p) == [n \in DOMAIN holder |-> IF holder[n] = p THEN None ELSE holder[n]]

\* The run ends; record_run puts on the Undo list what a replay could revert.
Ends(p) ==
    /\ task[p] = "runs" /\ "commit" \in Read(folder[on[p]])
    /\ holder' = Released(p)
    /\ task' = [task EXCEPT ![p] = "nothing"] /\ on' = [on EXCEPT ![p] = None]
    /\ batches' = IF p \in Windows /\ Undoable(folder[on[p]])
                  THEN [batches EXCEPT ![p] = Append(@, on[p])] ELSE batches
    /\ UNCHANGED <<folder, work, offered, problems, past, undos, faults, unlocked>>

\* A record cannot be written: Begin takes its journal away, any other leaves
\* an interrupted run, after which the window looks for it.
AppendFails(p) ==
    /\ task[p] = "runs" /\ Fault
    /\ holder' = Released(p)
    /\ task' = [task EXCEPT ![p] = "nothing"] /\ on' = [on EXCEPT ![p] = None]
    /\ LET name == on[p] IN
       \E kind \in NextKinds(folder[name].lines) :
          IF kind = "begin"
          THEN /\ folder' = Without(folder, name)
               /\ UNCHANGED <<applied, offered, problems>>
          ELSE \E file \in Cut(folder[name], kind) :
                  /\ folder' = [folder EXCEPT ![name] = file]
                  /\ applied' = [applied EXCEPT ![name] = @ \/ kind = "done"]
                  /\ IF p \in Windows
                     THEN Rescan(p, folder', HeldByOthers(p))
                     ELSE UNCHANGED <<offered, problems>>
    /\ UNCHANGED <<work, batches, earlier, kept, deleted, undos, unlocked>>

-----------------------------------------------------------------------------
(* Undo and rollback.                                                      *)

Asks(p, names, what) ==
    /\ undos < MaxUndos /\ undos' = undos + 1
    /\ task' = [task EXCEPT ![p] = "opens"]
    /\ todo' = [todo EXCEPT ![p] = names] /\ by' = [by EXCEPT ![p] = what]
    /\ UNCHANGED <<folder, holder, on, lists, past, faults, unlocked>>

\* The Undo button: the newest batch of this window's list.
PressesUndo(w) ==
    /\ Idle(w) /\ batches[w] # <<>>
    /\ Asks(w, {batches[w][Len(batches[w])]}, "undo")

\* The banner's Roll back: everything on offer, newest first.
PressesRollback(w) == Idle(w) /\ offered[w] # {} /\ Asks(w, offered[w], "rollback")

\* `undo`, and `recover --rollback`.
UndoesLast(t) == Idle(t) /\ \E n \in DOMAIN folder : Latest(n) /\ Asks(t, {n}, "last")
Recovers(t) ==
    LET offers == Offers(folder, HeldNow) IN
    Idle(t) /\ offers # {} /\ Asks(t, offers, "recover")

\* undo_transaction, up to the first file: why it is refused.
Refused(name) ==
    IF name \notin DOMAIN folder THEN "gone"
    ELSE IF InUse(name) THEN "in use"
    ELSE IF Corrupt(folder[name]) THEN "corrupt"
    ELSE IF ~Understood(Read(folder[name])) THEN "future"
    ELSE IF "undone" \in Read(folder[name]) THEN "undone"
    ELSE "no"

Opens(p) ==
    /\ task[p] = "opens"
    /\ \E name \in todo[p] :
       /\ Newest(name, todo[p]) /\ Refused(name) = "no"
       /\ holder' = [holder EXCEPT ![name] = p] /\ on' = [on EXCEPT ![p] = name]
    /\ task' = [task EXCEPT ![p] = "undoes"]
    /\ UNCHANGED <<folder, work, lists, past, undos, faults, unlocked>>

\* mutant: a process waits for a batch when there is none left
Waits(p, rest) ==
    /\ todo' = [todo EXCEPT ![p] = rest] /\ by' = by
    /\ task' = [task EXCEPT ![p] = "opens"]

\* The next to undo, or nothing more to do.
Proceeds(p, rest) ==
    /\ todo' = [todo EXCEPT ![p] = rest]
    /\ task' = [task EXCEPT ![p] = IF rest = {} THEN "nothing" ELSE "opens"]
    /\ by' = IF rest = {} THEN [by EXCEPT ![p] = "nobody"] ELSE by

\* mutant: a journal that is gone is kept on the list
OnlyUndone(why) == why = "undone"

\* History::undo_failed: two refusals are for good.
Permanent(why) == why \in {"undone", "gone"}

\* A window stops at the first refusal, `recover --rollback` carries on.
IsRefused(p) ==
    /\ task[p] = "opens"
    /\ \E name \in todo[p] : LET why == Refused(name) IN
       /\ Newest(name, todo[p]) /\ why # "no"
       /\ batches' = IF by[p] = "undo" /\ Permanent(why)
                     THEN [batches EXCEPT ![p] = Remove(@, name)] ELSE batches
       /\ Proceeds(p, IF by[p] = "recover" THEN todo[p] \ {name} ELSE {})
    /\ UNCHANGED <<folder, holder, on, offered, problems, past, undos, faults, unlocked>>

\* The files are back.  The journal is stamped, or it is not.
Stamps(p) ==
    /\ task[p] = "undoes"
    /\ LET name == on[p] file == Repaired(folder[name]) IN
       /\ \/ /\ folder' = [folder EXCEPT ![name] = Appended(file, "undone")]
             /\ kept' = [kept EXCEPT ![name] = @ \cup {"undone"}]
             /\ UNCHANGED faults
          \/ /\ Fault /\ UNCHANGED kept
             /\ \E cut \in Cut(file, "undone") : folder' = [folder EXCEPT ![name] = cut]
       /\ applied' = [applied EXCEPT ![name] = FALSE]
       /\ batches' = IF by[p] = "undo" THEN [batches EXCEPT ![p] = Remove(@, name)] ELSE batches
       /\ offered' = IF by[p] = "rollback"
                     THEN [offered EXCEPT ![p] = @ \ {name}] ELSE offered
       /\ Proceeds(p, todo[p] \ {name})
    /\ holder' = Released(p) /\ on' = [on EXCEPT ![p] = None]
    /\ UNCHANGED <<problems, earlier, deleted, undos, unlocked>>

-----------------------------------------------------------------------------
(* What else happens.                                                      *)

\* The banner is dismissed, or the window is started again.
Dismisses(w) ==
    /\ Idle(w) /\ (offered[w] # {} \/ problems[w] # {})
    /\ offered' = [offered EXCEPT ![w] = {}] /\ problems' = [problems EXCEPT ![w] = {}]
    /\ UNCHANGED <<folder, holder, task, on, work, batches, past, undos, faults, unlocked>>

\* A process is killed, in the middle of a write perhaps; its locks go with
\* it.  A window is then started again.
Killed(p) ==
    /\ ~Idle(p) /\ Fault
    /\ LET name == on[p] IN
       \/ /\ folder' = folder
          /\ \/ applied' = applied
             \/ /\ task[p] = "runs" /\ "done" \in NextKinds(folder[name].lines)
                /\ applied' = [applied EXCEPT ![name] = TRUE]
       \/ /\ task[p] = "runs"
          /\ \E kind \in NextKinds(folder[name].lines) : \E file \in Cut(folder[name], kind) :
                /\ folder' = [folder EXCEPT ![name] = file]
                /\ \/ applied' = applied
                   \/ kind = "done" /\ applied' = [applied EXCEPT ![name] = TRUE]
       \/ /\ task[p] = "undoes"
          /\ \E file \in Cut(Repaired(folder[name]), "undone") :
                folder' = [folder EXCEPT ![name] = file]
          /\ applied' = [applied EXCEPT ![name] = FALSE]
    /\ holder' = Released(p)
    /\ task' = [task EXCEPT ![p] = "nothing"] /\ on' = [on EXCEPT ![p] = None]
    /\ todo' = [todo EXCEPT ![p] = {}] /\ by' = [by EXCEPT ![p] = "nobody"]
    /\ IF p \in Windows
       THEN /\ batches' = [batches EXCEPT ![p] = <<>>]
            /\ Rescan(p, folder', HeldByOthers(p))
       ELSE UNCHANGED lists
    /\ UNCHANGED <<earlier, kept, deleted, undos, unlocked>>

\* Somebody deletes a journal.
Deleted(name) ==
    /\ Fault /\ \A p \in Procs : on[p] # name
    /\ folder' = Without(folder, name) /\ holder' = Without(holder, name)
    /\ deleted' = deleted \cup {name}
    /\ UNCHANGED <<task, on, work, lists, earlier, kept, applied, undos, unlocked>>

JournalsNext ==
    \/ \E p \in Procs : NamesJournal(p) \/ CreatesJournal(p) \/ Appends(p) \/ Ends(p)
                        \/ AppendFails(p) \/ Opens(p) \/ IsRefused(p) \/ Stamps(p) \/ Killed(p)
    \/ \E w \in Windows : PressesUndo(w) \/ PressesRollback(w) \/ Dismisses(w)
    \/ \E t \in Tools : UndoesLast(t) \/ Recovers(t)
    \/ \E name \in DOMAIN folder : Deleted(name)

JournalsSpec == JournalsInit /\ [][JournalsNext]_journalVars

-----------------------------------------------------------------------------
(* Properties.                                                             *)

Segments == {"begin", "plan", "tags", "done", "failed", "commit", "undone", "future",
             "torn", "nul"}

\* Every journal is a sequence of segments, and whoever is at work is at work
\* on a journal of the folder, or has one to open (Journal::create,
\* undo_transaction).
JournalsTypeOK ==
    /\ DOMAIN folder \subseteq Names
    /\ \A n \in DOMAIN folder :
          folder[n].lines \in Seq(Segments) /\ folder[n].ended \in BOOLEAN
    /\ \A p \in Procs :
          /\ task[p] \in {"nothing", "names", "runs", "opens", "undoes"}
          /\ task[p] \in {"runs", "undoes"} => on[p] \in DOMAIN folder
          /\ task[p] = "opens" => todo[p] # {}
    /\ \A w \in Windows : offered[w] \cup problems[w] \cup Range(batches[w]) \subseteq Names

\* A journal named when another was already there sorts after it, however the
\* clock was set between the two (new_txn_id).
NamesAreInOrder == \A n \in DOMAIN earlier : \A m \in earlier[n] : Before(m, n)

\* `undo` picks no batch beneath a newer one that is running, cannot be read or
\* could itself be undone (latest_undoable).
UndoPicksTheNewest ==
    [][\A t \in Tools : Idle(t) /\ by'[t] = "last" =>
          \A n \in todo'[t], m \in DOMAIN folder :
              n \in earlier[m] =>
                  /\ \A p \in Procs : on[p] # m
                  /\ ~Corrupt(folder[m]) /\ ~Undoable(folder[m])]_journalVars

\* No window offers to roll back a batch while it runs, its own or another
\* window's (JournalInUse).  A name whose journal was deleted may be given again.
LiveIsNotOffered ==
    \A w \in Windows, p \in Procs :
        task[p] = "runs" => on[p] \notin offered[w] \ deleted

\* A journal has one process at work on it, to run its batch or to undo it.
OneAtWork == \A p, q \in Procs : p # q /\ on[p] # None => on[p] # on[q]

\* Every record whose write was acknowledged is read back, whatever cut-off
\* write, zeros or failed stamp came after it (Journal::read, Journal::stamp).
KeptIsRead ==
    \A n \in DOMAIN folder :
        kept[n] # {} => ~Corrupt(folder[n]) /\ kept[n] \subseteq Read(folder[n])

\* A rename on the disk that nobody is at work on can be found: recovery offers
\* its batch, or undo would take it (examine, has_reversible_work).
NothingIsLost ==
    \A n \in DOMAIN folder :
        applied[n] /\ "plan" \in kept[n] /\ (\A p \in Procs : on[p] # n) =>
            Examined(folder[n]) = "offer" \/ Undoable(folder[n])

\* A batch that was undone elsewhere, or whose journal is gone, does not stay
\* in the way of the older ones of its window (undo_failed).
UndoIsNotJammed ==
    [][\A w \in Windows :
          task[w] = "opens" /\ by[w] = "undo" /\ Idle(w)' =>
              \A n \in Range(batches'[w]) :
                  n \in todo[w] => n \in DOMAIN folder /\ "undone" \notin Read(folder[n])]_journalVars

\* "the same `Undone` stamp afterwards so the transaction is never offered
\* twice" (recover.rs): no window that has tried to roll a batch back goes on
\* offering it although it has been undone.
UndoneIsNotOffered ==
    [][\A w \in Windows :
          by[w] = "rollback" /\ Idle(w)' /\ batches' = batches =>
              \A n \in offered'[w] :
                  n \in DOMAIN folder' => "undone" \notin Read(folder'[n])]_journalVars

\* "Refused [...] while a run in another window is still writing a newer
\* journal" (undo_last): nor does one begin between the choice and the undo.
UndoIsOfTheNewest ==
    [][\A t \in Tools : by[t] = "last" /\ task[t] = "opens" /\ task'[t] = "undoes" =>
          \A p \in Procs, m \in DOMAIN folder :
              task[p] = "runs" /\ on[p] = m => todo[t] \cap earlier[m] = {}]_journalVars

\* Why: what each process is at work on is its own, as long as nobody opened a journal
\* between its creation and its lock; every journal that was there when another was named
\* sorts before it; what a window offers is in the folder, or was; and a journal whose
\* change is on the disk is one of the few that a run, cut off anywhere, leaves.
NamesInv ==
    /\ DOMAIN folder \subseteq Nat \X Nat
    /\ DOMAIN folder \subseteq DOMAIN earlier
    /\ NamesAreInOrder

Holding == {"runs", "undoes"}
Tasks == {"nothing", "names", "opens"} \cup Holding
WorkInv ==
    /\ unlocked \in 0 .. MaxUnlocked
    /\ task \in [Procs -> Tasks] /\ DOMAIN on = Procs
    /\ DOMAIN folder \subseteq DOMAIN holder
    /\ \A n \in DOMAIN holder : holder[n] # None =>
          holder[n] \in Procs /\ task[holder[n]] \in Holding /\ on[holder[n]] = n
    /\ \A p \in Procs :
          /\ task[p] \in {"nothing", "opens"} => on[p] = None
          /\ task[p] = "names" =>
                /\ on[p] \in Nat \X {Pid[p]} /\ on[p] \notin DOMAIN folder
                /\ on[p] \in DOMAIN earlier
          /\ task[p] \in Holding /\ unlocked = 0 => on[p] \in DOMAIN folder /\ holder[on[p]] = p

OfferedInv ==
    /\ DOMAIN offered = Windows
    /\ unlocked = 0 => \A w \in Windows :
        /\ offered[w] \subseteq DOMAIN folder \cup deleted
        /\ \A p \in Procs : task[p] = "runs" => on[p] \notin offered[w] \ deleted

\* What a run has written, and what is left of it, cut off after its change was made.
Running(lines) ==
    \/ lines \in {<<>>, <<"begin">>}
    \/ \E x \in {"plan", "tags"} :
          \/ lines = <<"begin", x>>
          \/ \E y \in {"done", "failed"} :
                lines \in {<<"begin", x, y>>, <<"begin", x, y, "commit">>}
Whole == {<<"begin", "plan">>, <<"begin", "plan", "done">>, <<"begin", "plan", "done", "commit">>}
Done(file) ==
    \/ file.lines \in Whole
    \/ /\ ~file.ended
       /\ \E x \in {"torn", "nul"} :
             file.lines \in {<<"begin", "plan", x>>, <<"begin", "plan", "done", x>>}
RecordsInv ==
    /\ DOMAIN folder \subseteq DOMAIN kept \cap DOMAIN applied
    /\ unlocked = 0 =>
        /\ \A p \in Procs : task[p] = "runs" =>
              LET lines == folder[on[p]].lines IN
              /\ Running(lines) /\ folder[on[p]].ended
              /\ kept[on[p]] = {lines[i] : i \in DOMAIN lines}
              /\ applied[on[p]] <=> "done" \in kept[on[p]]
        /\ \A n \in DOMAIN folder : applied[n] /\ "plan" \in kept[n] => Done(folder[n])

AskedInv ==
    /\ DOMAIN todo = Procs /\ DOMAIN by = Procs
    /\ \A p \in Procs : by[p] = "last" => task[p] \in {"opens", "undoes"}

JournalsInv == NamesInv /\ WorkInv /\ OfferedInv /\ RecordsInv
=============================================================================
