------------------------------- MODULE Volume -------------------------------
(***************************************************************************)
(* One folder and the two calls that change what is in it: a rename that   *)
(* must never replace (UnixPlatform::rename, WindowsPlatform::rename), and *)
(* the rewriting of a file's tags in a copy that takes its place           *)
(* (meta::write::rewrite).  Both take several system calls; between any    *)
(* two of them the process can be killed, the power can fail and another   *)
(* program can make or remove a file.  Which system calls a rename takes   *)
(* depends on the volume, and that is chosen at the start.                 *)
(*                                                                         *)
(* A name leads to an inode, an inode holds a version of a file; the file  *)
(* is what must survive.  The preview's worker reads tags meanwhile, and   *)
(* remembers what it read.                                                 *)
(***************************************************************************)
EXTENDS Integers, FiniteSets

CONSTANTS
    Spellings,          \* what the files are called
    Files,          \* the files, those of other programs included
    Folders,        \* those of them that are folders
    Nothing,
    Folded,         \* a name in lower case
    Starts,         \* name -> inode: what the folder may hold at first
    First,          \* inode -> file: what those hold
    Ops,            \* the calls made: "rename", "retag"
    Previewed,      \* the names whose tags a column or a card shows
    Attempts,       \* names tried for a parked file or a copy (64 and 100)
    Retries,        \* moves tried after a swap that broke off (5)
    MaxCalls, MaxKills, MaxForeign, MaxReads    \* bounds of the model

ASSUME VolumeAssumption ==
    /\ Folders \subseteq Files /\ Nothing \notin Spellings
    /\ Attempts \in Nat \ {0} /\ Retries \in Nat
    /\ MaxCalls \in Nat /\ MaxKills \in Nat /\ MaxForeign \in Nat /\ MaxReads \in Nat

\* What the volume can do: rename without replacing, hard links, and whether
\* it takes names that differ in case only for one.  Windows needs neither.
Volumes ==
    {v \in [windows : BOOLEAN, flags : BOOLEAN, links : BOOLEAN, folds : BOOLEAN] :
        v.windows => v.flags /\ v.links}

\* The hidden names beside a file.
Park(n)    == <<"case", n>>
Scratch(n) == <<"tags", n>>
Parks      == {Park(n) : n \in 1..Attempts}
Scratches  == {Scratch(n) : n \in 1..Attempts}
AllNames   == Spellings \cup Parks \cup Scratches

Blank == [file |-> Nothing, ver |-> "old", whole |-> FALSE, safe |-> FALSE]

VARIABLES
    volume,         \* what the volume can do
    dir,            \* name -> inode
    data,           \* what each inode holds, whole or not, on the disk or not
    call,           \* the call under way
    reading,        \* what the preview's worker has read and not yet remembered
    cached,         \* name -> version remembered of its tags
    born,           \* the files there have been
    removed,        \* those another program removed a name of
    overrun,        \* those a rename replaced
    mistaken,       \* those another program put under a name the program took
                    \* for that of the file it had found there
    strays,         \* hidden names left behind by a crash or a broken swap
    calm,           \* no trouble yet (Shelf)
    calls, kills, foreign, reads

fs == <<dir, data>>
ghosts == <<born, removed, overrun, mistaken, strays, calm>>
counts == <<calls, kills, foreign, reads>>
volumeVars == <<volume, dir, data, call, reading, cached, ghosts, counts>>

Inodes == 1..(Cardinality(Files) + Attempts)

\* Users' names are not the hidden ones; what the folder may hold at first.
ASSUME StartsAssumption ==
    /\ Spellings \cap (Parks \cup Scratches) = {}
    /\ \A d \in Starts :
          /\ DOMAIN d \subseteq Spellings /\ d \in [DOMAIN d -> Inodes]
          /\ \A n \in DOMAIN d : First[d[n]] \in Files

AtRest == [pc |-> "idle", step |-> "try", from |-> Nothing, to |-> Nothing,
         n |-> 1, k |-> 0]

-----------------------------------------------------------------------------
(* The directory.                                                          *)

Same(n, m) ==
    \/ n = m
    \/ volume.folds /\ n \in Spellings /\ m \in Spellings /\ Folded[n] = Folded[m]

\* The name as it is spelled on the disk.
Spelled(n) == {m \in DOMAIN dir : Same(m, n)}
Exists(n)  == Spelled(n) # {}
Entry(n)   == CHOOSE m \in Spelled(n) : TRUE
Inode(n)   == dir[Entry(n)]
File(n)    == data[Inode(n)].file

\* The directory once what is called f is called t.
Moved(f, t) ==
    [m \in (DOMAIN dir \ (Spelled(f) \cup Spelled(t))) \cup {t} |->
        IF m = t THEN Inode(f) ELSE dir[m]]
Unlinked(n) == [m \in DOMAIN dir \ Spelled(n) |-> dir[m]]
Linked(n, i) == [m \in DOMAIN dir \cup {n} |-> IF m = n THEN i ELSE dir[m]]

\* The inodes no name leads to, and the one a new file gets.
FreeInodes == {i \in Inodes : \A n \in DOMAIN dir : dir[n] # i}
NewInode == CHOOSE i \in FreeInodes : TRUE

\* The file under a name, if there is one.
There(n) == {data[dir[m]].file : m \in Spelled(n)}

\* A file can be reached, whole.
Somewhere(f) == \E n \in DOMAIN dir : data[dir[n]].file = f /\ data[dir[n]].whole

-----------------------------------------------------------------------------
(* Renaming.  A rename that must not replace is tried up to three times in *)
(* one call: the file to its new name, or to a parked one, from there to   *)
(* its new name, and back.                                                 *)

\* A call ends; the program is between calls.
Return == call' = AtRest

Source == IF call.pc \in {"land", "back"} THEN Park(call.n) ELSE call.from
Target == CASE call.pc = "park" -> Park(call.n)
            [] call.pc = "back" -> call.from
            [] OTHER -> call.to

\* The name is taken by the file itself, under another spelling - or by a
\* hard link to it.
IsCaseOnlyAlias(f, t) ==
    /\ f # t /\ Folded[f] = Folded[t]
    /\ Exists(f) /\ Exists(t) /\ Inode(f) = Inode(t)

CallRename(f, t) ==
    /\ call = AtRest /\ calls < MaxCalls /\ "rename" \in Ops
    /\ f \in DOMAIN dir /\ f # t
    /\ calls' = calls + 1
    /\ IF volume.windows
       THEN /\ IF Exists(t) /\ ~Same(f, t) THEN UNCHANGED dir ELSE dir' = Moved(f, t)
            /\ UNCHANGED call
       ELSE /\ UNCHANGED dir
            /\ IF Exists(t) /\ ~IsCaseOnlyAlias(f, t)
               THEN UNCHANGED call
               ELSE call' = [AtRest EXCEPT !.pc = IF Exists(t) THEN "park" ELSE "move",
                                         !.from = f, !.to = t]
    /\ UNCHANGED <<volume, data, reading, cached, ghosts, kills, foreign, reads>>

\* The file got its name: the parked one goes on, any other is done.
Landed == IF call.pc = "park" THEN call' = [call EXCEPT !.pc = "land", !.step = "try"]
                              ELSE Return

\* As a bug would have it: the parked file is left where it is.
DeniedThere ==
    IF call.pc = "park" /\ call.n < Attempts
    THEN call' = [call EXCEPT !.n = @ + 1, !.step = "try"]
    ELSE Return

\* The name is taken: another parked name is tried, a parked file goes back,
\* anything else is refused.
Denied ==
    CASE call.pc = "park" /\ call.n < Attempts ->
            call' = [call EXCEPT !.n = @ + 1, !.step = "try"]
      [] call.pc = "land" -> call' = [call EXCEPT !.pc = "back", !.step = "try"]
      [] OTHER -> Return

\* The error of putting back is dropped, and the file stays parked.
Abandoned == strays' = IF call.pc = "back" THEN strays \cup {Source} ELSE strays

Moving == call.pc \in {"move", "park", "land", "back"}

Stuck ==
    /\ Denied /\ Abandoned
    /\ UNCHANGED <<dir, born, removed, overrun, mistaken, calm>>

\* renameat2 with RENAME_NOREPLACE.
RenameNoReplace ==
    /\ Moving /\ volume.flags
    /\ IF ~Exists(Source) \/ Exists(Target)
       THEN Stuck
       ELSE dir' = Moved(Source, Target) /\ Landed /\ UNCHANGED ghosts
    /\ UNCHANGED <<volume, data, reading, cached, counts>>

\* As a bug would have it: the fallback goes to the probe at once.
NeverLinked == FALSE

Linkable == volume.links /\ File(Source) \notin Folders

\* Without the flag: a hard link, which replaces nothing either ...
HardLink ==
    /\ Moving /\ ~volume.flags /\ call.step = "try"
    /\ Exists(Source) /\ Linkable
    /\ IF Exists(Target)
       THEN Stuck
       ELSE /\ dir' = Linked(Target, Inode(Source))
            /\ call' = [call EXCEPT !.step = "linked"]
            /\ UNCHANGED ghosts
    /\ UNCHANGED <<volume, data, reading, cached, counts>>

\* ... and the old name removed; where that fails the new one goes again.
Unlink ==
    /\ Moving /\ call.step = "linked"
    /\ \/ /\ Exists(Source) /\ dir' = Unlinked(Source) /\ Landed
          /\ mistaken' = mistaken \cup (There(Source) \ (There(Target) \cup removed))
          /\ UNCHANGED <<strays, calm>>
       \/ /\ dir' = Unlinked(Target) /\ Denied /\ Abandoned
          /\ mistaken' = mistaken \cup (There(Target) \ (There(Source) \cup removed))
          /\ IF call.pc = "back" THEN calm' = FALSE ELSE UNCHANGED calm
    /\ UNCHANGED <<born, removed, overrun>>
    /\ UNCHANGED <<volume, data, reading, cached, counts>>

\* Without either: a look whether the name is free ...
Probe ==
    /\ Moving /\ ~volume.flags /\ call.step = "try"
    /\ Exists(Source) => ~Linkable
    /\ IF Exists(Target) \/ ~Exists(Source)
       THEN Stuck
       ELSE call' = [call EXCEPT !.step = "probed"] /\ UNCHANGED <<dir, ghosts>>
    /\ UNCHANGED <<volume, data, reading, cached, counts>>

\* ... and a rename that replaces whatever has the name by then.
Replace ==
    /\ Moving /\ call.step = "probed"
    /\ IF ~Exists(Source)
       THEN Stuck
       ELSE /\ dir' = Moved(Source, Target) /\ Landed
            /\ overrun' = overrun \cup There(Target)
            /\ UNCHANGED <<born, removed, mistaken, strays, calm>>
    /\ UNCHANGED <<volume, data, reading, cached, counts>>

-----------------------------------------------------------------------------
(* Rewriting the tags.                                                     *)

Copied == Scratch(call.n)

CallRetag(f) ==
    /\ call = AtRest /\ calls < MaxCalls /\ "retag" \in Ops
    /\ f \in DOMAIN dir /\ File(f) \notin Folders
    /\ calls' = calls + 1
    /\ call' = [AtRest EXCEPT !.pc = "claim", !.from = f]
    /\ UNCHANGED <<volume, fs, reading, cached, ghosts, kills, foreign, reads>>

\* The copy's name is claimed before anything is copied; a full volume has
\* room for no copy.
Claim ==
    /\ call.pc = "claim"
    /\ \/ /\ Exists(Copied)
          /\ IF call.n < Attempts THEN call' = [call EXCEPT !.n = @ + 1] ELSE Return
          /\ UNCHANGED fs
       \/ /\ ~Exists(Copied) /\ FreeInodes # {}
          /\ dir' = Linked(Copied, NewInode)
          /\ data' = [data EXCEPT ![NewInode] = Blank]
          /\ call' = [call EXCEPT !.pc = "copy"]
       \/ /\ ~Exists(Copied)
          /\ Return /\ UNCHANGED fs
    /\ UNCHANGED <<volume, reading, cached, ghosts, counts>>

\* A step on the copy, which may fail: the copy is then removed.
OnCopy(at, next, r) ==
    /\ call.pc = at
    /\ \/ /\ data' = [data EXCEPT ![Inode(Copied)] = r]
          /\ call' = [call EXCEPT !.pc = next]
       \/ call' = [call EXCEPT !.pc = "drop"] /\ UNCHANGED data
    /\ UNCHANGED <<volume, dir, reading, cached, ghosts, counts>>

Copy == Exists(call.from) /\ OnCopy("copy", "edit", [data[Inode(call.from)] EXCEPT !.safe = FALSE])

CopyNothing ==
    /\ call.pc = "copy" /\ ~Exists(call.from)
    /\ call' = [call EXCEPT !.pc = "drop"]
    /\ UNCHANGED <<volume, fs, reading, cached, ghosts, counts>>

\* As a bug would have it: the copy is swapped in unflushed.
SyncLater == OnCopy("sync", "swap", data[Inode(Copied)])

Edit == OnCopy("edit", "sync", [data[Inode(Copied)] EXCEPT !.ver = "new"])
Sync == OnCopy("sync", "swap", [data[Inode(Copied)] EXCEPT !.safe = TRUE])

\* The copy under the file's name; the file that had it is gone.
Swapped ==
    /\ dir' = Moved(Copied, call.from)
    /\ mistaken' = mistaken \cup (There(call.from) \ There(Copied))
    /\ call' = [call EXCEPT !.pc = "forget"]
    /\ UNCHANGED <<born, removed, overrun, strays, calm>>

\* The swap is refused when the file is gone: looked up first, on Unix.
ReplaceFile ==
    /\ call.pc = "swap"
    /\ \/ /\ call' = [call EXCEPT !.pc = "drop"]
          /\ UNCHANGED <<dir, ghosts>>
       \/ /\ Exists(call.from) /\ ~volume.windows
          /\ call' = [call EXCEPT !.pc = "replace"]
          /\ UNCHANGED <<dir, ghosts>>
       \/ Exists(call.from) /\ volume.windows /\ Swapped
       \* ReplaceFileW broke off: the file is gone, the copy is all there is.
       \/ /\ Exists(call.from) /\ volume.windows
          /\ dir' = Unlinked(call.from)
          /\ mistaken' = mistaken \cup (There(call.from) \ There(Copied))
          /\ call' = [call EXCEPT !.pc = "half"]
          /\ calm' = FALSE
          /\ UNCHANGED <<born, removed, overrun, strays>>
    /\ UNCHANGED <<volume, data, reading, cached, counts>>

RenameOver ==
    /\ call.pc = "replace" /\ Swapped
    /\ UNCHANGED <<volume, data, reading, cached, counts>>

\* As bugs would have it: one move too many, and the copy removed as after
\* any other failure.
FinishOnceMore ==
    /\ call.pc = "half"
    /\ \/ ~Exists(call.from) /\ Swapped
       \/ /\ IF call.k <= Retries
             THEN call' = [call EXCEPT !.k = @ + 1] /\ UNCHANGED strays
             ELSE Return /\ strays' = strays \cup {Copied}
          /\ UNCHANGED <<dir, born, removed, overrun, mistaken, calm>>
    /\ UNCHANGED <<volume, data, reading, cached, counts>>

FinishOrDrop ==
    /\ call.pc = "half"
    /\ \/ ~Exists(call.from) /\ Swapped
       \/ call' = [call EXCEPT !.pc = "drop"] /\ UNCHANGED <<dir, ghosts>>
    /\ UNCHANGED <<volume, data, reading, cached, counts>>

\* The move is finished by hand, a few times; then the copy is kept, being
\* the only one, and the user is told its name.
FinishSwap ==
    /\ call.pc = "half"
    /\ \/ ~Exists(call.from) /\ Swapped
       \/ /\ IF call.k < Retries
             THEN call' = [call EXCEPT !.k = @ + 1] /\ UNCHANGED strays
             ELSE Return /\ strays' = strays \cup {Copied}
          /\ UNCHANGED <<dir, born, removed, overrun, mistaken, calm>>
    /\ UNCHANGED <<volume, data, reading, cached, counts>>

\* As a bug would have it: an error leaves the copy.
DropNothing ==
    /\ call.pc = "drop" /\ Return
    /\ UNCHANGED <<volume, fs, reading, cached, ghosts, counts>>

\* The copy goes, whatever step it was that failed.
Drop ==
    /\ call.pc = "drop"
    /\ dir' = Unlinked(Copied) /\ Return
    /\ UNCHANGED <<volume, data, reading, cached, ghosts, counts>>

\* The swap keeps the date, and may keep the length: what was read before is
\* forgotten, for every file.
ForgetWhatWasRead ==
    /\ call.pc = "forget"
    /\ cached' = [n \in Spellings |-> Nothing] /\ Return
    /\ UNCHANGED <<volume, fs, reading, ghosts, counts>>

-----------------------------------------------------------------------------
(* The preview's worker: a miss reads the file, and remembers it later.    *)

ReadTags(n) ==
    /\ reads < MaxReads /\ n \in Previewed /\ reading = Nothing /\ Exists(n) /\ cached[n] = Nothing
    /\ reading' = [name |-> n, ver |-> data[Inode(n)].ver]
    /\ reads' = reads + 1
    /\ UNCHANGED <<volume, fs, call, cached, ghosts, calls, kills, foreign>>

Remember ==
    /\ reading # Nothing
    /\ cached' = [cached EXCEPT ![reading.name] = reading.ver]
    /\ reading' = Nothing
    /\ UNCHANGED <<volume, fs, call, ghosts, counts>>

-----------------------------------------------------------------------------
(* What else happens to the folder.                                        *)

\* Another program makes a file,
Come(n, f) ==
    /\ foreign < MaxForeign /\ ~Exists(n) /\ f \notin born /\ FreeInodes # {}
    /\ dir' = Linked(n, NewInode)
    /\ data' = [data EXCEPT ![NewInode] =
                   [file |-> f, ver |-> "old", whole |-> TRUE, safe |-> TRUE]]
    /\ born' = born \cup {f}
    /\ calm' = FALSE /\ foreign' = foreign + 1
    /\ UNCHANGED <<volume, call, reading, cached, removed, overrun, mistaken, strays,
                   calls, kills, reads>>

\* or removes one.
Go(n) ==
    /\ foreign < MaxForeign /\ n \in DOMAIN dir
    /\ dir' = Unlinked(n)
    /\ removed' = removed \cup There(n)
    /\ calm' = FALSE /\ foreign' = foreign + 1
    /\ UNCHANGED <<volume, data, call, reading, cached, born, overrun, mistaken, strays,
                   calls, kills, reads>>

\* The process is killed between two system calls; when the power goes with
\* it, what was not flushed may be torn.
Crash(power) ==
    /\ kills < MaxKills /\ (power \/ call # AtRest)
    /\ IF power
       THEN \E T \in SUBSET {i \in Inodes : ~data[i].safe} :
               data' = [i \in Inodes |-> IF i \in T THEN [data[i] EXCEPT !.whole = FALSE]
                                                    ELSE data[i]]
       ELSE UNCHANGED data
    /\ Return
    /\ reading' = Nothing
    /\ cached' = [n \in Spellings |-> Nothing]
    /\ strays' = DOMAIN dir \ Spellings
    /\ calm' = FALSE /\ kills' = kills + 1
    /\ UNCHANGED <<volume, dir, born, removed, overrun, mistaken, calls, foreign, reads>>

-----------------------------------------------------------------------------

VolumeInit ==
    /\ volume \in Volumes
    /\ \E d \in Starts :
          /\ volume.folds => \A n, m \in DOMAIN d : Folded[n] = Folded[m] => n = m
          /\ dir = d
          /\ born = {First[d[n]] : n \in DOMAIN d}
          /\ data = [i \in Inodes |->
                IF \E n \in DOMAIN d : d[n] = i
                THEN [file |-> First[i], ver |-> "old", whole |-> TRUE, safe |-> TRUE]
                ELSE Blank]
    /\ call = AtRest /\ reading = Nothing /\ cached = [n \in Spellings |-> Nothing]
    /\ removed = {} /\ overrun = {} /\ mistaken = {} /\ strays = {} /\ calm = TRUE
    /\ calls = 0 /\ kills = 0 /\ foreign = 0 /\ reads = 0

VolumeNext ==
    \/ \E f \in Spellings, t \in Spellings : CallRename(f, t)
    \/ RenameNoReplace \/ HardLink \/ Unlink \/ Probe \/ Replace
    \/ \E f \in Spellings : CallRetag(f)
    \/ Claim \/ Copy \/ CopyNothing \/ Edit \/ Sync \/ ReplaceFile \/ RenameOver
    \/ FinishSwap \/ Drop \/ ForgetWhatWasRead
    \/ \E n \in Spellings : ReadTags(n)
    \/ Remember
    \/ \E n \in Spellings, f \in Files : Come(n, f)
    \/ \E n \in Spellings : Go(n)
    \/ \E power \in BOOLEAN : Crash(power)

VolumeSpec == VolumeInit /\ [][VolumeNext]_volumeVars

-----------------------------------------------------------------------------
(* Properties.                                                             *)

VolumeTypeOK ==
    /\ volume \in Volumes
    /\ DOMAIN dir \subseteq AllNames /\ dir \in [DOMAIN dir -> Inodes]
    /\ data \in [Inodes -> [file : Files \cup {Nothing}, ver : {"old", "new"},
                            whole : BOOLEAN, safe : BOOLEAN]]
    /\ call \in [pc : {"idle", "move", "park", "land", "back", "claim", "copy", "edit",
                       "sync", "swap", "replace", "half", "drop", "forget"},
                 step : {"try", "linked", "probed"},
                 from : Spellings \cup {Nothing}, to : Spellings \cup {Nothing},
                 n : 1..Attempts, k : 0..Retries]
    /\ call.pc # "idle" => call.from \in Spellings
    /\ Moving => call.to \in Spellings /\ call.to # call.from
    /\ ~Moving => call.step = "try"
    /\ reading = Nothing \/ reading \in [name : Spellings, ver : {"old", "new"}]
    /\ cached \in [Spellings -> {"old", "new", Nothing}]
    /\ strays \subseteq Parks \cup Scratches /\ calm \in BOOLEAN
    \* A case-insensitive folder never holds two spellings of a name.
    /\ volume.folds =>
          \A n, m \in DOMAIN dir \cap Spellings : Folded[n] = Folded[m] => n = m

\* No step of a rename or of a rewrite takes the last whole copy of a file
\* away: whatever is interrupted, and wherever, each file can be reached
\* unless another program removed it, or made it in the moment between a
\* probe and the rename (overrun), or put it under the name of a file that was
\* being linked elsewhere or whose tags were being rewritten (mistaken).
NothingLost ==
    \A f \in born : Somewhere(f) \/ f \in removed \cup overrun \cup mistaken

\* rename never replaces a file, on any volume that has the flag, or hard
\* links (and the file renamed is no folder).
ReplacesNothing ==
    overrun # {} => ~volume.windows /\ ~volume.flags /\ (~volume.links \/ Folders # {})

\* Whatever a user finds under a name is whole, even after a power cut: the
\* copy is flushed before it takes the name.
NamesAreWhole == \A n \in DOMAIN dir \cap Spellings : data[dir[n]].whole

\* A file that is there is whole, and one that is not was taken by somebody else.
FilesAreKept == NothingLost /\ NamesAreWhole

\* A hidden name beside the files is either in use by the call under way or
\* was left behind by a crash, a swap that broke off or a parked file whose
\* name was taken meanwhile.
StraysAreExplained ==
    \A n \in DOMAIN dir \ Spellings :
        \/ n \in strays
        \/ call # AtRest /\ n \in {Park(call.n), Scratch(call.n)}

\* Tags remembered are the file's, once nothing is being read or written
\* (the doc of meta::audio::forget_all).
CacheIsTrue ==
    call = AtRest /\ reading = Nothing =>
        \A n \in Spellings : cached[n] # Nothing /\ Exists(n) => cached[n] = data[Inode(n)].ver

\* What the user sees: not the second name of a file being linked, and a
\* parked file where it was, unless its name was taken.
Shown == (DOMAIN dir \cap Spellings) \ (IF call.step = "linked" THEN {Target} ELSE {})
Underway ==
    IF call.pc \in {"land", "back"} /\ (\A m \in Shown : ~Same(m, call.from))
    THEN {call.from} ELSE {}

shelf ==
    [n \in Shown \cup Underway |->
        LET i == IF n \in Shown THEN dir[n] ELSE dir[Source]
        IN  [file |-> data[i].file, ver |-> data[i].ver]]

\* One call looks like one step, or like none: the two system calls of a
\* case-only rename, the link and the unlink, and all that is done to a copy
\* do not show (docs of Platform::rename and Platform::replace_file).
Promise == INSTANCE Shelf WITH Names <- Spellings, folds <- volume.folds
IsShelf == Promise!ShelfSpec

-----------------------------------------------------------------------------
(* The inductive invariant behind FilesAreKept and IsShelf.                *)

WithCopy == {"copy", "edit", "sync", "swap", "replace", "half", "drop"}

\* What a user finds under a name, parked or not, is whole and on the disk;
\* a name the volume takes for the file's own is reached through a parked one
\* only; the copy is nobody's but the call's, and further along from step to
\* step.
CallInv ==
    /\ \A n \in DOMAIN dir \ Scratches :
          data[dir[n]].file \in Files /\ data[dir[n]].whole /\ data[dir[n]].safe
    /\ call.pc = "move" => ~Same(call.from, call.to)
    /\ call.step # "try" => ~volume.flags
    /\ call.pc \in {"land", "back"} \/ (call.pc = "park" /\ call.step = "linked") =>
          Park(call.n) \in DOMAIN dir
    /\ call.pc \in WithCopy =>
          /\ Copied \in DOMAIN dir
          /\ \A n \in DOMAIN dir : dir[n] = dir[Copied] => n = Copied
          /\ call.pc \notin {"copy", "drop"} =>
                data[dir[Copied]].file \in Files /\ data[dir[Copied]].whole
          /\ call.pc \notin {"copy", "edit", "drop"} => data[dir[Copied]].ver = "new"
          /\ call.pc \in {"swap", "replace", "half"} => data[dir[Copied]].safe

\* Every file nobody took has a name, and not only that of a copy that may yet go.
KeptInv ==
    \A f \in born \ (removed \cup overrun \cup mistaken) : \E n \in DOMAIN dir :
        /\ data[dir[n]].file = f /\ data[dir[n]].whole /\ data[dir[n]].safe
        /\ call.pc \in WithCopy \ {"half"} => n # Copied

\* Without trouble a call finds everything where it left it.
CalmInv ==
    calm =>
        /\ call.pc \notin {"idle", "land", "back"} => call.from \in DOMAIN dir
        /\ call.pc \in {"land", "back"} => \A m \in Shown : ~Same(m, call.from)
        /\ call.step = "linked" =>
              /\ Source \in DOMAIN dir /\ Target \in DOMAIN dir
              /\ dir[Target] = dir[Source]
        /\ call.step = "probed" => Source \in DOMAIN dir /\ ~Exists(Target)
        /\ call.pc \in {"edit", "sync", "swap", "replace"} =>
              data[dir[Copied]].file = data[dir[call.from]].file
        /\ call.pc # "half"

VolumeInv == VolumeTypeOK /\ CallInv /\ KeptInv /\ CalmInv
=============================================================================
