---------------------------- MODULE VolumeProofs ----------------------------
(* What holds of a folder and of the two calls that change it, for any      *)
(* number of files, names and calls, whatever is interrupted and whatever   *)
(* another program does: that no file is lost, that what has a name is      *)
(* whole, and that Volume implements Shelf.  What holds of a file's         *)
(* attributes and dates, on either platform and in every clock: that an     *)
(* undo writes back what its change replaced and nothing else.  And what    *)
(* holds of the mount table: that little of it is enough.  And what holds   *)
(* of the tags in a song: that the Music operations write what they report  *)
(* and disturb nothing else.  And what holds of the pipeline: that its      *)
(* cards and its table show what the run does.                              *)
EXTENDS Volume, Stamps, Tags, Pipeline, SequenceTheorems, WellFoundedInduction, TLAPS

-----------------------------------------------------------------------------
(* The directory.                                                          *)

\* Names of the call are not the user's, nor each other's.
LEMMA NameFacts ==
    /\ \A n \in 1..Attempts : Park(n) \notin Spellings /\ Scratch(n) \notin Spellings
    /\ \A n \in 1..Attempts : Park(n) \in Parks /\ Scratch(n) \in Scratches
    /\ \A n \in 1..Attempts : Park(n) \notin Scratches /\ Scratch(n) \notin Parks
    /\ \A n, m : Park(n) # Scratch(m)
    /\ \A n, m : Scratch(n) = Scratch(m) => n = m
    /\ AllNames = Spellings \cup Parks \cup Scratches
    /\ Nothing \notin Spellings
    /\ Parks \cap Scratches = {}
  <1>1. \A n, m : Park(n) # Scratch(m)
    BY DEF Park, Scratch
  <1>2. \A n, m : Scratch(n) = Scratch(m) => n = m
    BY DEF Scratch
  <1> QED BY <1>1, <1>2, StartsAssumption, VolumeAssumption DEF Parks, Scratches, AllNames

\* Of two names of the folder that are the same to the volume, there is one.
LEMMA OneSpelling ==
    ASSUME VolumeTypeOK
    PROVE  /\ \A n, m \in DOMAIN dir : Same(n, m) => n = m
           /\ \A n \in DOMAIN dir : Spelled(n) = {n} /\ Exists(n) /\ Entry(n) = n
           /\ \A n : Exists(n) <=> \E m \in DOMAIN dir : Same(m, n)
           /\ \A n : n \notin Spellings => Spelled(n) \subseteq {n}
           /\ \A n : \A m, k \in Spelled(n) : m = k
           /\ \A n : Exists(n) => Entry(n) \in DOMAIN dir /\ Spelled(n) = {Entry(n)}
                                  /\ Same(Entry(n), n)
  <1>1. \A n, m \in DOMAIN dir : Same(n, m) => n = m
    BY DEF VolumeTypeOK, Same
  <1>2. \A n \in DOMAIN dir : Same(n, n)
    BY DEF Same
  <1>3. \A n \in DOMAIN dir : Spelled(n) = {n}
    BY <1>1, <1>2 DEF Spelled
  <1>4. \A n, m, k : Same(m, n) /\ Same(k, n) => Same(m, k)
    BY DEF Same
  <1>5. \A n : \A m, k \in Spelled(n) : m = k
    BY <1>1, <1>4 DEF Spelled
  <1>6. \A n : n \notin Spellings => Spelled(n) \subseteq {n}
    BY DEF Spelled, Same
  <1>7. \A n : Exists(n) <=> \E m \in DOMAIN dir : Same(m, n)
    BY DEF Exists, Spelled
  <1>8. \A n : Exists(n) => Entry(n) \in Spelled(n)
    BY DEF Exists, Entry
  <1>9. \A n : Exists(n) => Entry(n) \in DOMAIN dir /\ Spelled(n) = {Entry(n)} /\ Same(Entry(n), n)
    BY <1>5, <1>8 DEF Spelled
  <1>10. \A n \in DOMAIN dir : Exists(n) /\ Entry(n) = n
    BY <1>3, <1>8 DEF Exists
  <1> QED BY <1>1, <1>3, <1>5, <1>6, <1>7, <1>9, <1>10

\* What a directory is.
IsDir(d) ==
    /\ DOMAIN d \subseteq AllNames /\ d \in [DOMAIN d -> Inodes]
    /\ volume.folds =>
          \A n, m \in DOMAIN d \cap Spellings : Folded[n] = Folded[m] => n = m

\* Renaming, removing and adding a name leave a directory.
LEMMA MovedFacts ==
    ASSUME VolumeTypeOK, NEW f, Exists(f), NEW t \in AllNames
    PROVE  /\ IsDir(Moved(f, t))
           /\ DOMAIN Moved(f, t) = (DOMAIN dir \ ({Entry(f)} \cup Spelled(t))) \cup {t}
           /\ Moved(f, t)[t] = dir[Entry(f)]
           /\ \A m \in DOMAIN Moved(f, t) \ {t} : m \in DOMAIN dir /\ Moved(f, t)[m] = dir[m]
  <1>1. Entry(f) \in DOMAIN dir /\ Spelled(f) = {Entry(f)}
    BY OneSpelling
  <1>2. DOMAIN dir \subseteq AllNames /\ dir \in [DOMAIN dir -> Inodes]
    BY DEF VolumeTypeOK
  <1>3. /\ DOMAIN Moved(f, t) = (DOMAIN dir \ ({Entry(f)} \cup Spelled(t))) \cup {t}
        /\ Moved(f, t)[t] = dir[Entry(f)]
        /\ \A m \in DOMAIN Moved(f, t) \ {t} : m \in DOMAIN dir /\ Moved(f, t)[m] = dir[m]
    BY <1>1 DEF Moved, Inode
  <1>4. /\ DOMAIN Moved(f, t) \subseteq AllNames
        /\ Moved(f, t) \in [DOMAIN Moved(f, t) -> Inodes]
    BY <1>1, <1>2 DEF Moved, Inode
  <1>5. ASSUME volume.folds, NEW n \in DOMAIN Moved(f, t) \cap Spellings,
               NEW m \in DOMAIN Moved(f, t) \cap Spellings, Folded[n] = Folded[m]
        PROVE  n = m
  <2>1. CASE n # t /\ m # t
    BY <1>3, <1>5, <2>1 DEF VolumeTypeOK
  <2>2. CASE n = t /\ m # t
    BY <1>3, <1>5, <2>2 DEF Spelled, Same
  <2>3. CASE n # t /\ m = t
    BY <1>3, <1>5, <2>3 DEF Spelled, Same
  <2> QED BY <2>1, <2>2, <2>3
  <1> QED BY <1>3, <1>4, <1>5 DEF IsDir

LEMMA MovedInodes ==
    ASSUME VolumeTypeOK, NEW f, Exists(f), NEW t \in AllNames
    PROVE  \A m \in DOMAIN Moved(f, t) :
              \/ m = t /\ Moved(f, t)[m] = dir[Entry(f)]
              \/ m # t /\ m \in DOMAIN dir /\ Moved(f, t)[m] = dir[m]
  <1>1. Entry(f) \in DOMAIN dir /\ Spelled(f) = {Entry(f)}
    BY OneSpelling
  <1> QED BY <1>1 DEF Moved, Inode

LEMMA UnlinkedFacts ==
    ASSUME VolumeTypeOK, NEW n
    PROVE  /\ IsDir(Unlinked(n))
           /\ DOMAIN Unlinked(n) = DOMAIN dir \ Spelled(n)
           /\ \A m \in DOMAIN Unlinked(n) : m \in DOMAIN dir /\ Unlinked(n)[m] = dir[m]
  BY DEF VolumeTypeOK, IsDir, Unlinked

LEMMA LinkedFacts ==
    ASSUME VolumeTypeOK, NEW n \in AllNames, ~Exists(n), NEW i \in Inodes
    PROVE  /\ IsDir(Linked(n, i))
           /\ n \notin DOMAIN dir
           /\ DOMAIN Linked(n, i) = DOMAIN dir \cup {n}
           /\ Linked(n, i)[n] = i
           /\ \A m \in DOMAIN dir : Linked(n, i)[m] = dir[m]
  <1>1. \A m \in DOMAIN dir : ~Same(m, n)
    BY OneSpelling
  <1>2. n \notin DOMAIN dir
    BY <1>1 DEF Same
  <1> QED BY <1>1, <1>2 DEF VolumeTypeOK, IsDir, Linked, Same
-----------------------------------------------------------------------------
(* Type correctness.                                                       *)

Pcs == {"idle", "move", "park", "land", "back", "claim", "copy", "edit",
        "sync", "swap", "replace", "half", "drop", "forget"}

LEMMA RestFacts ==
    /\ AtRest \in [pc : Pcs, step : {"try", "linked", "probed"},
                   from : Spellings \cup {Nothing}, to : Spellings \cup {Nothing},
                   n : 1..Attempts, k : 0..Retries]
    /\ AtRest.pc = "idle" /\ AtRest.step = "try" /\ AtRest.n = 1
  BY VolumeAssumption DEF AtRest, Pcs

\* The names a call is about.
LEMMA CallNames ==
    ASSUME VolumeTypeOK
    PROVE  /\ call.n \in 1..Attempts /\ call.k \in 0..Retries
           /\ Park(call.n) \in AllNames /\ Copied \in AllNames
           /\ Moving => /\ Source \in AllNames /\ Target \in AllNames
                        /\ Source # Target /\ call.from \in Spellings /\ call.to \in Spellings
           /\ call.pc \in {"move", "park"} => Source = call.from
           /\ call.pc \in {"land", "back"} => Source = Park(call.n)
           /\ call.pc \in {"move", "land"} => Target = call.to
           /\ call.pc = "park" => Target = Park(call.n)
           /\ call.pc = "back" => Target = call.from
  <1>1. call.n \in 1..Attempts /\ call.k \in 0..Retries
    BY DEF VolumeTypeOK
  <1>2. Moving => /\ call.from \in Spellings /\ call.to \in Spellings
                  /\ call.from # call.to
    BY DEF VolumeTypeOK, Moving
  <1> QED BY <1>1, <1>2, NameFacts DEF Source, Target, Moving, Copied

\* A new file gets an inode of its own.
LEMMA NewFacts ==
    ASSUME FreeInodes # {}
    PROVE  NewInode \in Inodes /\ \A n \in DOMAIN dir : dir[n] # NewInode
  BY DEF NewInode, FreeInodes

\* Nothing changes what the volume can do.
LEMMA SameVolume == ASSUME VolumeNext PROVE volume' = volume
  <1>1. CASE \E f \in Spellings, t \in Spellings : CallRename(f, t)
    BY <1>1 DEF CallRename
  <1>2. CASE RenameNoReplace \/ HardLink \/ Unlink \/ Probe \/ Replace
    BY <1>2 DEF RenameNoReplace, HardLink, Unlink, Probe, Replace
  <1>3. CASE (\E f \in Spellings : CallRetag(f)) \/ Claim \/ Copy \/ CopyNothing \/ Edit \/ Sync
    BY <1>3 DEF CallRetag, Claim, Copy, CopyNothing, Edit, Sync, OnCopy
  <1>4. CASE ReplaceFile \/ RenameOver \/ FinishSwap \/ Drop \/ ForgetWhatWasRead
    BY <1>4 DEF ReplaceFile, RenameOver, FinishSwap, Drop, ForgetWhatWasRead
  <1>5. CASE (\E n \in Spellings : ReadTags(n)) \/ Remember
    BY <1>5 DEF ReadTags, Remember
  <1>6. CASE \/ \E n \in Spellings, f \in Files : Come(n, f)
             \/ \E n \in Spellings : Go(n)
             \/ \E power \in BOOLEAN : Crash(power)
    BY <1>6 DEF Come, Go, Crash
  <1> QED BY <1>1, <1>2, <1>3, <1>4, <1>5, <1>6 DEF VolumeNext

LEMMA DirKept ==
    ASSUME VolumeTypeOK
    PROVE  /\ IsDir(dir)
           /\ \A f, t : Exists(f) /\ t \in AllNames => IsDir(Moved(f, t))
           /\ \A n : IsDir(Unlinked(n))
           /\ \A n, i : n \in AllNames /\ ~Exists(n) /\ i \in Inodes => IsDir(Linked(n, i))
  <1>1. IsDir(dir)
    BY DEF IsDir, VolumeTypeOK
  <1>2. ASSUME NEW f, NEW t, Exists(f), t \in AllNames PROVE IsDir(Moved(f, t))
    BY <1>2, MovedFacts
  <1>3. ASSUME NEW n PROVE IsDir(Unlinked(n))
    BY UnlinkedFacts
  <1>4. ASSUME NEW n, NEW i, n \in AllNames, ~Exists(n), i \in Inodes PROVE IsDir(Linked(n, i))
    BY <1>4, LinkedFacts
  <1> QED BY <1>1, <1>2, <1>3, <1>4

\* What a step can do to the directory.
LEMMA DirStep == ASSUME VolumeTypeOK, CallInv, VolumeNext PROVE IsDir(dir')
  <1> USE DEF fs
  <1>1. IsDir(dir)
    BY DEF IsDir, VolumeTypeOK
  <1>2. CASE dir' = dir
    BY <1>1, <1>2
  <1>3. CASE \E n : dir' = Unlinked(n)
    BY <1>3, DirKept
  <1>4. ASSUME NEW f \in Spellings, NEW t \in Spellings, CallRename(f, t) PROVE IsDir(dir')
  <2>1. f \in DOMAIN dir /\ (dir' = dir \/ dir' = Moved(f, t))
    BY <1>4 DEF CallRename
  <2>2. Exists(f)
    BY <2>1, OneSpelling
  <2> QED BY <2>1, <2>2, <1>2, DirKept DEF AllNames
  <1>5. CASE RenameNoReplace \/ Replace
  <2>1. Moving /\ (dir' = dir \/ (Exists(Source) /\ dir' = Moved(Source, Target)))
    BY <1>5 DEF RenameNoReplace, Replace, Stuck
  <2> QED BY <2>1, <1>2, DirKept, CallNames
  <1>6. CASE HardLink
  <2>1. /\ Moving /\ Exists(Source)
        /\ dir' = dir \/ (~Exists(Target) /\ dir' = Linked(Target, Inode(Source)))
    BY <1>6 DEF HardLink, Stuck
  <2>2. Inode(Source) \in Inodes
    BY <2>1, OneSpelling DEF Inode, VolumeTypeOK
  <2> QED BY <2>1, <2>2, <1>2, DirKept, CallNames
  <1>7. CASE Unlink \/ Drop \/ \E n \in Spellings : Go(n)
  <2>1. \E n : dir' = Unlinked(n)
    BY <1>7 DEF Unlink, Drop, Go
  <2> QED BY <2>1, <1>3
  <1>8. CASE Claim
  <2>1. dir' = dir \/ (~Exists(Copied) /\ FreeInodes # {} /\ dir' = Linked(Copied, NewInode))
    BY <1>8 DEF Claim
  <2> QED BY <2>1, <1>2, DirKept, CallNames, NewFacts
  <1>9. CASE ReplaceFile \/ RenameOver \/ FinishSwap
  <2>1. /\ call.pc \in {"swap", "replace", "half"}
        /\ dir' = dir \/ dir' = Unlinked(call.from) \/ dir' = Moved(Copied, call.from)
    BY <1>9 DEF ReplaceFile, RenameOver, FinishSwap, Swapped
  <2>2. Exists(Copied)
    BY <2>1, OneSpelling DEF CallInv, WithCopy
  <2>3. call.from \in AllNames
    BY <2>1 DEF VolumeTypeOK, AllNames
  <2> QED BY <2>1, <2>2, <2>3, <1>2, <1>3, DirKept
  <1>10. ASSUME NEW n \in Spellings, NEW f \in Files, Come(n, f) PROVE IsDir(dir')
  <2>1. ~Exists(n) /\ FreeInodes # {} /\ dir' = Linked(n, NewInode)
    BY <1>10 DEF Come
  <2> QED BY <2>1, DirKept, NewFacts DEF AllNames
  <1>11. CASE \/ Probe \/ (\E f \in Spellings : CallRetag(f)) \/ Copy \/ CopyNothing \/ Edit
              \/ Sync \/ ForgetWhatWasRead \/ (\E n \in Spellings : ReadTags(n)) \/ Remember
              \/ \E power \in BOOLEAN : Crash(power)
  <2>1. dir' = dir
    BY <1>11 DEF Probe, Stuck, CallRetag, Copy, OnCopy, CopyNothing, Edit, Sync,
                 ForgetWhatWasRead, ReadTags, Remember, Crash
  <2> QED BY <2>1, <1>2
  <1> QED BY <1>4, <1>5, <1>6, <1>7, <1>8, <1>9, <1>10, <1>11 DEF VolumeNext

\* What a call is.
MovingPcs == {"move", "park", "land", "back"}

IsCall(c) ==
    /\ c \in [pc : Pcs, step : {"try", "linked", "probed"},
              from : Spellings \cup {Nothing}, to : Spellings \cup {Nothing},
              n : 1..Attempts, k : 0..Retries]
    /\ c.pc # "idle" => c.from \in Spellings
    /\ c.pc \in MovingPcs => c.to \in Spellings /\ c.to # c.from
    /\ c.pc \notin MovingPcs => c.step = "try"

LEMMA CallMoves ==
    ASSUME IsCall(call)
    PROVE  /\ IsCall(AtRest)
           /\ Landed /\ call.pc \in MovingPcs => IsCall(call')
           /\ Denied /\ call.pc \in MovingPcs => IsCall(call')
           /\ \A step \in {"try", "linked", "probed"} :
                 call.pc \in MovingPcs => IsCall([call EXCEPT !.step = step])
           /\ \A pc \in Pcs \ MovingPcs : call.pc \notin MovingPcs \cup {"idle"} =>
                 IsCall([call EXCEPT !.pc = pc])
           /\ call.n < Attempts => IsCall([call EXCEPT !.n = @ + 1])
           /\ call.k < Retries => IsCall([call EXCEPT !.k = @ + 1])
  <1> USE DEF MovingPcs, Pcs
  <1>1. IsCall(AtRest)
    BY RestFacts DEF IsCall
  <1>2. call.n \in 1..Attempts /\ call.k \in 0..Retries /\ Attempts \in Nat /\ Retries \in Nat
    BY VolumeAssumption DEF IsCall
  <1>3. /\ call.n < Attempts => call.n + 1 \in 1..Attempts
        /\ call.k < Retries => call.k + 1 \in 0..Retries
    BY <1>2
  <1>4. Landed /\ call.pc \in MovingPcs => IsCall(call')
    BY <1>1 DEF Landed, Return, IsCall
  <1>5. Denied /\ call.pc \in MovingPcs => IsCall(call')
    BY <1>1, <1>3 DEF Denied, Return, IsCall
  <1>6. ASSUME NEW step \in {"try", "linked", "probed"}, call.pc \in MovingPcs
        PROVE  IsCall([call EXCEPT !.step = step])
    BY <1>6 DEF IsCall
  <1>7. ASSUME NEW pc \in Pcs \ MovingPcs, call.pc \notin MovingPcs \cup {"idle"}
        PROVE  IsCall([call EXCEPT !.pc = pc])
    BY <1>7 DEF IsCall
  <1>8. call.n < Attempts => IsCall([call EXCEPT !.n = @ + 1])
    BY <1>3 DEF IsCall
  <1>9. call.k < Retries => IsCall([call EXCEPT !.k = @ + 1])
    BY <1>3 DEF IsCall
  <1> QED BY <1>1, <1>4, <1>5, <1>6, <1>7, <1>8, <1>9

LEMMA CallStep == ASSUME IsCall(call), VolumeNext PROVE IsCall(call')
  <1> USE DEF MovingPcs, Pcs
  <1>1. ASSUME NEW f \in Spellings, NEW t \in Spellings, CallRename(f, t) PROVE IsCall(call')
  <2>1. f # t /\ call = AtRest
    BY <1>1 DEF CallRename
  <2>2. \/ call' = call
        \/ \E pc \in {"park", "move"} : call' = [AtRest EXCEPT !.pc = pc, !.from = f, !.to = t]
    BY <1>1 DEF CallRename
  <2>3. ASSUME NEW pc \in {"park", "move"}
        PROVE  IsCall([AtRest EXCEPT !.pc = pc, !.from = f, !.to = t])
    BY <2>1, RestFacts DEF IsCall
  <2> QED BY <2>2, <2>3
  <1>2. CASE RenameNoReplace \/ Replace
  <2>1. Moving /\ (Landed \/ Denied)
    BY <1>2 DEF RenameNoReplace, Replace, Stuck
  <2> QED BY <2>1, CallMoves DEF Moving
  <1>3. CASE HardLink \/ Probe
  <2>1. Moving /\ (Denied \/ \E step \in {"linked", "probed"} : call' = [call EXCEPT !.step = step]
                 \/ call' = call)
    BY <1>3 DEF HardLink, Probe, Stuck
  <2> QED BY <2>1, CallMoves DEF Moving
  <1>4. CASE Unlink
  <2>1. Moving /\ (Landed \/ Denied)
    BY <1>4 DEF Unlink
  <2> QED BY <2>1, CallMoves DEF Moving
  <1>5. ASSUME NEW f \in Spellings, CallRetag(f) PROVE IsCall(call')
    BY <1>5, RestFacts DEF CallRetag, IsCall
  <1>6. CASE Claim \/ Copy \/ CopyNothing \/ Edit \/ Sync \/ ReplaceFile
  <2>1. /\ call.pc \in {"claim", "copy", "edit", "sync", "swap"}
        /\ \/ call' = AtRest
           \/ call.n < Attempts /\ call' = [call EXCEPT !.n = @ + 1]
           \/ \E pc \in Pcs \ MovingPcs : call' = [call EXCEPT !.pc = pc]
    BY <1>6 DEF Claim, Copy, OnCopy, CopyNothing, Edit, Sync, ReplaceFile, Swapped, Return
  <2> QED BY <2>1, CallMoves
  <1>7. CASE RenameOver \/ FinishSwap
  <2>1. /\ call.pc \in {"replace", "half"}
        /\ \/ call' = AtRest
           \/ call.k < Retries /\ call' = [call EXCEPT !.k = @ + 1]
           \/ call' = [call EXCEPT !.pc = "forget"]
    BY <1>7 DEF RenameOver, FinishSwap, Swapped, Return
  <2> QED BY <2>1, CallMoves
  <1>8. CASE Drop \/ ForgetWhatWasRead \/ \E power \in BOOLEAN : Crash(power)
    BY <1>8, CallMoves DEF Drop, ForgetWhatWasRead, Crash, Return
  <1>9. CASE \/ (\E n \in Spellings : ReadTags(n)) \/ Remember
             \/ (\E n \in Spellings, f \in Files : Come(n, f)) \/ (\E n \in Spellings : Go(n))
  <2>1. call' = call
    BY <1>9 DEF ReadTags, Remember, Come, Go
  <2> QED BY <2>1
  <1> QED BY <1>1, <1>2, <1>3, <1>4, <1>5, <1>6, <1>7, <1>8, <1>9 DEF VolumeNext

\* What an inode holds.
Held == [file : Files \cup {Nothing}, ver : {"old", "new"}, whole : BOOLEAN, safe : BOOLEAN]

LEMMA TypeParts ==
    VolumeTypeOK <=>
        /\ volume \in Volumes /\ IsDir(dir) /\ IsCall(call) /\ data \in [Inodes -> Held]
        /\ reading = Nothing \/ reading \in [name : Spellings, ver : {"old", "new"}]
        /\ cached \in [Spellings -> {"old", "new", Nothing}]
        /\ strays \subseteq Parks \cup Scratches /\ calm \in BOOLEAN
  BY DEF VolumeTypeOK, IsDir, IsCall, Held, Pcs, MovingPcs, Moving

LEMMA DataStep == ASSUME VolumeTypeOK, CallInv, VolumeNext PROVE data' \in [Inodes -> Held]
  <1> USE DEF fs
  <1>0. /\ data \in [Inodes -> Held] /\ Blank \in Held
        /\ \A n \in DOMAIN dir : dir[n] \in Inodes
        /\ \A n : Exists(n) => Inode(n) \in Inodes
    BY TypeParts, OneSpelling DEF IsDir, Inode, Held, Blank
  <1>1. CASE data' = data
    BY <1>0, <1>1
  <1>2. CASE Claim
    BY <1>2, <1>0 DEF Claim
  <1>3. CASE Copy
  <2>1. Exists(call.from) /\ (data' = data \/
           data' = [data EXCEPT ![Inode(Copied)] = [data[Inode(call.from)] EXCEPT !.safe = FALSE]])
    BY <1>3 DEF Copy, OnCopy
  <2>2. [data[Inode(call.from)] EXCEPT !.safe = FALSE] \in Held
    BY <1>0, <2>1 DEF Held
  <2> QED BY <1>0, <2>1, <2>2
  <1>4. CASE Edit \/ Sync
  <2>1. /\ call.pc \in WithCopy
        /\ \/ data' = data
           \/ data' = [data EXCEPT ![Inode(Copied)] = [data[Inode(Copied)] EXCEPT !.ver = "new"]]
           \/ data' = [data EXCEPT ![Inode(Copied)] = [data[Inode(Copied)] EXCEPT !.safe = TRUE]]
    BY <1>4 DEF Edit, Sync, OnCopy, WithCopy
  <2>2. data[Inode(Copied)] \in Held
    BY <1>0, <2>1, OneSpelling DEF CallInv
  <2>3. /\ [data[Inode(Copied)] EXCEPT !.ver = "new"] \in Held
        /\ [data[Inode(Copied)] EXCEPT !.safe = TRUE] \in Held
    BY <2>2 DEF Held
  <2> QED BY <1>0, <2>1, <2>3
  <1>5. ASSUME NEW n \in Spellings, NEW f \in Files, Come(n, f) PROVE data' \in [Inodes -> Held]
  <2>1. [file |-> f, ver |-> "old", whole |-> TRUE, safe |-> TRUE] \in Held
    BY DEF Held
  <2> QED BY <1>0, <1>5, <2>1 DEF Come
  <1>6. ASSUME NEW power \in BOOLEAN, Crash(power) PROVE data' \in [Inodes -> Held]
  <2>1. \A i \in Inodes : [data[i] EXCEPT !.whole = FALSE] \in Held
    BY <1>0 DEF Held
  <2>2. \/ data' = data
        \/ \E T : data' = [i \in Inodes |-> IF i \in T THEN [data[i] EXCEPT !.whole = FALSE]
                                                     ELSE data[i]]
    BY <1>6 DEF Crash
  <2> QED BY <1>0, <2>1, <2>2
  <1>7. CASE \/ \E f \in Spellings, t \in Spellings : CallRename(f, t)
             \/ RenameNoReplace \/ HardLink \/ Unlink \/ Probe \/ Replace
             \/ (\E f \in Spellings : CallRetag(f))
             \/ CopyNothing \/ ReplaceFile \/ RenameOver \/ FinishSwap \/ Drop
             \/ ForgetWhatWasRead \/ (\E n \in Spellings : ReadTags(n)) \/ Remember
             \/ (\E n \in Spellings : Go(n))
  <2>1. data' = data
    BY <1>7 DEF CallRename, RenameNoReplace, HardLink, Unlink, Probe, Replace, CallRetag,
                CopyNothing, ReplaceFile, RenameOver, FinishSwap, Drop, ForgetWhatWasRead,
                ReadTags, Remember, Go
  <2> QED BY <1>1, <2>1
  <1> QED BY <1>2, <1>3, <1>4, <1>5, <1>6, <1>7 DEF VolumeNext

\* The preview's memory, and the names left behind.
LEMMA MemoryStep ==
    ASSUME VolumeTypeOK, VolumeNext
    PROVE  /\ reading' = Nothing \/ reading' \in [name : Spellings, ver : {"old", "new"}]
           /\ cached' \in [Spellings -> {"old", "new", Nothing}]
  <1>0. /\ reading = Nothing \/ reading \in [name : Spellings, ver : {"old", "new"}]
        /\ cached \in [Spellings -> {"old", "new", Nothing}]
    BY TypeParts
  <1>1. CASE UNCHANGED <<reading, cached>>
    BY <1>0, <1>1
  <1>2. ASSUME NEW n \in Spellings, ReadTags(n) PROVE
             reading' \in [name : Spellings, ver : {"old", "new"}] /\ cached' = cached
  <2>1. Inode(n) \in Inodes /\ data \in [Inodes -> Held]
    BY <1>2, TypeParts, OneSpelling DEF ReadTags, IsDir, Inode
  <2>2. data[Inode(n)].ver \in {"old", "new"}
    BY <2>1 DEF Held
  <2> QED BY <1>2, <2>2 DEF ReadTags
  <1>3. CASE Remember
    BY <1>0, <1>3 DEF Remember
  <1>4. CASE ForgetWhatWasRead \/ \E power \in BOOLEAN : Crash(power)
    BY <1>0, <1>4 DEF ForgetWhatWasRead, Crash
  <1>5. CASE \/ \E f \in Spellings, t \in Spellings : CallRename(f, t)
             \/ RenameNoReplace \/ HardLink \/ Unlink \/ Probe \/ Replace
             \/ (\E f \in Spellings : CallRetag(f)) \/ Claim \/ Copy
             \/ CopyNothing \/ Edit \/ Sync \/ ReplaceFile \/ RenameOver \/ FinishSwap \/ Drop
             \/ (\E n \in Spellings, f \in Files : Come(n, f)) \/ (\E n \in Spellings : Go(n))
  <2>1. UNCHANGED <<reading, cached>>
    BY <1>5 DEF CallRename, RenameNoReplace, HardLink, Unlink, Probe, Replace, CallRetag,
                Claim, Copy, OnCopy, CopyNothing, Edit, Sync, ReplaceFile, RenameOver, FinishSwap,
                Drop, Come, Go
  <2> QED BY <1>1, <2>1
  <1> QED BY <1>0, <1>2, <1>3, <1>4, <1>5 DEF VolumeNext

LEMMA StraysStep ==
    ASSUME VolumeTypeOK, VolumeNext
    PROVE  strays' \subseteq Parks \cup Scratches
  <1> USE DEF ghosts
  <1>0. strays \subseteq Parks \cup Scratches
    BY TypeParts
  <1>1. CASE strays' = strays
    BY <1>0, <1>1
  <1>2. CASE RenameNoReplace \/ HardLink \/ Unlink \/ Probe \/ Replace
  <2>1. strays' = strays \/ Abandoned
    BY <1>2 DEF RenameNoReplace, HardLink, Unlink, Probe, Replace, Stuck
  <2>2. CASE Abandoned
      <3>1. call.pc = "back" => Source \in Parks
        BY CallNames, NameFacts
      <3> QED BY <1>0, <2>2, <3>1 DEF Abandoned
  <2> QED BY <1>1, <2>1, <2>2
  <1>3. CASE ReplaceFile \/ RenameOver \/ FinishSwap
  <2>1. strays' = strays \/ strays' = strays \cup {Copied}
    BY <1>3 DEF ReplaceFile, RenameOver, FinishSwap, Swapped
  <2> QED BY <1>0, <2>1, CallNames, NameFacts DEF Copied
  <1>4. CASE \E power \in BOOLEAN : Crash(power)
  <2>1. strays' = DOMAIN dir \ Spellings
    BY <1>4 DEF Crash
  <2> QED BY <2>1, TypeParts, NameFacts DEF IsDir
  <1>5. CASE \/ (\E f \in Spellings, t \in Spellings : CallRename(f, t))
             \/ (\E f \in Spellings : CallRetag(f)) \/ Claim \/ Copy \/ CopyNothing \/ Edit
             \/ Sync \/ Drop \/ ForgetWhatWasRead \/ (\E n \in Spellings : ReadTags(n)) \/ Remember
             \/ (\E n \in Spellings, f \in Files : Come(n, f)) \/ (\E n \in Spellings : Go(n))
  <2>1. strays' = strays
    BY <1>5 DEF CallRename, CallRetag, Claim, Copy, OnCopy, CopyNothing, Edit, Sync, Drop,
                ForgetWhatWasRead, ReadTags, Remember, Come, Go
  <2> QED BY <1>1, <2>1
  <1> QED BY <1>2, <1>3, <1>4, <1>5 DEF VolumeNext

LEMMA CalmOnce ==
    ASSUME VolumeTypeOK, VolumeNext PROVE calm' \in BOOLEAN /\ (calm' => calm)
  <1>0. calm \in BOOLEAN
    BY DEF VolumeTypeOK
  <1>1. calm' = calm \/ calm' = FALSE
  <2>1. CASE \/ \E f \in Spellings, t \in Spellings : CallRename(f, t)
             \/ RenameNoReplace \/ HardLink \/ Unlink \/ Probe \/ Replace
    BY <2>1 DEF CallRename, RenameNoReplace, HardLink, Unlink, Probe, Replace, Stuck, ghosts
  <2>2. CASE ReplaceFile \/ RenameOver \/ FinishSwap
    BY <2>2 DEF ReplaceFile, RenameOver, FinishSwap, Swapped, ghosts
  <2>3. CASE \/ (\E f \in Spellings : CallRetag(f)) \/ Claim \/ Copy \/ CopyNothing \/ Edit
             \/ Sync \/ Drop \/ ForgetWhatWasRead \/ (\E n \in Spellings : ReadTags(n)) \/ Remember
    BY <2>3 DEF CallRetag, Claim, Copy, OnCopy, CopyNothing, Edit, Sync, Drop, ForgetWhatWasRead,
                ReadTags, Remember, ghosts
  <2>4. CASE \/ \E n \in Spellings, f \in Files : Come(n, f)
             \/ \E n \in Spellings : Go(n)
             \/ \E power \in BOOLEAN : Crash(power)
    BY <2>4 DEF Come, Go, Crash
  <2> QED BY <2>1, <2>2, <2>3, <2>4 DEF VolumeNext
  <1>2. calm' \in BOOLEAN
    BY <1>0, <1>1
  <1>3. calm' => calm
    BY <1>1
  <1> QED BY <1>2, <1>3

LEMMA TypeStep == ASSUME VolumeTypeOK, CallInv, VolumeNext PROVE VolumeTypeOK'
  <1>1. /\ volume' \in Volumes /\ IsDir(dir') /\ IsCall(call') /\ data' \in [Inodes -> Held]
        /\ strays' \subseteq Parks \cup Scratches
    BY TypeParts, SameVolume, DirStep, CallStep, DataStep, StraysStep
  <1>2. IsDir(dir)'
    BY <1>1, SameVolume DEF IsDir
  <1>3. IsCall(call)'
    BY <1>1 DEF IsCall
  <1> QED BY <1>1, <1>2, <1>3, MemoryStep, CalmOnce
          DEF VolumeTypeOK, IsDir, IsCall, Held, Pcs, MovingPcs, Moving
-----------------------------------------------------------------------------
(* What has a name is whole and on the disk; the copy is the call's alone.  *)

IsSound(i) == data[i].file \in Files /\ data[i].whole /\ data[i].safe


SoundInv == \A n \in DOMAIN dir \ Scratches : IsSound(dir[n])
AliasInv == call.pc = "move" => ~Same(call.from, call.to)
FlagsInv == call.step # "try" => ~volume.flags
ParkedInv ==
    call.pc \in {"land", "back"} \/ (call.pc = "park" /\ call.step = "linked") =>
        Park(call.n) \in DOMAIN dir
CopyInv ==
    call.pc \in WithCopy =>
        /\ Copied \in DOMAIN dir
        /\ \A n \in DOMAIN dir : dir[n] = dir[Copied] => n = Copied
        /\ call.pc \notin {"copy", "drop"} =>
              data[dir[Copied]].file \in Files /\ data[dir[Copied]].whole
        /\ call.pc \notin {"copy", "edit", "drop"} => data[dir[Copied]].ver = "new"
        /\ call.pc \in {"swap", "replace", "half"} => data[dir[Copied]].safe

LEMMA CallParts == CallInv <=> SoundInv /\ AliasInv /\ FlagsInv /\ ParkedInv /\ CopyInv
  BY DEF CallInv, SoundInv, IsSound, AliasInv, FlagsInv, ParkedInv, CopyInv

\* A name and its spelling on the disk are both the user's, or the same.
LEMMA EntryFacts ==
    ASSUME VolumeTypeOK, NEW n
    PROVE  /\ n \in Spellings => Spelled(n) \subseteq Spellings
           /\ n \notin Spellings => Spelled(n) \subseteq {n}
           /\ Exists(n) /\ n \notin Scratches => Entry(n) \in DOMAIN dir \ Scratches
           /\ Exists(n) /\ n \notin Spellings => Entry(n) = n /\ n \in DOMAIN dir
  <1>1. /\ n \in Spellings => Spelled(n) \subseteq Spellings
        /\ n \notin Spellings => Spelled(n) \subseteq {n}
    BY DEF Spelled, Same
  <1>2. Exists(n) => Entry(n) \in DOMAIN dir /\ Entry(n) \in Spelled(n)
    BY OneSpelling
  <1> QED BY <1>1, <1>2, NameFacts, StartsAssumption

\* Where a rename moves, links and unlinks.
LEMMA CallEnds ==
    ASSUME VolumeTypeOK, CallInv, Moving
    PROVE  /\ Source \in AllNames \ Scratches /\ Target \in AllNames \ Scratches
           /\ Spelled(Source) \cap Spelled(Target) = {}
           /\ ~Same(Source, Target) /\ ~Same(Target, Source)
  <1>1. /\ Source \in AllNames /\ Target \in AllNames /\ Source # Target
        /\ call.n \in 1..Attempts /\ call.from \in Spellings /\ call.to \in Spellings
    BY CallNames
  <1>2. Park(call.n) \notin Spellings /\ Park(call.n) \notin Scratches
    BY <1>1, NameFacts
  <1>3. /\ Source \in Spellings \/ Source = Park(call.n)
        /\ Target \in Spellings \/ Target = Park(call.n)
        /\ call.pc # "move" => Source \notin Spellings \/ Target \notin Spellings
    BY <1>1, <1>2, CallNames DEF Moving
  <1>4. ~Same(Source, Target)
  <2>1. CASE call.pc = "move"
    BY <2>1, CallNames DEF CallInv
  <2>2. CASE call.pc # "move"
    BY <2>2, <1>1, <1>3 DEF Same
  <2> QED BY <2>1, <2>2
  <1>5. ~Same(Target, Source)
    BY <1>4 DEF Same
  <1>6. Spelled(Source) \cap Spelled(Target) = {}
    BY <1>4 DEF Spelled, Same
  <1> QED BY <1>1, <1>2, <1>3, <1>4, <1>5, <1>6, StartsAssumption

\* What the steps of a rename do to the directory, and nothing to the data.
RenameStep ==
    \/ \E f \in Spellings, t \in Spellings : CallRename(f, t)
    \/ RenameNoReplace \/ HardLink \/ Unlink \/ Probe \/ Replace

LEMMA SoundRename == ASSUME VolumeTypeOK, CallInv, RenameStep PROVE SoundInv'
  <1>1. data' = data
    BY DEF RenameStep, CallRename, RenameNoReplace, HardLink, Unlink, Probe, Replace
  <1>2. SoundInv
    BY CallParts
  <1>3. ASSUME \A m \in DOMAIN dir' \ Scratches :
                  \E n \in DOMAIN dir \ Scratches : dir'[m] = dir[n]
        PROVE  SoundInv'
  <2>1. ASSUME NEW m \in DOMAIN dir' \ Scratches
        PROVE  data'[dir'[m]].file \in Files /\ data'[dir'[m]].whole /\ data'[dir'[m]].safe
      <3>1. PICK n \in DOMAIN dir \ Scratches : dir'[m] = dir[n]
        BY <1>3
      <3> QED BY <3>1, <1>1, <1>2 DEF SoundInv, IsSound
  <2> QED BY <2>1 DEF SoundInv, IsSound
  <1>4. CASE dir' = dir
    BY <1>3, <1>4
  <1>5. ASSUME NEW f, NEW t \in AllNames, Exists(f), f \notin Scratches, dir' = Moved(f, t)
        PROVE  SoundInv'
  <2>1. Entry(f) \in DOMAIN dir \ Scratches
    BY <1>5, EntryFacts
  <2>2. \A m \in DOMAIN dir' : \/ dir'[m] = dir[Entry(f)]
                               \/ m \in DOMAIN dir /\ dir'[m] = dir[m]
    BY <1>5, MovedInodes
  <2> QED BY <1>3, <2>1, <2>2
  <1>6. ASSUME NEW n, dir' = Unlinked(n) PROVE SoundInv'
  <2>1. \A m \in DOMAIN dir' : m \in DOMAIN dir /\ dir'[m] = dir[m]
    BY <1>6, UnlinkedFacts
  <2> QED BY <1>3, <2>1
  <1>7. ASSUME NEW f, NEW t \in AllNames, Exists(f), f \notin Scratches, ~Exists(t),
               dir' = Linked(t, Inode(f))
        PROVE  SoundInv'
  <2>1. Entry(f) \in DOMAIN dir \ Scratches /\ Inode(f) = dir[Entry(f)] /\ Inode(f) \in Inodes
    BY <1>7, EntryFacts DEF Inode, VolumeTypeOK
  <2>2. /\ dir'[t] = dir[Entry(f)] /\ DOMAIN dir' = DOMAIN dir \cup {t}
        /\ \A m \in DOMAIN dir : dir'[m] = dir[m]
    BY <1>7, <2>1, LinkedFacts
  <2> QED BY <1>3, <2>1, <2>2
  <1>8. ASSUME NEW f \in Spellings, NEW t \in Spellings, CallRename(f, t) PROVE SoundInv'
  <2>1. f \in DOMAIN dir /\ (dir' = dir \/ dir' = Moved(f, t))
    BY <1>8 DEF CallRename
  <2>2. Exists(f) /\ f \notin Scratches /\ t \in AllNames
    BY <2>1, OneSpelling, StartsAssumption DEF AllNames
  <2> QED BY <2>1, <2>2, <1>4, <1>5
  <1>9. CASE RenameNoReplace \/ Replace
  <2>1. Moving /\ (dir' = dir \/ (Exists(Source) /\ dir' = Moved(Source, Target)))
    BY <1>9 DEF RenameNoReplace, Replace, Stuck
  <2> QED BY <2>1, <1>4, <1>5, CallEnds
  <1>10. CASE HardLink \/ Probe
  <2>1. /\ Moving
        /\ \/ dir' = dir
           \/ Exists(Source) /\ ~Exists(Target) /\ dir' = Linked(Target, Inode(Source))
    BY <1>10 DEF HardLink, Probe, Stuck, ghosts
  <2> QED BY <2>1, <1>4, <1>7, CallEnds
  <1>11. CASE Unlink
  <2>1. \E n : dir' = Unlinked(n)
    BY <1>11 DEF Unlink
  <2> QED BY <2>1, <1>6
  <1> QED BY <1>8, <1>9, <1>10, <1>11 DEF RenameStep

\* An inode that a user's or a parked name leads to is not the copy's, nor a
\* new one: what is done to those leaves it alone.
LEMMA SoundElse ==
    ASSUME SoundInv,
           \A m \in DOMAIN dir' \ Scratches :
              m \in DOMAIN dir /\ dir'[m] = dir[m] /\ data'[dir[m]] = data[dir[m]]
    PROVE  SoundInv'
  BY DEF SoundInv, IsSound

\* The steps on a copy until it takes the file's name, and what the preview does.
CopyStep ==
    \/ \E f \in Spellings : CallRetag(f)
    \/ Claim \/ Copy \/ CopyNothing \/ Edit \/ Sync \/ Drop \/ ForgetWhatWasRead
    \/ \E n \in Spellings : ReadTags(n)
    \/ Remember

LEMMA SoundCopy == ASSUME VolumeTypeOK, CallInv, CopyStep PROVE SoundInv'
  <1>1. SoundInv /\ CopyInv
    BY CallParts
  <1>2. data \in [Inodes -> Held] /\ \A n \in DOMAIN dir : dir[n] \in Inodes
    BY TypeParts DEF IsDir
  <1>3. Copied \in Scratches
    BY CallNames, NameFacts DEF Copied
  <1>4. CASE data' = data /\ dir' = dir
    BY <1>1, <1>4, SoundElse
  <1>5. CASE Claim
  <2>1. \/ data' = data /\ dir' = dir
        \/ /\ ~Exists(Copied) /\ FreeInodes # {} /\ dir' = Linked(Copied, NewInode)
           /\ data' = [data EXCEPT ![NewInode] = Blank]
    BY <1>5 DEF Claim, fs
  <2>2. CASE /\ ~Exists(Copied) /\ FreeInodes # {} /\ dir' = Linked(Copied, NewInode)
             /\ data' = [data EXCEPT ![NewInode] = Blank]
      <3>1. NewInode \in Inodes /\ \A n \in DOMAIN dir : dir[n] # NewInode
        BY <2>2, NewFacts
      <3>2. /\ DOMAIN dir' = DOMAIN dir \cup {Copied}
            /\ \A m \in DOMAIN dir : dir'[m] = dir[m]
        BY <2>2, <3>1, LinkedFacts, CallNames
      <3>3. \A m \in DOMAIN dir : data'[dir[m]] = data[dir[m]]
        BY <2>2, <3>1, <1>2
      <3> QED BY <1>1, <1>3, <3>2, <3>3, SoundElse
  <2> QED BY <2>1, <2>2, <1>4
  <1>6. CASE Copy \/ Edit \/ Sync
  <2>1. /\ dir' = dir /\ call.pc \in WithCopy
        /\ data' = data \/ \E r : data' = [data EXCEPT ![Inode(Copied)] = r]
    BY <1>6 DEF Copy, Edit, Sync, OnCopy, WithCopy
  <2>2. Copied \in DOMAIN dir /\ \A n \in DOMAIN dir : dir[n] = dir[Copied] => n = Copied
    BY <1>1, <2>1 DEF CopyInv
  <2>3. Inode(Copied) = dir[Copied]
    BY <2>2, OneSpelling DEF Inode
  <2>4. \A m \in DOMAIN dir \ Scratches : data'[dir[m]] = data[dir[m]]
    BY <1>2, <1>3, <2>1, <2>2, <2>3
  <2> QED BY <1>1, <2>1, <2>4, SoundElse
  <1>7. CASE Drop
  <2>1. dir' = Unlinked(Copied) /\ data' = data
    BY <1>7 DEF Drop
  <2>2. \A m \in DOMAIN dir' : m \in DOMAIN dir /\ dir'[m] = dir[m]
    BY <2>1, UnlinkedFacts
  <2> QED BY <1>1, <2>1, <2>2, SoundElse
  <1>8. CASE \/ (\E f \in Spellings : CallRetag(f)) \/ CopyNothing \/ ForgetWhatWasRead
             \/ (\E n \in Spellings : ReadTags(n)) \/ Remember
  <2>1. data' = data /\ dir' = dir
    BY <1>8 DEF CallRetag, CopyNothing, ForgetWhatWasRead, ReadTags, Remember, fs
  <2> QED BY <2>1, <1>4
  <1> QED BY <1>5, <1>6, <1>7, <1>8 DEF CopyStep

\* The steps that put the copy in the file's place, or try to.
SwapStep == ReplaceFile \/ RenameOver \/ FinishSwap

LEMMA SwapFacts ==
    ASSUME VolumeTypeOK, CallInv, SwapStep
    PROVE  /\ call.pc \in {"swap", "replace", "half"} /\ data' = data
           /\ Copied \in DOMAIN dir /\ Copied \in Scratches /\ Exists(Copied)
           /\ Entry(Copied) = Copied /\ There(Copied) = {data[dir[Copied]].file}
           /\ IsSound(dir[Copied]) /\ data[dir[Copied]].ver = "new"
           /\ call.from \in Spellings /\ call.from \in AllNames
           /\ \/ /\ dir' = dir /\ calm' = calm
                 /\ UNCHANGED <<born, removed, overrun, mistaken>>
                 /\ \/ call.pc = "swap" /\ call' = [call EXCEPT !.pc = "drop"]
                    \/ call.pc = "swap" /\ call' = [call EXCEPT !.pc = "replace"]
                       /\ Exists(call.from)
                    \/ call.pc = "half" /\ (call' = AtRest \/ call' = [call EXCEPT !.k = @ + 1])
              \/ Swapped /\ calm' = calm
              \/ /\ dir' = Unlinked(call.from) /\ ~calm'
                 /\ mistaken' = mistaken \cup (There(call.from) \ There(Copied))
                 /\ call' = [call EXCEPT !.pc = "half"]
                 /\ UNCHANGED <<born, removed, overrun>>
  <1>1. call.pc \in {"swap", "replace", "half"} /\ data' = data
    BY DEF SwapStep, ReplaceFile, RenameOver, FinishSwap
  <1>2. /\ Copied \in DOMAIN dir /\ IsSound(dir[Copied]) /\ data[dir[Copied]].ver = "new"
    BY <1>1 DEF CallInv, WithCopy, IsSound
  <1>3. /\ Exists(Copied) /\ Entry(Copied) = Copied /\ There(Copied) = {data[dir[Copied]].file}
    BY <1>2, OneSpelling DEF There
  <1>4. Copied \in Scratches
    BY CallNames, NameFacts DEF Copied
  <1>5. call.from \in Spellings /\ call.from \in AllNames
    BY <1>1 DEF VolumeTypeOK, AllNames
  <1>6. ASSUME ReplaceFile
        PROVE  \/ /\ dir' = dir /\ calm' = calm /\ call.pc = "swap"
                  /\ UNCHANGED <<born, removed, overrun, mistaken>>
                  /\ \/ call' = [call EXCEPT !.pc = "drop"]
                     \/ call' = [call EXCEPT !.pc = "replace"] /\ Exists(call.from)
               \/ Swapped /\ calm' = calm
               \/ /\ dir' = Unlinked(call.from) /\ ~calm'
                  /\ mistaken' = mistaken \cup (There(call.from) \ There(Copied))
                  /\ call' = [call EXCEPT !.pc = "half"]
                  /\ UNCHANGED <<born, removed, overrun>>
    BY <1>6 DEF ReplaceFile, Swapped, ghosts
  <1>7. RenameOver => Swapped /\ calm' = calm
    BY DEF RenameOver, Swapped
  <1>8. ASSUME FinishSwap
        PROVE  \/ Swapped /\ calm' = calm
               \/ /\ dir' = dir /\ calm' = calm /\ call.pc = "half"
                  /\ UNCHANGED <<born, removed, overrun, mistaken>>
                  /\ call' = AtRest \/ call' = [call EXCEPT !.k = @ + 1]
    BY <1>8 DEF FinishSwap, Swapped, Return
  <1> QED BY <1>1, <1>2, <1>3, <1>4, <1>5, <1>6, <1>7, <1>8 DEF SwapStep

LEMMA SoundSwap == ASSUME VolumeTypeOK, CallInv, SwapStep PROVE SoundInv'
  <1>1. SoundInv
    BY CallParts
  <1>2. /\ data' = data /\ Exists(Copied) /\ Entry(Copied) = Copied /\ IsSound(dir[Copied])
        /\ call.from \in AllNames
        /\ dir' = dir \/ dir' = Moved(Copied, call.from) \/ dir' = Unlinked(call.from)
    BY SwapFacts DEF Swapped
  <1>3. CASE dir' = dir
    BY <1>1, <1>2, <1>3, SoundElse
  <1>4. CASE dir' = Unlinked(call.from)
  <2>1. \A m \in DOMAIN dir' : m \in DOMAIN dir /\ dir'[m] = dir[m]
    BY <1>4, UnlinkedFacts
  <2> QED BY <1>1, <1>2, <2>1, SoundElse
  <1>5. CASE dir' = Moved(Copied, call.from)
  <2>1. \A m \in DOMAIN dir' : \/ dir'[m] = dir[Copied]
                               \/ m \in DOMAIN dir /\ dir'[m] = dir[m]
    BY <1>2, <1>5, MovedInodes
  <2>2. ASSUME NEW m \in DOMAIN dir' \ Scratches
        PROVE  data'[dir'[m]].file \in Files /\ data'[dir'[m]].whole /\ data'[dir'[m]].safe
      <3>1. IsSound(dir'[m])
        BY <1>1, <1>2, <2>1 DEF SoundInv
      <3> QED BY <3>1, <1>2 DEF IsSound
  <2> QED BY <2>2 DEF SoundInv, IsSound
  <1> QED BY <1>2, <1>3, <1>4, <1>5

\* Other programs, and crashes.
WorldStep ==
    \/ \E n \in Spellings, f \in Files : Come(n, f)
    \/ \E n \in Spellings : Go(n)
    \/ \E power \in BOOLEAN : Crash(power)

\* What another program adds is a new inode under a new name, whole.
LEMMA ComeFacts ==
    ASSUME VolumeTypeOK, NEW n \in Spellings, NEW f \in Files, Come(n, f)
    PROVE  /\ n \notin DOMAIN dir /\ n \notin Scratches
           /\ DOMAIN dir' = DOMAIN dir \cup {n} /\ born' = born \cup {f}
           /\ \A m \in DOMAIN dir : dir'[m] = dir[m] /\ data'[dir[m]] = data[dir[m]]
                                    /\ dir'[m] # dir'[n]
           /\ data'[dir'[n]] = [file |-> f, ver |-> "old", whole |-> TRUE, safe |-> TRUE]
           /\ UNCHANGED <<call, removed, overrun, mistaken>>
  <1>1. /\ ~Exists(n) /\ FreeInodes # {} /\ dir' = Linked(n, NewInode)
        /\ data' = [data EXCEPT ![NewInode] =
                       [file |-> f, ver |-> "old", whole |-> TRUE, safe |-> TRUE]]
        /\ UNCHANGED <<call, removed, overrun, mistaken>> /\ born' = born \cup {f}
    BY DEF Come
  <1>2. NewInode \in Inodes /\ \A m \in DOMAIN dir : dir[m] # NewInode
    BY <1>1, NewFacts
  <1>3. n \in AllNames /\ n \notin Scratches
    BY StartsAssumption DEF AllNames
  <1>4. /\ n \notin DOMAIN dir /\ DOMAIN dir' = DOMAIN dir \cup {n} /\ dir'[n] = NewInode
        /\ \A m \in DOMAIN dir : dir'[m] = dir[m]
    BY <1>1, <1>2, <1>3, LinkedFacts
  <1>5. data \in [Inodes -> Held] /\ \A m \in DOMAIN dir : dir[m] \in Inodes
    BY TypeParts DEF IsDir
  <1>6. /\ \A m \in DOMAIN dir : data'[dir[m]] = data[dir[m]]
        /\ data'[NewInode] = [file |-> f, ver |-> "old", whole |-> TRUE, safe |-> TRUE]
    BY <1>1, <1>2, <1>5
  <1> QED BY <1>1, <1>2, <1>3, <1>4, <1>6

\* A crash tears only what is not on the disk.
LEMMA CrashFacts ==
    ASSUME VolumeTypeOK, NEW power \in BOOLEAN, Crash(power)
    PROVE  /\ dir' = dir /\ call' = AtRest
           /\ \A n \in DOMAIN dir : data[dir[n]].safe => data'[dir[n]] = data[dir[n]]
           /\ UNCHANGED <<born, removed, overrun, mistaken>>
  <1>1. dir' = dir /\ call' = AtRest /\ UNCHANGED <<born, removed, overrun, mistaken>>
    BY DEF Crash, Return
  <1>2. data \in [Inodes -> Held] /\ \A m \in DOMAIN dir : dir[m] \in Inodes
    BY TypeParts DEF IsDir
  <1>3. \/ data' = data
        \/ \E T \in SUBSET {i \in Inodes : ~data[i].safe} :
              data' = [i \in Inodes |-> IF i \in T THEN [data[i] EXCEPT !.whole = FALSE]
                                                   ELSE data[i]]
    BY DEF Crash
  <1>4. \A n \in DOMAIN dir : data[dir[n]].safe => data'[dir[n]] = data[dir[n]]
    BY <1>2, <1>3
  <1> QED BY <1>1, <1>4

LEMMA GoFacts ==
    ASSUME VolumeTypeOK, NEW n \in Spellings, Go(n)
    PROVE  /\ dir' = Unlinked(n) /\ data' = data /\ removed' = removed \cup There(n)
           /\ UNCHANGED <<call, born, overrun, mistaken>>
           /\ DOMAIN dir' = DOMAIN dir \ Spelled(n) /\ Spelled(n) \subseteq Spellings
           /\ \A m \in DOMAIN dir' : m \in DOMAIN dir /\ dir'[m] = dir[m]
  <1>1. /\ dir' = Unlinked(n) /\ data' = data /\ removed' = removed \cup There(n)
        /\ UNCHANGED <<call, born, overrun, mistaken>>
    BY DEF Go
  <1> QED BY <1>1, UnlinkedFacts, EntryFacts

LEMMA SoundWorld == ASSUME VolumeTypeOK, CallInv, WorldStep PROVE SoundInv'
  <1>1. SoundInv
    BY CallParts
  <1>2. ASSUME NEW n \in Spellings, NEW f \in Files, Come(n, f) PROVE SoundInv'
  <2>1. /\ DOMAIN dir' = DOMAIN dir \cup {n}
        /\ \A m \in DOMAIN dir : dir'[m] = dir[m] /\ data'[dir[m]] = data[dir[m]]
        /\ data'[dir'[n]] = [file |-> f, ver |-> "old", whole |-> TRUE, safe |-> TRUE]
    BY <1>2, ComeFacts
  <2> QED BY <1>1, <2>1 DEF SoundInv, IsSound
  <1>3. ASSUME NEW n \in Spellings, Go(n) PROVE SoundInv'
    BY <1>1, <1>3, GoFacts, SoundElse
  <1>4. ASSUME NEW power \in BOOLEAN, Crash(power) PROVE SoundInv'
  <2>1. /\ dir' = dir
        /\ \A n \in DOMAIN dir : data[dir[n]].safe => data'[dir[n]] = data[dir[n]]
    BY <1>4, CrashFacts
  <2> QED BY <1>1, <2>1, SoundElse DEF SoundInv, IsSound
  <1> QED BY <1>2, <1>3, <1>4 DEF WorldStep

\* These are all the steps there are.
LEMMA StepKinds == VolumeNext <=> RenameStep \/ CopyStep \/ SwapStep \/ WorldStep
  BY DEF VolumeNext, RenameStep, CopyStep, SwapStep, WorldStep

\* Where a call goes next.
LEMMA MovingCalls ==
    ASSUME VolumeTypeOK, Moving, Landed \/ Denied \/ call' = [call EXCEPT !.step = "linked"]
                                 \/ call' = [call EXCEPT !.step = "probed"]
    PROVE  /\ call'.pc \in {"idle", "park", "land", "back"} \/ call'.pc = call.pc
           /\ call'.pc # "idle" => call'.from = call.from /\ call'.to = call.to
           /\ call'.pc \notin WithCopy
           /\ call'.pc = "move" => call.pc = "move"
           /\ Landed => call' = AtRest \/ (call.pc = "park" /\ call'.pc = "land" /\ call'.n = call.n
                                           /\ call'.step = "try")
           /\ Denied => \/ call' = AtRest
                        \/ call.pc = "park" /\ call'.pc = "park" /\ call'.step = "try"
                        \/ call.pc = "land" /\ call'.pc = "back" /\ call'.step = "try"
                           /\ call'.n = call.n
  <1>1. call \in [pc : Pcs, step : {"try", "linked", "probed"},
                  from : Spellings \cup {Nothing}, to : Spellings \cup {Nothing},
                  n : 1..Attempts, k : 0..Retries]
    BY DEF VolumeTypeOK, Pcs
  <1>2. AtRest.pc = "idle"
    BY RestFacts
  <1>3. Landed => \/ call' = AtRest
                  \/ /\ call.pc = "park" /\ call'.pc = "land" /\ call'.n = call.n
                     /\ call'.step = "try" /\ call'.from = call.from /\ call'.to = call.to
    BY <1>1 DEF Landed, Return
  <1>4. Denied => \/ call' = AtRest
                  \/ /\ call.pc = "park" /\ call'.pc = "park" /\ call'.step = "try"
                     /\ call'.from = call.from /\ call'.to = call.to
                  \/ /\ call.pc = "land" /\ call'.pc = "back" /\ call'.step = "try"
                     /\ call'.n = call.n /\ call'.from = call.from /\ call'.to = call.to
    BY <1>1 DEF Denied, Return
  <1>5. ASSUME NEW step, call' = [call EXCEPT !.step = step]
        PROVE  call'.pc = call.pc /\ call'.from = call.from /\ call'.to = call.to
    BY <1>1, <1>5
  <1>6. call.pc \in {"move", "park", "land", "back"}
    BY DEF Moving
  <1> QED BY <1>2, <1>3, <1>4, <1>5, <1>6 DEF WithCopy

LEMMA StartFacts ==
    ASSUME NEW f \in Spellings, NEW t \in Spellings, CallRename(f, t)
    PROVE  /\ f \in DOMAIN dir /\ f # t /\ call = AtRest
           /\ UNCHANGED ghosts /\ data' = data
           /\ \/ call' = call /\ dir' = dir
              \/ /\ call' = call /\ dir' = Moved(f, t) /\ (~Exists(t) \/ Same(f, t))
              \/ /\ dir' = dir /\ call'.from = f /\ call'.to = t /\ call'.step = "try"
                 /\ \/ call'.pc = "park"
                    \/ call'.pc = "move" /\ ~Exists(t)
  <1>1. AtRest.step = "try" /\ AtRest \in [pc : Pcs, step : {"try", "linked", "probed"},
                   from : Spellings \cup {Nothing}, to : Spellings \cup {Nothing},
                   n : 1..Attempts, k : 0..Retries]
    BY RestFacts
  <1>2. ASSUME NEW pc PROVE
          LET c == [AtRest EXCEPT !.pc = pc, !.from = f, !.to = t]
          IN  c.pc = pc /\ c.from = f /\ c.to = t /\ c.step = "try"
    BY <1>1
  <1>3. /\ f \in DOMAIN dir /\ f # t /\ call = AtRest /\ UNCHANGED ghosts /\ data' = data
        /\ \/ call' = call /\ dir' = dir
           \/ call' = call /\ dir' = Moved(f, t) /\ (~Exists(t) \/ Same(f, t))
           \/ dir' = dir /\ call' = [AtRest EXCEPT !.pc = "park", !.from = f, !.to = t]
           \/ dir' = dir /\ ~Exists(t) /\ call' = [AtRest EXCEPT !.pc = "move", !.from = f, !.to = t]
    BY DEF CallRename
  <1> QED BY <1>2, <1>3

\* The steps of a rename under way.
LEMMA MovingFacts ==
    ASSUME VolumeTypeOK, FlagsInv, RenameNoReplace \/ HardLink \/ Unlink \/ Probe \/ Replace
    PROVE  /\ Moving /\ data' = data /\ UNCHANGED <<born, removed>>
           /\ \/ /\ dir' = dir /\ Denied /\ call.step # "linked"
                 /\ call.step = "probed" \/ ~Exists(Source) \/ Exists(Target)
                 /\ call.step = "probed" => ~Exists(Source)
                 /\ UNCHANGED <<overrun, mistaken, calm>>
              \/ /\ dir' = dir /\ call' = [call EXCEPT !.step = "probed"] /\ call.step = "try"
                 /\ ~volume.flags /\ Exists(Source) /\ ~Exists(Target) /\ UNCHANGED <<overrun, mistaken, calm>>
              \/ /\ dir' = Linked(Target, Inode(Source)) /\ call' = [call EXCEPT !.step = "linked"]
                 /\ call.step = "try" /\ ~volume.flags /\ Exists(Source) /\ ~Exists(Target) /\ UNCHANGED <<overrun, mistaken, calm>>
              \/ /\ dir' = Moved(Source, Target) /\ Exists(Source) /\ Landed
                 /\ (call.step = "try" /\ ~Exists(Target)) \/ call.step = "probed"
                 /\ overrun' = overrun \cup There(Target) /\ UNCHANGED <<mistaken, calm>>
              \/ /\ dir' = Unlinked(Source) /\ call.step = "linked" /\ Landed /\ Exists(Source)
                 /\ mistaken' = mistaken \cup (There(Source) \ (There(Target) \cup removed))
                 /\ UNCHANGED <<overrun, calm>>
              \/ /\ dir' = Unlinked(Target) /\ call.step = "linked" /\ Denied
                 /\ mistaken' = mistaken \cup (There(Target) \ (There(Source) \cup removed))
                 /\ overrun' = overrun
                 /\ \/ call.pc = "back" /\ calm' = FALSE
                    \/ call.pc # "back" /\ calm' = calm
  <1>1. ~Exists(Target) => There(Target) = {}
    BY DEF Exists, There
  <1>2. CASE RenameNoReplace
    BY <1>1, <1>2 DEF RenameNoReplace, Stuck, ghosts, FlagsInv
  <1>3. CASE HardLink
    BY <1>3 DEF HardLink, Stuck, ghosts
  <1>4. CASE Unlink
    BY <1>4 DEF Unlink
  <1>5. CASE Probe
    BY <1>5 DEF Probe, Stuck, ghosts
  <1>6. CASE Replace
    BY <1>6 DEF Replace, Stuck
  <1> QED BY <1>2, <1>3, <1>4, <1>5, <1>6

\* No other step takes a rename further.
LEMMA NotMoving ==
    ASSUME VolumeTypeOK, CallInv, CopyStep \/ SwapStep \/ WorldStep
    PROVE  call' = call \/ call'.pc \notin MovingPcs
  <1>0. AtRest.pc = "idle" /\ call \in [pc : Pcs, step : {"try", "linked", "probed"},
                  from : Spellings \cup {Nothing}, to : Spellings \cup {Nothing},
                  n : 1..Attempts, k : 0..Retries]
    BY RestFacts DEF VolumeTypeOK, Pcs
  <1>1. ASSUME NEW pc \in Pcs \ MovingPcs PROVE [call EXCEPT !.pc = pc].pc \notin MovingPcs
    BY <1>0
  <1>2. [call EXCEPT !.n = @ + 1].pc = call.pc /\ [call EXCEPT !.k = @ + 1].pc = call.pc
    BY <1>0
  <1>3. CASE SwapStep
  <2>1. /\ call.pc \in {"swap", "replace", "half"}
        /\ \/ \E pc \in {"drop", "replace", "half", "forget"} : call' = [call EXCEPT !.pc = pc]
           \/ call' = AtRest \/ call' = [call EXCEPT !.k = @ + 1]
    BY <1>3, SwapFacts DEF Swapped
  <2> QED BY <1>0, <1>1, <1>2, <2>1 DEF Pcs, MovingPcs
  <1>4. CASE WorldStep
  <2>1. call' = call \/ call' = AtRest
    BY <1>4 DEF WorldStep, Come, Go, Crash, Return
  <2> QED BY <1>0, <2>1 DEF MovingPcs
  <1>5. CASE Claim \/ Copy \/ CopyNothing \/ Edit \/ Sync \/ Drop \/ ForgetWhatWasRead
  <2>1. /\ call.pc \notin MovingPcs
        /\ \/ \E pc \in {"copy", "edit", "sync", "swap", "drop"} : call' = [call EXCEPT !.pc = pc]
           \/ call' = AtRest \/ call' = [call EXCEPT !.n = @ + 1]
    BY <1>5 DEF Claim, Copy, CopyNothing, Edit, Sync, OnCopy, Drop, ForgetWhatWasRead,
                Return, MovingPcs
  <2> QED BY <1>0, <1>1, <1>2, <2>1 DEF Pcs, MovingPcs
  <1>6. ASSUME NEW f \in Spellings, CallRetag(f) PROVE call'.pc = "claim"
    BY <1>6, RestFacts DEF CallRetag
  <1>7. CASE (\E n \in Spellings : ReadTags(n)) \/ Remember
    BY <1>7 DEF ReadTags, Remember
  <1> QED BY <1>3, <1>4, <1>5, <1>6, <1>7 DEF CopyStep, MovingPcs

LEMMA AliasStep == ASSUME VolumeTypeOK, CallInv, VolumeNext PROVE AliasInv'
  <1>1. AliasInv /\ volume' = volume
    BY CallParts, SameVolume
  <1>2. \A n, m : (volume'.folds /\ n \in Spellings /\ m \in Spellings /\ Folded[n] = Folded[m])
                     \/ n = m <=> Same(n, m)
    BY <1>1 DEF Same
  <1>3. CASE call' = call
    BY <1>1, <1>3 DEF AliasInv, Same
  <1>4. CASE call'.pc # "move"
    BY <1>4 DEF AliasInv
  <1>5. ASSUME NEW f \in Spellings, NEW t \in Spellings, CallRename(f, t) PROVE AliasInv'
  <2>1. f \in DOMAIN dir
        /\ (call' = call \/ call'.pc = "park" \/ (call'.pc = "move" /\ ~Exists(t)))
    BY <1>5, StartFacts
  <2>2. CASE call'.pc = "move" /\ ~Exists(t)
      <3>1. (call'.from = f /\ call'.to = t) \/ call' = call
        BY <1>5, <2>2, StartFacts
      <3>2. ~Same(f, t)
        BY <2>1, <2>2, OneSpelling
      <3>3. CASE call'.from = f /\ call'.to = t
        BY <1>1, <3>2, <3>3 DEF AliasInv, Same
      <3> QED BY <3>1, <3>3, <1>3
  <2> QED BY <2>1, <2>2, <1>3, <1>4
  <1>6. CASE RenameNoReplace \/ HardLink \/ Unlink \/ Probe \/ Replace
  <2>1. Moving /\ (Landed \/ Denied \/ call' = [call EXCEPT !.step = "linked"]
                               \/ call' = [call EXCEPT !.step = "probed"])
    BY <1>6, MovingFacts, CallParts
  <2>2. /\ call'.pc # "idle" => call'.from = call.from /\ call'.to = call.to
        /\ call'.pc = "move" => call.pc = "move"
    BY <2>1, MovingCalls
  <2> QED BY <1>1, <2>2 DEF AliasInv, Same
  <1>7. CASE CopyStep \/ SwapStep \/ WorldStep
    BY <1>7, <1>3, <1>4, NotMoving DEF MovingPcs
  <1> QED BY <1>5, <1>6, <1>7, StepKinds DEF RenameStep

LEMMA FlagsStep == ASSUME VolumeTypeOK, CallInv, VolumeNext PROVE FlagsInv'
  <1>1. FlagsInv /\ volume' = volume
    BY CallParts, SameVolume
  <1>2. CASE call'.step = "try" \/ call'.step = call.step
    BY <1>1, <1>2 DEF FlagsInv
  <1>3. ASSUME NEW f \in Spellings, NEW t \in Spellings, CallRename(f, t) PROVE FlagsInv'
    BY <1>2, <1>3, StartFacts
  <1>4. CASE RenameNoReplace \/ HardLink \/ Unlink \/ Probe \/ Replace
  <2>1. Moving /\ (Landed \/ Denied \/ (~volume.flags /\ call' = [call EXCEPT !.step = "linked"])
                               \/ (~volume.flags /\ call' = [call EXCEPT !.step = "probed"]))
    BY <1>1, <1>4, MovingFacts, CallParts
  <2>2. CASE ~volume.flags
    BY <1>1, <2>2 DEF FlagsInv
  <2>3. CASE Landed \/ Denied
      <3>1. call' = AtRest \/ call'.step = "try"
        BY <2>1, <2>3, MovingCalls
      <3> QED BY <3>1, <1>2, RestFacts
  <2> QED BY <2>1, <2>2, <2>3
  <1>5. CASE CopyStep \/ SwapStep \/ WorldStep
  <2>1. call' = call \/ (call'.pc \notin MovingPcs /\ VolumeTypeOK')
    BY <1>5, NotMoving, TypeStep
  <2> QED BY <2>1, <1>2 DEF VolumeTypeOK, Moving, MovingPcs
  <1> QED BY <1>3, <1>4, <1>5, StepKinds DEF RenameStep

LEMMA ParkedStep == ASSUME VolumeTypeOK, CallInv, VolumeNext PROVE ParkedInv'
  <1>1. ParkedInv
    BY CallParts
  <1>2. ASSUME NEW f \in Spellings, NEW t \in Spellings, CallRename(f, t) PROVE ParkedInv'
  <2>1. call = AtRest /\ (call' = call \/ (call'.pc \in {"park", "move"} /\ call'.step = "try"))
    BY <1>2, StartFacts
  <2> QED BY <2>1, RestFacts DEF ParkedInv
  <1>3. CASE RenameNoReplace \/ HardLink \/ Unlink \/ Probe \/ Replace
  <2>0. /\ Moving /\ Source \in AllNames /\ Target \in AllNames
        /\ Spelled(Source) \cap Spelled(Target) = {}
    BY <1>3, MovingFacts, CallParts, CallEnds
  <2>1. CASE call' = AtRest
    BY <2>1, RestFacts DEF ParkedInv
  <2>2. CASE dir' = dir /\ Denied
      <3>1. \/ call'.pc = "park" /\ call'.step = "try"
            \/ call.pc = "land" /\ call'.pc = "back" /\ call'.n = call.n
            \/ call' = AtRest
        BY <2>0, <2>2, MovingCalls
      <3> QED BY <3>1, <2>1, <2>2, <1>1 DEF ParkedInv
  <2>3. CASE dir' = dir /\ call' = [call EXCEPT !.step = "probed"]
      <3>1. call'.pc = call.pc /\ call'.n = call.n /\ call'.step = "probed"
        BY <2>3 DEF VolumeTypeOK
      <3> QED BY <3>1, <2>3, <1>1 DEF ParkedInv
  <2>4. CASE /\ dir' = Linked(Target, Inode(Source)) /\ ~Exists(Target)
             /\ call' = [call EXCEPT !.step = "linked"]
      <3>1. call'.pc = call.pc /\ call'.n = call.n
        BY <2>4 DEF VolumeTypeOK
      <3>2. DOMAIN dir' = DOMAIN dir \cup {Target}
        BY <2>4 DEF Linked
      <3>3. call.pc = "park" => Target = Park(call.n)
        BY CallNames
      <3> QED BY <3>1, <3>2, <3>3, <1>1 DEF ParkedInv, Park
  <2>5. CASE dir' = Moved(Source, Target) /\ Landed
      <3>1. call' = AtRest \/ (call.pc = "park" /\ call'.pc = "land" /\ call'.n = call.n)
        BY <2>0, <2>5, MovingCalls
      <3>2. Target \in DOMAIN dir'
        BY <2>5 DEF Moved
      <3>3. call.pc = "park" => Target = Park(call.n)
        BY CallNames
      <3> QED BY <3>1, <3>2, <3>3, <2>1 DEF ParkedInv, Park
  <2>6. CASE dir' = Unlinked(Source) /\ call.step = "linked" /\ Landed
      <3>1. call' = AtRest \/ (call.pc = "park" /\ call'.pc = "land" /\ call'.n = call.n)
        BY <2>0, <2>6, MovingCalls
      <3>2. CASE call.pc = "park" /\ call'.pc = "land" /\ call'.n = call.n
        <4>1. Park(call.n) \in DOMAIN dir /\ Park(call.n) = Target
          BY <3>2, <2>6, <1>1, CallNames DEF ParkedInv
        <4>2. Target \in Spelled(Target)
          BY <4>1, OneSpelling
        <4>3. Target \in DOMAIN dir'
          BY <4>1, <4>2, <2>0, <2>6 DEF Unlinked
        <4> QED BY <3>2, <4>1, <4>3 DEF ParkedInv, Park
      <3> QED BY <3>1, <3>2, <2>1
  <2>7. CASE dir' = Unlinked(Target) /\ call.step = "linked" /\ Denied
      <3>1. \/ call'.pc = "park" /\ call'.step = "try"
            \/ call.pc = "land" /\ call'.pc = "back" /\ call'.n = call.n
            \/ call' = AtRest
        BY <2>0, <2>7, MovingCalls
      <3>2. CASE call.pc = "land" /\ call'.pc = "back" /\ call'.n = call.n
        <4>1. Park(call.n) \in DOMAIN dir /\ Park(call.n) = Source
          BY <3>2, <1>1, CallNames DEF ParkedInv
        <4>2. Source \in Spelled(Source)
          BY <4>1, OneSpelling
        <4>3. Source \in DOMAIN dir'
          BY <4>1, <4>2, <2>0, <2>7 DEF Unlinked
        <4> QED BY <3>2, <4>1, <4>3 DEF ParkedInv, Park
      <3> QED BY <3>1, <3>2, <2>1 DEF ParkedInv
  <2> QED BY <1>3, <2>2, <2>3, <2>4, <2>5, <2>6, <2>7, MovingFacts, CallParts
  <1>4. CASE CopyStep \/ SwapStep \/ WorldStep
  <2>1. CASE call'.pc \notin MovingPcs
    BY <2>1 DEF ParkedInv, MovingPcs
  <2>2. CASE call' = call /\ call.pc \in MovingPcs
      <3>1. \A n \in 1..Attempts : Park(n) \in DOMAIN dir => Park(n) \in DOMAIN dir'
        <4>1. CASE SwapStep
          BY <4>1, <2>2, SwapFacts DEF MovingPcs
        <4>2. CASE CopyStep
          <5>1. dir' = dir
            BY <2>2, <4>2 DEF CopyStep, CallRetag, Claim, Copy, CopyNothing, Edit, Sync, OnCopy,
                    Drop, ForgetWhatWasRead, ReadTags, Remember, fs, MovingPcs, AtRest
          <5> QED BY <5>1
        <4>3. CASE WorldStep
          <5>1. DOMAIN dir \subseteq DOMAIN dir'
                \/ \E n \in Spellings : dir' = Unlinked(n) /\ Spelled(n) \subseteq Spellings
            BY <4>3, ComeFacts, GoFacts, CrashFacts DEF WorldStep
          <5> QED BY <5>1, NameFacts DEF Unlinked
        <4> QED BY <1>4, <4>1, <4>2, <4>3
      <3>2. call.n \in 1..Attempts
        BY CallNames
      <3> QED BY <3>1, <3>2, <2>2, <1>1 DEF ParkedInv, Park
  <2> QED BY <1>4, <2>1, <2>2, NotMoving DEF MovingPcs
  <1> QED BY <1>2, <1>3, <1>4, StepKinds DEF RenameStep

\* The copy's condition, for a call at pc whose copy is under the name c.
CopyAt(d, dt, pc, c) ==
    /\ c \in DOMAIN d
    /\ \A n \in DOMAIN d : d[n] = d[c] => n = c
    /\ pc \notin {"copy", "drop"} => dt[d[c]].file \in Files /\ dt[d[c]].whole
    /\ pc \notin {"copy", "edit", "drop"} => dt[d[c]].ver = "new"
    /\ pc \in {"swap", "replace", "half"} => dt[d[c]].safe

LEMMA CopyAtFacts ==
    /\ CopyInv <=> (call.pc \in WithCopy => CopyAt(dir, data, call.pc, Copied))
    /\ CopyInv' <=> (call'.pc \in WithCopy => CopyAt(dir', data', call'.pc, Copied'))
    /\ call'.n = call.n => Copied' = Copied
  BY DEF CopyInv, CopyAt, Copied, Scratch

LEMMA CopySteps == ASSUME VolumeTypeOK, CallInv, CopyStep PROVE CopyInv'
  <1>0. /\ data \in [Inodes -> Held] /\ \A n \in DOMAIN dir : dir[n] \in Inodes
        /\ AtRest.pc = "idle" /\ call.n \in 1..Attempts /\ Copied \in AllNames
    BY TypeParts, RestFacts, CallNames DEF IsDir
  <1>1. ASSUME NEW pc PROVE [call EXCEPT !.pc = pc].pc = pc /\ [call EXCEPT !.pc = pc].n = call.n
    BY DEF VolumeTypeOK
  <1>2. call.pc \in WithCopy => CopyAt(dir, data, call.pc, Copied)
    BY CallParts, CopyAtFacts
  <1>3. CASE Claim
  <2>1. CASE call' = AtRest \/ call' = [call EXCEPT !.n = @ + 1]
      <3>1. call'.pc \notin WithCopy
        BY <2>1, <1>0, <1>3 DEF Claim, WithCopy, VolumeTypeOK
      <3> QED BY <3>1, CopyAtFacts
  <2>2. CASE /\ ~Exists(Copied) /\ FreeInodes # {} /\ dir' = Linked(Copied, NewInode)
             /\ call' = [call EXCEPT !.pc = "copy"]
      <3>1. NewInode \in Inodes /\ \A n \in DOMAIN dir : dir[n] # NewInode
        BY <2>2, NewFacts
      <3>2. /\ DOMAIN dir' = DOMAIN dir \cup {Copied} /\ dir'[Copied] = NewInode
            /\ \A m \in DOMAIN dir : dir'[m] = dir[m]
        BY <2>2, <3>1, <1>0, LinkedFacts
      <3>3. CopyAt(dir', data', "copy", Copied)
        BY <3>1, <3>2 DEF CopyAt
      <3> QED BY <3>3, <2>2, <1>1, CopyAtFacts
  <2> QED BY <1>3, <2>1, <2>2 DEF Claim, Return
  <1>4. CASE Copy \/ Edit \/ Sync
  <2>1. dir' = dir /\ call.pc \in WithCopy
    BY <1>4 DEF Copy, Edit, Sync, OnCopy, WithCopy
  <2>2. /\ Copied \in DOMAIN dir /\ Inode(Copied) = dir[Copied] /\ dir[Copied] \in Inodes
        /\ \A n \in DOMAIN dir : dir[n] = dir[Copied] => n = Copied
    BY <2>1, <1>0, <1>2, OneSpelling DEF CopyAt, Inode
  <2>3. CASE call' = [call EXCEPT !.pc = "drop"]
      <3>1. CopyAt(dir', data', "drop", Copied)
        BY <2>1, <2>2 DEF CopyAt
      <3> QED BY <2>3, <3>1, <1>1, CopyAtFacts
  <2>4. ASSUME Copy, call' = [call EXCEPT !.pc = "edit"],
               data' = [data EXCEPT ![Inode(Copied)] = [data[Inode(call.from)] EXCEPT !.safe = FALSE]]
        PROVE  CopyInv'
      <3>1. Exists(call.from) /\ call.from \notin Scratches
        BY <2>4, StartsAssumption DEF Copy, VolumeTypeOK, OnCopy
      <3>2. Entry(call.from) \in DOMAIN dir \ Scratches
        BY <3>1, EntryFacts
      <3>3. data[Inode(call.from)].file \in Files /\ data[Inode(call.from)].whole
        BY <3>2, CallParts DEF SoundInv, IsSound, Inode
      <3>4. data[Inode(call.from)] \in Held
        BY <3>2, <1>0 DEF Inode
      <3>5. data'[dir[Copied]].file \in Files /\ data'[dir[Copied]].whole
        BY <2>2, <2>4, <1>0, <3>3, <3>4 DEF Held
      <3>6. CopyAt(dir', data', "edit", Copied)
        BY <2>1, <2>2, <3>5 DEF CopyAt
      <3> QED BY <2>4, <3>6, <1>1, CopyAtFacts
  <2>5. data[dir[Copied]] \in Held
    BY <2>2, <1>0
  <2>6. ASSUME Edit, call' = [call EXCEPT !.pc = "sync"],
               data' = [data EXCEPT ![Inode(Copied)] = [data[Inode(Copied)] EXCEPT !.ver = "new"]]
        PROVE  CopyInv'
      <3>1. call.pc = "edit" /\ data[dir[Copied]].file \in Files /\ data[dir[Copied]].whole
        BY <2>1, <2>6, <1>2 DEF CopyAt, Edit, OnCopy
      <3>2. /\ data'[dir[Copied]].file \in Files /\ data'[dir[Copied]].whole
            /\ data'[dir[Copied]].ver = "new"
        BY <2>2, <2>5, <2>6, <1>0, <3>1 DEF Held
      <3>3. CopyAt(dir', data', "sync", Copied)
        BY <2>1, <2>2, <3>2 DEF CopyAt
      <3> QED BY <2>6, <3>3, <1>1, CopyAtFacts
  <2>7. ASSUME Sync, call' = [call EXCEPT !.pc = "swap"],
               data' = [data EXCEPT ![Inode(Copied)] = [data[Inode(Copied)] EXCEPT !.safe = TRUE]]
        PROVE  CopyInv'
      <3>1. /\ call.pc = "sync" /\ data[dir[Copied]].file \in Files /\ data[dir[Copied]].whole
            /\ data[dir[Copied]].ver = "new"
        BY <2>1, <2>7, <1>2 DEF CopyAt, Sync, OnCopy
      <3>2. /\ data'[dir[Copied]].file \in Files /\ data'[dir[Copied]].whole
            /\ data'[dir[Copied]].ver = "new" /\ data'[dir[Copied]].safe
        BY <2>2, <2>5, <2>7, <1>0, <3>1 DEF Held
      <3>3. CopyAt(dir', data', "swap", Copied)
        BY <2>1, <2>2, <3>2 DEF CopyAt
      <3> QED BY <2>7, <3>3, <1>1, CopyAtFacts
  <2> QED BY <1>4, <2>3, <2>4, <2>6, <2>7 DEF Copy, Edit, Sync, OnCopy
  <1>5. CASE CopyNothing
  <2>1. dir' = dir /\ data' = data /\ call.pc = "copy" /\ call' = [call EXCEPT !.pc = "drop"]
    BY <1>5 DEF CopyNothing, fs
  <2>2. CopyAt(dir', data', "drop", Copied)
    BY <2>1, <1>2 DEF CopyAt, WithCopy
  <2> QED BY <2>1, <2>2, <1>1, CopyAtFacts
  <1>6. CASE Drop \/ ForgetWhatWasRead \/ \E f \in Spellings : CallRetag(f)
  <2>1. call'.pc \in {"idle", "claim"}
    BY <1>6, <1>0, RestFacts DEF Drop, ForgetWhatWasRead, CallRetag, Return
  <2> QED BY <2>1, CopyAtFacts DEF WithCopy
  <1>7. CASE (\E n \in Spellings : ReadTags(n)) \/ Remember
  <2>1. UNCHANGED <<dir, data, call>>
    BY <1>7 DEF ReadTags, Remember, fs
  <2> QED BY <2>1, <1>2, CopyAtFacts
  <1> QED BY <1>3, <1>4, <1>5, <1>6, <1>7 DEF CopyStep

LEMMA CopySwap == ASSUME VolumeTypeOK, CallInv, SwapStep PROVE CopyInv'
  <1>0. /\ \A pc : [call EXCEPT !.pc = pc].pc = pc /\ [call EXCEPT !.pc = pc].n = call.n
        /\ \A k : [call EXCEPT !.k = k].pc = call.pc /\ [call EXCEPT !.k = k].n = call.n
        /\ AtRest.pc = "idle"
    BY RestFacts DEF VolumeTypeOK
  <1>1. /\ call.pc \in {"swap", "replace", "half"} /\ data' = data
        /\ Copied \in DOMAIN dir /\ Copied \in Scratches /\ call.from \in Spellings
    BY SwapFacts
  <1>2. CopyAt(dir, data, call.pc, Copied)
    BY <1>1, CallParts, CopyAtFacts DEF WithCopy
  <1>3. CASE Swapped
  <2>1. call'.pc = "forget"
    BY <1>0, <1>3 DEF Swapped
  <2> QED BY <2>1, CopyAtFacts DEF WithCopy
  <1>4. CASE dir' = dir /\ call'.pc \in {"drop", "replace", call.pc} /\ call'.n = call.n
  <2>1. CopyAt(dir', data', call'.pc, Copied)
    BY <1>1, <1>2, <1>4 DEF CopyAt
  <2> QED BY <1>4, <2>1, CopyAtFacts
  <1>5. CASE dir' = Unlinked(call.from) /\ call' = [call EXCEPT !.pc = "half"]
  <2>1. /\ DOMAIN dir' = DOMAIN dir \ Spelled(call.from)
        /\ \A m \in DOMAIN dir' : m \in DOMAIN dir /\ dir'[m] = dir[m]
    BY <1>5, UnlinkedFacts
  <2>2. Spelled(call.from) \subseteq Spellings
    BY <1>1, EntryFacts
  <2>3. Copied \in DOMAIN dir'
    BY <1>1, <2>1, <2>2, StartsAssumption
  <2>4. CopyAt(dir', data', "half", Copied)
    BY <1>1, <1>2, <2>1, <2>3 DEF CopyAt
  <2> QED BY <1>0, <1>5, <2>4, CopyAtFacts
  <1>6. CASE call' = AtRest
    BY <1>0, <1>6, CopyAtFacts DEF WithCopy
  <1>7. \/ Swapped
        \/ dir' = Unlinked(call.from) /\ call' = [call EXCEPT !.pc = "half"]
        \/ /\ dir' = dir
           /\ \/ call' = AtRest \/ call' = [call EXCEPT !.pc = "drop"]
              \/ call' = [call EXCEPT !.pc = "replace"] \/ call' = [call EXCEPT !.k = @ + 1]
    BY SwapFacts
  <1>8. CASE /\ dir' = dir
             /\ \/ call' = [call EXCEPT !.pc = "drop"]
                \/ call' = [call EXCEPT !.pc = "replace"] \/ call' = [call EXCEPT !.k = @ + 1]
    BY <1>0, <1>4, <1>8
  <1> QED BY <1>3, <1>5, <1>6, <1>7, <1>8

LEMMA CopyWorld == ASSUME VolumeTypeOK, CallInv, WorldStep PROVE CopyInv'
  <1>1. call.pc \in WithCopy => CopyAt(dir, data, call.pc, Copied)
    BY CallParts, CopyAtFacts
  <1>2. Copied \in Scratches
    BY CallNames, NameFacts DEF Copied
  <1>3. ASSUME NEW n \in Spellings, NEW f \in Files, Come(n, f) PROVE CopyInv'
  <2>1. /\ n \notin DOMAIN dir /\ n \notin Scratches /\ call' = call
        /\ DOMAIN dir' = DOMAIN dir \cup {n}
        /\ \A m \in DOMAIN dir : dir'[m] = dir[m] /\ data'[dir[m]] = data[dir[m]]
                                 /\ dir'[m] # dir'[n]
    BY <1>3, ComeFacts
  <2>2. CopyAt(dir, data, call.pc, Copied) => CopyAt(dir', data', call.pc, Copied)
    BY <2>1 DEF CopyAt
  <2> QED BY <1>1, <2>1, <2>2, CopyAtFacts
  <1>4. ASSUME NEW n \in Spellings, Go(n) PROVE CopyInv'
  <2>1. /\ data' = data /\ call' = call
        /\ DOMAIN dir' = DOMAIN dir \ Spelled(n) /\ Spelled(n) \subseteq Spellings
        /\ \A m \in DOMAIN dir' : m \in DOMAIN dir /\ dir'[m] = dir[m]
    BY <1>4, GoFacts
  <2>2. Copied \in DOMAIN dir => Copied \in DOMAIN dir'
    BY <1>2, <2>1, StartsAssumption
  <2>3. CopyAt(dir, data, call.pc, Copied) => CopyAt(dir', data', call.pc, Copied)
    BY <2>1, <2>2 DEF CopyAt
  <2> QED BY <1>1, <2>1, <2>3, CopyAtFacts
  <1>5. ASSUME NEW power \in BOOLEAN, Crash(power) PROVE CopyInv'
    BY <1>5, RestFacts, CopyAtFacts DEF Crash, Return, WithCopy
  <1> QED BY <1>3, <1>4, <1>5 DEF WorldStep

LEMMA CallInvStep == ASSUME VolumeTypeOK, CallInv, VolumeNext PROVE CallInv'
  <1>1. SoundInv' /\ AliasInv' /\ FlagsInv' /\ ParkedInv'
    BY StepKinds, SoundRename, SoundCopy, SoundSwap, SoundWorld, AliasStep, FlagsStep, ParkedStep
  <1>2. ASSUME RenameStep PROVE CopyInv'
  <2>1. ASSUME NEW f \in Spellings, NEW t \in Spellings, CallRename(f, t)
        PROVE  call'.pc \notin WithCopy
    BY <2>1, StartFacts, RestFacts DEF WithCopy
  <2>2. CASE RenameNoReplace \/ HardLink \/ Unlink \/ Probe \/ Replace
      <3>1. Moving /\ (Landed \/ Denied \/ call' = [call EXCEPT !.step = "linked"]
                                   \/ call' = [call EXCEPT !.step = "probed"])
        BY <2>2, MovingFacts, CallParts
      <3> QED BY <3>1, MovingCalls, CopyAtFacts
  <2> QED BY <1>2, <2>1, <2>2, CopyAtFacts DEF RenameStep
  <1>3. CopyInv'
    BY <1>2, StepKinds, CopySteps, CopySwap, CopyWorld
  <1> QED BY <1>1, <1>3 DEF CallInv, SoundInv, IsSound, AliasInv, FlagsInv, ParkedInv, CopyInv
-----------------------------------------------------------------------------
(* No file is lost.                                                        *)

Taken == removed \cup overrun \cup mistaken

\* A name leads to the file, whole and on the disk.
Keeps(d, dt, n, f) ==
    n \in DOMAIN d /\ dt[d[n]].file = f /\ dt[d[n]].whole /\ dt[d[n]].safe

LEMMA KeptParts ==
    /\ KeptInv <=> \A f \in born \ Taken : \E n :
                      /\ Keeps(dir, data, n, f)
                      /\ call.pc \in WithCopy \ {"half"} => n # Copied
    /\ KeptInv' <=> \A f \in born' \ Taken' : \E n :
                      /\ Keeps(dir', data', n, f)
                      /\ call'.pc \in WithCopy \ {"half"} => n # Copied'
  BY DEF KeptInv, Keeps, Taken, Copied, Scratch

\* What the names taken or removed led to is still led to, or was There.
LEMMA NamesLeft ==
    ASSUME VolumeTypeOK, NEW n \in DOMAIN dir
    PROVE  /\ \A f, t : Exists(f) /\ t \in AllNames =>
                 \/ \E m \in DOMAIN Moved(f, t) : Moved(f, t)[m] = dir[n] /\ m \in {n, t}
                 \/ n \in Spelled(t) /\ n \notin Spelled(f) /\ data[dir[n]].file \in There(t)
           /\ \A k : \/ n \in DOMAIN Unlinked(k) /\ Unlinked(k)[n] = dir[n]
                     \/ n \in Spelled(k) /\ data[dir[n]].file \in There(k)
  <1>1. n \in Spelled(n)
    BY OneSpelling
  <1>2. ASSUME NEW f, NEW t, Exists(f), t \in AllNames
        PROVE  \/ \E m \in DOMAIN Moved(f, t) : Moved(f, t)[m] = dir[n] /\ m \in {n, t}
               \/ n \in Spelled(t) /\ n \notin Spelled(f) /\ data[dir[n]].file \in There(t)
  <2>1. Spelled(f) = {Entry(f)} /\ Entry(f) \in DOMAIN dir
    BY <1>2, OneSpelling
  <2>2. CASE n = Entry(f)
      <3>1. t \in DOMAIN Moved(f, t) /\ Moved(f, t)[t] = dir[n]
        BY <2>2 DEF Moved, Inode
      <3> QED BY <3>1
  <2>3. CASE n # Entry(f) /\ n \notin Spelled(t)
      <3>1. n \in DOMAIN Moved(f, t) /\ Moved(f, t)[n] = dir[n]
        BY <1>1, <2>1, <2>3 DEF Moved
      <3> QED BY <3>1
  <2>4. CASE n # Entry(f) /\ n \in Spelled(t)
    BY <2>1, <2>4 DEF There
  <2> QED BY <2>2, <2>3, <2>4
  <1>3. ASSUME NEW k PROVE \/ n \in DOMAIN Unlinked(k) /\ Unlinked(k)[n] = dir[n]
                           \/ n \in Spelled(k) /\ data[dir[n]].file \in There(k)
    BY DEF Unlinked, There
  <1> QED BY <1>2, <1>3

LEMMA KeptRename == ASSUME VolumeTypeOK, CallInv, KeptInv, RenameStep PROVE KeptInv'
  <1>1. ASSUME call'.pc \notin WithCopy, data' = data, Taken \subseteq Taken', born' = born,
               \A n \in DOMAIN dir : \/ \E m \in DOMAIN dir' : dir'[m] = dir[n]
                                     \/ data[dir[n]].file \in Taken'
        PROVE  KeptInv'
  <2>1. ASSUME NEW f \in born' \ Taken' PROVE \E n : Keeps(dir', data', n, f)
      <3>1. PICK n : Keeps(dir, data, n, f)
        BY <1>1, <2>1, KeptParts
      <3>2. PICK m \in DOMAIN dir' : dir'[m] = dir[n]
        BY <1>1, <2>1, <3>1 DEF Keeps
      <3> QED BY <1>1, <3>1, <3>2 DEF Keeps
  <2> QED BY <1>1, <2>1, KeptParts
  <1>2. ASSUME NEW f \in Spellings, NEW t \in Spellings, CallRename(f, t) PROVE KeptInv'
  <2>1. /\ call'.pc \notin WithCopy /\ data' = data /\ Taken' = Taken /\ born' = born
        /\ f \in DOMAIN dir /\ t \in AllNames
        /\ dir' = dir \/ (dir' = Moved(f, t) /\ (~Exists(t) \/ Same(f, t)))
    BY <1>2, StartFacts, RestFacts DEF WithCopy, ghosts, Taken, AllNames
  <2>2. Spelled(t) \subseteq Spelled(f) \/ dir' = dir
    BY <2>1, OneSpelling DEF Exists, Spelled, Same
  <2>3. Exists(f)
    BY <2>1, OneSpelling
  <2>4. \A n \in DOMAIN dir : \E m \in DOMAIN dir' : dir'[m] = dir[n]
    BY <2>1, <2>2, <2>3, NamesLeft
  <2> QED BY <1>1, <2>1, <2>4
  <1>3. CASE RenameNoReplace \/ HardLink \/ Unlink \/ Probe \/ Replace
  <2>1. /\ Moving /\ data' = data /\ UNCHANGED <<born, removed>>
        /\ Source \in AllNames /\ Target \in AllNames
        /\ Spelled(Source) \cap Spelled(Target) = {}
        /\ Landed \/ Denied \/ call' = [call EXCEPT !.step = "linked"]
                            \/ call' = [call EXCEPT !.step = "probed"]
    BY <1>3, MovingFacts, CallParts, CallEnds
  <2>2. call'.pc \notin WithCopy
    BY <2>1, MovingCalls
  <2>3. CASE dir' = dir /\ UNCHANGED <<overrun, mistaken>>
    BY <1>1, <2>1, <2>2, <2>3 DEF Taken
  <2>4. CASE /\ dir' = Linked(Target, Inode(Source)) /\ Exists(Source) /\ ~Exists(Target)
             /\ UNCHANGED <<overrun, mistaken>>
      <3>1. \A m \in DOMAIN dir : m \in DOMAIN dir' /\ dir'[m] = dir[m]
        <4>1. Inode(Source) \in Inodes
          BY <2>4, OneSpelling DEF Inode, VolumeTypeOK
        <4> QED BY <4>1, <2>1, <2>4, LinkedFacts
      <3> QED BY <1>1, <2>1, <2>2, <2>4, <3>1 DEF Taken
  <2>5. CASE /\ dir' = Moved(Source, Target) /\ Exists(Source)
             /\ overrun' = overrun \cup There(Target) /\ UNCHANGED mistaken
      <3>1. \A n \in DOMAIN dir : \/ \E m \in DOMAIN dir' : dir'[m] = dir[n]
                                  \/ data[dir[n]].file \in There(Target)
        BY <2>1, <2>5, NamesLeft
      <3> QED BY <1>1, <2>1, <2>2, <2>5, <3>1 DEF Taken
  <2>6. ASSUME NEW k, NEW o \in {Source, Target}, Spelled(k) \cap Spelled(o) = {},
               dir' = Unlinked(k), overrun' = overrun,
               mistaken' = mistaken \cup (There(k) \ (There(o) \cup removed))
        PROVE  KeptInv'
      <3>1. \A n \in DOMAIN dir : \/ n \in DOMAIN dir' /\ dir'[n] = dir[n]
                                  \/ data[dir[n]].file \in There(k)
        BY <2>6, NamesLeft
      <3>2. \A m \in Spelled(o) : m \in DOMAIN dir' /\ dir'[m] = dir[m] /\ IsSound(dir[m])
        <4>1. \A m \in Spelled(o) : m \in DOMAIN dir \ Scratches
          BY <2>1, EntryFacts, CallEnds, StartsAssumption DEF Spelled
        <4> QED BY <4>1, <2>6, CallParts DEF SoundInv, Unlinked
      <3>3. ASSUME NEW f \in born' \ Taken' PROVE \E n : Keeps(dir', data', n, f)
        <4>1. PICK n : Keeps(dir, data, n, f)
          BY <2>1, <2>6, <3>3, KeptParts DEF Taken
        <4>2. CASE n \in DOMAIN dir' /\ dir'[n] = dir[n]
          BY <2>1, <4>1, <4>2 DEF Keeps
        <4>3. CASE data[dir[n]].file \in There(k)
          <5>1. f \in There(o)
            BY <2>1, <2>6, <3>3, <4>1, <4>3 DEF Keeps, Taken
          <5>2. PICK m \in Spelled(o) : f = data[dir[m]].file
            BY <5>1 DEF There
          <5> QED BY <2>1, <3>2, <5>2 DEF Keeps, IsSound
        <4> QED BY <4>1, <4>2, <4>3, <3>1 DEF Keeps
      <3> QED BY <2>2, <3>3, KeptParts
  <2> QED BY <2>1, <2>3, <2>4, <2>5, <2>6, <1>3, MovingFacts, CallParts
  <1> QED BY <1>2, <1>3 DEF RenameStep

LEMMA KeptCopy == ASSUME VolumeTypeOK, CallInv, KeptInv, CopyStep PROVE KeptInv'
  <1>0. /\ data \in [Inodes -> Held] /\ \A n \in DOMAIN dir : dir[n] \in Inodes
        /\ AtRest.pc = "idle" /\ Copied \in AllNames /\ Copied \notin Spellings
        /\ \A pc : [call EXCEPT !.pc = pc].pc = pc /\ [call EXCEPT !.pc = pc].n = call.n
    BY TypeParts, RestFacts, CallNames, NameFacts DEF IsDir, VolumeTypeOK, Copied
  <1>1. Taken' = Taken /\ born' = born
    BY DEF CopyStep, CallRetag, Claim, Copy, CopyNothing, Edit, Sync, OnCopy, Drop,
           ForgetWhatWasRead, ReadTags, Remember, ghosts, Taken
  <1>2. \A f \in born \ Taken : \E n :
            Keeps(dir, data, n, f) /\ (call.pc \in WithCopy \ {"half"} => n # Copied)
    BY KeptParts
  \* The names but the copy's are left alone.
  <1>3. ASSUME \A n \in DOMAIN dir : n # Copied =>
                   n \in DOMAIN dir' /\ dir'[n] = dir[n] /\ data'[dir[n]] = data[dir[n]],
               call.pc \in WithCopy \ {"half"} \/ Copied \notin DOMAIN dir,
               call'.pc \in WithCopy => call'.n = call.n
        PROVE  KeptInv'
  <2>1. ASSUME NEW f \in born' \ Taken'
        PROVE  \E n : Keeps(dir', data', n, f) /\ (call'.pc \in WithCopy \ {"half"} => n # Copied')
      <3>1. PICK n : Keeps(dir, data, n, f) /\ n # Copied
        BY <1>1, <1>2, <1>3, <2>1 DEF Keeps
      <3>2. Keeps(dir', data', n, f)
        BY <1>3, <3>1 DEF Keeps
      <3>3. call'.pc \in WithCopy \ {"half"} => n # Copied'
        BY <1>3, <3>1, CopyAtFacts
      <3> QED BY <3>2, <3>3
  <2> QED BY <2>1, KeptParts
\* Nor does a call that has no copy afterwards lose one.
  <1>4. ASSUME dir' = dir, data' = data, call'.pc \notin WithCopy PROVE KeptInv'
    BY <1>1, <1>2, <1>4, KeptParts
  <1>5. CASE Claim
  <2>1. CASE dir' = dir /\ data' = data /\ (call' = AtRest \/ call' = [call EXCEPT !.n = @ + 1])
      <3>1. call'.pc \notin WithCopy
        BY <2>1, <1>0, <1>5 DEF Claim, WithCopy, VolumeTypeOK
      <3> QED BY <2>1, <3>1, <1>4
  <2>2. CASE /\ ~Exists(Copied) /\ FreeInodes # {} /\ dir' = Linked(Copied, NewInode)
             /\ data' = [data EXCEPT ![NewInode] = Blank]
             /\ call' = [call EXCEPT !.pc = "copy"]
      <3>1. NewInode \in Inodes /\ \A n \in DOMAIN dir : dir[n] # NewInode
        BY <2>2, NewFacts
      <3>2. /\ Copied \notin DOMAIN dir /\ DOMAIN dir' = DOMAIN dir \cup {Copied}
            /\ \A m \in DOMAIN dir : dir'[m] = dir[m]
        BY <2>2, <3>1, CallNames, LinkedFacts, SMTT(30)
      <3>3. \A m \in DOMAIN dir : data'[dir[m]] = data[dir[m]]
        BY <2>2, <3>1, <1>0
      <3>4. call'.n = call.n
        BY <1>0, <2>2
      <3> QED BY <3>2, <3>3, <3>4, <1>3
  <2> QED BY <1>5, <2>1, <2>2 DEF Claim, Return, fs
  <1>6. CASE Copy \/ Edit \/ Sync
  <2>1. /\ dir' = dir /\ call.pc \in {"copy", "edit", "sync"}
        /\ data' = data \/ \E r : data' = [data EXCEPT ![Inode(Copied)] = r]
        /\ \E pc : call' = [call EXCEPT !.pc = pc]
    BY <1>6 DEF Copy, Edit, Sync, OnCopy
  <2>2. /\ Copied \in DOMAIN dir /\ Inode(Copied) = dir[Copied]
        /\ \A n \in DOMAIN dir : dir[n] = dir[Copied] => n = Copied
    BY <2>1, CallParts, OneSpelling DEF CopyInv, WithCopy, Inode
  <2>3. \A n \in DOMAIN dir : n # Copied => data'[dir[n]] = data[dir[n]]
    BY <1>0, <2>1, <2>2
  <2> QED BY <1>0, <2>1, <2>3, <1>3 DEF WithCopy
  <1>7. CASE CopyNothing
  <2>1. dir' = dir /\ data' = data /\ call.pc = "copy" /\ call' = [call EXCEPT !.pc = "drop"]
    BY <1>7 DEF CopyNothing, fs
  <2> QED BY <1>0, <2>1, <1>3 DEF WithCopy
  <1>8. CASE Drop
  <2>1. dir' = Unlinked(Copied) /\ data' = data /\ call.pc = "drop" /\ call'.pc = "idle"
    BY <1>0, <1>8 DEF Drop, Return
  <2>2. Spelled(Copied) \subseteq {Copied}
    BY <1>0, EntryFacts
  <2>3. \A n \in DOMAIN dir : n # Copied => n \in DOMAIN dir' /\ dir'[n] = dir[n]
    BY <2>1, <2>2 DEF Unlinked
  <2> QED BY <2>1, <2>3, <1>3 DEF WithCopy
  <1>9. CASE ForgetWhatWasRead \/ \E f \in Spellings : CallRetag(f)
  <2>1. dir' = dir /\ data' = data /\ call'.pc \in {"idle", "claim"}
    BY <1>9, <1>0, RestFacts DEF ForgetWhatWasRead, CallRetag, Return, fs
  <2> QED BY <2>1, <1>4 DEF WithCopy
  <1>10. CASE (\E n \in Spellings : ReadTags(n)) \/ Remember
  <2>1. UNCHANGED <<dir, data, call>>
    BY <1>10 DEF ReadTags, Remember, fs
  <2> QED BY <2>1, <1>1, <1>2, KeptParts, CopyAtFacts
  <1> QED BY <1>5, <1>6, <1>7, <1>8, <1>9, <1>10 DEF CopyStep

LEMMA KeptSwap == ASSUME VolumeTypeOK, CallInv, KeptInv, SwapStep PROVE KeptInv'
  <1>0. /\ \A pc : [call EXCEPT !.pc = pc].pc = pc /\ [call EXCEPT !.pc = pc].n = call.n
        /\ \A k : [call EXCEPT !.k = k].pc = call.pc /\ [call EXCEPT !.k = k].n = call.n
        /\ AtRest.pc = "idle"
    BY RestFacts DEF VolumeTypeOK
  <1>1. /\ data' = data /\ Copied \in DOMAIN dir /\ Copied \in Scratches
        /\ There(Copied) = {data[dir[Copied]].file} /\ IsSound(dir[Copied])
        /\ Entry(Copied) = Copied /\ Exists(Copied)
        /\ call.from \in Spellings /\ call.from \in AllNames
        /\ call.pc \in {"swap", "replace", "half"}
    BY SwapFacts
  <1>2. \A f \in born \ Taken : \E n :
            Keeps(dir, data, n, f) /\ (call.pc \in WithCopy \ {"half"} => n # Copied)
    BY KeptParts
  <1>3. ASSUME dir' = dir, UNCHANGED <<born, removed, overrun, mistaken>>,
               \/ call' = AtRest
               \/ call.pc = "swap" /\ call' = [call EXCEPT !.pc = "drop"]
               \/ call.pc = "swap" /\ call' = [call EXCEPT !.pc = "replace"]
               \/ call.pc = "half" /\ call' = [call EXCEPT !.k = @ + 1]
        PROVE  KeptInv'
  <2>0. /\ [call EXCEPT !.pc = "drop"].n = call.n
        /\ [call EXCEPT !.pc = "replace"].n = call.n
        /\ [call EXCEPT !.k = @ + 1].pc = call.pc
    BY <1>0
  <2>1. \/ call'.pc \notin WithCopy \ {"half"}
        \/ call.pc = "swap" /\ call'.n = call.n
    BY <1>0, <1>3, <2>0 DEF WithCopy
  <2>2. Taken' = Taken /\ born' = born
    BY <1>3 DEF Taken
  <2>3. CASE call'.pc \notin WithCopy \ {"half"}
    BY <1>1, <1>2, <1>3, <2>2, <2>3, KeptParts
  <2>4. CASE call.pc = "swap" /\ call'.n = call.n
      <3>1. Copied' = Copied /\ call.pc \in WithCopy \ {"half"}
        BY <2>4, CopyAtFacts DEF WithCopy
      <3> QED BY <1>1, <1>2, <1>3, <2>2, <3>1, KeptParts
  <2> QED BY <2>1, <2>3, <2>4
  <1>4. ASSUME call'.pc \notin WithCopy \ {"half"}, born' = born,
               removed' = removed, overrun' = overrun,
               mistaken' = mistaken \cup (There(call.from) \ There(Copied)),
               \A n \in DOMAIN dir :
                  \/ \E m \in DOMAIN dir' : dir'[m] = dir[n]
                  \/ data[dir[n]].file \in There(call.from),
               \E m \in DOMAIN dir' : dir'[m] = dir[Copied]
        PROVE  KeptInv'
  <2>1. ASSUME NEW f \in born' \ Taken' PROVE \E n : Keeps(dir', data', n, f)
      <3>1. PICK n : Keeps(dir, data, n, f)
        BY <1>2, <1>4, <2>1 DEF Taken
      <3>2. CASE \E m \in DOMAIN dir' : dir'[m] = dir[n]
        BY <1>1, <3>1, <3>2 DEF Keeps
      <3>3. CASE data[dir[n]].file \in There(call.from)
        <4>1. f = data[dir[Copied]].file
          BY <1>1, <1>4, <2>1, <3>1, <3>3 DEF Keeps, Taken
        <4> QED BY <1>1, <1>4, <4>1 DEF Keeps, IsSound
      <3> QED BY <1>4, <3>1, <3>2, <3>3 DEF Keeps
  <2> QED BY <1>4, <2>1, KeptParts
  <1>5. CASE Swapped
  <2>1. dir' = Moved(Copied, call.from) /\ call'.pc = "forget"
    BY <1>0, <1>5 DEF Swapped
  <2>2. \A n \in DOMAIN dir :
                \/ \E m \in DOMAIN dir' : dir'[m] = dir[n]
                \/ data[dir[n]].file \in There(call.from)
    BY <1>1, <2>1, NamesLeft
  <2>3. \E m \in DOMAIN dir' : dir'[m] = dir[Copied]
    BY <1>1, <2>1 DEF Moved, Inode
  <2> QED BY <1>4, <1>5, <2>1, <2>2, <2>3 DEF Swapped, WithCopy
  <1>6. CASE /\ dir' = Unlinked(call.from) /\ call' = [call EXCEPT !.pc = "half"]
             /\ mistaken' = mistaken \cup (There(call.from) \ There(Copied))
             /\ UNCHANGED <<born, removed, overrun>>
  <2>1. \A n \in DOMAIN dir : \/ n \in DOMAIN dir' /\ dir'[n] = dir[n]
                              \/ n \in Spelled(call.from) /\ data[dir[n]].file \in There(call.from)
    BY <1>6, NamesLeft
  <2>2. Copied \in DOMAIN dir' /\ dir'[Copied] = dir[Copied]
    BY <1>1, <2>1, EntryFacts, StartsAssumption
  <2> QED BY <1>0, <1>4, <1>6, <2>1, <2>2
  <1> QED BY <1>3, <1>5, <1>6, SwapFacts

LEMMA KeptWorld == ASSUME VolumeTypeOK, CallInv, KeptInv, WorldStep PROVE KeptInv'
  <1>1. \A f \in born \ Taken : \E n :
            Keeps(dir, data, n, f) /\ (call.pc \in WithCopy \ {"half"} => n # Copied)
    BY KeptParts
  <1>2. Copied \notin Spellings
    BY CallNames, NameFacts DEF Copied
  <1>3. ASSUME NEW n \in Spellings, NEW f \in Files, Come(n, f) PROVE KeptInv'
  <2>1. /\ call' = call /\ Taken' = Taken /\ born' = born \cup {f}
        /\ DOMAIN dir' = DOMAIN dir \cup {n} /\ n # Copied
        /\ \A m \in DOMAIN dir : dir'[m] = dir[m] /\ data'[dir[m]] = data[dir[m]]
        /\ data'[dir'[n]] = [file |-> f, ver |-> "old", whole |-> TRUE, safe |-> TRUE]
    BY <1>2, <1>3, ComeFacts DEF Taken
  <2>2. Keeps(dir', data', n, f) /\ Copied' = Copied
    BY <2>1, CopyAtFacts DEF Keeps
  <2>3. \A m, g : Keeps(dir, data, m, g) => Keeps(dir', data', m, g)
    BY <2>1 DEF Keeps
  <2>4. ASSUME NEW g \in born' \ Taken'
        PROVE  \E m : Keeps(dir', data', m, g) /\ (call'.pc \in WithCopy \ {"half"} => m # Copied')
      <3>1. CASE g = f
        BY <2>1, <2>2, <3>1
      <3>2. CASE g # f
        BY <1>1, <2>1, <2>2, <2>3, <2>4, <3>2
      <3> QED BY <3>1, <3>2
  <2> QED BY <2>4, KeptParts
  <1>4. ASSUME NEW n \in Spellings, Go(n) PROVE KeptInv'
  <2>1. /\ call' = call /\ born' = born /\ data' = data /\ dir' = Unlinked(n)
        /\ removed' = removed \cup There(n) /\ UNCHANGED <<overrun, mistaken>>
    BY <1>4, GoFacts
  <2>2. ASSUME NEW g \in born' \ Taken'
        PROVE  \E m : Keeps(dir', data', m, g) /\ (call'.pc \in WithCopy \ {"half"} => m # Copied')
      <3>1. PICK m : Keeps(dir, data, m, g) /\ (call.pc \in WithCopy \ {"half"} => m # Copied)
        BY <1>1, <2>1, <2>2 DEF Taken
      <3>2. data[dir[m]].file \notin There(n)
        BY <2>1, <2>2, <3>1 DEF Keeps, Taken
      <3>3. m \in DOMAIN dir' /\ dir'[m] = dir[m]
        BY <2>1, <3>1, <3>2, NamesLeft DEF Keeps
      <3> QED BY <2>1, <3>1, <3>3, CopyAtFacts DEF Keeps
  <2> QED BY <2>2, KeptParts
  <1>5. ASSUME NEW power \in BOOLEAN, Crash(power) PROVE KeptInv'
  <2>1. /\ dir' = dir /\ call'.pc = "idle" /\ born' = born /\ Taken' = Taken
        /\ \A n \in DOMAIN dir : data[dir[n]].safe => data'[dir[n]] = data[dir[n]]
    BY <1>5, CrashFacts, RestFacts DEF Taken
  <2>2. \A m, g : Keeps(dir, data, m, g) => Keeps(dir', data', m, g)
    BY <2>1 DEF Keeps
  <2> QED BY <1>1, <2>1, <2>2, KeptParts DEF WithCopy
  <1> QED BY <1>3, <1>4, <1>5 DEF WorldStep

LEMMA KeptStep == ASSUME VolumeTypeOK, CallInv, KeptInv, VolumeNext PROVE KeptInv'
  BY StepKinds, KeptRename, KeptCopy, KeptSwap, KeptWorld
-----------------------------------------------------------------------------
(* Without trouble a call finds everything where it left it.  The parts of *)
(* the state are parameters here, so that what is said of one state can be *)
(* said of the next.                                                       *)

SourceOf(c) == IF c.pc \in {"land", "back"} THEN Park(c.n) ELSE c.from
TargetOf(c) == CASE c.pc = "park" -> Park(c.n)
                 [] c.pc = "back" -> c.from
                 [] OTHER -> c.to
ShownOf(d, c) == (DOMAIN d \cap Spellings) \ (IF c.step = "linked" THEN {TargetOf(c)} ELSE {})

CalmAt(d, dt, c) ==
    /\ c.pc \notin {"idle", "land", "back"} => c.from \in DOMAIN d
    /\ c.pc \in {"land", "back"} => \A m \in ShownOf(d, c) : ~Same(m, c.from)
    /\ c.step = "linked" =>
          /\ SourceOf(c) \in DOMAIN d /\ TargetOf(c) \in DOMAIN d
          /\ d[TargetOf(c)] = d[SourceOf(c)]
    /\ c.step = "probed" =>
          SourceOf(c) \in DOMAIN d /\ \A m \in DOMAIN d : ~Same(m, TargetOf(c))
    /\ c.pc \in {"edit", "sync", "swap", "replace"} =>
          dt[d[Scratch(c.n)]].file = dt[d[c.from]].file
    /\ c.pc # "half"

LEMMA CalmParts ==
    ASSUME VolumeTypeOK
    PROVE  /\ CalmInv <=> (calm => CalmAt(dir, data, call))
           /\ Source = SourceOf(call) /\ Target = TargetOf(call) /\ Shown = ShownOf(dir, call)
  <1>1. Source = SourceOf(call) /\ Target = TargetOf(call) /\ Shown = ShownOf(dir, call)
    BY DEF Source, SourceOf, Target, TargetOf, Shown, ShownOf
  <1>2. Exists(Target) <=> \E m \in DOMAIN dir : Same(m, Target)
    BY OneSpelling
  <1> QED BY <1>1, <1>2 DEF CalmInv, CalmAt, Copied

LEMMA CalmPrimed ==
    ASSUME volume' = volume
    PROVE  /\ CalmInv' <=> (calm' => CalmAt(dir', data', call'))
           /\ Shown' = ShownOf(dir', call') /\ Source' = SourceOf(call')
  <1>1. Source' = SourceOf(call') /\ Target' = TargetOf(call') /\ Shown' = ShownOf(dir', call')
    BY DEF Source, SourceOf, Target, TargetOf, Shown, ShownOf, Park
  <1>2. \A m, n : Same(m, n)' <=> Same(m, n)
    BY DEF Same
  <1>3. Exists(Target)' <=> \E m \in DOMAIN dir' : Same(m, TargetOf(call'))
    BY <1>1, <1>2 DEF Exists, Spelled
  <1>4. Copied' = Scratch(call'.n)
    BY DEF Copied, Scratch
  <1> QED BY <1>1, <1>2, <1>3, <1>4 DEF CalmInv, CalmAt

LEMMA CalmRest == \A d, dt : CalmAt(d, dt, AtRest)
  BY RestFacts DEF CalmAt

\* A call that has just been sent on its way.
LEMMA CalmStarts ==
    ASSUME NEW d, NEW dt, NEW c, c.step = "try", c.pc \in {"move", "park", "claim", "copy", "drop", "forget"},
           c.from \in DOMAIN d
    PROVE  CalmAt(d, dt, c)
  BY DEF CalmAt

LEMMA CalmRename ==
    ASSUME VolumeTypeOK, CallInv, CalmInv, RenameStep, calm' PROVE CalmAt(dir', data', call')
  <1>1. ASSUME NEW f \in Spellings, NEW t \in Spellings, CallRename(f, t)
        PROVE  CalmAt(dir', data', call')
  <2>1. \/ call' = AtRest
        \/ /\ dir' = dir /\ f \in DOMAIN dir /\ call'.from = f /\ call'.step = "try"
           /\ call'.pc \in {"park", "move"}
    BY <1>1, StartFacts
  <2> QED BY <2>1, CalmRest, CalmStarts
  <1>2. CASE RenameNoReplace \/ HardLink \/ Unlink \/ Probe \/ Replace
  <2>1. Moving /\ data' = data /\ calm
    BY <1>2, MovingFacts, CallParts
  <2>2. /\ call.from \in Spellings /\ call.to \in Spellings /\ call.n \in 1..Attempts
        /\ Park(call.n) \notin Spellings /\ Park(call.n) \in AllNames
    BY <2>1, CallNames, NameFacts
  <2>3. /\ call.pc \in {"move", "park"} => call.from \in DOMAIN dir /\ Source = call.from
        /\ call.pc \in {"land", "back"} =>
              /\ \A m \in ShownOf(dir, call) : ~Same(m, call.from)
              /\ Source = Park(call.n) /\ Park(call.n) \in DOMAIN dir
        /\ CalmAt(dir, data, call)
        /\ Source = SourceOf(call) /\ Target = TargetOf(call)
    BY <2>1, CalmParts, CallNames, CallParts DEF CalmAt, ParkedInv
  <2>4. Source \in DOMAIN dir /\ Spelled(Source) = {Source} /\ Source \in Spelled(Source)
    BY <2>1, <2>3, OneSpelling DEF Moving
  <2>5. CASE call' = AtRest
    BY <2>5, CalmRest
  <2>6. ASSUME dir' = dir, Denied, call.step # "linked" PROVE CalmAt(dir', data', call')
      <3>1. CASE call.pc = "park" /\ call'.pc = "park" /\ call'.step = "try"
        <4>1. call'.from = call.from
          BY <2>1, <2>6, <3>1, MovingCalls
        <4> QED BY <2>3, <2>6, <3>1, <4>1, CalmStarts
      <3>2. CASE call.pc = "land" /\ call'.pc = "back" /\ call'.step = "try" /\ call'.n = call.n
        <4>1. call'.from = call.from
          BY <2>1, <2>6, <3>2, MovingCalls
        <4>2. ShownOf(dir', call') = ShownOf(dir, call)
          BY <2>6, <3>2 DEF ShownOf
        <4> QED BY <2>3, <3>2, <4>1, <4>2 DEF CalmAt
      <3> QED BY <2>1, <2>5, <2>6, <3>1, <3>2, MovingCalls
  <2>7. ASSUME dir' = dir, call' = [call EXCEPT !.step = "probed"], call.step = "try", ~Exists(Target)
        PROVE  CalmAt(dir', data', call')
      <3>1. /\ call'.pc = call.pc /\ call'.step = "probed" /\ call'.n = call.n
            /\ call'.from = call.from /\ call'.to = call.to
        BY <2>7 DEF VolumeTypeOK
      <3>2. SourceOf(call') = Source /\ TargetOf(call') = Target
        BY <2>3, <3>1 DEF SourceOf, TargetOf, Park
      <3>3. ShownOf(dir', call') = ShownOf(dir, call)
        BY <2>7, <3>1 DEF ShownOf
      <3>4. \A m \in DOMAIN dir' : ~Same(m, Target)
        BY <2>7, OneSpelling
      <3>5. call'.pc \in {"move", "park", "land", "back"}
        BY <2>1, <3>1 DEF Moving
      <3> QED BY <2>3, <2>4, <2>7, <3>1, <3>2, <3>3, <3>4, <3>5 DEF CalmAt
  <2>8. ASSUME dir' = Linked(Target, Inode(Source)), call' = [call EXCEPT !.step = "linked"],
               call.step = "try", ~Exists(Target)
        PROVE  CalmAt(dir', data', call')
      <3>1. /\ call'.pc = call.pc /\ call'.step = "linked" /\ call'.n = call.n
            /\ call'.from = call.from /\ call'.to = call.to
        BY <2>8 DEF VolumeTypeOK
      <3>2. SourceOf(call') = Source /\ TargetOf(call') = Target
        BY <2>3, <3>1 DEF SourceOf, TargetOf, Park
      <3>3. Inode(Source) = dir[Source] /\ dir[Source] \in Inodes
        BY <2>4, OneSpelling DEF Inode, VolumeTypeOK
      <3>4. /\ Target \notin DOMAIN dir /\ DOMAIN dir' = DOMAIN dir \cup {Target}
            /\ dir'[Target] = dir[Source]
            /\ \A m \in DOMAIN dir : dir'[m] = dir[m]
        <4>1. Target \in AllNames
          BY <2>1, CallEnds
        <4> QED BY <2>8, <3>3, <4>1, LinkedFacts
      <3>5. ShownOf(dir', call') = ShownOf(dir, call)
        BY <2>8, <3>1, <3>2, <3>4 DEF ShownOf
      <3>6. call'.pc \in {"move", "park", "land", "back"}
        BY <2>1, <3>1 DEF Moving
      <3> QED BY <2>3, <2>4, <3>1, <3>2, <3>4, <3>5, <3>6 DEF CalmAt
  <2>9. ASSUME dir' = Moved(Source, Target) \/ dir' = Unlinked(Source), Landed
        PROVE  CalmAt(dir', data', call')
      <3>1. CASE call.pc = "park" /\ call'.pc = "land" /\ call'.step = "try" /\ call'.n = call.n
        <4>1. call'.from = call.from /\ Target = Park(call.n) /\ Source = call.from
          BY <2>1, <2>9, <3>1, MovingCalls, CallNames
        <4>2. \A m \in DOMAIN dir' : m = Target \/ (m \in DOMAIN dir /\ m \notin Spelled(Source))
          BY <2>9 DEF Moved, Unlinked
        <4>3. \A m \in ShownOf(dir', call') : m \in DOMAIN dir' /\ m \in Spellings
          BY DEF ShownOf
        <4>4. \A m \in ShownOf(dir', call') : ~Same(m, call'.from)
          BY <2>2, <4>1, <4>2, <4>3 DEF Spelled
        <4> QED BY <3>1, <4>4 DEF CalmAt
      <3> QED BY <2>1, <2>5, <2>9, <3>1, MovingCalls
  <2>10. ASSUME dir' = Unlinked(Target), call.step = "linked", Denied
         PROVE  CalmAt(dir', data', call')
      <3>1. \A m \in DOMAIN dir' : m \in DOMAIN dir /\ m \notin Spelled(Target)
        BY <2>10 DEF Unlinked
      <3>2. \A m \in DOMAIN dir : m \notin Spelled(Target) => m \in DOMAIN dir'
        BY <2>10 DEF Unlinked
      <3>3. CASE call.pc = "park" /\ call'.pc = "park" /\ call'.step = "try"
        <4>1. call'.from = call.from /\ Source = call.from
          BY <2>1, <2>10, <3>3, MovingCalls, CallNames
        <4>2. call'.from \in DOMAIN dir'
          BY <2>1, <2>4, <3>2, <4>1, CallEnds
        <4> QED BY <3>3, <4>2, CalmStarts
      <3>4. CASE call.pc = "land" /\ call'.pc = "back" /\ call'.step = "try" /\ call'.n = call.n
        <4>1. call'.from = call.from
          BY <2>1, <2>10, <3>4, MovingCalls
        <4>2. Target \notin DOMAIN dir'
          BY <3>1, OneSpelling
        <4>3. \A m \in ShownOf(dir', call') : m \in ShownOf(dir, call)
          BY <2>3, <2>10, <3>1, <4>2 DEF ShownOf
        <4> QED BY <2>3, <3>4, <4>1, <4>3 DEF CalmAt
      <3> QED BY <2>1, <2>5, <2>10, <3>3, <3>4, MovingCalls
  <2> QED BY <1>2, <2>6, <2>7, <2>8, <2>9, <2>10, MovingFacts, CallParts
  <1> QED BY <1>1, <1>2 DEF RenameStep

LEMMA CalmCopy ==
    ASSUME VolumeTypeOK, CallInv, CalmInv, CopyStep, calm' PROVE CalmAt(dir', data', call')
  <1>0. /\ \A pc : LET c == [call EXCEPT !.pc = pc]
                   IN  c.pc = pc /\ c.n = call.n /\ c.from = call.from /\ c.step = call.step
        /\ call.pc \notin MovingPcs => call.step = "try"
    BY DEF VolumeTypeOK, Moving, MovingPcs
  <1>1. calm /\ CalmAt(dir, data, call)
  <2>1. calm
    BY DEF CopyStep, CallRetag, Claim, Copy, CopyNothing, Edit, Sync, OnCopy, Drop,
           ForgetWhatWasRead, ReadTags, Remember, ghosts
  <2> QED BY <2>1, CalmParts
  <1>2. CASE call' = AtRest
    BY <1>2, CalmRest
  <1>3. ASSUME NEW f \in Spellings, CallRetag(f) PROVE CalmAt(dir', data', call')
  <2>1. dir' = dir /\ f \in DOMAIN dir /\ call' = [AtRest EXCEPT !.pc = "claim", !.from = f]
    BY <1>3 DEF CallRetag, fs
  <2>2. call'.pc = "claim" /\ call'.step = "try" /\ call'.from = f
    BY <2>1, RestFacts
  <2> QED BY <2>1, <2>2, CalmStarts
  <1>4. CASE Claim
  <2>1. call.pc = "claim" /\ call.from \in DOMAIN dir /\ call.step = "try"
    BY <1>0, <1>1, <1>4 DEF Claim, CalmAt, MovingPcs
  <2>2. DOMAIN dir \subseteq DOMAIN dir'
    BY <1>4 DEF Claim, fs, Linked
  <2>3. \/ call' = AtRest
        \/ call'.pc \in {"claim", "copy"} /\ call'.from = call.from /\ call'.step = "try"
      <3>1. /\ [call EXCEPT !.n = @ + 1].pc = call.pc /\ [call EXCEPT !.n = @ + 1].from = call.from
            /\ [call EXCEPT !.n = @ + 1].step = call.step
        BY DEF VolumeTypeOK
      <3> QED BY <1>0, <1>4, <2>1, <3>1, ZenonT(30) DEF Claim, Return
  <2> QED BY <1>2, <2>1, <2>2, <2>3, CalmStarts
  <1>5. CASE Copy \/ Edit \/ Sync \/ CopyNothing
  <2>1. /\ dir' = dir /\ call.pc \in {"copy", "edit", "sync"}
        /\ \E pc : call' = [call EXCEPT !.pc = pc]
    BY <1>5 DEF Copy, Edit, Sync, OnCopy, CopyNothing, fs
  <2>2. /\ call'.step = "try" /\ call'.from = call.from /\ call'.n = call.n
        /\ call.from \in DOMAIN dir /\ call.pc # "copy" =>
              data[dir[Copied]].file = data[dir[call.from]].file
    BY <1>0, <1>1, <2>1 DEF CalmAt, MovingPcs, Copied
  <2>3. call.from \in DOMAIN dir /\ Inode(call.from) = dir[call.from]
    BY <1>1, <2>1, OneSpelling DEF CalmAt, Inode
  <2>4. /\ Copied \in DOMAIN dir /\ Inode(Copied) = dir[Copied]
        /\ dir[call.from] # dir[Copied]
      <3>1. /\ Copied \in DOMAIN dir
            /\ \A n \in DOMAIN dir : dir[n] = dir[Copied] => n = Copied
        BY <2>1, CallParts DEF CopyInv, WithCopy
      <3>2. Copied # call.from
        BY <2>1, CallNames, NameFacts DEF Copied, VolumeTypeOK
      <3> QED BY <2>3, <3>1, <3>2, OneSpelling DEF Inode
  <2>5. data \in [Inodes -> Held] /\ dir[call.from] \in Inodes /\ dir[Copied] \in Inodes
    BY <2>3, <2>4, TypeParts DEF IsDir
  <2>6. CASE call' = [call EXCEPT !.pc = "drop"]
    BY <1>0, <2>1, <2>2, <2>3, <2>6, CalmStarts
  <2>7. ASSUME NEW r, data' = [data EXCEPT ![dir[Copied]] = r], r.file = data[dir[call.from]].file,
               call'.pc \in {"edit", "sync", "swap"}
        PROVE  CalmAt(dir', data', call')
      <3>1. data'[dir[Copied]].file = data'[dir[call.from]].file
        BY <2>4, <2>5, <2>7
      <3>2. Scratch(call'.n) = Copied
        BY <2>2 DEF Copied, Scratch
      <3> QED BY <2>1, <2>2, <2>3, <2>7, <3>1, <3>2 DEF CalmAt
  <2>8. ASSUME Copy, data' = [data EXCEPT ![Inode(Copied)] = [data[Inode(call.from)] EXCEPT !.safe = FALSE]],
               call' = [call EXCEPT !.pc = "edit"]
        PROVE  CalmAt(dir', data', call')
      <3>1. data[dir[call.from]] \in Held
        BY <2>5
      <3>2. [data[dir[call.from]] EXCEPT !.safe = FALSE].file = data[dir[call.from]].file
        BY <3>1 DEF Held
      <3>3. call'.pc = "edit"
        BY <1>0, <2>8
      <3> QED BY <2>3, <2>4, <2>7, <2>8, <3>2, <3>3
  <2>9. data[dir[Copied]] \in Held
    BY <2>5
  <2>10. ASSUME Edit, data' = [data EXCEPT ![Inode(Copied)] = [data[Inode(Copied)] EXCEPT !.ver = "new"]],
                call' = [call EXCEPT !.pc = "sync"]
         PROVE  CalmAt(dir', data', call')
      <3>1. data[dir[Copied]].file = data[dir[call.from]].file
        BY <1>1, <2>10 DEF Edit, OnCopy, CalmAt, Copied
      <3>2. [data[dir[Copied]] EXCEPT !.ver = "new"].file = data[dir[Copied]].file
        BY <2>9 DEF Held
      <3>3. call'.pc = "sync"
        BY <1>0, <2>10
      <3> QED BY <2>4, <2>7, <2>10, <3>1, <3>2, <3>3
  <2>11. ASSUME Sync, data' = [data EXCEPT ![Inode(Copied)] = [data[Inode(Copied)] EXCEPT !.safe = TRUE]],
                call' = [call EXCEPT !.pc = "swap"]
         PROVE  CalmAt(dir', data', call')
      <3>1. data[dir[Copied]].file = data[dir[call.from]].file
        BY <1>1, <2>11 DEF Sync, OnCopy, CalmAt, Copied
      <3>2. [data[dir[Copied]] EXCEPT !.safe = TRUE].file = data[dir[Copied]].file
        BY <2>9 DEF Held
      <3>3. call'.pc = "swap"
        BY <1>0, <2>11
      <3> QED BY <2>4, <2>7, <2>11, <3>1, <3>2, <3>3
  <2> QED BY <1>5, <2>6, <2>8, <2>10, <2>11 DEF Copy, Edit, Sync, OnCopy, CopyNothing
  <1>6. CASE Drop \/ ForgetWhatWasRead
    BY <1>2, <1>6 DEF Drop, ForgetWhatWasRead, Return
  <1>7. CASE (\E n \in Spellings : ReadTags(n)) \/ Remember
  <2>1. UNCHANGED <<dir, data, call>>
    BY <1>7 DEF ReadTags, Remember, fs
  <2> QED BY <1>1, <2>1
  <1> QED BY <1>3, <1>4, <1>5, <1>6, <1>7 DEF CopyStep

LEMMA CalmSwap ==
    ASSUME VolumeTypeOK, CallInv, CalmInv, SwapStep, calm' PROVE CalmAt(dir', data', call')
  <1>0. /\ \A pc : LET c == [call EXCEPT !.pc = pc]
                   IN  c.pc = pc /\ c.n = call.n /\ c.from = call.from /\ c.step = call.step
        /\ call.pc \notin MovingPcs => call.step = "try"
    BY DEF VolumeTypeOK, Moving, MovingPcs
  <1>1. /\ call.pc \in {"swap", "replace", "half"} /\ data' = data /\ calm /\ call.step = "try"
        /\ \/ /\ dir' = dir
              /\ \/ call.pc = "swap" /\ call' = [call EXCEPT !.pc = "drop"]
                 \/ call.pc = "swap" /\ call' = [call EXCEPT !.pc = "replace"]
                 \/ call.pc = "half"
           \/ Swapped
    BY <1>0, SwapFacts DEF MovingPcs
  <1>2. CalmAt(dir, data, call)
    BY <1>1, CalmParts
  <1>3. call.pc # "half" /\ call.from \in DOMAIN dir
    BY <1>1, <1>2 DEF CalmAt
  <1>4. CASE dir' = dir /\ call' = [call EXCEPT !.pc = "drop"]
    BY <1>0, <1>1, <1>3, <1>4, CalmStarts
  <1>5. CASE dir' = dir /\ call' = [call EXCEPT !.pc = "replace"] /\ call.pc = "swap"
  <2>1. call'.pc = "replace" /\ call'.step = "try" /\ call'.from = call.from /\ call'.n = call.n
    BY <1>0, <1>1, <1>5
  <2>2. Scratch(call'.n) = Scratch(call.n)
    BY <2>1 DEF Scratch
  <2> QED BY <1>1, <1>2, <1>3, <1>5, <2>1, <2>2 DEF CalmAt
  <1>6. CASE Swapped
  <2>1. call'.pc = "forget" /\ call'.step = "try" /\ call'.from = call.from
    BY <1>0, <1>1, <1>6 DEF Swapped
  <2>2. call.from \in DOMAIN dir'
    BY <1>6 DEF Swapped, Moved
  <2> QED BY <2>1, <2>2, CalmStarts
  <1> QED BY <1>1, <1>3, <1>4, <1>5, <1>6

LEMMA CalmStep == ASSUME VolumeTypeOK, CallInv, CalmInv, VolumeNext PROVE CalmInv'
  <1>1. WorldStep => ~calm'
    BY DEF WorldStep, Come, Go, Crash
  <1>2. calm' => CalmAt(dir', data', call')
    BY <1>1, StepKinds, CalmRename, CalmCopy, CalmSwap
  <1> QED BY <1>2, SameVolume, CalmPrimed

-----------------------------------------------------------------------------
(* All together.                                                           *)

LEMMA VolumeStart == ASSUME VolumeInit PROVE VolumeInv
  <1>1. PICK d \in Starts :
          /\ volume.folds => \A n, m \in DOMAIN d : Folded[n] = Folded[m] => n = m
          /\ dir = d
          /\ \A f \in born : \E n \in DOMAIN d : f = First[d[n]]
          /\ data = [i \in Inodes |->
                IF \E n \in DOMAIN d : d[n] = i
                THEN [file |-> First[i], ver |-> "old", whole |-> TRUE, safe |-> TRUE]
                ELSE Blank]
    BY DEF VolumeInit
  <1>2. /\ volume \in Volumes /\ call = AtRest /\ reading = Nothing
        /\ cached = [n \in Spellings |-> Nothing] /\ strays = {} /\ calm = TRUE
    BY DEF VolumeInit
  <1>3. DOMAIN dir \subseteq Spellings /\ \A n \in DOMAIN dir : dir[n] \in Inodes /\ First[dir[n]] \in Files
    BY <1>1, StartsAssumption
  <1>4. /\ \A n \in DOMAIN dir : data[dir[n]] =
              [file |-> First[dir[n]], ver |-> "old", whole |-> TRUE, safe |-> TRUE]
        /\ data \in [Inodes -> Held]
  <2>1. Blank \in Held
    BY DEF Blank, Held
  <2>2. ASSUME NEW i \in Inodes, NEW n \in DOMAIN dir, dir[n] = i
        PROVE  [file |-> First[i], ver |-> "old", whole |-> TRUE, safe |-> TRUE] \in Held
    BY <1>3, <2>2 DEF Held
  <2> QED BY <1>1, <1>3, <2>1, <2>2
  <1>5. VolumeTypeOK
  <2>1. IsDir(dir)
      <3>1. dir \in [DOMAIN dir -> Inodes]
        BY <1>1, StartsAssumption
      <3> QED BY <1>1, <1>3, <3>1 DEF IsDir, AllNames
  <2>2. IsCall(call)
    BY <1>2, RestFacts DEF IsCall, MovingPcs
  <2> QED BY <1>2, <1>4, <2>1, <2>2, TypeParts
  <1>6. CallInv
  <2>1. \A n \in DOMAIN dir : IsSound(dir[n])
      <3>1. ASSUME NEW n \in DOMAIN dir PROVE IsSound(dir[n])
        <4>1. data[dir[n]] = [file |-> First[dir[n]], ver |-> "old", whole |-> TRUE, safe |-> TRUE]
          BY <1>4
        <4> QED BY <1>3, <4>1 DEF IsSound
      <3> QED BY <3>1
  <2>2. AliasInv /\ FlagsInv /\ ParkedInv /\ CopyInv
    BY <1>2, RestFacts DEF AliasInv, FlagsInv, ParkedInv, CopyInv, WithCopy
  <2> QED BY <2>1, <2>2, CallParts DEF SoundInv
  <1>7. KeptInv
  <2>1. ASSUME NEW f \in born PROVE \E n : Keeps(dir, data, n, f)
      <3>1. PICK n \in DOMAIN dir : f = First[dir[n]]
        BY <1>1, <2>1
      <3>2. data[dir[n]] = [file |-> First[dir[n]], ver |-> "old", whole |-> TRUE, safe |-> TRUE]
        BY <1>4
      <3>3. Keeps(dir, data, n, f)
        BY <3>1, <3>2 DEF Keeps
      <3> QED BY <3>3
  <2> QED BY <1>2, <2>1, RestFacts, KeptParts DEF WithCopy
  <1>8. CalmInv
    BY <1>2, <1>5, CalmParts, CalmRest
  <1> QED BY <1>5, <1>6, <1>7, <1>8 DEF VolumeInv

LEMMA VolumeStays == ASSUME VolumeInv, [VolumeNext]_volumeVars PROVE VolumeInv'
  <1>1. CASE VolumeNext
    BY <1>1, TypeStep, CallInvStep, KeptStep, CalmStep DEF VolumeInv
  <1>2. CASE UNCHANGED volumeVars
  <2>1. /\ VolumeTypeOK' <=> VolumeTypeOK
        /\ CallInv' <=> CallInv
    BY <1>2 DEF volumeVars, fs, ghosts, counts, VolumeTypeOK, CallInv, Moving, Copied, Same
  <2>2. KeptInv' <=> KeptInv
    BY <1>2 DEF volumeVars, fs, ghosts, counts, KeptInv, Copied
  <2>3. CalmInv' <=> CalmInv
    BY <1>2, CalmPrimed, CalmParts DEF volumeVars, ghosts, fs, VolumeInv
  <2> QED BY <2>1, <2>2, <2>3 DEF VolumeInv
  <1> QED BY <1>1, <1>2

\* Whatever is interrupted, wherever, and whatever another program does: a
\* file nobody took has a name, whole and on the disk (rename in unix.rs and
\* windows.rs, rewrite in meta/write.rs).
THEOREM VolumeInductive == VolumeSpec => []VolumeInv
  BY VolumeStart, VolumeStays, PTL DEF VolumeSpec

\* A file that is there is whole, and one that is not was taken by somebody
\* else, by a rename on a volume with neither the flag nor hard links, or by
\* the program for the one it had found under that name.
THEOREM FilesAreKeptHolds == VolumeSpec => []FilesAreKept
  <1>1. VolumeInv => FilesAreKept
  <2>1. VolumeInv => NothingLost
    BY KeptParts DEF VolumeInv, NothingLost, Somewhere, Keeps, Taken
  <2>2. VolumeInv => NamesAreWhole
    BY StartsAssumption DEF VolumeInv, CallInv, NamesAreWhole
  <2> QED BY <2>1, <2>2 DEF FilesAreKept
  <1> QED BY <1>1, VolumeInductive, PTL
-----------------------------------------------------------------------------
(* The refinement: what the user sees of one step is one step of Shelf.     *)

Seen(i, dt) == [file |-> dt[i].file, ver |-> dt[i].ver]
UnderOf(d, c) ==
    IF c.pc \in {"land", "back"} /\ (\A m \in ShownOf(d, c) : ~Same(m, c.from))
    THEN {c.from} ELSE {}
ShelfOf(d, dt, c) ==
    [n \in ShownOf(d, c) \cup UnderOf(d, c) |->
        Seen(IF n \in ShownOf(d, c) THEN d[n] ELSE d[SourceOf(c)], dt)]

LEMMA ShelfParts ==
    ASSUME volume' = volume
    PROVE  shelf = ShelfOf(dir, data, call) /\ shelf' = ShelfOf(dir', data', call')
  <1>1. Shown = ShownOf(dir, call) /\ Source = SourceOf(call)
    BY DEF Source, SourceOf, Target, TargetOf, Shown, ShownOf
  <1>2. Shown' = ShownOf(dir', call') /\ Source' = SourceOf(call')
    BY CalmPrimed
  <1>3. Underway = UnderOf(dir, call)
    BY <1>1 DEF Underway, UnderOf
  <1>4. \A m, n : Same(m, n)' <=> Same(m, n)
    BY DEF Same
  <1>5. Underway' = UnderOf(dir', call')
    BY <1>2, <1>4 DEF Underway, UnderOf
  <1>6. shelf = ShelfOf(dir, data, call)
    BY <1>1, <1>3 DEF shelf, ShelfOf, Seen
  <1>7. shelf' = ShelfOf(dir', data', call')
    BY <1>2, <1>5 DEF shelf, ShelfOf, Seen
  <1> QED BY <1>6, <1>7

LEMMA ShelfIsAShelf ==
    ASSUME NEW d, NEW dt, NEW c, c.from \in Spellings \/ c.pc = "idle",
           \A n \in ShownOf(d, c) : dt[d[n]].file \in Files /\ dt[d[n]].ver \in {"old", "new"},
           c.pc \in {"land", "back"} => /\ dt[d[SourceOf(c)]].file \in Files
                                        /\ dt[d[SourceOf(c)]].ver \in {"old", "new"}
    PROVE  ShelfOf(d, dt, c) \in Promise!Shelves
  <1> DEFINE N == ShownOf(d, c) \cup UnderOf(d, c)
  <1>1. N \in SUBSET Spellings
    BY DEF ShownOf, UnderOf
  <1>2. ASSUME NEW n \in N
        PROVE  Seen(IF n \in ShownOf(d, c) THEN d[n] ELSE d[SourceOf(c)], dt)
                  \in [file : Files, ver : Promise!Versions]
  <2>1. n \notin ShownOf(d, c) => c.pc \in {"land", "back"}
    BY <1>2 DEF UnderOf
  <2> QED BY <2>1 DEF Seen, Promise!Versions
  <1>3. ShelfOf(d, dt, c) \in [N -> [file : Files, ver : Promise!Versions]]
    BY <1>2 DEF ShelfOf
  <1> HIDE DEF N
  <1> QED BY <1>1, <1>3 DEF Promise!Shelves

\* In every state there is a shelf to see.
LEMMA ShelfTyped ==
    ASSUME VolumeTypeOK, CallInv PROVE ShelfOf(dir, data, call) \in Promise!Shelves
  <1>1. \A n \in DOMAIN dir \ Scratches : data[dir[n]].file \in Files /\ data[dir[n]].ver \in {"old", "new"}
    BY CallParts, TypeParts DEF SoundInv, IsSound, IsDir, Held
  <1>2. ShownOf(dir, call) \subseteq DOMAIN dir \ Scratches
    BY StartsAssumption DEF ShownOf
  <1>3. call.pc \in {"land", "back"} => SourceOf(call) \in DOMAIN dir \ Scratches
    BY CallParts, CallNames, NameFacts DEF ParkedInv, SourceOf
  <1>4. call.from \in Spellings \/ call.pc = "idle"
    BY DEF VolumeTypeOK
  <1> QED BY <1>1, <1>2, <1>3, <1>4, ShelfIsAShelf

LEMMA ShelfTypedNext ==
    ASSUME VolumeTypeOK, CallInv, VolumeNext PROVE ShelfOf(dir', data', call') \in Promise!Shelves
  <1>1. VolumeTypeOK' /\ CallInv'
    BY TypeStep, CallInvStep
  <1>2. \A n \in DOMAIN dir' \ Scratches :
           data'[dir'[n]].file \in Files /\ data'[dir'[n]].ver \in {"old", "new"}
    BY <1>1 DEF CallInv, VolumeTypeOK
  <1>3. ShownOf(dir', call') \subseteq DOMAIN dir' \ Scratches
    BY StartsAssumption DEF ShownOf
  <1>4. call'.pc \in {"land", "back"} => SourceOf(call') \in DOMAIN dir' \ Scratches
  <2>1. call'.n \in 1..Attempts
    BY <1>1 DEF VolumeTypeOK
  <2> QED BY <1>1, <2>1, NameFacts DEF CallInv, SourceOf, Park
  <1>5. call'.from \in Spellings \/ call'.pc = "idle"
    BY <1>1 DEF VolumeTypeOK
  <1> QED BY <1>2, <1>3, <1>4, <1>5, ShelfIsAShelf

\* The names seen, and what is seen under each.
NamesSeen(d, c) == ShownOf(d, c) \cup UnderOf(d, c)
SeenAs(d, dt, c, n) == Seen(IF n \in ShownOf(d, c) THEN d[n] ELSE d[SourceOf(c)], dt)

LEMMA SeenFacts ==
    \A d, dt, c : /\ ShelfOf(d, dt, c) = [n \in NamesSeen(d, c) |-> SeenAs(d, dt, c, n)]
                  /\ c.from \in Spellings \/ c.pc = "idle" => NamesSeen(d, c) \subseteq Spellings
  BY DEF ShelfOf, NamesSeen, SeenAs, ShownOf, UnderOf

\* A call that is not putting a parked file back hides no name but a link's.
LEMMA PlainSeen ==
    ASSUME NEW d, NEW c, c.pc \notin {"land", "back"}
    PROVE  /\ NamesSeen(d, c) = ShownOf(d, c)
           /\ c.step # "linked" => ShownOf(d, c) = DOMAIN d \cap Spellings
           /\ \A dt : \A n \in NamesSeen(d, c) : SeenAs(d, dt, c, n) = Seen(d[n], dt)
  BY DEF NamesSeen, SeenAs, ShownOf, UnderOf

\* A parked file is seen where it was.
LEMMA ParkedSeen ==
    ASSUME NEW d, NEW c, c.pc \in {"land", "back"}, \A m \in ShownOf(d, c) : ~Same(m, c.from)
    PROVE  /\ NamesSeen(d, c) = ShownOf(d, c) \cup {c.from} /\ c.from \notin ShownOf(d, c)
           /\ c.step # "linked" => ShownOf(d, c) = DOMAIN d \cap Spellings
           /\ \A dt : /\ SeenAs(d, dt, c, c.from) = Seen(d[Park(c.n)], dt)
                      /\ \A n \in ShownOf(d, c) : SeenAs(d, dt, c, n) = Seen(d[n], dt)
  <1>1. c.from \notin ShownOf(d, c)
    BY DEF Same
  <1> QED BY <1>1 DEF NamesSeen, SeenAs, ShownOf, UnderOf, SourceOf

LEMMA ShelfStays ==
    ASSUME volume' = volume, NamesSeen(dir', call') = NamesSeen(dir, call),
           \A n \in NamesSeen(dir, call) :
              SeenAs(dir', data', call', n) = SeenAs(dir, data, call, n)
    PROVE  shelf' = shelf
  BY ShelfParts, SeenFacts

LEMMA ShelfMoves ==
    ASSUME VolumeTypeOK, volume' = volume, calm' = calm,
           NEW n \in NamesSeen(dir, call), NEW m \in Spellings, n # m,
           \A k \in NamesSeen(dir, call) \ {n} : ~Same(k, m),
           NamesSeen(dir', call') = (NamesSeen(dir, call) \ {n}) \cup {m},
           SeenAs(dir', data', call', m) = SeenAs(dir, data, call, n),
           \A k \in NamesSeen(dir, call) \ {n} :
              SeenAs(dir', data', call', k) = SeenAs(dir, data, call, k)
    PROVE  Promise!ShelfNext
  <1>1. NamesSeen(dir, call) \subseteq Spellings
    BY SeenFacts DEF VolumeTypeOK
  <1>2. /\ shelf = [k \in NamesSeen(dir, call) |-> SeenAs(dir, data, call, k)]
        /\ shelf' = [k \in NamesSeen(dir', call') |-> SeenAs(dir', data', call', k)]
    BY ShelfParts, SeenFacts
  <1>3. DOMAIN shelf = NamesSeen(dir, call)
    BY <1>2
  <1>4. m \notin DOMAIN shelf \ {n}
    BY <1>3 DEF Same
  <1>5. shelf' = [k \in (DOMAIN shelf \ {n}) \cup {m} |-> IF k = m THEN shelf[n] ELSE shelf[k]]
    BY <1>2, <1>3, <1>4
  <1>6. \A k \in DOMAIN shelf \ {n} : ~(k = m \/ (volume.folds /\ Folded[k] = Folded[m]))
    BY <1>1, <1>3 DEF Same
  <1>7. Promise!Move(n, m)
    BY <1>3, <1>5, <1>6 DEF Promise!Move, Promise!Alike
  <1> QED BY <1>1, <1>7 DEF Promise!ShelfNext

LEMMA ShelfRetags ==
    ASSUME VolumeTypeOK, volume' = volume, calm' = calm, NEW n \in NamesSeen(dir, call),
           NamesSeen(dir', call') = NamesSeen(dir, call),
           SeenAs(dir', data', call', n) =
              [file |-> SeenAs(dir, data, call, n).file, ver |-> "new"],
           \A k \in NamesSeen(dir, call) \ {n} :
              SeenAs(dir', data', call', k) = SeenAs(dir, data, call, k)
    PROVE  Promise!ShelfNext
  <1>1. NamesSeen(dir, call) \subseteq Spellings
    BY SeenFacts DEF VolumeTypeOK
  <1>2. /\ shelf = [k \in NamesSeen(dir, call) |-> SeenAs(dir, data, call, k)]
        /\ shelf' = [k \in NamesSeen(dir', call') |-> SeenAs(dir', data', call', k)]
    BY ShelfParts, SeenFacts
  <1>3. [shelf[n] EXCEPT !.ver = "new"] = [file |-> SeenAs(dir, data, call, n).file, ver |-> "new"]
    BY <1>2 DEF SeenAs, Seen
  <1>4. shelf' = [shelf EXCEPT ![n].ver = "new"]
    BY <1>2, <1>3
  <1>5. Promise!Retag(n)
    BY <1>2, <1>4 DEF Promise!Retag
  <1> QED BY <1>1, <1>5 DEF Promise!ShelfNext

MovingStep == RenameNoReplace \/ HardLink \/ Unlink \/ Probe \/ Replace

\* What a rename under way has to do with, without trouble.
LEMMA CalmMoving ==
    ASSUME VolumeTypeOK, CallInv, CalmInv, MovingStep, calm'
    PROVE  /\ data' = data /\ calm' = calm /\ Moving
           /\ call.pc \in {"move", "park", "land", "back"}
           /\ call.from \in Spellings /\ call.to \in Spellings /\ call.from # call.to
           /\ call.n \in 1..Attempts /\ Park(call.n) \notin Spellings
           /\ CalmAt(dir, data, call) /\ Source = SourceOf(call) /\ Target = TargetOf(call)
           /\ Source \in DOMAIN dir /\ Spelled(Source) = {Source}
           /\ Exists(Source) /\ Entry(Source) = Source /\ Inode(Source) = dir[Source]
           /\ Target \in AllNames /\ Source # Target
           /\ call.step = "probed" => ~Exists(Target)
           /\ call.step = "linked" => /\ Target \in DOMAIN dir /\ Spelled(Target) = {Target}
                                      /\ dir[Target] = dir[Source]
  <1>1. Moving /\ data' = data /\ calm /\ calm' = calm
    BY MovingFacts, CallParts DEF MovingStep
  <1>2. /\ call.from \in Spellings /\ call.to \in Spellings /\ call.n \in 1..Attempts
        /\ call.from # call.to /\ Park(call.n) \notin Spellings
    BY <1>1, CallNames, NameFacts DEF VolumeTypeOK
  <1>3. /\ CalmAt(dir, data, call) /\ Source = SourceOf(call) /\ Target = TargetOf(call)
        /\ call.pc \in {"move", "park", "land", "back"}
    BY <1>1, CalmParts DEF Moving
  <1>4. Source \in DOMAIN dir
    BY <1>3, CallParts DEF CalmAt, SourceOf, ParkedInv
  <1>5. Target \in AllNames /\ Source # Target
    BY <1>1, CallNames
  <1>6. call.step = "probed" => ~Exists(Target)
    BY <1>3, OneSpelling DEF CalmAt
  <1>7. call.step = "linked" => Target \in DOMAIN dir /\ dir[Target] = dir[Source]
    BY <1>3 DEF CalmAt
  <1>8. /\ Spelled(Source) = {Source} /\ Exists(Source) /\ Entry(Source) = Source
        /\ Inode(Source) = dir[Source]
    BY <1>4, OneSpelling DEF Inode
  <1>9. call.step = "linked" => Spelled(Target) = {Target}
    BY <1>7, OneSpelling
  <1> QED BY <1>1, <1>2, <1>3, <1>4, <1>5, <1>6, <1>7, <1>8, <1>9

\* The directory after each of the system calls, without trouble.
LEMMA CalmDirs ==
    ASSUME VolumeTypeOK, CallInv, CalmInv, MovingStep, calm'
    PROVE  \/ /\ dir' = dir /\ Denied /\ call.step = "try" /\ Exists(Target)
           \/ /\ dir' = dir /\ call' = [call EXCEPT !.step = "probed"] /\ call.step = "try"
           \/ /\ call' = [call EXCEPT !.step = "linked"] /\ call.step = "try"
              /\ DOMAIN dir' = DOMAIN dir \cup {Target} /\ Target \notin DOMAIN dir
              /\ \A m \in DOMAIN dir : dir'[m] = dir[m]
           \/ /\ Landed /\ call.step # "linked" /\ ~Exists(Target)
              /\ DOMAIN dir' = (DOMAIN dir \ {Source}) \cup {Target} /\ Target \notin DOMAIN dir
              /\ dir'[Target] = dir[Source]
              /\ \A m \in DOMAIN dir \ {Source} : dir'[m] = dir[m]
           \/ /\ Landed /\ call.step = "linked"
              /\ DOMAIN dir' = DOMAIN dir \ {Source}
              /\ \A m \in DOMAIN dir' : dir'[m] = dir[m]
           \/ /\ Denied /\ call.step = "linked" /\ call.pc # "back"
              /\ DOMAIN dir' = DOMAIN dir \ {Target}
              /\ \A m \in DOMAIN dir' : dir'[m] = dir[m]
  <1>0. /\ Exists(Source) /\ Source \in DOMAIN dir /\ Spelled(Source) = {Source}
        /\ Entry(Source) = Source /\ Inode(Source) = dir[Source] /\ Target \in AllNames
        /\ Source # Target
        /\ call.step = "probed" => ~Exists(Target)
        /\ call.step = "linked" => Spelled(Target) = {Target}
        /\ call.step \in {"try", "probed", "linked"}
    BY CalmMoving DEF VolumeTypeOK
  <1>1. ~Exists(Target) => Target \notin DOMAIN dir /\ Spelled(Target) = {}
    BY OneSpelling DEF Exists
  <1>2. ASSUME dir' = Linked(Target, Inode(Source)), ~Exists(Target)
        PROVE  /\ DOMAIN dir' = DOMAIN dir \cup {Target}
               /\ \A m \in DOMAIN dir : dir'[m] = dir[m]
    BY <1>1, <1>2 DEF Linked
  <1>3. ASSUME dir' = Moved(Source, Target), ~Exists(Target)
        PROVE  /\ DOMAIN dir' = (DOMAIN dir \ {Source}) \cup {Target}
               /\ dir'[Target] = dir[Source]
               /\ \A m \in DOMAIN dir \ {Source} : dir'[m] = dir[m]
    BY <1>0, <1>1, <1>3 DEF Moved
  <1>4. ASSUME NEW n, dir' = Unlinked(n), Spelled(n) = {n}
        PROVE  DOMAIN dir' = DOMAIN dir \ {n} /\ \A m \in DOMAIN dir' : dir'[m] = dir[m]
    BY <1>4 DEF Unlinked
  <1>5. \/ dir' = dir /\ Denied /\ call.step = "try" /\ Exists(Target)
        \/ dir' = dir /\ call' = [call EXCEPT !.step = "probed"] /\ call.step = "try"
        \/ /\ dir' = Linked(Target, Inode(Source)) /\ call' = [call EXCEPT !.step = "linked"]
           /\ call.step = "try" /\ ~Exists(Target)
        \/ dir' = Moved(Source, Target) /\ Landed /\ call.step # "linked" /\ ~Exists(Target)
        \/ dir' = Unlinked(Source) /\ call.step = "linked" /\ Landed
        \/ dir' = Unlinked(Target) /\ call.step = "linked" /\ Denied /\ call.pc # "back"
    BY <1>0, MovingFacts, CallParts DEF MovingStep
  <1> QED BY <1>0, <1>1, <1>2, <1>3, <1>4, <1>5

\* What the next state's call is, for one that is under way.
LEMMA NextCalls ==
    ASSUME VolumeTypeOK, Moving
    PROVE  /\ Landed /\ call.pc = "park" =>
                 call'.pc = "land" /\ call'.step = "try" /\ call'.from = call.from /\ call'.n = call.n
           /\ Landed /\ call.pc # "park" => call'.pc = "idle" /\ call'.step = "try"
           /\ Denied /\ call.pc \in {"move", "park", "back"} =>
                 call'.pc \in {"idle", "park"} /\ call'.step = "try"
           /\ Denied /\ call.pc = "land" =>
                 call'.pc = "back" /\ call'.step = "try" /\ call'.from = call.from /\ call'.n = call.n
           /\ \A step : call' = [call EXCEPT !.step = step] =>
                 /\ call'.pc = call.pc /\ call'.step = step /\ call'.from = call.from
                 /\ call'.to = call.to /\ call'.n = call.n
  <1>1. AtRest.pc = "idle" /\ AtRest.step = "try"
    BY RestFacts
  <1> QED BY <1>1 DEF Landed, Denied, Return, VolumeTypeOK

\* A file on its way to its name, or to a parked one.
LEMMA ShelfOut ==
    ASSUME VolumeTypeOK, CallInv, CalmInv, MovingStep, calm', volume' = volume,
           call.pc \in {"move", "park"}
    PROVE  Promise!ShelfNext \/ shelf' = shelf
  <1>1. /\ data' = data /\ calm' = calm /\ Moving /\ call.from \in Spellings /\ call.to \in Spellings
        /\ call.from # call.to /\ Park(call.n) \notin Spellings
        /\ Source \in DOMAIN dir /\ Source # Target
        /\ call.step = "linked" => Target \in DOMAIN dir /\ dir[Target] = dir[Source]
    BY CalmMoving
  <1>2. /\ Source = call.from
        /\ call.pc = "move" => Target = call.to
        /\ call.pc = "park" => Target = Park(call.n)
        /\ Target = TargetOf(call)
    BY <1>1, CallNames, CalmParts
  <1>3. /\ NamesSeen(dir, call) = ShownOf(dir, call)
        /\ \A n \in ShownOf(dir, call) : SeenAs(dir, data, call, n) = Seen(dir[n], data)
        /\ call.step # "linked" => ShownOf(dir, call) = DOMAIN dir \cap Spellings
        /\ call.step = "linked" => ShownOf(dir, call) = (DOMAIN dir \cap Spellings) \ {Target}
    BY <1>2, PlainSeen DEF ShownOf
  <1>4. ASSUME call'.pc \notin {"land", "back"}, call'.step # "linked"
        PROVE  /\ NamesSeen(dir', call') = DOMAIN dir' \cap Spellings
               /\ \A n \in DOMAIN dir' \cap Spellings : SeenAs(dir', data', call', n) = Seen(dir'[n], data)
  <2>1. /\ NamesSeen(dir', call') = DOMAIN dir' \cap Spellings
        /\ \A n \in NamesSeen(dir', call') : SeenAs(dir', data', call', n) = Seen(dir'[n], data')
    BY <1>4, PlainSeen
  <2> QED BY <1>1, <2>1
  <1>5. ASSUME call'.pc = "land", call'.step = "try", call'.from = call.from, call'.n = call.n
        PROVE  /\ NamesSeen(dir', call') = (DOMAIN dir' \cap Spellings) \cup {call.from}
               /\ call.from \notin DOMAIN dir'
               /\ SeenAs(dir', data', call', call.from) = Seen(dir'[Park(call.n)], data)
               /\ \A n \in DOMAIN dir' \cap Spellings : SeenAs(dir', data', call', n) = Seen(dir'[n], data)
  <2>1. CalmAt(dir', data', call')
    BY CalmRename DEF MovingStep, RenameStep
  <2>2. \A m \in ShownOf(dir', call') : ~Same(m, call'.from)
    BY <1>5, <2>1 DEF CalmAt
  <2>3. Park(call'.n) = Park(call.n)
    BY <1>5
  <2> QED BY <1>1, <1>5, <2>2, <2>3, ParkedSeen
  <1>6. CASE dir' = dir /\ Denied /\ call.step = "try"
  <2>1. call'.pc \in {"idle", "park"} /\ call'.step = "try"
    BY <1>1, <1>6, NextCalls
  <2> QED BY <1>3, <1>4, <1>6, <2>1, ShelfStays
  <1>7. CASE dir' = dir /\ call' = [call EXCEPT !.step = "probed"] /\ call.step = "try"
  <2>1. call'.pc = call.pc /\ call'.step = "probed"
    BY <1>1, <1>7, NextCalls
  <2> QED BY <1>3, <1>4, <1>7, <2>1, ShelfStays
  <1>8. CASE /\ call' = [call EXCEPT !.step = "linked"] /\ call.step = "try"
             /\ DOMAIN dir' = DOMAIN dir \cup {Target} /\ Target \notin DOMAIN dir
             /\ \A m \in DOMAIN dir : dir'[m] = dir[m]
  <2>1. /\ call'.pc = call.pc /\ call'.step = "linked" /\ call'.from = call.from
        /\ call'.to = call.to /\ call'.n = call.n
    BY <1>1, <1>8, NextCalls
  <2>2. TargetOf(call') = Target
    BY <1>2, <2>1 DEF TargetOf, Park
  <2>3. ShownOf(dir', call') = DOMAIN dir \cap Spellings
    BY <1>8, <2>1, <2>2 DEF ShownOf
  <2>4. /\ NamesSeen(dir', call') = ShownOf(dir', call')
        /\ \A n \in ShownOf(dir', call') : SeenAs(dir', data', call', n) = Seen(dir'[n], data)
    BY <1>1, <2>1, PlainSeen
  <2> QED BY <1>3, <1>8, <2>3, <2>4, ShelfStays
  <1>9. CASE /\ Landed /\ call.step # "linked" /\ ~Exists(Target)
             /\ DOMAIN dir' = (DOMAIN dir \ {Source}) \cup {Target} /\ Target \notin DOMAIN dir
             /\ dir'[Target] = dir[Source]
             /\ \A m \in DOMAIN dir \ {Source} : dir'[m] = dir[m]
  <2>1. CASE call.pc = "move"
      <3>1. call'.pc = "idle" /\ call'.step = "try"
        BY <1>1, <1>9, <2>1, NextCalls
      <3>2. /\ NamesSeen(dir', call') = (NamesSeen(dir, call) \ {call.from}) \cup {call.to}
            /\ SeenAs(dir', data', call', call.to) = SeenAs(dir, data, call, call.from)
            /\ \A k \in NamesSeen(dir, call) \ {call.from} :
                  SeenAs(dir', data', call', k) = SeenAs(dir, data, call, k)
        BY <1>1, <1>2, <1>3, <1>4, <1>9, <2>1, <3>1
      <3>3. \A k \in NamesSeen(dir, call) \ {call.from} : ~Same(k, call.to)
        BY <1>2, <1>3, <1>9, <2>1, OneSpelling
      <3>4. call.from \in NamesSeen(dir, call)
        BY <1>1, <1>2, <1>3, <1>9
      <3> QED BY <1>1, <3>2, <3>3, <3>4, ShelfMoves
  <2>2. CASE call.pc = "park"
      <3>1. call'.pc = "land" /\ call'.step = "try" /\ call'.from = call.from /\ call'.n = call.n
        BY <1>1, <1>9, <2>2, NextCalls
      <3> QED BY <1>1, <1>2, <1>3, <1>5, <1>9, <2>2, <3>1, ShelfStays
  <2> QED BY <2>1, <2>2
  <1>10. CASE /\ Landed /\ call.step = "linked"
              /\ DOMAIN dir' = DOMAIN dir \ {Source}
              /\ \A m \in DOMAIN dir' : dir'[m] = dir[m]
  <2>1. CASE call.pc = "move"
      <3>1. call'.pc = "idle" /\ call'.step = "try"
        BY <1>1, <1>10, <2>1, NextCalls
      <3>2. /\ NamesSeen(dir', call') = (NamesSeen(dir, call) \ {call.from}) \cup {call.to}
            /\ SeenAs(dir', data', call', call.to) = SeenAs(dir, data, call, call.from)
            /\ \A k \in NamesSeen(dir, call) \ {call.from} :
                  SeenAs(dir', data', call', k) = SeenAs(dir, data, call, k)
        BY <1>1, <1>2, <1>3, <1>4, <1>10, <2>1, <3>1
      <3>3. \A k \in NamesSeen(dir, call) \ {call.from} : ~Same(k, call.to)
        BY <1>1, <1>2, <1>3, <1>10, <2>1, OneSpelling
      <3>4. call.from \in NamesSeen(dir, call)
        BY <1>1, <1>2, <1>3, <1>10
      <3> QED BY <1>1, <3>2, <3>3, <3>4, ShelfMoves
  <2>2. CASE call.pc = "park"
      <3>1. call'.pc = "land" /\ call'.step = "try" /\ call'.from = call.from /\ call'.n = call.n
        BY <1>1, <1>10, <2>2, NextCalls
      <3> QED BY <1>1, <1>2, <1>3, <1>5, <1>10, <2>2, <3>1, ShelfStays
  <2> QED BY <2>1, <2>2
  <1>11. CASE /\ Denied /\ call.step = "linked"
              /\ DOMAIN dir' = DOMAIN dir \ {Target}
              /\ \A m \in DOMAIN dir' : dir'[m] = dir[m]
  <2>1. call'.pc \in {"idle", "park"} /\ call'.step = "try"
    BY <1>1, <1>11, NextCalls
  <2> QED BY <1>3, <1>4, <1>11, <2>1, ShelfStays
  <1> QED BY <1>6, <1>7, <1>8, <1>9, <1>10, <1>11, CalmDirs

\* A parked file on its way to its name, or back.
LEMMA ShelfBack ==
    ASSUME VolumeTypeOK, CallInv, CalmInv, MovingStep, calm', volume' = volume,
           call.pc \in {"land", "back"}
    PROVE  Promise!ShelfNext \/ shelf' = shelf
  <1>1. /\ data' = data /\ calm' = calm /\ Moving /\ call.from \in Spellings /\ call.to \in Spellings
        /\ call.from # call.to /\ Park(call.n) \notin Spellings
        /\ Source \in DOMAIN dir /\ Source # Target /\ CalmAt(dir, data, call)
        /\ call.step = "linked" => Target \in DOMAIN dir /\ dir[Target] = dir[Source]
    BY CalmMoving
  <1>2. /\ Source = Park(call.n)
        /\ call.pc = "land" => Target = call.to
        /\ call.pc = "back" => Target = call.from
        /\ Target = TargetOf(call) /\ Target \in Spellings
    BY <1>1, CallNames, CalmParts
  <1>3. /\ NamesSeen(dir, call) = ShownOf(dir, call) \cup {call.from}
        /\ call.from \notin ShownOf(dir, call)
        /\ SeenAs(dir, data, call, call.from) = Seen(dir[Source], data)
        /\ \A n \in ShownOf(dir, call) : SeenAs(dir, data, call, n) = Seen(dir[n], data)
        /\ call.step # "linked" => ShownOf(dir, call) = DOMAIN dir \cap Spellings
        /\ call.step = "linked" => ShownOf(dir, call) = (DOMAIN dir \cap Spellings) \ {Target}
        /\ \A m \in ShownOf(dir, call) : ~Same(m, call.from)
  <2>1. \A m \in ShownOf(dir, call) : ~Same(m, call.from)
    BY <1>1 DEF CalmAt
  <2>2. call.step = "linked" => ShownOf(dir, call) = (DOMAIN dir \cap Spellings) \ {Target}
    BY <1>2 DEF ShownOf
  <2> QED BY <1>2, <2>1, <2>2, ParkedSeen
  <1>4. ASSUME call'.pc \notin {"land", "back"}, call'.step # "linked"
        PROVE  /\ NamesSeen(dir', call') = DOMAIN dir' \cap Spellings
               /\ \A n \in DOMAIN dir' \cap Spellings : SeenAs(dir', data', call', n) = Seen(dir'[n], data)
    BY <1>1, <1>4, PlainSeen
  <1>5. ASSUME call'.pc \in {"land", "back"}, call'.from = call.from, call'.n = call.n
        PROVE  /\ NamesSeen(dir', call') = ShownOf(dir', call') \cup {call.from}
               /\ call.from \notin ShownOf(dir', call')
               /\ call'.step # "linked" => ShownOf(dir', call') = DOMAIN dir' \cap Spellings
               /\ SeenAs(dir', data', call', call.from) = Seen(dir'[Source], data)
               /\ \A n \in ShownOf(dir', call') : SeenAs(dir', data', call', n) = Seen(dir'[n], data)
  <2>1. CalmAt(dir', data', call')
    BY CalmRename DEF MovingStep, RenameStep
  <2>2. \A m \in ShownOf(dir', call') : ~Same(m, call'.from)
    BY <1>5, <2>1 DEF CalmAt
  <2>3. Park(call'.n) = Source
    BY <1>2, <1>5
  <2> QED BY <1>1, <1>5, <2>2, <2>3, ParkedSeen
\* Nothing has the name the file goes back to.
  <1>6. call.pc = "back" /\ call.step # "linked" => ~Exists(Target)
    BY <1>2, <1>3, OneSpelling, EntryFacts DEF Spelled
  <1>7. CASE dir' = dir /\ Denied /\ call.step = "try" /\ Exists(Target)
  <2>1. call.pc = "land"
    BY <1>6, <1>7
  <2>2. call'.pc = "back" /\ call'.step = "try" /\ call'.from = call.from /\ call'.n = call.n
    BY <1>1, <1>7, <2>1, NextCalls
  <2> QED BY <1>3, <1>5, <1>7, <2>2, ShelfStays
  <1>8. CASE dir' = dir /\ call' = [call EXCEPT !.step = "probed"] /\ call.step = "try"
  <2>1. call'.pc = call.pc /\ call'.step = "probed" /\ call'.from = call.from /\ call'.n = call.n
    BY <1>1, <1>8, NextCalls
  <2> QED BY <1>3, <1>5, <1>8, <2>1, ShelfStays
  <1>9. CASE /\ call' = [call EXCEPT !.step = "linked"] /\ call.step = "try"
             /\ DOMAIN dir' = DOMAIN dir \cup {Target} /\ Target \notin DOMAIN dir
             /\ \A m \in DOMAIN dir : dir'[m] = dir[m]
  <2>1. /\ call'.pc = call.pc /\ call'.step = "linked" /\ call'.from = call.from
        /\ call'.to = call.to /\ call'.n = call.n
    BY <1>1, <1>9, NextCalls
  <2>2. TargetOf(call') = Target
    BY <1>2, <2>1 DEF TargetOf, Park
  <2>3. ShownOf(dir', call') = DOMAIN dir \cap Spellings
    BY <1>9, <2>1, <2>2 DEF ShownOf
  <2> QED BY <1>1, <1>3, <1>5, <1>9, <2>1, <2>3, ShelfStays
  <1>10. CASE /\ Landed /\ call.step # "linked" /\ ~Exists(Target)
              /\ DOMAIN dir' = (DOMAIN dir \ {Source}) \cup {Target} /\ Target \notin DOMAIN dir
              /\ dir'[Target] = dir[Source]
              /\ \A m \in DOMAIN dir \ {Source} : dir'[m] = dir[m]
  <2>1. call'.pc = "idle" /\ call'.step = "try"
    BY <1>1, <1>10, NextCalls
  <2>2. /\ DOMAIN dir' \cap Spellings = (DOMAIN dir \cap Spellings) \cup {Target}
        /\ \A k \in DOMAIN dir \cap Spellings : dir'[k] = dir[k]
    BY <1>1, <1>2, <1>10
  <2>3. CASE call.pc = "land"
      <3>1. /\ NamesSeen(dir', call') = (NamesSeen(dir, call) \ {call.from}) \cup {call.to}
            /\ SeenAs(dir', data', call', call.to) = SeenAs(dir, data, call, call.from)
            /\ \A k \in NamesSeen(dir, call) \ {call.from} :
                  SeenAs(dir', data', call', k) = SeenAs(dir, data, call, k)
        BY <1>2, <1>3, <1>4, <1>10, <2>1, <2>2, <2>3
      <3>2. \A k \in NamesSeen(dir, call) \ {call.from} : ~Same(k, call.to)
        BY <1>2, <1>3, <1>10, <2>3, OneSpelling
      <3> QED BY <1>1, <1>3, <3>1, <3>2, ShelfMoves
  <2>4. CASE call.pc = "back"
    BY <1>2, <1>3, <1>4, <1>10, <2>1, <2>2, <2>4, ShelfStays
  <2> QED BY <2>3, <2>4
  <1>11. CASE /\ Landed /\ call.step = "linked"
              /\ DOMAIN dir' = DOMAIN dir \ {Source}
              /\ \A m \in DOMAIN dir' : dir'[m] = dir[m]
  <2>1. call'.pc = "idle" /\ call'.step = "try"
    BY <1>1, <1>2, <1>11, NextCalls
  <2>2. /\ DOMAIN dir' \cap Spellings = DOMAIN dir \cap Spellings
        /\ \A k \in DOMAIN dir \cap Spellings : dir'[k] = dir[k]
    BY <1>1, <1>2, <1>11
  <2>3. CASE call.pc = "land"
      <3>1. /\ NamesSeen(dir', call') = (NamesSeen(dir, call) \ {call.from}) \cup {call.to}
            /\ SeenAs(dir', data', call', call.to) = SeenAs(dir, data, call, call.from)
            /\ \A k \in NamesSeen(dir, call) \ {call.from} :
                  SeenAs(dir', data', call', k) = SeenAs(dir, data, call, k)
        BY <1>1, <1>2, <1>3, <1>4, <1>11, <2>1, <2>2, <2>3
      <3>2. \A k \in NamesSeen(dir, call) \ {call.from} : ~Same(k, call.to)
        BY <1>1, <1>2, <1>3, <1>11, <2>3, OneSpelling
      <3> QED BY <1>1, <1>3, <3>1, <3>2, ShelfMoves
  <2>4. CASE call.pc = "back"
    BY <1>1, <1>2, <1>3, <1>4, <1>11, <2>1, <2>2, <2>4, ShelfStays
  <2> QED BY <2>3, <2>4
  <1>12. CASE /\ Denied /\ call.step = "linked" /\ call.pc # "back"
              /\ DOMAIN dir' = DOMAIN dir \ {Target}
              /\ \A m \in DOMAIN dir' : dir'[m] = dir[m]
  <2>1. call'.pc = "back" /\ call'.step = "try" /\ call'.from = call.from /\ call'.n = call.n
    BY <1>1, <1>12, NextCalls
  <2>2. dir'[Source] = dir[Source]
    BY <1>1, <1>12
  <2> QED BY <1>3, <1>5, <1>12, <2>1, <2>2, ShelfStays
  <1> QED BY <1>7, <1>8, <1>9, <1>10, <1>11, <1>12, CalmDirs

\* The rename, at whichever system call it shows.
LEMMA ShelfRename ==
    ASSUME VolumeTypeOK, CallInv, CalmInv, RenameStep, calm', volume' = volume
    PROVE  Promise!ShelfNext \/ shelf' = shelf
  <1>0. CalmAt(dir', data', call') /\ AtRest.pc = "idle" /\ AtRest.step = "try"
    BY CalmRename, RestFacts
  <1>1. ASSUME NEW f \in Spellings, NEW t \in Spellings, CallRename(f, t)
        PROVE  Promise!ShelfNext \/ shelf' = shelf
  <2>1. /\ f \in DOMAIN dir /\ f # t /\ call = AtRest /\ data' = data /\ calm' = calm
        /\ \/ call' = call /\ dir' = dir
           \/ call' = call /\ dir' = Moved(f, t) /\ (~Exists(t) \/ Same(f, t))
           \/ dir' = dir /\ call'.step = "try" /\ call'.pc \in {"park", "move"}
    BY <1>1, StartFacts DEF ghosts
  <2>2. /\ NamesSeen(dir, call) = DOMAIN dir \cap Spellings
        /\ \A n \in NamesSeen(dir, call) : SeenAs(dir, data, call, n) = Seen(dir[n], data)
    BY <2>1, <1>0, PlainSeen
  <2>3. /\ NamesSeen(dir', call') = DOMAIN dir' \cap Spellings
        /\ \A n \in NamesSeen(dir', call') : SeenAs(dir', data', call', n) = Seen(dir'[n], data)
    BY <2>1, <1>0, PlainSeen
  <2>4. CASE dir' = dir
    BY <2>2, <2>3, <2>4, ShelfStays
  <2>5. CASE dir' = Moved(f, t) /\ (~Exists(t) \/ Same(f, t))
      <3>1. Exists(f) /\ Entry(f) = f /\ t \in AllNames
        BY <2>1, OneSpelling DEF AllNames
      <3>2. Spelled(t) \subseteq {f}
        BY <2>1, <2>5, OneSpelling DEF Exists, Spelled, Same
      <3>3. DOMAIN dir' = (DOMAIN dir \ {f}) \cup {t}
        BY <2>5, <3>1, <3>2, MovedFacts
      <3>4. \A m \in DOMAIN dir' : \/ m = t /\ dir'[m] = dir[f]
                                   \/ m # t /\ m \in DOMAIN dir /\ dir'[m] = dir[m]
        BY <2>5, <3>1, MovedInodes
      <3>5. \A k \in NamesSeen(dir, call) \ {f} : ~Same(k, t)
        BY <2>2, <3>2 DEF Spelled
      <3>6. t \notin NamesSeen(dir, call) \ {f}
        BY <3>5 DEF Same
      <3>7. NamesSeen(dir', call') = (NamesSeen(dir, call) \ {f}) \cup {t}
        BY <2>2, <2>3, <3>3
      <3>8. /\ SeenAs(dir', data', call', t) = SeenAs(dir, data, call, f)
            /\ \A k \in NamesSeen(dir, call) \ {f} :
                  SeenAs(dir', data', call', k) = SeenAs(dir, data, call, k)
        BY <2>1, <2>2, <2>3, <3>3, <3>4, <3>6, <3>7
      <3> QED BY <2>1, <2>2, <3>5, <3>7, <3>8, ShelfMoves
  <2> QED BY <2>1, <2>4, <2>5
  <1>2. CASE MovingStep
    BY <1>2, CalmMoving, ShelfOut, ShelfBack
  <1> QED BY <1>1, <1>2 DEF RenameStep, MovingStep

\* Nothing done to a copy shows.
LEMMA ShelfCopy ==
    ASSUME VolumeTypeOK, CallInv, CalmInv, CopyStep, calm', volume' = volume
    PROVE  shelf' = shelf
  <1>0. AtRest.pc = "idle" /\ AtRest.step = "try"
    BY RestFacts
  <1>1. /\ \A n \in DOMAIN dir \cap Spellings : n \in DOMAIN dir' /\ dir'[n] = dir[n]
                                                /\ data'[dir[n]] = data[dir[n]]
        /\ DOMAIN dir' \cap Spellings \subseteq DOMAIN dir
  <2>1. /\ data \in [Inodes -> Held] /\ \A n \in DOMAIN dir : dir[n] \in Inodes
        /\ Copied \in AllNames /\ Copied \notin Spellings
    BY TypeParts, CallNames, NameFacts DEF IsDir, Copied
  <2>2. CASE dir' = dir /\ data' = data
    BY <2>2
  <2>3. CASE Claim
      <3>1. \/ data' = data /\ dir' = dir
            \/ /\ ~Exists(Copied) /\ FreeInodes # {} /\ dir' = Linked(Copied, NewInode)
               /\ data' = [data EXCEPT ![NewInode] = Blank]
        BY <2>3 DEF Claim, fs
      <3>2. CASE /\ ~Exists(Copied) /\ FreeInodes # {} /\ dir' = Linked(Copied, NewInode)
                 /\ data' = [data EXCEPT ![NewInode] = Blank]
        <4>1. NewInode \in Inodes /\ \A n \in DOMAIN dir : dir[n] # NewInode
          BY <3>2, NewFacts
        <4>2. /\ DOMAIN dir' = DOMAIN dir \cup {Copied}
              /\ \A m \in DOMAIN dir : dir'[m] = dir[m]
          BY <2>1, <3>2, <4>1, LinkedFacts
        <4>3. \A m \in DOMAIN dir : data'[dir[m]] = data[dir[m]]
          BY <2>1, <3>2, <4>1
        <4> QED BY <2>1, <4>2, <4>3
      <3> QED BY <3>1, <3>2, <2>2
  <2>4. CASE Copy \/ Edit \/ Sync
      <3>1. /\ dir' = dir /\ call.pc \in WithCopy
            /\ data' = data \/ \E r : data' = [data EXCEPT ![Inode(Copied)] = r]
        BY <2>4 DEF Copy, Edit, Sync, OnCopy, WithCopy
      <3>2. /\ Copied \in DOMAIN dir /\ Inode(Copied) = dir[Copied]
            /\ \A n \in DOMAIN dir : dir[n] = dir[Copied] => n = Copied
        BY <3>1, CallParts, OneSpelling DEF CopyInv, Inode
      <3>3. \A m \in DOMAIN dir : m # Copied => data'[dir[m]] = data[dir[m]]
        BY <2>1, <3>1, <3>2
      <3> QED BY <2>1, <3>1, <3>3
  <2>5. CASE Drop
      <3>1. dir' = Unlinked(Copied) /\ data' = data /\ Spelled(Copied) \subseteq {Copied}
        BY <2>1, <2>5, EntryFacts DEF Drop
      <3>2. /\ DOMAIN dir \ {Copied} \subseteq DOMAIN dir' /\ DOMAIN dir' \subseteq DOMAIN dir
            /\ \A m \in DOMAIN dir' : dir'[m] = dir[m]
        BY <3>1 DEF Unlinked
      <3> QED BY <2>1, <3>1, <3>2
  <2>6. CASE \/ (\E f \in Spellings : CallRetag(f)) \/ CopyNothing \/ ForgetWhatWasRead
             \/ (\E n \in Spellings : ReadTags(n)) \/ Remember
      <3>1. data' = data /\ dir' = dir
        BY <2>6 DEF CallRetag, CopyNothing, ForgetWhatWasRead, ReadTags, Remember, fs
      <3> QED BY <3>1, <2>2
  <2> QED BY <2>3, <2>4, <2>5, <2>6 DEF CopyStep
  <1>2. CASE call' = call /\ dir' = dir /\ data' = data
    BY <1>2, ShelfStays
  <1>3. CASE call.pc \notin MovingPcs /\ call'.pc \notin MovingPcs
  <2>1. call.step = "try" /\ call'.step = "try"
      <3>1. VolumeTypeOK'
        BY TypeStep, StepKinds
      <3> QED BY <1>3, <3>1 DEF VolumeTypeOK, Moving, MovingPcs
  <2>2. /\ NamesSeen(dir, call) = DOMAIN dir \cap Spellings
        /\ \A n \in DOMAIN dir \cap Spellings : SeenAs(dir, data, call, n) = Seen(dir[n], data)
    BY <1>3, <2>1, PlainSeen DEF MovingPcs
  <2>3. /\ NamesSeen(dir', call') = DOMAIN dir' \cap Spellings
        /\ \A n \in DOMAIN dir' \cap Spellings : SeenAs(dir', data', call', n) = Seen(dir'[n], data')
    BY <1>3, <2>1, PlainSeen DEF MovingPcs
  <2>4. \A n \in DOMAIN dir \cap Spellings : Seen(dir'[n], data') = Seen(dir[n], data)
    BY <1>1 DEF Seen
  <2> QED BY <1>1, <2>2, <2>3, <2>4, ShelfStays
  <1>4. CASE (\E n \in Spellings : ReadTags(n)) \/ Remember
  <2>1. call' = call /\ dir' = dir /\ data' = data
    BY <1>4 DEF ReadTags, Remember, fs
  <2> QED BY <2>1, <1>2
  <1>5. CASE \/ (\E f \in Spellings : CallRetag(f)) \/ Claim \/ Copy \/ CopyNothing \/ Edit \/ Sync
             \/ Drop \/ ForgetWhatWasRead
  <2>1. call.pc \notin MovingPcs
    BY <1>0, <1>5 DEF CallRetag, Claim, Copy, CopyNothing, Edit, Sync, OnCopy, Drop,
                      ForgetWhatWasRead, MovingPcs
  <2>2. call' = call \/ call'.pc \notin MovingPcs
    BY NotMoving
  <2> QED BY <2>1, <2>2, <1>3
  <1> QED BY <1>4, <1>5 DEF CopyStep

\* The tags are there in one step, or are not.
LEMMA ShelfSwap ==
    ASSUME VolumeTypeOK, CallInv, CalmInv, SwapStep, calm', volume' = volume
    PROVE  Promise!ShelfNext \/ shelf' = shelf
  <1>1. /\ call.pc \in {"swap", "replace", "half"} /\ data' = data /\ calm
        /\ Copied \in DOMAIN dir /\ Copied \in Scratches /\ Exists(Copied)
        /\ Entry(Copied) = Copied /\ data[dir[Copied]].ver = "new"
        /\ call.from \in Spellings /\ call.from \in AllNames
        /\ \/ dir' = dir /\ calm' = calm
           \/ Swapped /\ calm' = calm
    BY SwapFacts, CalmOnce, StepKinds
  <1>2. CalmAt(dir, data, call)
    BY <1>1, CalmParts
  <1>3. call.from \in DOMAIN dir /\ data[dir[Copied]].file = data[dir[call.from]].file
    BY <1>1, <1>2 DEF CalmAt, Copied
  <1>4. call.step = "try" /\ call'.step = "try" /\ call'.pc \notin MovingPcs
  <2>1. VolumeTypeOK' /\ (call' = call \/ call'.pc \notin MovingPcs)
    BY TypeStep, StepKinds, NotMoving
  <2> QED BY <1>1, <2>1 DEF VolumeTypeOK, Moving, MovingPcs
  <1>5. /\ NamesSeen(dir, call) = DOMAIN dir \cap Spellings
        /\ \A n \in DOMAIN dir \cap Spellings : SeenAs(dir, data, call, n) = Seen(dir[n], data)
    BY <1>1, <1>4, PlainSeen
  <1>6. /\ NamesSeen(dir', call') = DOMAIN dir' \cap Spellings
        /\ \A n \in DOMAIN dir' \cap Spellings : SeenAs(dir', data', call', n) = Seen(dir'[n], data')
    BY <1>4, PlainSeen DEF MovingPcs
  <1>7. CASE dir' = dir
    BY <1>1, <1>5, <1>6, <1>7, ShelfStays
  <1>8. CASE Swapped
  <2>1. dir' = Moved(Copied, call.from) /\ Spelled(call.from) = {call.from} /\ calm' = calm
    BY <1>1, <1>3, <1>8, OneSpelling DEF Swapped
  <2>2. DOMAIN dir' = (DOMAIN dir \ {Copied, call.from}) \cup {call.from}
      <3>1. Spelled(Copied) = {Copied}
        BY <1>1, OneSpelling
      <3>2. DOMAIN dir' = (DOMAIN dir \ (Spelled(Copied) \cup Spelled(call.from))) \cup {call.from}
        BY <2>1 DEF Moved
      <3> QED BY <2>1, <3>1, <3>2
  <2>3. \A m \in DOMAIN dir' : \/ m = call.from /\ dir'[m] = dir[Copied]
                               \/ m # call.from /\ m \in DOMAIN dir /\ dir'[m] = dir[m]
    BY <1>1, <2>1, MovedInodes
  <2>4. DOMAIN dir' \cap Spellings = DOMAIN dir \cap Spellings
    BY <1>1, <1>3, <2>2, StartsAssumption
  <2>5. /\ SeenAs(dir', data', call', call.from) =
              [file |-> SeenAs(dir, data, call, call.from).file, ver |-> "new"]
        /\ \A k \in (DOMAIN dir \cap Spellings) \ {call.from} :
              SeenAs(dir', data', call', k) = SeenAs(dir, data, call, k)
      <3>1. Seen(dir'[call.from], data') = [file |-> Seen(dir[call.from], data).file, ver |-> "new"]
        BY <1>1, <1>3, <2>2, <2>3 DEF Seen
      <3>2. \A k \in (DOMAIN dir \cap Spellings) \ {call.from} :
               Seen(dir'[k], data') = Seen(dir[k], data)
        BY <1>1, <2>3, <2>4
      <3> QED BY <1>1, <1>3, <1>5, <1>6, <2>4, <3>1, <3>2
  <2> QED BY <1>1, <1>3, <1>5, <1>6, <2>1, <2>4, <2>5, ShelfRetags
  <1> QED BY <1>1, <1>7, <1>8

LEMMA ShelfStarts == ASSUME VolumeInit PROVE Promise!ShelfInit
  <1>1. VolumeInv
    BY VolumeStart
  <1>2. call = AtRest /\ calm = TRUE /\ volume \in Volumes
    BY DEF VolumeInit
  <1>3. AtRest.pc = "idle" /\ AtRest.step = "try"
    BY RestFacts
  <1>4. shelf = ShelfOf(dir, data, call)
  <2>1. Shown = ShownOf(dir, call) /\ Underway = {} /\ UnderOf(dir, call) = {}
    BY <1>2, <1>3 DEF Shown, ShownOf, Underway, UnderOf
  <2> QED BY <2>1 DEF shelf, ShelfOf, Seen
  <1>5. shelf \in Promise!Shelves
    BY <1>1, <1>4, ShelfTyped DEF VolumeInv
  <1>6. ASSUME NEW n \in DOMAIN shelf PROVE shelf[n].ver = "old"
  <2>1. n \in DOMAIN dir /\ shelf[n] = Seen(dir[n], data)
    BY <1>2, <1>3, <1>4, <1>6, PlainSeen, SeenFacts DEF ShownOf
  <2>2. data[dir[n]].ver = "old"
      <3>1. PICK d \in Starts :
               /\ dir = d
               /\ data = [i \in Inodes |->
                  IF \E m \in DOMAIN d : d[m] = i
                  THEN [file |-> First[i], ver |-> "old", whole |-> TRUE, safe |-> TRUE]
                  ELSE Blank]
        BY DEF VolumeInit
      <3>2. data[dir[n]] \in {[file |-> First[dir[n]], ver |-> "old", whole |-> TRUE, safe |-> TRUE], Blank}
        BY <2>1, <3>1, StartsAssumption
      <3> QED BY <3>2 DEF Blank
  <2> QED BY <2>1, <2>2 DEF Seen
  <1>7. volume.folds \in BOOLEAN
    BY <1>2 DEF Volumes
  <1> QED BY <1>2, <1>5, <1>6, <1>7 DEF Promise!ShelfInit

LEMMA ShelfStep ==
    ASSUME VolumeInv, [VolumeNext]_volumeVars
    PROVE  [Promise!ShelfNext]_(<<shelf, volume.folds, calm>>)
  <1>1. CASE VolumeNext
  <2>1. volume' = volume /\ calm' \in BOOLEAN /\ (calm' => calm) /\ calm \in BOOLEAN
        /\ VolumeTypeOK /\ CallInv /\ CalmInv
    BY <1>1, SameVolume, CalmOnce DEF VolumeInv, VolumeTypeOK
  <2>2. CASE ~calm'
      <3>1. shelf' \in Promise!Shelves
        BY <1>1, <2>1, ShelfParts, ShelfTypedNext
      <3>2. calm' = FALSE
        BY <2>1, <2>2
      <3> QED BY <2>1, <3>1, <3>2 DEF Promise!ShelfNext, Promise!Trouble
  <2>3. CASE calm'
      <3>1. calm' = calm
        BY <2>1, <2>3
      <3>2. ~WorldStep
        BY <2>3 DEF WorldStep, Come, Go, Crash
      <3>3. Promise!ShelfNext \/ shelf' = shelf
        BY <1>1, <2>1, <2>3, <3>2, StepKinds, ShelfRename, ShelfCopy, ShelfSwap
      <3> QED BY <2>1, <3>1, <3>3
  <2> QED BY <2>2, <2>3
  <1>2. CASE UNCHANGED volumeVars
  <2>1. volume' = volume /\ dir' = dir /\ data' = data /\ call' = call /\ calm' = calm
    BY <1>2 DEF volumeVars, fs, ghosts
  <2>2. shelf' = shelf
    BY <2>1, ShelfParts
  <2> QED BY <2>1, <2>2
  <1> QED BY <1>1, <1>2

\* As long as nothing but the program touches the folder, and it is not
\* killed, a file is renamed in one step onto a name nothing has, or stays,
\* and its tags are written in one step, or are not.
THEOREM ShelfIsImplemented == VolumeSpec => IsShelf
  BY ShelfStarts, ShelfStep, VolumeInductive, PTL DEF VolumeSpec, IsShelf, Promise!ShelfSpec

-----------------------------------------------------------------------------
(* A file's attributes and dates: numbers and times.                       *)

\* Division, for a number the provers do not know.
LEMMA DividedBy ==
    ASSUME NEW n \in Nat, NEW k \in Nat \ {0}
    PROVE  n \div k \in Nat /\ n % k \in Nat /\ n % k < k /\ n = (n \div k) * k + (n % k)
<1>1. n \div k \in Int /\ n \div k >= 0
    OBVIOUS
<1>2. n % k \in 0..(k - 1)
    OBVIOUS
<1>3. n = (n \div k) * k + (n % k)
    OBVIOUS
<1> QED BY <1>1, <1>2, <1>3

LEMMA Whole ==
    ASSUME NEW q \in Nat, NEW k \in Nat \ {0}
    PROVE  ((q * k) \div k) * k = q * k
<1> DEFINE n == q * k
           p == n \div k
<1>1. n \in Nat
    OBVIOUS
<1>2. p \in Nat /\ n % k \in Nat /\ n % k < k /\ n = p * k + (n % k)
    BY <1>1, DividedBy
<1>3. (q - p) * k = n % k
    BY <1>2
<1>4. q - p >= 1 => (q - p) * k >= k
    BY <1>2
<1>5. q - p <= -1 => (q - p) * k <= -k
    BY <1>2
<1>6. q - p = 0
    BY <1>2, <1>3, <1>4, <1>5
<1> QED BY <1>2, <1>6

LEMMA SystemTime ==
    ASSUME StampsAssumption, NEW t \in Int
    PROVE  FromSystem(t) \in [secs : Int, nanos : Int] /\ ToSystem(FromSystem(t)) = t
<1>1. SECOND \in Nat \ {0}
    BY Zenon DEF StampsAssumption
<1>2. CASE t >= 0
  <2>1. t \div SECOND \in Int /\ t % SECOND \in Int /\ t = (t \div SECOND) * SECOND + (t % SECOND)
      BY <1>1, <1>2, DividedBy
  <2> QED BY <1>2, <2>1 DEF FromSystem, ToSystem
<1>3. CASE t < 0
  <2> DEFINE d == -t
  <2>1. d \in Nat
      BY <1>3
  <2>2. d \div SECOND \in Int /\ d % SECOND \in Int /\ d = (d \div SECOND) * SECOND + (d % SECOND)
      BY <1>1, <2>1, DividedBy
  <2>3. (-(d \div SECOND) - 1) * SECOND = -((d \div SECOND) * SECOND) - SECOND
        /\ (-(d \div SECOND)) * SECOND = -((d \div SECOND) * SECOND)
      BY <1>1, <2>2
  <2> QED BY <1>1, <1>3, <2>2, <2>3 DEF FromSystem, ToSystem
<1> QED BY <1>2, <1>3

LEMMA FiletimeIs ==
    ASSUME StampsAssumption, NEW t \in Int
    PROVE  /\ ToFiletime(t) \in Int /\ ToFiletime(ToFiletime(t)) = ToFiletime(t)
           /\ t >= FIRST => Agree(t, ToFiletime(t))
<1>1. /\ TICK \in Nat \ {0} /\ TOLERANCE \in Nat /\ TICK <= TOLERANCE + 1
      /\ FIRST \in Int /\ FIRST <= 0 /\ (-FIRST) % TICK = 0
    BY Zenon DEF StampsAssumption
<1> DEFINE W(n) == (n \div TICK) * TICK
<1>2. \A n \in Nat : W(n) \in Nat /\ W(n) <= n /\ n < W(n) + TICK /\ W(W(n)) = W(n)
  <2> SUFFICES ASSUME NEW n \in Nat PROVE W(n) \in Nat /\ W(n) <= n /\ n < W(n) + TICK /\ W(W(n)) = W(n)
      OBVIOUS
  <2>1. n \div TICK \in Nat /\ n % TICK \in Nat /\ n % TICK < TICK /\ n = W(n) + (n % TICK)
      BY <1>1, DividedBy
  <2>2. W(n) \in Nat
      BY <1>1, <2>1
  <2>3. W(W(n)) = W(n)
      BY <1>1, <2>1, Whole
  <2> QED BY <1>1, <2>1, <2>2, <2>3
<1>3. W(-FIRST) = -FIRST
    BY <1>1, DividedBy
<1>4. \A u \in Int : ToFiletime(u) = LET n == IF u >= 0 THEN W(u) ELSE -W(-u) IN IF n < FIRST THEN FIRST ELSE n
    BY DEF ToFiletime
<1> HIDE DEF W
<1>5. W(0) = 0
    BY <1>1, <1>2
<1>6. CASE t >= 0
  <2>1. ToFiletime(t) = W(t) /\ W(t) \in Nat /\ W(t) <= t /\ t < W(t) + TICK /\ W(W(t)) = W(t)
      BY <1>1, <1>2, <1>4, <1>6
  <2>2. ToFiletime(W(t)) = W(t)
      BY <1>1, <1>4, <2>1
  <2> QED BY <1>1, <1>6, <2>1, <2>2 DEF Agree
<1>7. CASE t < 0 /\ -W(-t) < FIRST
  <2>1. ToFiletime(t) = FIRST
      BY <1>4, <1>7
  <2>2. W(-t) \in Nat /\ W(-t) <= -t
      BY <1>2, <1>7
  <2>3. ~(t >= FIRST)
      BY <1>1, <1>7, <2>2
  <2>4. ToFiletime(FIRST) = FIRST
      BY <1>1, <1>3, <1>4, <1>5
  <2> QED BY <1>1, <2>1, <2>3, <2>4
<1>8. CASE t < 0 /\ ~(-W(-t) < FIRST)
  <2> DEFINE w == W(-t)
  <2>1. ToFiletime(t) = -w
      BY <1>4, <1>8
  <2>2. w \in Nat /\ w <= -t /\ -t < w + TICK /\ W(w) = w
      BY <1>2, <1>8
  <2> HIDE DEF w
  <2>3. ToFiletime(-w) = -w
      BY <1>1, <1>4, <1>5, <1>8, <2>1, <2>2 DEF w
  <2> QED BY <1>1, <1>8, <2>1, <2>2, <2>3 DEF Agree
<1> QED BY <1>6, <1>7, <1>8

\* Nothing is asked of a file but bits, or but dates; and nothing gives leave to write but to
\* the owner.
HasOwner(s) == s.write = {} \/ "owner" \in s.write
StampsFit(p, s) == s \in Stat /\ CanHold(p, s) /\ HasOwner(s)

LEMMA SortsAre ==
    ASSUME StampsAssumption
    PROVE  /\ \A c \in Bits : c \notin DateParts
           /\ DateParts = {"created", "accessed", "modified"} /\ Bits = {"read_only", "hidden", "system", "archive"}
           /\ \A b \in BOOLEAN : b # Unset
           /\ \A s \in Stat : DOMAIN s = {"link", "write", "hidden", "system", "archive", "created", "accessed", "modified"}
BY DEF StampsAssumption, Bits, DateParts, Stat

\* The dates of a file, written: nothing else of it changes.
LEMMA TimesAre ==
    ASSUME StampsAssumption, NEW s \in Stat, NEW change, DOMAIN change \subseteq DateParts,
           platform \in {"Linux", "Windows"}, \A c \in DOMAIN change : change[c] \in Int, CanHold(platform, s)
    PROVE  /\ SetTimes(s, change) \in Stat /\ CanHold(platform, SetTimes(s, change))
           /\ \A c \in DOMAIN s \ DOMAIN change : SetTimes(s, change)[c] = s[c]
           /\ \A c \in DOMAIN change : SetTimes(s, change)[c] =
                  IF platform = "Windows" THEN ToFiletime(change[c]) ELSE change[c]
           /\ SetTimes(s, change).write = s.write
<1> DEFINE new == SetTimes(s, change)
<1>1. DOMAIN s = {"link", "write", "hidden", "system", "archive", "created", "accessed", "modified"}
      /\ DateParts = {"created", "accessed", "modified"}
    BY SortsAre
<1>2. DOMAIN new = DOMAIN s
      /\ \A c \in DOMAIN s : new[c] = IF c \in DOMAIN change
                                      THEN (IF platform = "Windows" THEN ToFiletime(change[c]) ELSE change[c]) ELSE s[c]
    BY DEF SetTimes
<1>3. new = [link |-> new.link, write |-> new.write, hidden |-> new.hidden, system |-> new.system,
             archive |-> new.archive, created |-> new.created, accessed |-> new.accessed, modified |-> new.modified]
    BY <1>1, <1>2 DEF SetTimes
<1> HIDE DEF new
<1>4. \A c \in DOMAIN change : new[c] \in Int /\ (platform = "Windows" => ToFiletime(new[c]) = new[c])
    BY <1>1, <1>2, FiletimeIs
<1>5. /\ new.link = s.link /\ new.write = s.write /\ new.hidden = s.hidden /\ new.system = s.system
      /\ new.archive = s.archive
    BY <1>1, <1>2
<1>6. \A c \in DateParts : new[c] \in Int \cup {Unset}
    BY <1>1, <1>2, <1>4 DEF Stat
<1>7. new \in Stat
    BY <1>1, <1>3, <1>5, <1>6 DEF Stat
<1>8. CanHold(platform, new)
    BY <1>1, <1>2, <1>4, <1>5 DEF CanHold
<1> QED BY <1>1, <1>2, <1>5, <1>7, <1>8 DEF new

\* The bits of a file, written; who may write it after its read-only bit is.
Writers(s, change) ==
    IF change["read_only"] THEN {} ELSE IF platform = "Linux" THEN s.write \cup {"owner"} ELSE {"owner"}

LEMMA BitsAre ==
    ASSUME StampsAssumption, NEW s \in Stat, NEW change, DOMAIN change \subseteq Bits,
           platform \in {"Linux", "Windows"}, \A c \in DOMAIN change : change[c] \in BOOLEAN, CanHold(platform, s)
    PROVE  /\ SetAttributes(s, change) \in Stat /\ CanHold(platform, SetAttributes(s, change))
           /\ \A c \in DateParts \cup {"link"} : SetAttributes(s, change)[c] = s[c]
           /\ \A c \in {"hidden", "system", "archive"} : SetAttributes(s, change)[c] =
                 IF platform = "Windows" /\ c \in DOMAIN change THEN change[c] ELSE s[c]
           /\ "read_only" \notin DOMAIN change => SetAttributes(s, change).write = s.write
           /\ "read_only" \in DOMAIN change => SetAttributes(s, change).write = Writers(s, change)
<1> DEFINE new == SetAttributes(s, change)
<1>1. DOMAIN s = {"link", "write", "hidden", "system", "archive", "created", "accessed", "modified"}
      /\ DateParts = {"created", "accessed", "modified"} /\ s.write \subseteq Owners
    BY SortsAre DEF Stat
<1>2. CASE platform = "Linux"
  <2> DEFINE w == IF ~IsNamed(change, "read_only") THEN s.write
                  ELSE IF change["read_only"] THEN {} ELSE s.write \cup {"owner"}
  <2>1. new = [s EXCEPT !.write = w]
      BY <1>2 DEF SetAttributes
  <2>2. w \in SUBSET Owners
      BY <1>1 DEF Owners
  <2>3. new \in Stat
      BY <2>1, <2>2 DEF Stat
  <2>4. \A c \in DOMAIN s \ {"write"} : new[c] = s[c]
      BY <1>1, <2>1
  <2>5. new.write = w
      BY <1>1, <2>1
  <2>6. platform # "Windows"
      BY <1>2
  <2> QED BY <1>1, <1>2, <2>3, <2>4, <2>5, <2>6 DEF CanHold, IsNamed, Writers
<1>3. CASE platform = "Windows"
  <2> DEFINE next == ApplyTo(change, GetAttributes(s))
  <2>1. new = [s EXCEPT !.write = IF next.read_only THEN {} ELSE {"owner"},
                        !.hidden = next.hidden, !.system = next.system, !.archive = next.archive]
      BY <1>3 DEF SetAttributes
  <2>2. next.read_only = (IF "read_only" \in DOMAIN change THEN change["read_only"] ELSE s.write = {})
      BY DEF ApplyTo, GetAttributes, IsNamed
  <2>3. /\ next.hidden = (IF "hidden" \in DOMAIN change THEN change["hidden"] ELSE s.hidden)
        /\ next.system = (IF "system" \in DOMAIN change THEN change["system"] ELSE s.system)
        /\ next.archive = (IF "archive" \in DOMAIN change THEN change["archive"] ELSE s.archive)
      BY DEF ApplyTo, GetAttributes, IsNamed
  <2> HIDE DEF next
  <2>4. next.hidden \in BOOLEAN /\ next.system \in BOOLEAN /\ next.archive \in BOOLEAN
      BY <2>3 DEF Stat
  <2> DEFINE w == IF next.read_only THEN {} ELSE {"owner"}
  <2>5. w \in SUBSET Owners /\ w \subseteq {"owner"}
      BY DEF Owners
  <2>6. new = [s EXCEPT !.write = w, !.hidden = next.hidden, !.system = next.system, !.archive = next.archive]
      BY <2>1
  <2>7. s.write \subseteq {"owner"}
      BY <1>3 DEF CanHold
  <2>8. /\ "read_only" \notin DOMAIN change => w = s.write
        /\ "read_only" \in DOMAIN change => w = IF change["read_only"] THEN {} ELSE {"owner"}
      BY <2>2, <2>7, ZenonT(30)
  <2> HIDE DEF w
  <2>9. new \in Stat /\ new.write = w /\ (\A c \in DateParts \cup {"link"} : new[c] = s[c])
        /\ new.hidden = next.hidden /\ new.system = next.system /\ new.archive = next.archive
      BY <1>1, <2>4, <2>5, <2>6 DEF Stat
  <2>10. CanHold(platform, new)
      BY <1>1, <1>3, <2>5, <2>9 DEF CanHold
  <2>11. platform # "Linux"
      BY <1>3
  <2> HIDE DEF new
  <2> QED BY <1>3, <2>3, <2>8, <2>9, <2>10, <2>11 DEF new, Writers
<1> QED BY <1>2, <1>3

\* A change is of dates or of bits.
LEMMA ChangeIs ==
    ASSUME StampsAssumption, NEW change, IsChange(change)
    PROVE  /\ IsTimes(change) => DOMAIN change \subseteq DateParts /\ \A c \in DOMAIN change : change[c] \in Int
           /\ ~IsTimes(change) => DOMAIN change \subseteq Bits /\ \A c \in DOMAIN change : change[c] \in BOOLEAN
BY SortsAre DEF IsChange, IsTimes

LEMMA WriteKeeps ==
    ASSUME StampsAssumption, platform \in {"Linux", "Windows"}, StampsFit(platform, stat), NEW change, IsChange(change)
    PROVE  StampsFit(platform, WriteEffect(change)) /\ WriteEffect(change).write \subseteq stat.write \cup {"owner"}
<1>1. stat \in Stat /\ CanHold(platform, stat) /\ HasOwner(stat)
    BY Zenon DEF StampsFit
<1>2. CASE IsTimes(change)
  <2>1. WriteEffect(change) = SetTimes(stat, change)
      BY <1>2, Zenon DEF WriteEffect
  <2>2. DOMAIN change \subseteq DateParts /\ \A c \in DOMAIN change : change[c] \in Int
      BY <1>2, ChangeIs, Zenon
  <2>3. SetTimes(stat, change) \in Stat /\ CanHold(platform, SetTimes(stat, change))
        /\ SetTimes(stat, change).write = stat.write
      BY <1>1, <2>2, TimesAre, Zenon
  <2> QED BY <1>1, <2>1, <2>3, Zenon DEF StampsFit, HasOwner
<1>3. CASE ~IsTimes(change)
  <2> DEFINE new == SetAttributes(stat, change)
  <2>1. WriteEffect(change) = new
      BY <1>3, Zenon DEF WriteEffect
  <2>2. DOMAIN change \subseteq Bits /\ \A c \in DOMAIN change : change[c] \in BOOLEAN
      BY <1>3, ChangeIs, Zenon
  <2>3. /\ new \in Stat /\ CanHold(platform, new)
        /\ "read_only" \notin DOMAIN change => new.write = stat.write
        /\ "read_only" \in DOMAIN change =>
              new.write = Writers(stat, change)
    <3>1. SetAttributes(stat, change) \in Stat
        BY <1>1, <2>2, BitsAre, Zenon
    <3>2. CanHold(platform, SetAttributes(stat, change))
        BY <1>1, <2>2, BitsAre, Zenon
    <3>3. "read_only" \notin DOMAIN change => SetAttributes(stat, change).write = stat.write
        BY <1>1, <2>2, BitsAre, Zenon
    <3>4. "read_only" \in DOMAIN change => SetAttributes(stat, change).write = Writers(stat, change)
        BY <1>1, <2>2, BitsAre, Zenon
    <3> QED BY <3>1, <3>2, <3>3, <3>4, Zenon
  <2> HIDE DEF new
  <2>4. HasOwner(new) /\ new.write \subseteq stat.write \cup {"owner"}
      BY <1>1, <2>3 DEF HasOwner, Writers
  <2> QED BY <2>1, <2>3, <2>4, Zenon DEF StampsFit
<1> QED BY <1>2, <1>3

\* What the journal tells of a file as it was.
LEMMA ReadingsAre ==
    ASSUME StampsAssumption, NEW s \in Stat, NEW change, IsChange(change)
    PROVE  /\ ReadBefore(change, s) \in Readings
           /\ IsTimes(change) => \A c \in DateParts :
                 ReadBefore(change, s)[c] = IF s[c] = Unset THEN Unset ELSE FromSystem(s[c])
           /\ ~IsTimes(change) => /\ ReadBefore(change, s) = GetAttributes(s)
                                   /\ \A c \in Bits : GetAttributes(s)[c] \in BOOLEAN
<1>1. CASE IsTimes(change)
  <2>1. ReadBefore(change, s) = [c \in DateParts |-> IF s[c] = Unset THEN Unset ELSE FromSystem(s[c])]
      BY <1>1, Zenon DEF ReadBefore
  <2>2. \A c \in DateParts : s[c] \in Int \cup {Unset}
      BY SortsAre DEF Stat
  <2>3. \A c \in DateParts : s[c] # Unset => FromSystem(s[c]) \in [secs : Int, nanos : Int]
      BY <2>2, SystemTime
  <2>4. ReadBefore(change, s) \in [DateParts -> [secs : Int, nanos : Int] \cup {Unset}]
      BY <2>1, <2>3
  <2> QED BY <1>1, <2>1, <2>4 DEF Readings
<1>2. CASE ~IsTimes(change)
  <2>1. ReadBefore(change, s) = GetAttributes(s)
      BY <1>2, Zenon DEF ReadBefore
  <2>2. DOMAIN GetAttributes(s) = Bits
      BY DEF GetAttributes, Bits
  <2>3. /\ GetAttributes(s)["read_only"] = (s.write = {}) /\ GetAttributes(s)["hidden"] = s.hidden
        /\ GetAttributes(s)["system"] = s.system /\ GetAttributes(s)["archive"] = s.archive
      BY DEF GetAttributes
  <2>4. s.hidden \in BOOLEAN /\ s.system \in BOOLEAN /\ s.archive \in BOOLEAN /\ (s.write = {}) \in BOOLEAN
      BY DEF Stat
  <2>5. \A c \in Bits : GetAttributes(s)[c] \in BOOLEAN
      BY <2>3, <2>4, Zenon DEF Bits
  <2>6. GetAttributes(s) = [c \in Bits |-> GetAttributes(s)[c]]
      BY <2>2 DEF GetAttributes
  <2>7. GetAttributes(s) \in [Bits -> BOOLEAN]
      BY <2>5, <2>6
  <2> QED BY <1>2, <2>1, <2>5, <2>7, Zenon DEF Readings
<1> QED BY <1>1, <1>2

\* What an undo writes back: of what was changed all there was to read, as it was.
LEMMA BackIs ==
    ASSUME StampsAssumption, NEW act, IsChange(act.change), act.image \in Stat,
           act.before = ReadBefore(act.change, act.image)
    PROVE  LET back == Restoring(act.before, act.change) IN
           /\ IsChange(back) /\ DOMAIN back \subseteq DOMAIN act.change
           /\ IsTimes(act.change) => /\ DOMAIN back = {c \in DOMAIN act.change : act.image[c] # Unset}
                                     /\ \A c \in DOMAIN back : back[c] = act.image[c]
           /\ ~IsTimes(act.change) => /\ DOMAIN back = DOMAIN act.change
                                      /\ \A c \in DOMAIN back : back[c] = GetAttributes(act.image)[c]
<1> DEFINE back == Restoring(act.before, act.change)
           change == act.change
           image == act.image
           before == act.before
<1>1. DOMAIN back = {c \in DOMAIN change : before[c] # Unset}
      /\ \A c \in DOMAIN back : back[c] = IF IsTimes(change) THEN ToSystem(before[c]) ELSE before[c]
    BY DEF Restoring
<1>2. /\ IsTimes(change) => \A c \in DateParts : before[c] = IF image[c] = Unset THEN Unset ELSE FromSystem(image[c])
      /\ ~IsTimes(change) => before = GetAttributes(image) /\ \A c \in Bits : GetAttributes(image)[c] \in BOOLEAN
  <2>1. image \in Stat /\ IsChange(change) /\ before = ReadBefore(change, image)
      OBVIOUS
  <2> HIDE DEF image, change, before
  <2> QED BY <2>1, ReadingsAre, Zenon
<1> HIDE DEF back
<1>3. CASE IsTimes(change)
  <2>1. DOMAIN change \subseteq DateParts
      BY <1>3, ChangeIs, Zenon
  <2>2. \A c \in DateParts : image[c] \in Int \cup {Unset}
      BY SortsAre DEF Stat
  <2>3. \A c \in DateParts : image[c] # Unset => /\ FromSystem(image[c]) \in [secs : Int, nanos : Int]
                                                /\ ToSystem(FromSystem(image[c])) = image[c]
      BY <2>2, SystemTime
  <2>4. \A c \in DateParts : image[c] # Unset => before[c] # Unset
      BY <1>2, <1>3, <2>3 DEF StampsAssumption
  <2>5. DOMAIN back = {c \in DOMAIN change : image[c] # Unset}
      BY <1>1, <1>2, <1>3, <2>1, <2>4
  <2>6. \A c \in DOMAIN back : back[c] = image[c] /\ back[c] \in Int
      BY <1>1, <1>2, <1>3, <2>1, <2>2, <2>3, <2>5
  <2> QED BY <1>3, <2>1, <2>5, <2>6 DEF IsChange, back
<1>4. CASE ~IsTimes(change)
  <2>1. DOMAIN change \subseteq Bits
      BY <1>4, ChangeIs, Zenon
  <2>2. \A c \in Bits : before[c] \in BOOLEAN /\ before[c] # Unset /\ before[c] = GetAttributes(image)[c]
      BY <1>2, <1>4, SortsAre, Zenon
  <2>3. DOMAIN back = DOMAIN change /\ \A c \in DOMAIN back : back[c] = before[c]
      BY <1>1, <1>4, <2>1, <2>2
  <2> QED BY <1>4, <2>1, <2>2, <2>3 DEF IsChange, back
<1> QED BY <1>3, <1>4

(* -- the invariant -- *)

ActOf == [change : Effects, before : Readings, image : Stat]
AllCanBeUndone(p, s, all) == \A i \in DOMAIN all : CanBeUndone(p, s, all[i])

LEMMA InvIs ==
    StampsInv <=> /\ platform \in {"Linux", "Windows"} /\ StampsFit(platform, stat)
                  /\ past \in Seq(ActOf) /\ AllCanBeUndone(platform, stat, past)
BY Zenon DEF StampsInv, StampsFit, HasOwner, ActOf, AllCanBeUndone

LEMMA InvIsNext ==
    ASSUME platform' \in {"Linux", "Windows"}, StampsFit(platform', stat'), past' \in Seq(ActOf),
           AllCanBeUndone(platform', stat', past')
    PROVE  StampsInv'
BY Zenon DEF StampsInv, StampsFit, HasOwner, ActOf, AllCanBeUndone

LEMMA StampsStarts ==
    ASSUME StampsAssumption, StampsInit
    PROVE  StampsInv
<1>1. platform \in {"Linux", "Windows"} /\ stat \in Found /\ CanHold(platform, stat) /\ past = <<>>
    BY DEF StampsInit, StampsAssumption
<1>2. stat \in Stat /\ HasOwner(stat)
    BY <1>1, Zenon DEF StampsAssumption, HasOwner
<1>3. past \in Seq(ActOf) /\ DOMAIN past = {}
    BY <1>1
<1>4. AllCanBeUndone(platform, stat, past)
    BY <1>3 DEF AllCanBeUndone
<1> QED BY <1>1, <1>2, <1>3, <1>4, InvIs, Zenon DEF StampsFit

\* Nothing the runs did gets out of reach when at most the owner is given leave to write.
LEMMA StillUndone ==
    ASSUME NEW p, NEW s, NEW t, NEW all, AllCanBeUndone(p, s, all), t.write \subseteq s.write \cup {"owner"}
    PROVE  AllCanBeUndone(p, t, all)
BY DEF AllCanBeUndone, CanBeUndone

LEMMA ActKeeps ==
    ASSUME StampsAssumption, StampsInv, NEW change \in Effects, Act(change)
    PROVE  StampsInv'
<1> DEFINE new == [change |-> change, before |-> ReadBefore(change, stat), image |-> stat]
<1>1. platform \in {"Linux", "Windows"} /\ StampsFit(platform, stat) /\ past \in Seq(ActOf) /\ AllCanBeUndone(platform, stat, past)
    BY InvIs, Zenon
<1>2. platform' = platform /\ stat' = WriteEffect(change) /\ past' = Append(past, new) /\ ~Conflict(change)
    BY Zenon DEF Act
<1>3. IsChange(change) /\ stat \in Stat /\ CanHold(platform, stat) /\ HasOwner(stat)
    BY <1>1, Zenon DEF StampsAssumption, StampsFit
<1>4. StampsFit(platform, WriteEffect(change)) /\ WriteEffect(change).write \subseteq stat.write \cup {"owner"}
    BY <1>1, <1>3, WriteKeeps, Zenon
<1>5. ReadBefore(change, stat) \in Readings
    BY <1>3, ReadingsAre, Zenon
<1>6. new \in ActOf
    BY <1>3, <1>5 DEF ActOf
<1>7. DOMAIN change \subseteq Capabilities(platform)
    BY <1>2, Zenon DEF Conflict, Required
<1>8. CanBeUndone(platform, stat', new)
    BY <1>2, <1>3, <1>4, <1>7 DEF CanBeUndone, HasOwner
<1> HIDE DEF new
<1>9. AllCanBeUndone(platform, stat', past)
    BY <1>1, <1>2, <1>4, StillUndone
<1>10. past' \in Seq(ActOf) /\ DOMAIN past' = 1..(Len(past) + 1)
       /\ \A i \in DOMAIN past' : past'[i] = IF i = Len(past) + 1 THEN new ELSE past[i]
    BY <1>1, <1>2, <1>6, AppendProperties
<1>11. DOMAIN past = 1..Len(past) /\ Len(past) \in Nat
    BY <1>1
<1>12. AllCanBeUndone(platform, stat', past')
    BY <1>8, <1>9, <1>10, <1>11 DEF AllCanBeUndone
<1> QED BY <1>1, <1>2, <1>4, <1>10, <1>12, InvIsNext, Zenon

\* The act an undo takes back, and what it writes.
LEMMA LastIs ==
    ASSUME StampsAssumption, StampsInv, past # <<>>
    PROVE  /\ past[Len(past)] \in ActOf /\ CanBeUndone(platform, stat, past[Len(past)])
           /\ Len(past) \in Nat \ {0} /\ past \in Seq(ActOf)
<1>1. past \in Seq(ActOf) /\ AllCanBeUndone(platform, stat, past)
    BY InvIs, Zenon
<1>2. Len(past) \in Nat \ {0} /\ Len(past) \in DOMAIN past
    BY <1>1
<1> QED BY <1>1, <1>2 DEF AllCanBeUndone

LEMMA RevertKeeps ==
    ASSUME StampsAssumption, StampsInv, Revert
    PROVE  StampsInv' /\ Len(past') < Len(past)
<1> DEFINE act == past[Len(past)]
           back == Restoring(act.before, act.change)
<1>1. platform \in {"Linux", "Windows"} /\ StampsFit(platform, stat) /\ past \in Seq(ActOf) /\ AllCanBeUndone(platform, stat, past)
    BY InvIs, Zenon
<1>2. past # <<>> /\ platform' = platform /\ past' = SubSeq(past, 1, Len(past) - 1)
    BY Zenon DEF Revert
<1>3. act \in ActOf /\ CanBeUndone(platform, stat, act) /\ Len(past) \in Nat \ {0}
    BY <1>2, LastIs, Zenon
<1>4. stat' = stat \/ stat' = WriteEffect(back)
    BY Zenon DEF Revert
<1>5. act.change \in Effects /\ act.image \in Stat
    BY <1>3 DEF ActOf
<1>6. IsChange(act.change) /\ act.before = ReadBefore(act.change, act.image)
    BY <1>3, <1>5, Zenon DEF StampsAssumption, CanBeUndone
<1>7. IsChange(back)
    BY <1>5, <1>6, BackIs
<1> HIDE DEF back
<1>8. StampsFit(platform, WriteEffect(back)) /\ WriteEffect(back).write \subseteq stat.write \cup {"owner"}
    BY <1>1, <1>7, WriteKeeps, Zenon
<1>9. StampsFit(platform, stat') /\ stat'.write \subseteq stat.write \cup {"owner"}
    BY <1>1, <1>4, <1>8
<1>10. AllCanBeUndone(platform, stat', past)
    BY <1>1, <1>9, StillUndone
<1>11. past' \in Seq(ActOf) /\ Len(past') = Len(past) - 1
       /\ DOMAIN past' = 1..(Len(past) - 1) /\ \A i \in DOMAIN past' : past'[i] = past[i]
  <2> DEFINE m == Len(past) - 1
  <2>1. m \in Nat /\ m \in (1 - 1)..Len(past) /\ 1 \in 1..(Len(past) + 1)
      BY <1>3
  <2> HIDE DEF m
  <2>2. /\ SubSeq(past, 1, m) \in Seq(ActOf) /\ Len(SubSeq(past, 1, m)) = m
        /\ \A i \in 1..m : SubSeq(past, 1, m)[i] = past[i]
      BY <1>1, <2>1, SubSeqProperties
  <2>3. DOMAIN SubSeq(past, 1, m) = 1..m
      BY <2>2
  <2> QED BY <1>2, <2>2, <2>3 DEF m
<1>12. DOMAIN past' \subseteq DOMAIN past
    BY <1>1, <1>3, <1>11
<1>13. AllCanBeUndone(platform, stat', past')
    BY <1>10, <1>11, <1>12 DEF AllCanBeUndone
<1>14. StampsInv'
    BY <1>1, <1>2, <1>9, <1>11, <1>13, InvIsNext, Zenon
<1> QED BY <1>3, <1>11, <1>14

LEMMA MeddleKeeps ==
    ASSUME StampsAssumption, StampsInv, NEW change \in Meddlings, Meddle(change)
    PROVE  StampsInv'
<1>1. platform \in {"Linux", "Windows"} /\ StampsFit(platform, stat) /\ past \in Seq(ActOf) /\ AllCanBeUndone(platform, stat, past)
    BY InvIs, Zenon
<1>2. platform' = platform /\ stat' = WriteEffect(change) /\ past' = past
    BY Zenon DEF Meddle
<1>3. IsChange(change)
    BY Zenon DEF StampsAssumption
<1>4. StampsFit(platform, WriteEffect(change)) /\ WriteEffect(change).write \subseteq stat.write \cup {"owner"}
    BY <1>1, <1>3, WriteKeeps, Zenon
<1>5. AllCanBeUndone(platform, stat', past)
    BY <1>1, <1>2, <1>4, StillUndone
<1> QED BY <1>1, <1>2, <1>4, <1>5, InvIsNext, Zenon

LEMMA StampsStep ==
    ASSUME StampsAssumption, StampsInv, [StampsNext]_stampsVars
    PROVE  StampsInv'
<1>1. CASE UNCHANGED <<platform, stat, past>>
    BY <1>1, Zenon DEF StampsInv
<1>2. CASE \E change \in Effects : Act(change)
    BY <1>2, ActKeeps, Zenon
<1>3. CASE Revert
    BY <1>3, RevertKeeps, Zenon
<1>4. CASE \E change \in Meddlings : Meddle(change)
    BY <1>4, MeddleKeeps, Zenon
<1>5. \/ UNCHANGED <<platform, stat, past>> \/ (\E change \in Effects : Act(change)) \/ Revert
      \/ \E change \in Meddlings : Meddle(change)
    BY Zenon DEF StampsNext, stampsVars, stampVars
<1> QED BY <1>1, <1>2, <1>3, <1>4, <1>5, Zenon

(* Whatever a run has set and another program since, the journal tells what was there, the    *)
(* platform can set it back, and at most the owner may write who could not before.            *)
THEOREM StampsInductive == StampsSpec => []StampsInv
<1>1. StampsInit => StampsInv
    BY StampsStarts, StampsAssumption, Zenon
<1>2. StampsInv /\ [StampsNext]_stampsVars => StampsInv'
    BY StampsStep, StampsAssumption, Zenon
<1> QED BY <1>1, <1>2, PTL DEF StampsSpec

(* -- an undo keeps to its own -- *)

\* Bits Linux can set: write permission alone.
LEMMA LinuxSetsOne ==
    ASSUME platform = "Linux", NEW change, DOMAIN change \subseteq Bits, DOMAIN change \subseteq Capabilities(platform)
    PROVE  DOMAIN change \subseteq {"read_only"}
<1>1. Capabilities(platform) = {"accessed", "modified", "read_only"}
    BY DEF Capabilities
<1> QED BY <1>1 DEF Bits

\* An undo that finds what its run wrote is not refused by the platform, save on a link.
LEMMA BackIsTaken ==
    ASSUME StampsAssumption, NEW change, IsChange(change), StampsFit(platform, stat),
           platform \in {"Linux", "Windows"}, DOMAIN change \subseteq Capabilities(platform), Refuses(change)
    PROVE  "read_only" \in DOMAIN change
<1>1. CASE IsTimes(change)
    BY <1>1, Zenon DEF Refuses, Required
<1>2. CASE ~IsTimes(change) /\ "read_only" \notin DOMAIN change
  <2>1. platform = "Linux"
      BY <1>2, Zenon DEF Refuses
  <2>2. SetAttributes(stat, change) = stat
    <3>1. SetAttributes(stat, change) = [stat EXCEPT !.write = stat.write]
        BY <1>2, <2>1 DEF SetAttributes, IsNamed
    <3> QED BY <3>1 DEF StampsFit, Stat
  <2>3. RequiredFrom(change, GetAttributes(stat)) \subseteq DOMAIN change
      BY DEF RequiredFrom
  <2> QED BY <1>2, <2>2, <2>3 DEF Refuses
<1> QED BY <1>1, <1>2

\* Where an undo leaves the file alone, somebody else has been at it.
LEMMA RefusedIsMeddled ==
    ASSUME StampsAssumption, platform \in {"Linux", "Windows"}, StampsFit(platform, stat),
           NEW change \in Effects, IsChange(change), DOMAIN change \subseteq Capabilities(platform), ~StillOurs(change)
    PROVE  \E c \in DOMAIN change \ {"accessed", "archive"} : c = "read_only" \/ stat[c] # WriteEffect(change)[c]
<1>1. stat \in Stat /\ CanHold(platform, stat)
    BY Zenon DEF StampsFit
<1>2. CASE IsTimes(change)
  <2>1. PICK c \in DOMAIN change \ {"accessed", "archive"} : ~Agree(change[c], stat[c])
      BY <1>2, Zenon DEF StillOurs
  <2>2. DOMAIN change \subseteq DateParts /\ \A d \in DOMAIN change : change[d] \in Int
      BY <1>2, ChangeIs, Zenon
  <2>3. change[c] \in Int /\ change[c] >= FIRST
      BY <2>2 DEF StampsAssumption
  <2>4. Agree(change[c], ToFiletime(change[c])) /\ Agree(change[c], change[c])
    <3>1. Agree(change[c], ToFiletime(change[c]))
        BY <2>3, FiletimeIs
    <3>2. TOLERANCE \in Nat
        BY DEF StampsAssumption
    <3> QED BY <2>3, <3>1, <3>2 DEF Agree
  <2>5. \A d \in DOMAIN change : SetTimes(stat, change)[d] =
            IF platform = "Windows" THEN ToFiletime(change[d]) ELSE change[d]
      BY <1>1, <2>2, TimesAre
  <2>6. WriteEffect(change) = SetTimes(stat, change)
      BY <1>2, Zenon DEF WriteEffect
  <2>7. stat[c] # WriteEffect(change)[c]
      BY <2>1, <2>4, <2>5, <2>6
  <2> QED BY <2>1, <2>7
<1>3. CASE ~IsTimes(change)
  <2>1. PICK c \in DOMAIN change \ {"accessed", "archive"} : change[c] # GetAttributes(stat)[c]
      BY <1>3, Zenon DEF StillOurs
  <2>2. DOMAIN change \subseteq Bits /\ \A d \in DOMAIN change : change[d] \in BOOLEAN
      BY <1>3, ChangeIs, Zenon
  <2>3. CASE platform = "Linux"
      BY <2>1, <2>2, <2>3, LinuxSetsOne
  <2>4. CASE platform = "Windows" /\ c # "read_only"
    <3>1. c \in {"hidden", "system"} /\ c \in DOMAIN change
        BY <2>1, <2>2, <2>4 DEF Bits
    <3>2. \A d \in {"hidden", "system", "archive"} : SetAttributes(stat, change)[d] =
              IF platform = "Windows" /\ d \in DOMAIN change THEN change[d] ELSE stat[d]
        BY <1>1, <2>2, BitsAre, Zenon
    <3>3. SetAttributes(stat, change)[c] = change[c]
        BY <2>4, <3>1, <3>2
    <3>4. GetAttributes(stat)[c] = stat[c]
        BY <3>1 DEF GetAttributes
    <3>5. WriteEffect(change) = SetAttributes(stat, change)
        BY <1>3, Zenon DEF WriteEffect
    <3> QED BY <2>1, <3>3, <3>4, <3>5
  <2> QED BY <2>1, <2>3, <2>4
<1> QED BY <1>2, <1>3

\* What is written back is what was there, and only of what was changed.
IsWritten(back, act) ==
    /\ IsChange(back) /\ DOMAIN back \subseteq DOMAIN act.change
    /\ IsTimes(act.change) => /\ DOMAIN back = {c \in DOMAIN act.change : act.image[c] # Unset}
                              /\ \A c \in DOMAIN back : back[c] = act.image[c]
    /\ ~IsTimes(act.change) => /\ DOMAIN back = DOMAIN act.change
                               /\ \A c \in DOMAIN back : back[c] = GetAttributes(act.image)[c]

LEMMA UndoneIs ==
    ASSUME StampsAssumption, platform \in {"Linux", "Windows"}, StampsFit(platform, stat),
           NEW act \in ActOf, CanBeUndone(platform, stat, act), IsChange(act.change),
           NEW back, IsWritten(back, act), (stat' = stat /\ back = <<>>) \/ stat' = WriteEffect(back)
    PROVE  Undone(act)
<1> DEFINE change == act.change
           image  == act.image
<1>1. stat \in Stat /\ CanHold(platform, stat) /\ HasOwner(stat)
    BY Zenon DEF StampsFit
<1>2. image \in Stat /\ DOMAIN change \subseteq Capabilities(platform) /\ CanHold(platform, image) /\ HasOwner(image)
      /\ stat.write \subseteq image.write \cup {"owner"} /\ act.before = ReadBefore(change, image)
    BY DEF ActOf, CanBeUndone, HasOwner
<1>3. /\ IsChange(back) /\ DOMAIN back \subseteq DOMAIN change
      /\ IsTimes(change) => /\ DOMAIN back = {c \in DOMAIN change : image[c] # Unset}
                            /\ \A c \in DOMAIN back : back[c] = image[c]
      /\ ~IsTimes(change) => /\ DOMAIN back = DOMAIN change
                             /\ \A c \in DOMAIN back : back[c] = GetAttributes(image)[c]
    BY Zenon DEF IsWritten
<1>4. DOMAIN stat = {"link", "write", "hidden", "system", "archive", "created", "accessed", "modified"}
      /\ DateParts = {"created", "accessed", "modified"} /\ Bits = {"read_only", "hidden", "system", "archive"}
    BY <1>1, SortsAre
<1>5. SUFFICES
        /\ \A c \in DOMAIN stat \ (DOMAIN change \cup {"write"}) : stat'[c] = stat[c]
        /\ \A c \in DOMAIN change \ {"read_only"} : image[c] # Unset => stat'[c] = image[c]
        /\ "read_only" \in DOMAIN change => stat'.write \subseteq image.write /\ (stat'.write = {} <=> image.write = {})
        /\ "read_only" \notin DOMAIN change => stat'.write = stat.write
    BY Zenon DEF Undone, IsNamed
<1>6. ASSUME DOMAIN back = {}
      PROVE  \A c \in DOMAIN stat : stat'[c] = stat[c]
  <2>1. CASE stat' = stat
      BY <2>1
  <2>2. CASE stat' = WriteEffect(back)
    <3>1. ~IsTimes(back)
        BY <1>6, Zenon DEF IsTimes
    <3>2. DOMAIN back \subseteq Bits /\ (\A c \in DOMAIN back : back[c] \in BOOLEAN) /\ "read_only" \notin DOMAIN back
        BY <1>6
    <3>3. stat' = SetAttributes(stat, back)
        BY <2>2, <3>1, Zenon DEF WriteEffect
    <3>4. \A c \in DateParts \cup {"link"} : SetAttributes(stat, back)[c] = stat[c]
        BY <1>1, <3>2, BitsAre, ZenonT(30)
    <3>5. stat'.write = stat.write
        BY <1>1, <3>2, <3>3, BitsAre, Zenon
    <3>6. \A c \in {"hidden", "system", "archive"} : SetAttributes(stat, back)[c] =
             IF platform = "Windows" /\ c \in DOMAIN back THEN back[c] ELSE stat[c]
        BY <1>1, <3>2, BitsAre, Zenon
    <3> QED BY <1>4, <1>6, <3>3, <3>4, <3>5, <3>6
  <2> QED BY <2>1, <2>2
<1>7. CASE IsTimes(change)
  <2>1. DOMAIN change \subseteq DateParts
      BY <1>7, ChangeIs, Zenon
  <2>2. "read_only" \notin DOMAIN change
      BY <1>4, <2>1
  <2>3. CASE DOMAIN back = {}
      BY <1>3, <1>4, <1>6, <1>7, <2>2, <2>3
  <2>4. CASE DOMAIN back # {}
    <3>1. IsTimes(back)
        BY <1>3, <2>1, <2>4 DEF IsTimes
    <3>2. DOMAIN back \subseteq DateParts /\ \A c \in DOMAIN back : back[c] \in Int
        BY <1>3, <3>1, ChangeIs, Zenon
    <3>3. stat' = SetTimes(stat, back)
      <4>1. back # <<>>
          BY <2>4
      <4> QED BY <3>1, <4>1, Zenon DEF WriteEffect
    <3>4. /\ \A c \in DOMAIN stat \ DOMAIN back : stat'[c] = stat[c]
          /\ \A c \in DOMAIN back : stat'[c] = IF platform = "Windows" THEN ToFiletime(back[c]) ELSE back[c]
          /\ stat'.write = stat.write
        BY <1>1, <3>2, <3>3, TimesAre
    <3>5. \A c \in DOMAIN back : stat'[c] = image[c]
        BY <1>2, <1>3, <1>7, <3>2, <3>4 DEF CanHold
    <3> QED BY <1>3, <1>7, <2>2, <3>4, <3>5
  <2> QED BY <2>3, <2>4
<1>8. CASE ~IsTimes(change) /\ DOMAIN back = {}
    BY <1>3, <1>4, <1>6, <1>8
<1>9. CASE ~IsTimes(change) /\ DOMAIN back # {}
  <2>1. DOMAIN back = DOMAIN change /\ DOMAIN change \subseteq Bits
      BY <1>3, <1>9, ChangeIs, Zenon
  <2>2. ~IsTimes(back)
      BY <1>9, <2>1, Zenon DEF IsTimes
  <2>3. \A c \in DOMAIN back : back[c] \in BOOLEAN
      BY <1>3, <2>2, ChangeIs, Zenon
  <2>4. stat' = SetAttributes(stat, back)
    <3>1. back # <<>>
        BY <1>9
    <3> QED BY <2>2, <3>1, Zenon DEF WriteEffect
  <2>5. \A c \in DateParts \cup {"link"} : SetAttributes(stat, back)[c] = stat[c]
    <3>1. DOMAIN back \subseteq Bits
        BY <2>1
    <3> QED BY <1>1, <2>3, <3>1, BitsAre, ZenonT(60)
  <2>6. \A c \in {"hidden", "system", "archive"} : SetAttributes(stat, back)[c] =
            IF platform = "Windows" /\ c \in DOMAIN back THEN back[c] ELSE stat[c]
      BY <1>1, <2>1, <2>3, BitsAre, Zenon
  <2>7. "read_only" \notin DOMAIN back => stat'.write = stat.write
      BY <1>1, <2>1, <2>3, <2>4, BitsAre, Zenon
  <2>8. "read_only" \in DOMAIN back => stat'.write = Writers(stat, back)
      BY <1>1, <2>1, <2>3, <2>4, BitsAre, Zenon
  <2>9. \A c \in DOMAIN stat \ (DOMAIN change \cup {"write"}) : stat'[c] = stat[c]
      BY <1>4, <2>1, <2>4, <2>5, <2>6
  <2>10. \A c \in DOMAIN change \ {"read_only"} : stat'[c] = image[c]
    <3> SUFFICES ASSUME NEW c \in DOMAIN change, c # "read_only" PROVE stat'[c] = image[c]
        OBVIOUS
    <3>1. c \in {"hidden", "system", "archive"} /\ c \in DOMAIN back
        BY <1>4, <2>1
    <3>2. platform = "Windows"
        BY <1>2, <2>1, LinuxSetsOne
    <3>3. stat'[c] = back[c]
        BY <2>4, <2>6, <3>1, <3>2
    <3>4. back[c] = GetAttributes(image)[c]
        BY <1>3, <1>9, <3>1
    <3>5. GetAttributes(image)[c] = image[c]
        BY <3>1 DEF GetAttributes
    <3> QED BY <3>3, <3>4, <3>5
  <2>11. ASSUME "read_only" \in DOMAIN change
         PROVE  stat'.write \subseteq image.write /\ (stat'.write = {} <=> image.write = {})
    <3>1. back["read_only"] = GetAttributes(image)["read_only"]
        BY <1>3, <1>9, <2>1, <2>11
    <3>2. GetAttributes(image)["read_only"] = (image.write = {})
        BY DEF GetAttributes
    <3>3. stat'.write = Writers(stat, back)
        BY <2>1, <2>8, <2>11
    <3>4. platform = "Windows" => image.write \subseteq {"owner"}
        BY <1>2 DEF CanHold
    <3>5. CASE image.write = {}
        BY <3>1, <3>2, <3>3, <3>5 DEF Writers
    <3>6. CASE image.write # {}
      <4>1. "owner" \in image.write
          BY <1>2, <3>6 DEF HasOwner
      <4>2. ~back["read_only"]
          BY <3>1, <3>2, <3>6
      <4>3. stat'.write = IF platform = "Linux" THEN stat.write \cup {"owner"} ELSE {"owner"}
          BY <3>3, <4>2 DEF Writers
      <4> QED BY <1>2, <3>6, <4>1, <4>3
    <3> QED BY <3>5, <3>6
  <2> QED BY <2>1, <2>7, <2>9, <2>10, <2>11
<1> QED BY <1>7, <1>8, <1>9

LEMMA RevertKeepsToItsOwn ==
    ASSUME StampsAssumption, StampsInv, Revert
    PROVE  KeepsToItsOwn
<1> DEFINE act == past[Len(past)]
           back == Restoring(act.before, act.change)
<1>1. platform \in {"Linux", "Windows"} /\ StampsFit(platform, stat)
    BY InvIs, Zenon
<1>2. past # <<>>
    BY Zenon DEF Revert
<1>3. act \in ActOf /\ CanBeUndone(platform, stat, act)
    BY <1>2, LastIs, Zenon
<1>4. act.change \in Effects /\ act.image \in Stat
    BY <1>3 DEF ActOf
<1>5. /\ IsChange(act.change) /\ act.before = ReadBefore(act.change, act.image)
      /\ DOMAIN act.change \subseteq Capabilities(platform)
    BY <1>3, <1>4, Zenon DEF StampsAssumption, CanBeUndone
<1>6. IsChange(back) /\ DOMAIN back \subseteq DOMAIN act.change /\ IsWritten(back, act)
    BY <1>4, <1>5, BackIs DEF IsWritten
<1>7. IF ~StillOurs(act.change) \/ Refuses(back)
      THEN refused' = TRUE
      ELSE refused' = FALSE /\ stat' = IF back = <<>> THEN stat ELSE WriteEffect(back)
    BY Zenon DEF Revert
<1> HIDE DEF act, back
<1>8. CASE ~StillOurs(act.change)
  <2>1. \E c \in DOMAIN act.change \ {"accessed", "archive"} : c = "read_only" \/ stat[c] # WriteEffect(act.change)[c]
      BY <1>1, <1>4, <1>5, <1>8, RefusedIsMeddled, Zenon
  <2> QED BY <1>7, <1>8, <2>1, Zenon DEF KeepsToItsOwn, act
<1>9. CASE Refuses(back)
  <2>1. "read_only" \in DOMAIN back
      BY <1>1, <1>5, <1>6, <1>9, BackIsTaken
  <2>2. \E c \in DOMAIN act.change \ {"accessed", "archive"} : c = "read_only" \/ stat[c] # WriteEffect(act.change)[c]
      BY <1>6, <2>1
  <2> QED BY <1>7, <1>9, <2>2, Zenon DEF KeepsToItsOwn, act
<1>10. CASE StillOurs(act.change) /\ ~Refuses(back)
  <2>1. ~refused' /\ ((stat' = stat /\ back = <<>>) \/ stat' = WriteEffect(back))
      BY <1>7, <1>10
  <2>2. Undone(act)
      BY <1>1, <1>3, <1>5, <1>6, <2>1, UndoneIs, Zenon
  <2> QED BY <2>1, <2>2, Zenon DEF KeepsToItsOwn, act
<1> QED BY <1>8, <1>9, <1>10, Zenon

LEMMA NothingElseUndoes ==
    ASSUME StampsAssumption, StampsInv, [StampsNext]_stampsVars, ~Revert
    PROVE  ~(Len(past') < Len(past))
<1>1. past \in Seq(ActOf)
    BY InvIs, Zenon
<1>2. CASE past' = past
    BY <1>1, <1>2
<1>3. CASE \E change \in Effects : Act(change)
  <2>1. PICK change \in Effects : Act(change)
      BY <1>3, Zenon
  <2>2. past' = Append(past, [change |-> change, before |-> ReadBefore(change, stat), image |-> stat])
      BY <2>1, Zenon DEF Act
  <2>3. Len(past') = Len(past) + 1
      BY <1>1, <2>2
  <2> QED BY <1>1, <2>3
<1>4. past' = past \/ \E change \in Effects : Act(change)
    BY Zenon DEF StampsNext, stampsVars, stampVars, Meddle
<1> QED BY <1>2, <1>3, <1>4

(* An undo writes back what its change replaced and nothing else, whatever another program    *)
(* has set in between, in every clock, and where it leaves the file alone somebody else has   *)
(* been at what it wrote (effect.rs, undo.rs `revert`).                                       *)
THEOREM UndoKeepsToItsOwnHolds == StampsSpec => UndoKeepsToItsOwn
<1>1. StampsInv /\ [StampsNext]_stampsVars => KeepsToItsOwn
  <2> SUFFICES ASSUME StampsInv, [StampsNext]_stampsVars PROVE KeepsToItsOwn
      OBVIOUS
  <2>1. CASE Revert
      BY <2>1, RevertKeepsToItsOwn, StampsAssumption, Zenon
  <2>2. CASE ~Revert
      BY <2>2, NothingElseUndoes, StampsAssumption, Zenon DEF KeepsToItsOwn
  <2> QED BY <2>1, <2>2
<1>2. StampsInv /\ [StampsNext]_stampsVars => [KeepsToItsOwn]_stampsVars
    BY <1>1
<1> QED BY <1>2, StampsInductive, PTL DEF StampsSpec, UndoKeepsToItsOwn

-----------------------------------------------------------------------------
(* The mount table.                                                        *)

\* Numbers have a least.
LEMMA Least ==
    ASSUME NEW T \in SUBSET Nat, T # {}
    PROVE  \E m \in T : \A k \in T : m <= k
<1> DEFINE R == OpToRel(<, Nat)
<1>1. IsWellFoundedOn(R, Nat)
    BY NatLessThanWellFounded
<1>2. \A x, y \in Nat : <<x, y>> \in R <=> x < y
    BY DEF OpToRel
<1> HIDE DEF R
<1>3. PICK m \in T : \A k \in T : ~(<<k, m>> \in R)
    BY <1>1, WFMin, Zenon
<1>4. m \in Nat /\ \A k \in T : k \in Nat
    OBVIOUS
<1>5. \A k \in T : ~(k < m)
    BY <1>2, <1>3, <1>4, Zenon
<1>6. \A k \in T : m <= k
    BY <1>4, <1>5
<1> QED BY <1>6

Mounts == [at : MountPoints, dos : BOOLEAN]
OneAtAPlace(all) == \A m, o \in all : m.at = o.at => m = o
Over(t, path) == {m \in t : LiesUnder(path, m.at)}
IsDeepest(t, path, m) == m \in Over(t, path) /\ \A o \in Over(t, path) : Len(o.at) <= Len(m.at)

LEMMA PlacesAre ==
    ASSUME StampsAssumption, NEW m \in Mounts
    PROVE  m.at \in Seq(PathNames) /\ m.dos \in BOOLEAN
BY DEF StampsAssumption, Mounts

\* Of two places a path lies under, one lies under the other.
LEMMA ParentsLieUnder ==
    ASSUME NEW path \in Seq(PathNames), NEW a \in Seq(PathNames), NEW b \in Seq(PathNames),
           LiesUnder(path, a), LiesUnder(path, b), Len(b) <= Len(a)
    PROVE  LiesUnder(a, b) /\ (Len(a) = Len(b) => a = b)
<1>1. \A s \in Seq(PathNames) : LiesUnder(path, s) => Len(s) <= Len(path) /\ \A i \in 1..Len(s) : s[i] = path[i]
    BY DEF LiesUnder
<1>2. \A i \in 1..Len(b) : b[i] = a[i]
    BY <1>1
<1>3. SubSeq(a, 1, Len(b)) \in Seq(PathNames) /\ Len(SubSeq(a, 1, Len(b))) = Len(b)
      /\ \A i \in 1..Len(b) : SubSeq(a, 1, Len(b))[i] = a[i]
    OBVIOUS
<1>4. SubSeq(a, 1, Len(b)) = b
    BY <1>2, <1>3, SeqEqual
<1>5. Len(a) = Len(b) => a = b
    BY <1>2, SeqEqual
<1> QED BY <1>4, <1>5 DEF LiesUnder

LEMMA DeepestIs ==
    ASSUME StampsAssumption, NEW path \in Seq(PathNames), NEW t \in SUBSET Mounts, Over(t, path) # {}
    PROVE  \E m \in t : IsDeepest(t, path, m) /\ LongestMatch(t, path) = IF m.dos THEN "windows" ELSE "posix"
<1> DEFINE left(m) == Len(path) - Len(m.at)
           T == {left(m) : m \in Over(t, path)}
           top == CHOOSE m \in Over(t, path) : \A o \in Over(t, path) : Len(o.at) <= Len(m.at)
<1>1. \A m \in Over(t, path) : m \in t /\ Len(m.at) \in Nat /\ Len(m.at) <= Len(path)
    BY PlacesAre DEF Over, LiesUnder
<1>2. T \in SUBSET Nat /\ T # {}
    BY <1>1
<1>3. \E k \in T : \A j \in T : k <= j
    BY <1>2, Least
<1>4. \E m \in Over(t, path) : \A o \in Over(t, path) : Len(o.at) <= Len(m.at)
  <2>1. PICK m \in Over(t, path) : \A o \in Over(t, path) : left(m) <= left(o)
      BY <1>3, ZenonT(30)
  <2> QED BY <1>1, <2>1
<1>5. top \in Over(t, path) /\ \A o \in Over(t, path) : Len(o.at) <= Len(top.at)
    BY <1>4
<1>6. LongestMatch(t, path) = IF top.dos THEN "windows" ELSE "posix"
    BY Zenon DEF LongestMatch, Over
<1> QED BY <1>1, <1>5, <1>6, Zenon DEF IsDeepest

\* Of the mount table what has rules of its own is enough, and what lies in it.
LEMMA KeptIsEnough ==
    ASSUME StampsAssumption, NEW path \in Seq(PathNames), NEW all \in SUBSET Mounts, OneAtAPlace(all)
    PROVE  LongestMatch(Parse(all), path) = LongestMatch(all, path)
<1>1. Parse(all) \in SUBSET Mounts /\ Over(Parse(all), path) \subseteq Over(all, path)
      /\ \A m \in Over(all, path) : m \in all /\ LiesUnder(path, m.at) /\ (IsKept(m, all) => m \in Over(Parse(all), path))
    BY DEF Parse, Over
<1>2. CASE Over(all, path) = {}
  <2>1. Over(Parse(all), path) = {}
      BY <1>1, <1>2
  <2> QED BY <1>2, <2>1, Zenon DEF LongestMatch, Over
<1>3. CASE Over(all, path) # {}
  <2>1. PICK top \in all : IsDeepest(all, path, top) /\ LongestMatch(all, path) = IF top.dos THEN "windows" ELSE "posix"
      BY <1>3, DeepestIs, Zenon
  <2>2. top \in Over(all, path) /\ \A o \in Over(all, path) : Len(o.at) <= Len(top.at)
      BY <2>1, Zenon DEF IsDeepest
  <2>3. CASE Over(Parse(all), path) = {}
    <3>1. ~top.dos
        BY <1>1, <2>2, <2>3, Zenon DEF IsKept
    <3>2. LongestMatch(Parse(all), path) = "posix"
        BY <2>3, Zenon DEF LongestMatch, Over
    <3> QED BY <2>1, <3>1, <3>2
  <2>4. CASE Over(Parse(all), path) # {}
    <3>1. PICK d \in Parse(all) : IsDeepest(Parse(all), path, d)
               /\ LongestMatch(Parse(all), path) = IF d.dos THEN "windows" ELSE "posix"
        BY <1>1, <2>4, DeepestIs, Zenon
    <3>2. d \in Over(Parse(all), path) /\ \A o \in Over(Parse(all), path) : Len(o.at) <= Len(d.at)
        BY <3>1, Zenon DEF IsDeepest
    <3>3. d \in Over(all, path) /\ d \in all /\ LiesUnder(path, d.at) /\ LiesUnder(path, top.at)
        BY <1>1, <2>2, <3>2
    <3>4. d.at \in Seq(PathNames) /\ top.at \in Seq(PathNames) /\ top.dos \in BOOLEAN /\ d.dos \in BOOLEAN
        BY <3>3, PlacesAre
    <3>5. Len(d.at) <= Len(top.at) /\ Len(d.at) \in Nat /\ Len(top.at) \in Nat
        BY <2>2, <3>3, <3>4
    <3>6. LiesUnder(top.at, d.at) /\ (Len(top.at) = Len(d.at) => top.at = d.at)
        BY <3>3, <3>4, <3>5, ParentsLieUnder
    <3>7. top.at = d.at => top = d
        BY <3>3, Zenon DEF OneAtAPlace
    <3>8. CASE IsKept(top, all)
      <4>1. Len(top.at) <= Len(d.at)
          BY <1>1, <2>2, <3>2, <3>8
      <4>2. top = d
          BY <3>5, <3>6, <3>7, <4>1
      <4> QED BY <2>1, <3>1, <4>2
    <3>9. CASE ~IsKept(top, all)
      <4>1. ~top.dos
          BY <3>9, Zenon DEF IsKept
      <4>2. ~d.dos
        <5>1. SUFFICES ASSUME d.dos PROVE FALSE
            OBVIOUS
        <5>2. d.at # top.at
            BY <3>7, <4>1, <5>1
        <5> QED BY <3>3, <3>6, <3>9, <5>1, <5>2, Zenon DEF IsKept
      <4> QED BY <2>1, <3>1, <4>1, <4>2
    <3> QED BY <3>8, <3>9
  <2> QED BY <2>3, <2>4
<1> QED BY <1>2, <1>3

LEMMA MountsIs ==
    MountsInv <=> mounts \in SUBSET Mounts /\ seen \in SUBSET Mounts /\ OneAtAPlace(mounts) /\ OneAtAPlace(seen)
                  /\ table = Parse(seen)
BY DEF MountsInv, Mounts, OneAtAPlace

LEMMA MountsStep ==
    ASSUME StampsAssumption, MountsInv, [StampsNext]_stampsVars
    PROVE  MountsInv'
<1>1. mounts \in SUBSET Mounts /\ seen \in SUBSET Mounts /\ OneAtAPlace(mounts) /\ OneAtAPlace(seen) /\ table = Parse(seen)
    BY MountsIs, Zenon
<1> SUFFICES /\ mounts' \in SUBSET Mounts /\ seen' \in SUBSET Mounts /\ OneAtAPlace(mounts') /\ OneAtAPlace(seen')
             /\ table' = Parse(seen')
    BY DEF MountsInv, Mounts, OneAtAPlace
<1>2. CASE UNCHANGED mountVars
    BY <1>1, <1>2 DEF mountVars
<1>3. ASSUME NEW at \in MountPoints, NEW dos \in BOOLEAN, Mount([at |-> at, dos |-> dos])
      PROVE  mounts' \in SUBSET Mounts /\ OneAtAPlace(mounts') /\ UNCHANGED <<table, seen>>
  <2> DEFINE m == [at |-> at, dos |-> dos]
  <2>1. m \in Mounts /\ m.at = at
      BY DEF Mounts
  <2>2. at \in Seq(PathNames)
      BY DEF StampsAssumption
  <2>3. LiesUnder(at, at)
      BY <2>2 DEF LiesUnder
  <2>4. (\A o \in mounts : ~LiesUnder(o.at, m.at)) /\ mounts' = mounts \cup {m} /\ UNCHANGED <<table, seen>>
      BY <1>3, Zenon DEF Mount
  <2>5. \A o \in mounts : o.at # m.at
      BY <2>1, <2>3, <2>4
  <2> HIDE DEF m
  <2> QED BY <1>1, <2>1, <2>4, <2>5 DEF OneAtAPlace
<1>4. CASE \E m \in mounts : Unmount(m)
    BY <1>1, <1>4 DEF Unmount, OneAtAPlace
<1>5. CASE Reread
    BY <1>1, <1>5 DEF Reread
<1>6. \/ UNCHANGED mountVars \/ Reread \/ (\E m \in mounts : Unmount(m))
      \/ \E at \in MountPoints, dos \in BOOLEAN : Mount([at |-> at, dos |-> dos])
    BY Zenon DEF StampsNext, stampsVars
<1> QED BY <1>1, <1>2, <1>3, <1>4, <1>5, <1>6

(* A name is judged by the rules of the deepest volume it lies in, as the last reading of the *)
(* mount table has it, though little of that is kept (unix.rs `mounts`).                      *)
THEOREM RulesAreOfTheVolumeHolds == StampsSpec => []RulesAreOfTheVolume
<1>1. StampsInit => MountsInv
    BY DEF StampsInit, MountsInv, Parse
<1>2. MountsInv /\ [StampsNext]_stampsVars => MountsInv'
    BY MountsStep, StampsAssumption, Zenon
<1>3. MountsInv => RulesAreOfTheVolume
  <2> SUFFICES ASSUME MountsInv, NEW path \in Places PROVE RulesFor(path) = LongestMatch(seen, path)
      BY Zenon DEF RulesAreOfTheVolume
  <2>1. seen \in SUBSET Mounts /\ OneAtAPlace(seen) /\ table = Parse(seen)
      BY MountsIs, Zenon
  <2>2. path \in Seq(PathNames)
      BY StampsAssumption DEF StampsAssumption
  <2>3. LongestMatch(Parse(seen), path) = LongestMatch(seen, path)
      BY <2>1, <2>2, StampsAssumption, KeptIsEnough, Zenon
  <2> QED BY <2>1, <2>3, Zenon DEF RulesFor
<1> QED BY <1>1, <1>2, <1>3, PTL DEF StampsSpec

-----------------------------------------------------------------------------
(* Music Tagger and Remove Tags.                                           *)

\* Where the bytes in front of the trailer are, and what each of them is.
LEMMA BytesAre ==
    ASSUME NEW s, IsSong(s)
    PROVE  /\ Len(s.bytes) \in Nat /\ DOMAIN s.bytes = 1..Len(s.bytes)
           /\ s.claims \in 0..Len(s.bytes) /\ s.bytes \in Seq([k : STRING, size : Nat])
           /\ \A n \in 1..Len(s.bytes) : s.bytes[n].size \in Nat /\ s.bytes[n].size < V2_BLOCK_MAX
<1>1. s.bytes \in Seq([k : STRING, size : Nat]) /\ s.claims \in 0..Len(s.bytes)
    BY DEF IsSong
<1>2. \A n \in DOMAIN s.bytes : s.bytes[n].size < V2_BLOCK_MAX
    BY DEF IsSong
<1>3. Len(s.bytes) \in Nat /\ DOMAIN s.bytes = 1..Len(s.bytes)
    BY <1>1
<1>4. \A n \in 1..Len(s.bytes) : s.bytes[n].size \in Nat
  <2> DEFINE bytes == s.bytes
  <2>1. \A n \in 1..Len(bytes) : bytes[n] \in [k : STRING, size : Nat]
      BY <1>1, ElementOfSeq
  <2> QED BY <2>1
<1> QED BY <1>1, <1>2, <1>3, <1>4

\* Of places that are bounded there is a last.
LEMMA HasLast ==
    ASSUME NEW T \in SUBSET Nat, T # {}, NEW b \in Nat, \A k \in T : k <= b
    PROVE  \E m \in T : \A k \in T : k <= m
<1> DEFINE D == {b - k : k \in T}
<1>1. \A k \in T : k \in Nat /\ b - k \in Nat
    OBVIOUS
<1>2. D \in SUBSET Nat /\ D # {}
    BY <1>1, Zenon
<1>3. PICK x \in D : \A y \in D : x <= y
    BY <1>2, Least
<1>4. PICK m \in T : x = b - m
    OBVIOUS
<1>5. \A k \in T : b - m <= b - k
    BY <1>3, <1>4
<1> QED BY <1>1, <1>5

\* What the search backwards finds is behind the floor it was given.
LEMMA LastBeginIs ==
    ASSUME NEW s, IsSong(s), NEW low \in Nat
    PROVE  \/ LastBegin(s, low) = Silent
           \/ LastBegin(s, low) \in (low + 1)..Len(s.bytes) /\ s.bytes[LastBegin(s, low)] = LyricsBegin
<1> DEFINE ats == {i \in (low + 1)..Len(s.bytes) : s.bytes[i] = LyricsBegin}
<1>1. Len(s.bytes) \in Nat
    BY BytesAre
<1>2. ASSUME ats # {}
      PROVE  LastBegin(s, low) \in ats
  <2>1. ats \in SUBSET Nat /\ \A k \in ats : k <= Len(s.bytes)
      BY <1>1
  <2>2. \E m \in ats : \A k \in ats : k <= m
      BY <1>1, <1>2, <2>1, HasLast
  <2> QED BY <1>2, <2>2, Zenon DEF LastBegin
<1>3. ats = {} => LastBegin(s, low) = Silent
    BY DEF LastBegin
<1> QED BY <1>2, <1>3

LyricsFooters == {"LYRICSEND", "LYRICS200"}

\* A block starts behind the ID3v2 tag, at its first marker, and ends at the other; where the
\* size in its footer leads to a marker, that is the one.
IsBlockAt(s, n) ==
    LET end == Len(s.bytes)
        at  == end - s.bytes[end].size
    IN  /\ n \in (s.claims + 1)..end /\ s.bytes[n] = LyricsBegin /\ s.bytes[end].k \in LyricsFooters
        /\ s.bytes[end].k = "LYRICS200" /\ at > s.claims /\ at < end /\ s.bytes[at] = LyricsBegin => n = at

\* The search by size, where enough was read.
LEMMA BySizeIs ==
    ASSUME TagsAssumption, NEW s, IsSong(s), NEW base \in Nat, NEW n \in Nat
    PROVE  LET at == Len(s.bytes) - n
           IN  /\ BySize(s, base, n) # Silent =>
                    BySize(s, base, n) = at /\ at > s.claims /\ at < Len(s.bytes) /\ s.bytes[at] = LyricsBegin
               /\ at > base /\ at > s.claims /\ at < Len(s.bytes) /\ s.bytes[at] = LyricsBegin =>
                    BySize(s, base, n) = at /\ BySize(s, base, n) # Silent
<1> DEFINE at == Len(s.bytes) - n
<1>1. at \in Int /\ s.claims \in Nat
    BY BytesAre
<1>2. at > base => at \in Nat /\ at # Silent
    BY <1>1 DEF TagsAssumption
<1> QED BY <1>2 DEF BySize

\* `find_in`, given no more than enough to see the marker the size leads to.
LEMMA FindInIs ==
    ASSUME TagsAssumption, NEW s, IsSong(s), Len(s.bytes) > 0, NEW base \in Nat,
           LET end == Len(s.bytes)
               at  == end - s.bytes[end].size
           IN  s.bytes[end].k = "LYRICS200" /\ at > s.claims /\ at < end /\ s.bytes[at] = LyricsBegin => at > base
    PROVE  \/ FindIn(s, base) = Silent \/ FindIn(s, base) = Damaged
           \/ \E n \in Nat : IsBlockAt(s, n) /\ FindIn(s, base) = [from |-> n]
<1> DEFINE end == Len(s.bytes)
           tail == s.bytes[end]
           at == end - tail.size
           floor == IF base > s.claims THEN base ELSE s.claims
           near == IF end - V1_BLOCK_MAX > base THEN end - V1_BLOCK_MAX ELSE base
           low == IF near > s.claims THEN near ELSE s.claims
           from == IF tail.k = "LYRICS200" /\ BySize(s, base, tail.size) # Silent
                   THEN BySize(s, base, tail.size)
                   ELSE IF tail.k = "LYRICS200" THEN AnyBegin(s, base) ELSE AnyBegin(s, near)
<1>1. end \in Nat /\ tail.size \in Nat /\ s.claims \in Nat /\ V1_BLOCK_MAX \in Nat
    BY BytesAre DEF TagsAssumption
<1>2. floor \in Nat /\ low \in Nat /\ floor >= s.claims /\ low >= s.claims
    BY <1>1
<1>3. AnyBegin(s, base) = LastBegin(s, floor) /\ AnyBegin(s, near) = LastBegin(s, low)
    BY Zenon DEF AnyBegin
<1>4. FindIn(s, base) = IF tail.k \notin {"LYRICS200", "LYRICSEND"} \/ end <= base THEN Silent
                        ELSE IF from # Silent THEN [from |-> from]
                        ELSE IF tail.k = "LYRICS200" THEN Damaged ELSE Silent
    BY Zenon DEF FindIn
<1>5. ASSUME tail.k \in LyricsFooters, from # Silent
      PROVE  from \in Nat /\ IsBlockAt(s, from)
  <2>1. CASE tail.k = "LYRICS200" /\ BySize(s, base, tail.size) # Silent
    <3>1. from = at /\ at > s.claims /\ at < end /\ s.bytes[at] = LyricsBegin
        BY <1>1, <2>1, BySizeIs
    <3>2. from \in Nat /\ from \in (s.claims + 1)..end
        BY <1>1, <3>1
    <3> QED BY <3>1, <3>2, <1>5, Zenon DEF IsBlockAt
  <2>2. CASE tail.k = "LYRICS200" /\ BySize(s, base, tail.size) = Silent
    <3>1. ~(at > s.claims /\ at < end /\ s.bytes[at] = LyricsBegin)
        BY <1>1, <2>2, BySizeIs
    <3>2. from = LastBegin(s, floor)
        BY <1>3, <2>2
    <3>3. from \in (floor + 1)..end /\ s.bytes[from] = LyricsBegin
        BY <1>2, <1>5, <3>2, LastBeginIs
    <3>4. from \in Nat /\ from \in (s.claims + 1)..end
        BY <1>1, <1>2, <3>3
    <3> QED BY <3>1, <3>3, <3>4, <1>5, Zenon DEF IsBlockAt
  <2>3. CASE tail.k # "LYRICS200"
    <3>1. from = LastBegin(s, low)
        BY <1>3, <2>3
    <3>2. from \in (low + 1)..end /\ s.bytes[from] = LyricsBegin
        BY <1>2, <1>5, <3>1, LastBeginIs
    <3>3. from \in Nat /\ from \in (s.claims + 1)..end
        BY <1>1, <1>2, <3>2, SMTT(30)
    <3> QED BY <2>3, <3>2, <3>3, <1>5, Zenon DEF IsBlockAt
  <2> QED BY <2>1, <2>2, <2>3
<1> HIDE DEF from
<1> QED BY <1>4, <1>5 DEF LyricsFooters

\* Where no more is read than at first, that is as far as a size that may be true leads.
LEMMA ReadsEnough ==
    ASSUME NEW end \in Nat, NEW size \in Nat, NEW claims \in 0..end, NEW most \in Nat, NEW slack \in Nat,
           size < most
    PROVE  LET base  == IF end > slack THEN end - slack ELSE 0
               reach == size + 1
               far   == reach > end - base /\ reach <= most /\ reach <= end - claims
           IN  ~far /\ end - size > claims /\ end - size < end => end - size > base
OBVIOUS

\* `locate` reads far enough back: a size within what six digits say is believed.
LEMMA LocatedIs ==
    ASSUME TagsAssumption, NEW s, IsSong(s)
    PROVE  \/ Located(s) = Silent \/ Located(s) = Damaged
           \/ \E n \in Nat : IsBlockAt(s, n) /\ Located(s) = [from |-> n]
<1> DEFINE end == Len(s.bytes)
           tail == s.bytes[end]
           at == end - tail.size
           base == IF end > TAIL THEN end - TAIL ELSE 0
           reach == tail.size + 1
           far == tail.k = "LYRICS200" /\ reach > end - base /\ reach <= V2_BLOCK_MAX /\ reach <= end - s.claims
<1>1. Located(s) = IF end = 0 THEN Silent ELSE IF far THEN FindIn(s, end - reach) ELSE FindIn(s, base)
    BY Zenon DEF Located
<1>2. end \in Nat /\ TAIL \in Nat /\ V2_BLOCK_MAX \in Nat /\ s.claims \in 0..end
    BY BytesAre DEF TagsAssumption
<1>3. CASE end = 0
    BY <1>1, <1>3
<1>4. CASE end > 0
  <2>1. tail.size \in Nat /\ tail.size < V2_BLOCK_MAX
      BY <1>2, <1>4, BytesAre
  <2>2. base \in Nat /\ (far => end - reach \in Nat /\ at > end - reach)
    <3>1. base \in Nat /\ end - reach \in Int
        BY <1>2, <2>1
    <3>2. far => reach <= end
        BY <1>2, <2>1
    <3>3. far => end - reach \in Nat
        BY <1>2, <2>1, <3>2
    <3>4. at > end - reach
        BY <1>2, <2>1
    <3> QED BY <3>1, <3>3, <3>4, Zenon
  <2>3. tail.k = "LYRICS200" /\ ~far /\ at > s.claims /\ at < end => at > base
      BY <1>2, <2>1, ReadsEnough, ZenonT(30)
  <2>4. CASE far
      BY <1>1, <1>4, <2>2, <2>4, FindInIs
  <2>5. CASE ~far
      BY <1>1, <1>4, <2>2, <2>3, <2>5, FindInIs
  <2> QED BY <2>4, <2>5
<1> QED BY <1>2, <1>3, <1>4

\* Bytes that are cut keep what is in front.
LEMMA CutBytes ==
    ASSUME NEW T, NEW b \in Seq(T), NEW c \in 0..Len(b), NEW n \in (c + 1)..Len(b)
    PROVE  LET before == SubSeq(b, c + 1, Len(b))
               cut    == SubSeq(b, 1, n - 1)
           IN  /\ cut \in Seq(T) /\ Len(cut) = n - 1 /\ \A i \in 1..(n - 1) : cut[i] = b[i]
               /\ SubSeq(cut, c + 1, Len(cut)) = SubSeq(before, 1, n - 1 - c)
<1> DEFINE before == SubSeq(b, c + 1, Len(b))
           cut == SubSeq(b, 1, n - 1)
           left == SubSeq(cut, c + 1, Len(cut))
           kept == SubSeq(before, 1, n - 1 - c)
<1>1. Len(b) \in Nat /\ c \in Nat /\ n \in Nat /\ c < n /\ n <= Len(b)
    OBVIOUS
<1>2. cut \in Seq(T) /\ Len(cut) = n - 1 /\ \A i \in 1..(n - 1) : cut[i] = b[i]
    BY <1>1
<1>3. before \in Seq(T) /\ Len(before) = Len(b) - c /\ \A i \in 1..(Len(b) - c) : before[i] = b[c + i]
    BY <1>1
<1> HIDE DEF before, cut
<1>4. left \in Seq(T) /\ Len(left) = n - 1 - c /\ \A i \in 1..(n - 1 - c) : left[i] = cut[c + i]
    BY <1>1, <1>2
<1>5. kept \in Seq(T) /\ Len(kept) = n - 1 - c /\ \A i \in 1..(n - 1 - c) : kept[i] = before[i]
    BY <1>1, <1>3
<1>6. \A i \in 1..(n - 1 - c) : left[i] = kept[i]
    BY <1>1, <1>2, <1>3, <1>4, <1>5
<1> HIDE DEF left, kept
<1>7. left = kept
    BY <1>4, <1>5, <1>6, SeqEqual
<1> QED BY <1>2, <1>7 DEF left, kept, before, cut

\* What is behind the ID3v2 tag.
LEMMA BehindIs ==
    ASSUME NEW s, IsSong(s)
    PROVE  /\ Behind(s) \in Seq([k : STRING, size : Nat])
           /\ Len(Behind(s)) = Len(s.bytes) - s.claims
           /\ \A i \in 1..(Len(s.bytes) - s.claims) : Behind(s)[i] = s.bytes[s.claims + i]
           /\ SubSeq(Behind(s), 1, Len(Behind(s))) = Behind(s)
<1> DEFINE T == [k : STRING, size : Nat]
<1> HIDE DEF T
<1>1. \A b \in Seq(T) : \A c \in 0..Len(b) :
          LET r == SubSeq(b, c + 1, Len(b))
          IN  r \in Seq(T) /\ Len(r) = Len(b) - c /\ \A i \in 1..(Len(b) - c) : r[i] = b[c + i]
    OBVIOUS
<1>2. \A r \in Seq(T) : SubSeq(r, 1, Len(r)) = r
    OBVIOUS
<1>3. s.bytes \in Seq(T) /\ s.claims \in 0..Len(s.bytes)
    BY BytesAre DEF T
<1> QED BY <1>1, <1>2, <1>3 DEF Behind, T

\* SoundIsKept, of any two songs.
Kept(a, b, lyrics) ==
    LET before == Behind(a) IN
    \E n \in 0..Len(before) :
        /\ Behind(b) = SubSeq(before, 1, n)
        /\ n < Len(before) => lyrics /\ before[n + 1] = LyricsBegin
                              /\ before[Len(before)].k \in {"LYRICSEND", "LYRICS200"}
        /\ lyrics /\ before[Len(before)].k = "LYRICS200" =>
            LET at == Len(before) - before[Len(before)].size
            IN  at \in 1..(Len(before) - 1) /\ before[at] = LyricsBegin => n = at - 1

\* Where no lyrics go, the sound is what it was.
LEMMA StandsStill ==
    ASSUME NEW a, IsSong(a), NEW b, Behind(b) = Behind(a)
    PROVE  Kept(a, b, FALSE)
<1> DEFINE before == Behind(a)
<1>1. Behind(b) = SubSeq(before, 1, Len(before)) /\ before \in Seq([k : STRING, size : Nat])
    BY BehindIs
<1> HIDE DEF before
<1>2. Len(before) \in 0..Len(before) /\ ~(Len(before) < Len(before))
    BY <1>1
<1> QED BY <1>1, <1>2, Zenon DEF Kept, before

\* The sums of a cut at n, in bytes that end at `end` behind a tag of c.
LEMMA CutSums ==
    ASSUME NEW end \in Nat, NEW c \in 0..end, NEW n \in (c + 1)..end, NEW size \in Nat
    PROVE  /\ n - 1 - c \in 0..(end - c) /\ (n - 1 - c) + 1 \in 1..(end - c) /\ c + ((n - 1 - c) + 1) = n
           /\ end - c \in 1..(end - c) /\ c + (end - c) = end /\ c \in 0..(n - 1)
           /\ (end - c) - size \in 1..((end - c) - 1) =>
                 /\ (end - c) - size \in 1..(end - c) /\ c + ((end - c) - size) = end - size
                 /\ end - size > c /\ end - size < end
                 /\ n = end - size => n - 1 - c = ((end - c) - size) - 1
OBVIOUS

\* Where a block is cut, all in front of it stays.
LEMMA CutIs ==
    ASSUME NEW s, IsSong(s), NEW n, IsBlockAt(s, n), NEW a, IsSong(a), Behind(a) = Behind(s)
    PROVE  IsSong(CutFrom(s, n)) /\ Kept(a, CutFrom(s, n), TRUE)
<1> DEFINE T == [k : STRING, size : Nat]
           b == s.bytes
           c == s.claims
           end == Len(b)
           before == Behind(a)
           cut == SubSeq(b, 1, n - 1)
           m == n - 1 - c
<1>1. b \in Seq(T) /\ c \in 0..end /\ end \in Nat
    BY BytesAre
<1>2. n \in (c + 1)..end /\ b[n] = LyricsBegin /\ b[end].k \in LyricsFooters
    BY Zenon DEF IsBlockAt
<1>3. b[end].k = "LYRICS200" /\ end - b[end].size > c /\ end - b[end].size < end /\ b[end - b[end].size] = LyricsBegin
      => n = end - b[end].size
    BY Zenon DEF IsBlockAt
<1>4. CutFrom(s, n) = [s EXCEPT !.bytes = cut]
    BY Zenon DEF CutFrom
<1>5. cut \in Seq(T) /\ Len(cut) = n - 1 /\ (\A i \in 1..(n - 1) : cut[i] = b[i])
      /\ SubSeq(cut, c + 1, Len(cut)) = SubSeq(SubSeq(b, c + 1, Len(b)), 1, m)
    BY <1>1, <1>2, CutBytes
<1>6. before = SubSeq(b, c + 1, Len(b)) /\ Len(before) = end - c /\ \A i \in 1..(end - c) : before[i] = b[c + i]
    BY BehindIs DEF Behind
<1>7. \A i \in 1..end : b[i].size \in Nat /\ b[i].size < V2_BLOCK_MAX
    BY BytesAre
<1>n. n \in Nat /\ n - 1 <= end
    BY <1>1, <1>2
<1>8. IsSong(CutFrom(s, n)) /\ Behind(CutFrom(s, n)) = SubSeq(before, 1, m)
  <2>1. s = [format |-> s.format, audio |-> s.audio, blocks |-> s.blocks, bytes |-> s.bytes, claims |-> s.claims]
      BY DEF IsSong
  <2> HIDE DEF cut
  <2>2. CutFrom(s, n) = [format |-> s.format, audio |-> s.audio, blocks |-> s.blocks, bytes |-> cut, claims |-> c]
      BY <1>4, <2>1
  <2>c. c \in 0..(n - 1)
      BY <1>1, <1>2, CutSums
  <2> HIDE DEF b, c, end, m, before
  <2>3. c \in 0..Len(cut) /\ DOMAIN cut = 1..(n - 1)
      BY <1>5, <2>c
  <2>4. \A i \in 1..(n - 1) : i \in 1..end
      BY <1>1, <1>n
  <2>5. \A i \in DOMAIN cut : cut[i].size < V2_BLOCK_MAX
      BY <1>5, <1>7, <2>3, <2>4, Zenon
  <2> DEFINE new == CutFrom(s, n)
  <2>6. new = [format |-> new.format, audio |-> new.audio, blocks |-> new.blocks, bytes |-> new.bytes, claims |-> new.claims]
        /\ new.format = s.format /\ new.blocks = s.blocks /\ new.bytes = cut /\ new.claims = c
      BY <2>2
  <2> HIDE DEF new
  <2>7. IsSong(new)
      BY <1>5, <2>3, <2>5, <2>6, Zenon DEF IsSong, T
  <2>8. Behind(new) = SubSeq(cut, c + 1, Len(cut))
      BY <2>6, Zenon DEF Behind
  <2> QED BY <1>5, <1>6, <2>7, <2>8, Zenon DEF new
<1> DEFINE size == b[end].size
<1>9. size \in Nat /\ end \in 1..end
  <2> HIDE DEF b, c, end
  <2>1. end \in 1..end
      BY ONLY <1>1, <1>2
  <2>2. b[end].size \in Nat
      BY ONLY <1>7, <2>1, Zenon
  <2> QED BY ONLY <2>1, <2>2 DEF size
<1> HIDE DEF b, c, end, before, size
<1>10. m \in 0..Len(before) /\ m < Len(before) /\ m + 1 \in 1..(end - c) /\ c + (m + 1) = n
       /\ Len(before) \in 1..(end - c) /\ c + Len(before) = end
  <2>1. /\ m \in Nat /\ m < end - c /\ m + 1 \in 1..(end - c) /\ c + (m + 1) = n
        /\ end - c \in 1..(end - c) /\ c + (end - c) = end
      BY ONLY <1>1, <1>2, <1>9
  <2>2. Len(before) = end - c
      BY <1>6
  <2> HIDE DEF m
  <2> QED BY ONLY <2>1, <2>2
<1>11. before[m + 1] = LyricsBegin /\ before[Len(before)] = b[end]
    BY <1>2, <1>6, <1>10, Zenon
<1>12. ASSUME b[end].k = "LYRICS200", Len(before) - size \in 1..(Len(before) - 1),
              before[Len(before) - size] = LyricsBegin
       PROVE  m = (Len(before) - size) - 1
  <2> DEFINE at == (end - c) - size
  <2>1. at \in 1..((end - c) - 1) /\ before[at] = LyricsBegin
      BY <1>6, <1>12
  <2>2. /\ at \in 1..(end - c) /\ c + at = end - size /\ end - size > c /\ end - size < end
        /\ n = end - size => m = at - 1
    <3>1. end \in Nat /\ c \in 0..end /\ n \in (c + 1)..end /\ size \in Nat
        BY <1>1, <1>2, <1>9, Zenon
    <3> QED BY ONLY <3>1, <2>1, CutSums
  <2> HIDE DEF at, m
  <2>3. b[end - size] = LyricsBegin
      BY <1>6, <2>1, <2>2, Zenon
  <2>4. n = end - size
      BY <1>3, <1>12, <2>2, <2>3, Zenon DEF size
  <2> QED BY <1>6, <2>2, <2>4 DEF at
<1>13. Kept(a, CutFrom(s, n), TRUE)
  <2> HIDE DEF m
  <2> QED BY <1>2, <1>8, <1>10, <1>11, <1>12, Zenon DEF Kept, before, LyricsFooters, size
<1> QED BY <1>8, <1>13

\* Blocks that are taken take their bytes, and nothing of what is behind them.
LEMMA UnblockedIs ==
    ASSUME NEW s, IsSong(s), NEW kinds
    PROVE  LET bare == Unblocked(s, kinds)
           IN  /\ IsSong(bare) /\ Behind(bare) = Behind(s) /\ bare.format = s.format
               /\ DOMAIN bare.blocks = DOMAIN s.blocks \ kinds
               /\ \A t \in DOMAIN bare.blocks : bare.blocks[t] = s.blocks[t]
<1> DEFINE bare == Unblocked(s, kinds)
           left == [t \in DOMAIN s.blocks \ kinds |-> s.blocks[t]]
           bytes == IF "id3v2" \in kinds THEN Behind(s) ELSE s.bytes
           claims == IF "id3v2" \in kinds THEN 0 ELSE s.claims
<1>1. s = [format |-> s.format, audio |-> s.audio, blocks |-> s.blocks, bytes |-> s.bytes, claims |-> s.claims]
    BY DEF IsSong
<1>2. bare = [s EXCEPT !.blocks = left, !.bytes = bytes, !.claims = claims]
    BY <1>1 DEF Unblocked
<1> HIDE DEF bare, left, bytes, claims
<1>3. /\ bare = [format |-> bare.format, audio |-> bare.audio, blocks |-> bare.blocks, bytes |-> bare.bytes, claims |-> bare.claims]
      /\ bare.format = s.format /\ bare.blocks = left /\ bare.bytes = bytes /\ bare.claims = claims
    BY <1>1, <1>2
<1>4. /\ left = [t \in DOMAIN left |-> left[t]] /\ DOMAIN left = DOMAIN s.blocks \ kinds
      /\ \A t \in DOMAIN left : left[t] = s.blocks[t]
    BY DEF left
<1>5. DOMAIN left \subseteq Carries(s.format)
      /\ \A t \in DOMAIN left : IsBlock(left[t]) /\ (t = "id3v1" => \A i \in left[t].named : i.key # "recording date")
    BY <1>4 DEF IsSong
<1>6. /\ bytes \in Seq([k : STRING, size : Nat]) /\ claims \in 0..Len(bytes)
      /\ \A n \in DOMAIN bytes : bytes[n].size < V2_BLOCK_MAX
      /\ SubSeq(bytes, claims + 1, Len(bytes)) = Behind(s)
  <2>1. CASE "id3v2" \notin kinds
    <3>1. bytes = s.bytes /\ claims = s.claims
        BY <2>1 DEF bytes, claims
    <3> QED BY <3>1, BytesAre, Zenon DEF IsSong, Behind
  <2>2. CASE "id3v2" \in kinds
    <3> DEFINE behind == Behind(s)
               over == Len(s.bytes) - s.claims
    <3>1. bytes = behind /\ claims = 0
        BY <2>2 DEF bytes, claims
    <3>2. /\ behind \in Seq([k : STRING, size : Nat]) /\ Len(behind) = over
          /\ \A i \in 1..over : behind[i] = s.bytes[s.claims + i]
          /\ SubSeq(behind, 1, Len(behind)) = behind
        BY BehindIs
    <3>3. \A i \in 1..over : s.claims + i \in 1..Len(s.bytes)
        BY BytesAre
    <3>4. \A i \in 1..Len(s.bytes) : s.bytes[i].size < V2_BLOCK_MAX
        BY BytesAre
    <3> HIDE DEF behind, over
    <3>5. \A i \in 1..over : behind[i].size < V2_BLOCK_MAX
        BY <3>2, <3>3, <3>4, Zenon
    <3>6. DOMAIN behind = 1..over /\ 0 \in 0..Len(behind) /\ 0 + 1 = 1
        BY <3>2
    <3> QED BY <3>1, <3>2, <3>5, <3>6 DEF behind
  <2> QED BY <2>1, <2>2
<1>7. IsSong(bare)
    BY <1>3, <1>4, <1>5, <1>6, Zenon DEF IsSong
<1>8. Behind(bare) = Behind(s)
    BY <1>3, <1>6, Zenon DEF Behind
<1> QED BY <1>3, <1>4, <1>7, <1>8 DEF bare

\* Of any two songs: every block that was not asked for is there, as it was.
BlocksStand(a, b, kinds) ==
    /\ \A t \in DOMAIN a.blocks \ kinds : t \in DOMAIN b.blocks /\ b.blocks[t] = a.blocks[t]
    /\ DOMAIN b.blocks \subseteq DOMAIN a.blocks

\* `strip` takes what it was given and reports, and what it cuts is a block.
LEMMA StripIs ==
    ASSUME TagsAssumption, IsSong(song), NEW here \in SUBSET TagKinds
    PROVE  LET end == Strip(song, here)
           IN  /\ IsSong(end.song) /\ BlocksStand(song, end.song, here)
               /\ Kept(song, end.song, "lyrics" \in end.done)
<1> DEFINE bare == Unblocked(song, here \ {"lyrics"})
           end == Strip(song, here)
<1>1. /\ IsSong(bare) /\ Behind(bare) = Behind(song) /\ DOMAIN bare.blocks = DOMAIN song.blocks \ (here \ {"lyrics"})
      /\ \A t \in DOMAIN bare.blocks : bare.blocks[t] = song.blocks[t]
    BY UnblockedIs
<1>2. BlocksStand(song, bare, here) /\ BlocksStand(song, song, here)
    BY <1>1 DEF BlocksStand
<1>3. end = IF "lyrics" \notin here \/ Located(bare) = Silent THEN [song |-> bare, done |-> here \ {"lyrics"}]
            ELSE IF Located(bare) = Damaged THEN [song |-> song, done |-> {"damaged"}]
            ELSE [song |-> CutFrom(bare, Located(bare).from), done |-> here]
    BY Zenon DEF Strip
<1> HIDE DEF bare, end
<1>4. CASE "lyrics" \notin here \/ Located(bare) = Silent
  <2>1. end.song = bare /\ end.done = here \ {"lyrics"}
      BY <1>3, <1>4
  <2>2. Kept(song, bare, FALSE)
      BY <1>1, StandsStill
  <2>3. ("lyrics" \in here \ {"lyrics"}) = FALSE
      OBVIOUS
  <2> QED BY <1>1, <1>2, <2>1, <2>2, <2>3 DEF end
<1>5. CASE "lyrics" \in here /\ Located(bare) # Silent /\ Located(bare) = Damaged
  <2>1. end.song = song /\ end.done = {"damaged"}
      BY <1>3, <1>5
  <2>2. Kept(song, song, FALSE)
      BY StandsStill
  <2>3. ("lyrics" \in {"damaged"}) = FALSE
      OBVIOUS
  <2> QED BY <1>2, <2>1, <2>2, <2>3 DEF end
<1>6. CASE "lyrics" \in here /\ Located(bare) # Silent /\ Located(bare) # Damaged
  <2>1. PICK n \in Nat : IsBlockAt(bare, n) /\ Located(bare) = [from |-> n]
      BY <1>1, <1>6, LocatedIs
  <2>2. end.song = CutFrom(bare, n) /\ end.done = here
      BY <1>3, <1>6, <2>1
  <2>3. IsSong(CutFrom(bare, n)) /\ Kept(song, CutFrom(bare, n), TRUE)
      BY <1>1, <2>1, CutIs
  <2>4. CutFrom(bare, n).blocks = bare.blocks
    <3>1. bare = [format |-> bare.format, audio |-> bare.audio, blocks |-> bare.blocks, bytes |-> bare.bytes, claims |-> bare.claims]
        BY <1>1 DEF IsSong
    <3> QED BY <3>1 DEF CutFrom
  <2>5. BlocksStand(song, CutFrom(bare, n), here)
      BY <1>2, <2>4 DEF BlocksStand
  <2>6. ("lyrics" \in here) = TRUE
      BY <1>6
  <2> QED BY <2>2, <2>3, <2>5, <2>6 DEF end
<1> QED BY <1>4, <1>5, <1>6

\* Of the tags a file may have one is listed first.
AllTags == {"id3v2", "vorbis", "ape", "id3v1"}
LEMMA FirstTagIs ==
    ASSUME NEW S \in SUBSET AllTags, S # {}
    PROVE  FirstTag(S) \in S /\ \A u \in S : Rank(FirstTag(S)) <= Rank(u)
<1> DEFINE T == {Rank(t) : t \in S}
<1>1. T \in SUBSET Nat /\ T # {}
    BY DEF AllTags, Rank
<1>2. PICK m \in T : \A k \in T : m <= k
    BY <1>1, Least
<1>3. \E t \in S : \A u \in S : Rank(t) <= Rank(u)
    BY <1>2
<1> QED BY <1>3, Zenon DEF FirstTag

\* A tag's place is its own.
LEMMA RanksDiffer ==
    /\ \A t, u \in AllTags : Rank(t) = Rank(u) => t = u
    /\ \A t \in AllTags : Rank(t) \in Nat
<1>1. Rank("id3v2") = 1 /\ Rank("vorbis") = 2 /\ Rank("ape") = 3 /\ Rank("id3v1") = 4
    BY DEF Rank
<1> QED BY <1>1 DEF AllTags

\* The tag Music Tagger writes is one the format carries.
LEMMA PrimaryIs ==
    ASSUME NEW format, Primary(format) # Silent
    PROVE  Primary(format) \in Carries(format) /\ Primary(format) # "id3v1"
BY DEF Primary, Carries

\* No format carries more than the four.
LEMMA CarriesIs == \A format : Carries(format) \subseteq AllTags
BY DEF Carries, AllTags

\* No two fields have one key, and a trailer's year has none of its own elsewhere.
LEMMA KeysDiffer ==
    /\ \A t : \A f, g \in MusicFields : KeyIn(f, t) = KeyIn(g, t) => f = g
    /\ \A f \in MusicFields : KeyIn(f, "id3v1") # "recording date"
    /\ \A t, f : t # "id3v1" => KeyIn(f, t) = KeyOf(f)
    /\ \A t : \A f \in MusicFields : KeyIn(f, t) = "comment" <=> f = "comment"
BY DEF KeyIn, KeyOf, MusicFields

\* What is asked for or wanted: a field has one value.
AreFields(W) ==
    /\ \A w \in W : w = [field |-> w.field, value |-> w.value] /\ w.field \in MusicFields
    /\ \A v, w \in W : v.field = w.field => v = w

\* What is wanted of the fields is what was asked for, normalised, where the block can hold it.
LEMMA WantedAre ==
    ASSUME NEW W, AreFields(W), NEW type
    PROVE  /\ AreFields(Wanted(W, type))
           /\ \A x \in Wanted(W, type) : x.value # Silent
                 /\ \E w \in W : w.field = x.field /\ x.value = Normalised(w.field, w.value) /\ Writable(w, type)
           /\ \A w \in W : Writable(w, type) =>
                 [field |-> w.field, value |-> Normalised(w.field, w.value)] \in Wanted(W, type)
<1>1. \A x \in Wanted(W, type) : \E w \in W : Writable(w, type) /\ x = [field |-> w.field, value |-> Normalised(w.field, w.value)]
    BY DEF Wanted
<1>2. \A w \in W : Writable(w, type) => Normalised(w.field, w.value) # Silent
    BY Zenon DEF Writable
<1>3. \A w \in W : Writable(w, type) => [field |-> w.field, value |-> Normalised(w.field, w.value)] \in Wanted(W, type)
    BY Zenon DEF Wanted
<1>4. \A x \in Wanted(W, type) : x.value # Silent
          /\ \E w \in W : w.field = x.field /\ x.value = Normalised(w.field, w.value) /\ Writable(w, type)
    BY <1>1, <1>2
<1>5. AreFields(Wanted(W, type))
    BY <1>1 DEF AreFields
<1> QED BY <1>3, <1>4, <1>5

\* What is not under a key of the fields, or is a comment with a description.
Aside(keys, items) == {i \in items : i.key \notin keys \/ (i.key = "comment" /\ i.desc # "")}
KeysOf(W, type) == {KeyIn(w.field, type) : w \in W}

\* `put` leaves that alone, takes no key away, and what it puts is all there is under its key.
LEMMA PutAllIs ==
    ASSUME NEW items, NEW W, AreFields(W), NEW type
    PROVE  LET new == PutAll(items, W, type)
           IN  /\ Aside(KeysOf(W, type), new) = Aside(KeysOf(W, type), items)
               /\ \A i \in items : \E j \in new : i.key = j.key
               /\ \A i \in new : i \in items \/ \E w \in W : i = Item(KeyIn(w.field, type), "", w.value)
               /\ \A w \in W :
                     LET key == KeyIn(w.field, type)
                     IN  /\ Item(key, "", w.value) \in new
                         /\ \A i \in new : i.key = key /\ (key = "comment" => i.desc = "") => i = Item(key, "", w.value)
<1> DEFINE new == PutAll(items, W, type)
           put(w) == Item(KeyIn(w.field, type), "", w.value)
<1>1. \A i : i \in new <=> \/ i \in items /\ \A w \in W : i \notin GivesWay(items, KeyIn(w.field, type))
                           \/ \E w \in W : i = put(w)
    BY DEF PutAll
<1>2. \A i, key : i \in GivesWay(items, key) <=> i \in items /\ i.key = key /\ (key = "comment" => i.desc = "")
    BY DEF GivesWay
<1>3. \A w : put(w).key = KeyIn(w.field, type) /\ put(w).desc = "" /\ put(w).value = w.value
    BY DEF Item
<1>4. \A w \in W : w.field \in MusicFields
    BY DEF AreFields
<1>5. \A v, w \in W : KeyIn(v.field, type) = KeyIn(w.field, type) => v = w
    BY <1>4, KeysDiffer, Zenon DEF AreFields
<1>k. \A k : k \in KeysOf(W, type) <=> \E w \in W : k = KeyIn(w.field, type)
    BY DEF KeysOf
<1> HIDE DEF new, put
<1>6. \A i \in items : \E j \in new : i.key = j.key
  <2> SUFFICES ASSUME NEW i \in items PROVE \E j \in new : i.key = j.key
      OBVIOUS
  <2>1. CASE i \in new
      BY <2>1
  <2>2. CASE i \notin new
    <3>1. PICK w \in W : i \in GivesWay(items, KeyIn(w.field, type))
        BY <1>1, <2>2
    <3> QED BY <1>1, <1>2, <1>3, <3>1, Zenon
  <2> QED BY <2>1, <2>2
<1>7. \A i \in new : i \in items \/ \E w \in W : i = put(w)
    BY <1>1
<1>8. \A w \in W : put(w) \in new
    BY <1>1
<1>9. ASSUME NEW w \in W, NEW i \in new, i.key = KeyIn(w.field, type), i.key = "comment" => i.desc = ""
      PROVE  i = put(w)
  <2>1. i \notin items \/ i \in GivesWay(items, KeyIn(w.field, type))
      BY <1>2, <1>9
  <2>2. PICK v \in W : i = put(v)
      BY <1>1, <2>1
  <2>3. v = w
      BY <1>3, <1>5, <1>9, <2>2, Zenon
  <2> QED BY <2>2, <2>3
<1>10. ASSUME NEW i
       PROVE  i \in Aside(KeysOf(W, type), new) <=> i \in Aside(KeysOf(W, type), items)
  <2> DEFINE Free == i.key \notin KeysOf(W, type) \/ (i.key = "comment" /\ i.desc # "")
  <2>1. \A all : i \in Aside(KeysOf(W, type), all) <=> i \in all /\ Free
      BY DEF Aside
  <2>2. Free => \A w \in W : i # put(w)
      BY <1>3, <1>k
  <2>3. Free => \A w \in W : i \notin GivesWay(items, KeyIn(w.field, type))
      BY <1>2, <1>k
  <2> HIDE DEF Free
  <2> QED BY <1>1, <2>1, <2>2, <2>3, Zenon
<1>11. Aside(KeysOf(W, type), new) = Aside(KeysOf(W, type), items)
    BY <1>10
<1> QED BY <1>6, <1>7, <1>8, <1>9, <1>11, Zenon DEF new, put

\* The block a write starts from is one, and is the file's own where it has it.
LEMMA BaseIs ==
    ASSUME NEW s, IsSong(s), NEW type
    PROVE  IsBlock(Base(s, type)) /\ (type \in DOMAIN s.blocks => Base(s, type) = s.blocks[type])
<1>1. CASE type \in DOMAIN s.blocks
  <2>1. Base(s, type) = s.blocks[type]
      BY <1>1 DEF Base
  <2> QED BY <1>1, <2>1, Zenon DEF IsSong
<1>2. CASE type \notin DOMAIN s.blocks /\ (DOMAIN s.blocks = {} \/ Native(s))
  <2>1. Base(s, type) = EmptyBlock
      BY <1>2, Zenon DEF Base
  <2>2. EmptyBlock = [named |-> EmptyBlock.named, unnamed |-> EmptyBlock.unnamed] /\ EmptyBlock.named = {}
      BY DEF EmptyBlock
  <2> QED BY <1>2, <2>1, <2>2 DEF IsBlock
<1>3. CASE type \notin DOMAIN s.blocks /\ DOMAIN s.blocks # {} /\ ~Native(s)
  <2> DEFINE first == FirstTag(DOMAIN s.blocks)
             seed == [named |-> s.blocks[first].named, unnamed |-> {}]
  <2>1. Base(s, type) = seed
      BY <1>3, Zenon DEF Base
  <2>2. DOMAIN s.blocks \in SUBSET AllTags
      BY CarriesIs DEF IsSong
  <2>3. first \in DOMAIN s.blocks
      BY <1>3, <2>2, FirstTagIs
  <2>4. \A i \in s.blocks[first].named : IsItem(i)
      BY <2>3, Zenon DEF IsSong, IsBlock
  <2>5. seed.named = s.blocks[first].named /\ seed = [named |-> seed.named, unnamed |-> seed.unnamed]
      OBVIOUS
  <2> HIDE DEF seed
  <2> QED BY <1>3, <2>1, <2>4, <2>5, Zenon DEF IsBlock
<1> QED BY <1>1, <1>2, <1>3

\* Items that are put into a block leave it one.
LEMMA PutAllIsABlock ==
    ASSUME NEW b, IsBlock(b), NEW W, AreFields(W), NEW type
    PROVE  LET new == [b EXCEPT !.named = PutAll(@, W, type)]
           IN  IsBlock(new) /\ new.named = PutAll(b.named, W, type) /\ new.unnamed = b.unnamed
<1> DEFINE new == [b EXCEPT !.named = PutAll(@, W, type)]
           all == PutAll(b.named, W, type)
<1>1. b = [named |-> b.named, unnamed |-> b.unnamed] /\ \A i \in b.named : IsItem(i)
    BY DEF IsBlock
<1>2. new = [named |-> new.named, unnamed |-> new.unnamed] /\ new.named = all /\ new.unnamed = b.unnamed
    BY <1>1
<1>3. \A k, v : IsItem(Item(k, "", v))
    BY DEF IsItem, Item
<1>4. \A i \in all : i \in b.named \/ \E w \in W : i = Item(KeyIn(w.field, type), "", w.value)
    BY PutAllIs
<1> HIDE DEF new, all
<1>6. \A i \in all : IsItem(i)
    BY <1>1, <1>3, <1>4
<1>5. IsBlock(new)
    BY <1>2, <1>6, Zenon DEF IsBlock
<1> QED BY <1>2, <1>5 DEF new, all

\* What lofty makes of a trailer's items: the same, where no recording date is among them.
LEMMA TrailerIs ==
    ASSUME NEW b, IsBlock(b), \A i \in b.named : i.key # "recording date", NEW W, AreFields(W)
    PROVE  LET all == PutAll(b.named, W, "id3v1")
           IN  AsTrailer(all) = all /\ \A i \in all : i.key # "recording date"
<1> DEFINE all == PutAll(b.named, W, "id3v1")
<1>1. \A i \in b.named : IsItem(i)
    BY DEF IsBlock
<1>3. \A w \in W : KeyIn(w.field, "id3v1") # "recording date"
    BY KeysDiffer DEF AreFields
<1>4. \A i \in all : i \in b.named \/ \E w \in W : i = Item(KeyIn(w.field, "id3v1"), "", w.value)
    BY PutAllIs
<1> HIDE DEF all
<1>5. \A i \in all : IsItem(i) /\ i.key # "recording date"
  <2> SUFFICES ASSUME NEW i \in all PROVE IsItem(i) /\ i.key # "recording date"
      OBVIOUS
  <2>1. CASE i \in b.named
      BY <1>1, <2>1
  <2>2. ASSUME NEW w \in W, i = Item(KeyIn(w.field, "id3v1"), "", w.value)
        PROVE  IsItem(i) /\ i.key # "recording date"
    <3>1. i.key = KeyIn(w.field, "id3v1")
        BY <2>2 DEF Item
    <3>2. IsItem(i)
        BY <2>2 DEF Item, IsItem
    <3> QED BY <1>3, <3>1, <3>2
  <2> QED BY <1>4, <2>1, <2>2
<1>6. \A i \in all : [i EXCEPT !.key = IF @ = "recording date" THEN "year" ELSE @] = i
  <2> SUFFICES ASSUME NEW i \in all PROVE [i EXCEPT !.key = IF @ = "recording date" THEN "year" ELSE @] = i
      OBVIOUS
  <2>1. i = [key |-> i.key, desc |-> i.desc, value |-> i.value] /\ i.key # "recording date"
      BY <1>5 DEF IsItem, Item
  <2> QED BY <2>1
<1>7. {i \in all : i.key # "recording date"} = all
    BY <1>5
<1>8. {[i EXCEPT !.key = IF @ = "recording date" THEN "year" ELSE @] : i \in all} = all
    BY <1>6, Zenon
<1>9. AsTrailer(all) = all
    BY <1>7, <1>8, Zenon DEF AsTrailer
<1> QED BY <1>5, <1>9 DEF all

\* The song a write leaves: the primary block, the trailer of an MP3 that has one, and the rest.
LEMMA RewrittenIs ==
    ASSUME NEW s, IsSong(s), NEW W, AreFields(W), Primary(s.format) # Silent
    PROVE  LET type == Primary(s.format)
               new  == Rewritten(s, W)
           IN  /\ IsSong(new) /\ new.format = s.format /\ Behind(new) = Behind(s)
               /\ DOMAIN new.blocks = DOMAIN s.blocks \cup {type}
               /\ new.blocks[type].named = PutAll(Base(s, type).named, Wanted(W, type), type)
               /\ new.blocks[type].unnamed = Base(s, type).unnamed
               /\ \A t \in DOMAIN s.blocks \ {type} :
                     IF t = "id3v1" /\ s.format = "mpeg"
                     THEN /\ new.blocks[t].unnamed = s.blocks[t].unnamed
                          /\ new.blocks[t].named = PutAll(s.blocks[t].named, Wanted(W, t), t)
                     ELSE new.blocks[t] = s.blocks[t]
<1> DEFINE type == Primary(s.format)
           new == Rewritten(s, W)
           base == Base(s, type)
           primary == [base EXCEPT !.named = PutAll(@, Wanted(W, type), type)]
           trailer == AsTrailer(PutAll(s.blocks["id3v1"].named, Wanted(W, "id3v1"), "id3v1"))
           old == s.blocks
           own(t) == IF t = type THEN primary
                     ELSE IF t = "id3v1" /\ s.format = "mpeg" THEN [old[t] EXCEPT !.named = trailer]
                     ELSE old[t]
           blocks == [t \in DOMAIN old \cup {type} |-> own(t)]
<1>1. new = [s EXCEPT !.blocks = blocks]
    BY DEF Rewritten
<1>2. s = [format |-> s.format, audio |-> s.audio, blocks |-> s.blocks, bytes |-> s.bytes, claims |-> s.claims]
    BY DEF IsSong
<1>3. IsBlock(primary) /\ primary.named = PutAll(base.named, Wanted(W, type), type) /\ primary.unnamed = base.unnamed
    BY BaseIs, WantedAre, PutAllIsABlock
<1>4. type \in Carries(s.format) /\ type # "id3v1"
    BY PrimaryIs
<1>5. \A t \in DOMAIN old : IsBlock(old[t]) /\ (t = "id3v1" => \A i \in old[t].named : i.key # "recording date")
    BY Zenon DEF IsSong
<1>6. ASSUME "id3v1" \in DOMAIN old
      PROVE  LET changed == [old["id3v1"] EXCEPT !.named = trailer]
             IN  /\ IsBlock(changed) /\ \A i \in changed.named : i.key # "recording date"
                 /\ changed.unnamed = old["id3v1"].unnamed
                 /\ changed.named = PutAll(old["id3v1"].named, Wanted(W, "id3v1"), "id3v1")
  <2> DEFINE b == old["id3v1"]
             all == PutAll(b.named, Wanted(W, "id3v1"), "id3v1")
  <2>1. IsBlock(b) /\ (\A i \in b.named : i.key # "recording date") /\ AreFields(Wanted(W, "id3v1"))
      BY <1>5, <1>6, WantedAre
  <2>2. trailer = all /\ \A i \in all : i.key # "recording date"
      BY <2>1, TrailerIs
  <2>3. [b EXCEPT !.named = trailer] = [b EXCEPT !.named = PutAll(@, Wanted(W, "id3v1"), "id3v1")]
      BY <2>2
  <2>4. LET changed == [b EXCEPT !.named = PutAll(@, Wanted(W, "id3v1"), "id3v1")]
        IN  IsBlock(changed) /\ changed.named = all /\ changed.unnamed = b.unnamed
      BY <2>1, PutAllIsABlock
  <2> QED BY <2>2, <2>3, <2>4, Zenon
<1> HIDE DEF primary, trailer, base, type
<1>7. DOMAIN blocks = DOMAIN old \cup {type} /\ \A t \in DOMAIN blocks : blocks[t] = own(t)
    OBVIOUS
<1>8. blocks[type] = primary
    BY <1>7
<1>9. \A t \in DOMAIN old \ {type} :
         IF t = "id3v1" /\ s.format = "mpeg"
         THEN blocks[t] = [old["id3v1"] EXCEPT !.named = trailer] ELSE blocks[t] = old[t]
    BY <1>7
<1>10. blocks = [t \in DOMAIN blocks |-> blocks[t]]
    OBVIOUS
<1> HIDE DEF blocks, new, own
<1>11. \A t \in DOMAIN blocks :
          IsBlock(blocks[t]) /\ (t = "id3v1" => \A i \in blocks[t].named : i.key # "recording date")
  <2> SUFFICES ASSUME NEW t \in DOMAIN blocks
               PROVE  IsBlock(blocks[t]) /\ (t = "id3v1" => \A i \in blocks[t].named : i.key # "recording date")
      OBVIOUS
  <2>1. CASE t = type
      BY <1>3, <1>4, <1>8, <2>1
  <2>2. CASE t # type /\ t = "id3v1" /\ s.format = "mpeg"
    <3>1. t \in DOMAIN old
        BY <1>7, <2>2
    <3> QED BY <1>6, <1>9, <2>2, <3>1, Zenon
  <2>3. CASE t # type /\ ~(t = "id3v1" /\ s.format = "mpeg")
    <3>1. t \in DOMAIN old /\ blocks[t] = old[t]
        BY <1>7, <1>9, <2>3
    <3> QED BY <1>5, <3>1, Zenon
  <2> QED BY <2>1, <2>2, <2>3
<1>12. /\ new = [format |-> new.format, audio |-> new.audio, blocks |-> new.blocks, bytes |-> new.bytes, claims |-> new.claims]
       /\ new.format = s.format /\ new.blocks = blocks /\ new.bytes = s.bytes /\ new.claims = s.claims
    BY <1>1, <1>2
<1>13. DOMAIN blocks \subseteq Carries(s.format)
    BY <1>4, <1>7 DEF IsSong
<1>14. IsSong(new)
  <2>1. /\ s.bytes \in Seq([k : STRING, size : Nat]) /\ s.claims \in 0..Len(s.bytes)
        /\ \A n \in DOMAIN s.bytes : s.bytes[n].size < V2_BLOCK_MAX
      BY Zenon DEF IsSong
  <2> QED BY <1>10, <1>11, <1>12, <1>13, <2>1, Zenon DEF IsSong
<1>15. Behind(new) = Behind(s)
    BY <1>12, Zenon DEF Behind
<1>16. ASSUME NEW t \in DOMAIN old \ {type}
       PROVE  IF t = "id3v1" /\ s.format = "mpeg"
              THEN /\ new.blocks[t].unnamed = old[t].unnamed
                   /\ new.blocks[t].named = PutAll(old[t].named, Wanted(W, t), t)
              ELSE new.blocks[t] = old[t]
    BY <1>6, <1>9, <1>12, Zenon
<1> QED BY <1>3, <1>7, <1>8, <1>12, <1>14, <1>15, <1>16, Zenon DEF new, type, base

\* Of two numbers that are in order and not apart.
LEMMA NotLess == \A m, n \in Nat : m <= n /\ ~(m < n) => m = n
OBVIOUS

\* The first tag that has a key is the one no tag in front of which has it.
LEMMA ReadsFirst ==
    ASSUME NEW s, IsSong(s), NEW key, NEW type \in DOMAIN s.blocks, NEW it \in s.blocks[type].named, it.key = key,
           \A i \in s.blocks[type].named : i.key = key => i = it,
           \A t \in DOMAIN s.blocks : Rank(t) < Rank(type) => \A i \in s.blocks[t].named : i.key # key
    PROVE  FirstOf(s, key) = it.value
<1> DEFINE all == Bearing(s, key)
           first == FirstTag(all)
<1>1. \A t : t \in all <=> t \in DOMAIN s.blocks /\ \E i \in s.blocks[t].named : i.key = key
    BY DEF Bearing
<1>2. DOMAIN s.blocks \subseteq AllTags
    BY CarriesIs DEF IsSong
<1>3. type \in all /\ all \in SUBSET AllTags
    BY <1>1, <1>2
<1> HIDE DEF all
<1>4. first \in all /\ Rank(first) <= Rank(type)
    BY <1>3, FirstTagIs
<1>5. ~(Rank(first) < Rank(type))
    BY <1>1, <1>4
<1>6. first = type
  <2>1. first \in AllTags /\ type \in AllTags
      BY <1>3, <1>4
  <2> HIDE DEF first
  <2>2. Rank(first) \in Nat /\ Rank(type) \in Nat
      BY <2>1, RanksDiffer
  <2>3. Rank(first) = Rank(type)
      BY <1>4, <1>5, <2>2, NotLess, Zenon
  <2> QED BY <2>1, <2>3, RanksDiffer
<1>7. FirstOf(s, key) = (CHOOSE i \in s.blocks[first].named : i.key = key).value
    BY <1>3, Zenon DEF FirstOf, all
<1> HIDE DEF first
<1>8. (CHOOSE i \in s.blocks[type].named : i.key = key) = it
    BY Zenon
<1> QED BY <1>6, <1>7, <1>8

\* So is the first that has a comment without a description, where one has.
LEMMA ReadsFirstComment ==
    ASSUME NEW s, IsSong(s), NEW type \in DOMAIN s.blocks, NEW it \in s.blocks[type].named,
           it.key = "comment", it.desc = "",
           \A i \in s.blocks[type].named : i.key = "comment" /\ i.desc = "" => i = it,
           \A t \in DOMAIN s.blocks : Rank(t) < Rank(type) =>
               \A i \in s.blocks[t].named : ~(i.key = "comment" /\ i.desc = "")
    PROVE  CommentOf(s) = it.value
<1> DEFINE all == Commented(s, TRUE)
           first == FirstTag(all)
<1>0. \A t : \A i : i \in Comments(s, t, TRUE) <=> i \in s.blocks[t].named /\ i.key = "comment" /\ i.desc = ""
    BY DEF Comments
<1>1. \A t : t \in all <=> t \in DOMAIN s.blocks /\ \E i \in s.blocks[t].named : i.key = "comment" /\ i.desc = ""
    BY <1>0 DEF Commented
<1>2. DOMAIN s.blocks \subseteq AllTags
    BY CarriesIs DEF IsSong
<1>3. type \in all /\ all \in SUBSET AllTags
    BY <1>1, <1>2
<1> HIDE DEF all
<1>4. first \in all /\ Rank(first) <= Rank(type)
    BY <1>3, FirstTagIs
<1>5. ~(Rank(first) < Rank(type))
    BY <1>1, <1>4
<1>6. first = type
  <2>1. first \in AllTags /\ type \in AllTags
      BY <1>3, <1>4
  <2> HIDE DEF first
  <2>2. Rank(first) \in Nat /\ Rank(type) \in Nat
      BY <2>1, RanksDiffer
  <2>3. Rank(first) = Rank(type)
      BY <1>4, <1>5, <2>2, NotLess, Zenon
  <2> QED BY <2>1, <2>3, RanksDiffer
<1>7. Comments(s, type, TRUE) = {it}
    BY <1>0
<1>8. all # {}
    BY <1>3
<1>9. (all # {}) = TRUE
    BY <1>8
<1>10. CommentOf(s) = (CHOOSE i \in Comments(s, first, TRUE) : TRUE).value
    BY <1>8, <1>9 DEF CommentOf, all, first
<1> QED BY <1>6, <1>7, <1>10

\* What was written of a field is what the tags then read, where nothing stands in front.
LEMMA ReadsWritten ==
    ASSUME NEW s, IsSong(s), NEW W, AreFields(W), Primary(s.format) # Silent,
           NEW w \in W, Writable(w, Primary(s.format)), ~Shadowed(Rewritten(s, W), w.field)
    PROVE  Read(Rewritten(s, W), w.field) = Normalised(w.field, w.value)
<1> DEFINE type == Primary(s.format)
           new == Rewritten(s, W)
           field == w.field
           v == Normalised(w.field, w.value)
           key == KeyOf(field)
           it == Item(key, "", v)
           x == [field |-> field, value |-> v]
<1>1. /\ IsSong(new) /\ new.format = s.format /\ DOMAIN new.blocks = DOMAIN s.blocks \cup {type}
      /\ new.blocks[type].named = PutAll(Base(s, type).named, Wanted(W, type), type)
      /\ \A t \in DOMAIN s.blocks \ {type} :
             t = "id3v1" /\ s.format = "mpeg" => new.blocks[t].named = PutAll(s.blocks[t].named, Wanted(W, t), t)
    BY RewrittenIs
<1>2. type # "id3v1" /\ field \in MusicFields
    BY PrimaryIs DEF AreFields
<1>3. \A t \in DOMAIN new.blocks : \A i \in new.blocks[t].named :
          /\ ~(Rank(t) < Rank(type) /\ i.key = key /\ (field = "comment" => i.desc = ""))
          /\ ~(field = "year" /\ i.key = "year" /\ ~(t = "id3v1" /\ new.format = "mpeg"))
    BY <1>1 DEF Shadowed
<1> HIDE DEF new, type
<1>4. ASSUME NEW t, Writable(w, t), NEW items
      PROVE  LET k == KeyIn(field, t)
             IN  /\ Item(k, "", v) \in PutAll(items, Wanted(W, t), t)
                 /\ \A i \in PutAll(items, Wanted(W, t), t) :
                        i.key = k /\ (k = "comment" => i.desc = "") => i = Item(k, "", v)
  <2>1. x \in Wanted(W, t) /\ AreFields(Wanted(W, t))
      BY <1>4, WantedAre
  <2>2. x.field = field /\ x.value = v
      OBVIOUS
  <2> HIDE DEF x, v, field
  <2> QED BY <2>1, <2>2, PutAllIs
<1>5. KeyIn(field, type) = key
    BY <1>2, KeysDiffer
<1>6. Writable(w, type)
    BY DEF type
<1>7. it \in new.blocks[type].named
      /\ \A i \in new.blocks[type].named : i.key = key /\ (key = "comment" => i.desc = "") => i = it
    BY <1>1, <1>4, <1>5, <1>6
<1>8. it.key = key /\ it.desc = "" /\ it.value = v
    BY DEF Item
<1>9. type \in DOMAIN new.blocks
    BY <1>1
<1> HIDE DEF it, v
<1>10. CASE field = "comment"
  <2>1. key = "comment"
      BY <1>10 DEF KeyOf
  <2>a. \A i \in new.blocks[type].named : i.key = "comment" /\ i.desc = "" => i = it
      BY <1>7, <2>1
  <2>b. \A t \in DOMAIN new.blocks : Rank(t) < Rank(type) =>
            \A i \in new.blocks[t].named : ~(i.key = "comment" /\ i.desc = "")
      BY <1>3, <1>10, <2>1
  <2>2. CommentOf(new) = it.value
      BY <1>1, <1>7, <1>8, <1>9, <2>1, <2>a, <2>b, ReadsFirstComment, ZenonT(30)
  <2>3. Read(new, field) = CommentOf(new)
      BY <1>10 DEF Read
  <2> QED BY <1>8, <2>2, <2>3 DEF v, new
<1>11. ASSUME field # "comment"
       PROVE  FirstOf(new, key) = v
  <2>1. key # "comment"
      BY <1>11 DEF KeyOf
  <2>2. \A i \in new.blocks[type].named : i.key = key => i = it
      BY <1>7, <2>1
  <2>3. \A t \in DOMAIN new.blocks : Rank(t) < Rank(type) => \A i \in new.blocks[t].named : i.key # key
      BY <1>3, <1>11
  <2>4. FirstOf(new, key) = it.value
    <3>1. IsSong(new) /\ it \in new.blocks[type].named /\ it.key = key
        BY <1>1, <1>7, <1>8
    <3> HIDE DEF key
    <3> QED BY <3>1, <1>9, <2>2, <2>3, ReadsFirst
  <2> QED BY <1>8, <2>4
<1>12. CASE field = "year" /\ Bearing(new, "year") = {}
  <2>1. Read(new, field) = FirstOf(new, key)
      BY <1>12 DEF Read, KeyOf
  <2> QED BY <1>11, <1>12, <2>1 DEF v, new
<1>13. CASE field = "year" /\ Bearing(new, "year") # {}
  <2>1. Read(new, field) = FirstOf(new, "year")
      BY <1>13 DEF Read
  <2>2. \A t \in DOMAIN new.blocks : \A i \in new.blocks[t].named : i.key = "year" => t = "id3v1" /\ new.format = "mpeg"
      BY <1>3, <1>13
  <2>3. "id3v1" \in DOMAIN new.blocks /\ s.format = "mpeg"
      BY <1>1, <1>13, <2>2 DEF Bearing
  <2>4. "id3v1" \in DOMAIN s.blocks \ {type}
      BY <1>1, <1>2, <2>3
  <2>5. Writable(w, "id3v1")
      BY <1>6, <1>13 DEF Writable, Fits
  <2>6. KeyIn(field, "id3v1") = "year"
      BY <1>13 DEF KeyIn
  <2> DEFINE mine == Item("year", "", v)
  <2>7. mine \in new.blocks["id3v1"].named /\ \A i \in new.blocks["id3v1"].named : i.key = "year" => i = mine
    <3>1. new.blocks["id3v1"].named = PutAll(s.blocks["id3v1"].named, Wanted(W, "id3v1"), "id3v1")
        BY <1>1, <2>3, <2>4
    <3> QED BY <1>4, <2>5, <2>6, <3>1
  <2>8. mine.key = "year" /\ mine.value = v
      BY DEF Item
  <2> HIDE DEF mine
  <2>9. \A t \in DOMAIN new.blocks : Rank(t) < Rank("id3v1") => \A i \in new.blocks[t].named : i.key # "year"
      BY <2>2, RanksDiffer DEF AllTags
  <2>10. FirstOf(new, "year") = mine.value
      BY <1>1, <2>3, <2>7, <2>8, <2>9, ReadsFirst
  <2> QED BY <2>1, <2>8, <2>10 DEF v, new
<1>14. CASE field # "year" /\ field # "comment"
  <2>1. Read(new, field) = FirstOf(new, key)
      BY <1>14 DEF Read, KeyOf
  <2> QED BY <1>11, <1>14, <2>1 DEF v, new
<1> QED BY <1>10, <1>12, <1>13, <1>14

\* A song stays a song: what every step needs, and the next.
TagsInv == IsSong(song) /\ TagsAreKept

\* The property, in the operators of the lemmas.
LEMMA RestIs ==
    /\ SoundIsKept <=> Kept(was, song, "lyrics" \in told)
    /\ \A t, a, b : Alike(t, a, b) <=>
          /\ a.unnamed = b.unnamed
          /\ Aside(KeysOf(Wanted(wrote, t), t), a.named) = Aside(KeysOf(Wanted(wrote, t), t), b.named)
          /\ \A i \in a.named : \E j \in b.named : i.key = j.key
<1>1. SoundIsKept <=> Kept(was, song, "lyrics" \in told)
    BY Zenon DEF SoundIsKept, Kept
<1>2. \A t, b : Untouched(t, b) = Aside(KeysOf(Wanted(wrote, t), t), b.named)
    BY DEF Untouched, Aside, KeysOf
<1> QED BY <1>1, <1>2, Zenon DEF Alike

\* Where nothing was asked for, or the song is what it was, nothing of it is disturbed.
LEMMA StandsAsItWas ==
    ASSUME IsSong(was), song = was, "lyrics" \notin told
    PROVE  TheRestStays
<1>1. Kept(was, song, FALSE)
    BY StandsStill
<1>2. ("lyrics" \in told) = FALSE
    OBVIOUS
<1>3. SoundIsKept
    BY <1>1, <1>2, RestIs, Zenon
<1>4. \A t, a : Alike(t, a, a)
    BY RestIs, Zenon
<1> QED BY <1>3, <1>4 DEF TheRestStays

\* What Remove Tags leaves.
LEMMA RemovingKeeps ==
    ASSUME IsSong(was), wrote = {}, BlocksStand(was, song, stripped), Kept(was, song, "lyrics" \in told)
    PROVE  TheRestStays
<1>1. \A t, a : Alike(t, a, a)
    BY RestIs, Zenon
<1>2. SoundIsKept
    BY RestIs
<1> QED BY <1>1, <1>2 DEF TheRestStays, BlocksStand

\* The part of that a block's neighbours see.
LEMMA PutAllLeaves ==
    ASSUME NEW t, NEW items, NEW W, AreFields(W)
    PROVE  /\ Aside(KeysOf(W, t), PutAll(items, W, t)) = Aside(KeysOf(W, t), items)
           /\ \A i \in items : \E j \in PutAll(items, W, t) : i.key = j.key
BY PutAllIs, ZenonT(30)

\* What Music Tagger leaves.
LEMMA TaggerKeeps ==
    ASSUME IsSong(was), AreFields(wrote), stripped = {}, "lyrics" \notin told,
           Primary(was.format) # Silent, song = Rewritten(was, wrote)
    PROVE  TheRestStays
<1> DEFINE type == Primary(was.format)
<1>1. /\ Behind(song) = Behind(was) /\ DOMAIN song.blocks = DOMAIN was.blocks \cup {type}
      /\ song.blocks[type].named = PutAll(Base(was, type).named, Wanted(wrote, type), type)
      /\ song.blocks[type].unnamed = Base(was, type).unnamed
      /\ \A t \in DOMAIN was.blocks \ {type} :
            IF t = "id3v1" /\ was.format = "mpeg"
            THEN /\ song.blocks[t].unnamed = was.blocks[t].unnamed
                 /\ song.blocks[t].named = PutAll(was.blocks[t].named, Wanted(wrote, t), t)
            ELSE song.blocks[t] = was.blocks[t]
    BY RewrittenIs
<1> HIDE DEF type
<1>2. ASSUME NEW t \in DOMAIN was.blocks,
             song.blocks[t].unnamed = was.blocks[t].unnamed,
             song.blocks[t].named = PutAll(was.blocks[t].named, Wanted(wrote, t), t)
      PROVE  Alike(t, was.blocks[t], song.blocks[t])
  <2>1. AreFields(Wanted(wrote, t))
      BY WantedAre
  <2>2. /\ Aside(KeysOf(Wanted(wrote, t), t), song.blocks[t].named)
           = Aside(KeysOf(Wanted(wrote, t), t), was.blocks[t].named)
        /\ \A i \in was.blocks[t].named : \E j \in song.blocks[t].named : i.key = j.key
    <3> DEFINE items == was.blocks[t].named
               W == Wanted(wrote, t)
    <3>1. song.blocks[t].named = PutAll(items, W, t) /\ AreFields(W)
        BY <1>2, <2>1
    <3> HIDE DEF items, W
    <3>2. Aside(KeysOf(W, t), PutAll(items, W, t)) = Aside(KeysOf(W, t), items)
          /\ \A i \in items : \E j \in PutAll(items, W, t) : i.key = j.key
        BY <3>1, PutAllLeaves
    <3> QED BY <3>1, <3>2 DEF items, W
  <2> QED BY <1>2, <2>2, RestIs, Zenon
<1>3. \A t, a : Alike(t, a, a)
    BY RestIs, Zenon
<1>4. ASSUME NEW t \in DOMAIN was.blocks
      PROVE  t \in DOMAIN song.blocks /\ Alike(t, was.blocks[t], song.blocks[t])
  <2>1. CASE t = type
    <3>1. Base(was, t) = was.blocks[t]
        BY BaseIs
    <3> QED BY <1>1, <1>2, <2>1, <3>1
  <2>2. CASE t # type /\ t = "id3v1" /\ was.format = "mpeg"
      BY <1>1, <1>2, <2>2
  <2>3. CASE t # type /\ ~(t = "id3v1" /\ was.format = "mpeg")
      BY <1>1, <1>3, <2>3
  <2> QED BY <2>1, <2>2, <2>3
<1>5. Kept(was, song, FALSE)
    BY <1>1, StandsStill
<1>6. ("lyrics" \in told) = FALSE
    OBVIOUS
<1>7. SoundIsKept
    BY <1>5, <1>6, RestIs, Zenon
<1> QED BY <1>4, <1>7 DEF TheRestStays

\* What it reports written, and what it then reads.
LEMMA WriteIsRead ==
    ASSUME IsSong(was), AreFields(wrote), Primary(was.format) # Silent, song = Rewritten(was, wrote),
           told = {w.field : w \in Wanted(wrote, Primary(was.format))}
    PROVE  WrittenIsRead
<1> DEFINE type == Primary(was.format)
<1>1. ASSUME NEW w \in wrote, w.field \in told, ~Shadowed(song, w.field)
      PROVE  Read(song, w.field) = Normalised(w.field, w.value)
  <2>1. PICK x \in Wanted(wrote, type) : x.field = w.field
      BY <1>1
  <2>2. PICK v \in wrote : v.field = x.field /\ Writable(v, type)
      BY WantedAre
  <2>3. v = w
      BY <2>1, <2>2 DEF AreFields
  <2> QED BY <1>1, <2>2, <2>3, ReadsWritten
<1> QED BY <1>1 DEF WrittenIsRead

\* The boxes make at most one value of each field.
LEMMA EffectIs ==
    ASSUME TagsAssumption, NEW boxes \in Boxes
    PROVE  AreFields(Effect(boxes))
<1>1. \A w \in Effect(boxes) : \E f \in DOMAIN boxes : w = [field |-> f, value |-> boxes[f]]
    BY DEF Effect
<1>2. DOMAIN boxes \subseteq MusicFields
    BY DEF TagsAssumption
<1> QED BY <1>1, <1>2 DEF AreFields

\* Nothing that is reported written is the lyrics.
LEMMA NoLyrics ==
    ASSUME NEW W, AreFields(W), NEW type
    PROVE  "lyrics" \notin {w.field : w \in Wanted(W, type)}
<1>1. \A w \in Wanted(W, type) : w.field \in MusicFields
    BY WantedAre DEF AreFields
<1>2. "lyrics" \notin MusicFields
    BY DEF MusicFields
<1> QED BY <1>1, <1>2

\* A song that was found is as it was.
LEMMA TagsInitially == TagsAssumption /\ TagsInit => TagsInv
<1> SUFFICES ASSUME TagsAssumption, TagsInit PROVE TagsInv
    OBVIOUS
<1>1. IsSong(song) /\ was = song /\ "lyrics" \notin told /\ wrote = {}
    BY DEF TagsAssumption, TagsInit
<1>2. TheRestStays
    BY <1>1, StandsAsItWas
<1> QED BY <1>1, <1>2 DEF TagsInv, TagsAreKept, WrittenIsRead

\* Of the next state as of this one.
LEMMA AllTheSame ==
    /\ IsSong(was) /\ song = was /\ "lyrics" \notin told => TheRestStays
    /\ IsSong(was) /\ wrote = {} /\ BlocksStand(was, song, stripped) /\ Kept(was, song, "lyrics" \in told) => TheRestStays
    /\ IsSong(was) /\ AreFields(wrote) /\ stripped = {} /\ "lyrics" \notin told
       /\ Primary(was.format) # Silent /\ song = Rewritten(was, wrote) => TheRestStays
    /\ IsSong(was) /\ AreFields(wrote) /\ Primary(was.format) # Silent /\ song = Rewritten(was, wrote)
       /\ told = {w.field : w \in Wanted(wrote, Primary(was.format))} => WrittenIsRead
BY StandsAsItWas, RemovingKeeps, TaggerKeeps, WriteIsRead, Zenon

\* A step that leaves a song as it was, and says of no field that it was written.
LEMMA NothingDone ==
    ASSUME IsSong(song), song' = song, was' = song, "lyrics" \notin told',
           Primary(song.format) = Silent \/ \A w \in wrote' : w.field \notin told'
    PROVE  TagsInv'
<1>0. (IsSong(was) /\ song = was /\ "lyrics" \notin told)'
    BY DEF IsSong
<1>1. TheRestStays'
    BY <1>0, AllTheSame, PTL
<1>2. WrittenIsRead'
    BY DEF WrittenIsRead
<1>3. IsSong(song)'
    BY DEF IsSong
<1> QED BY <1>1, <1>2, <1>3 DEF TagsInv, TagsAreKept

\* Music Tagger, from any song and any boxes.
LEMMA WriteFieldsStep ==
    ASSUME TagsAssumption, TagsInv, NEW boxes \in Boxes, WriteFields(boxes)
    PROVE  TagsInv'
<1> DEFINE W == Effect(boxes)
           type == Primary(song.format)
           wanted == IF type = Silent THEN {} ELSE Wanted(W, type)
<1>1. /\ told' = IF type = Silent THEN {"not audio"} ELSE {w.field : w \in wanted}
      /\ song' = IF wanted = {} THEN song ELSE Rewritten(song, W)
      /\ was' = song /\ wrote' = W /\ stripped' = {}
    BY Zenon DEF WriteFields, Settled
<1>2. AreFields(W) /\ IsSong(song)
    BY EffectIs DEF TagsInv
<1>3. type # Silent => "lyrics" \notin {w.field : w \in wanted}
    BY <1>2, NoLyrics
<1>4. CASE type = Silent
  <2>1. song' = song /\ told' = {"not audio"}
      BY <1>1, <1>4
  <2> QED BY <1>1, <1>2, <1>4, <2>1, NothingDone
<1>5. CASE type # Silent /\ wanted = {}
  <2>1. song' = song /\ told' = {}
      BY <1>1, <1>5
  <2> QED BY <1>1, <1>2, <2>1, NothingDone
<1>6. CASE type # Silent /\ wanted # {}
  <2>1. song' = Rewritten(song, W) /\ told' = {w.field : w \in Wanted(W, type)}
      BY <1>1, <1>6
  <2>2. /\ IsSong(was') /\ AreFields(wrote') /\ stripped' = {} /\ "lyrics" \notin told'
        /\ Primary(was'.format) # Silent /\ song' = Rewritten(was', wrote')
        /\ told' = {w.field : w \in Wanted(wrote', Primary(was'.format))}
    <3> HIDE DEF W
    <3> QED BY <1>1, <1>2, <1>3, <1>6, <2>1
  <2>3. /\ (IsSong(was) /\ AreFields(wrote) /\ stripped = {} /\ "lyrics" \notin told
            /\ Primary(was.format) # Silent /\ song = Rewritten(was, wrote))'
        /\ (IsSong(was) /\ AreFields(wrote) /\ Primary(was.format) # Silent /\ song = Rewritten(was, wrote)
            /\ told = {w.field : w \in Wanted(wrote, Primary(was.format))})'
      BY <2>2
  <2>4. TheRestStays' /\ WrittenIsRead'
      BY <2>3, AllTheSame, PTL
  <2>5. IsSong(song')
      BY <1>2, <1>6, <2>1, RewrittenIs
  <2> QED BY <2>4, <2>5 DEF TagsInv, TagsAreKept
<1> QED BY <1>4, <1>5, <1>6

\* Remove Tags, from any song and any kinds.
LEMMA RemoveTagsStep ==
    ASSUME TagsAssumption, TagsInv, NEW kinds \in Strips, RemoveTags(kinds)
    PROVE  TagsInv'
<1> DEFINE here == {k \in kinds : Present(song, k)}
           Refused == Primary(song.format) = Silent
           Torn == "lyrics" \in kinds /\ song.format = "mpeg" /\ Located(song) = Damaged
<1>1. /\ was' = song /\ wrote' = {} /\ stripped' = kinds
      /\ Refused => song' = song /\ told' = {"not audio"}
      /\ ~Refused /\ Torn => song' = song /\ told' = {"damaged"}
      /\ ~Refused /\ ~Torn => song' = Strip(song, here).song /\ told' = Strip(song, here).done
    BY DEF RemoveTags, Settled
<1>2. IsSong(song) /\ here \in SUBSET TagKinds /\ here \subseteq kinds
    BY DEF TagsInv, TagsAssumption
<1> HIDE DEF here
<1>3. CASE Refused \/ Torn
    BY <1>1, <1>2, <1>3, NothingDone
<1>4. CASE ~Refused /\ ~Torn
  <2>1. IsSong(song') /\ BlocksStand(song, song', here) /\ Kept(song, song', "lyrics" \in told')
      BY <1>1, <1>2, <1>4, StripIs
  <2>2. BlocksStand(song, song', kinds)
      BY <1>2, <2>1 DEF BlocksStand
  <2>3. IsSong(was') /\ wrote' = {} /\ BlocksStand(was', song', stripped') /\ Kept(was', song', "lyrics" \in told')
      BY <1>1, <1>2, <2>1, <2>2
  <2>4. (IsSong(was) /\ wrote = {} /\ BlocksStand(was, song, stripped) /\ Kept(was, song, "lyrics" \in told))'
      BY <2>3
  <2>5. TheRestStays'
      BY <2>4, AllTheSame, PTL
  <2>6. WrittenIsRead'
      BY <1>1 DEF WrittenIsRead
  <2> QED BY <2>1, <2>5, <2>6 DEF TagsInv, TagsAreKept
<1> QED BY <1>3, <1>4

\* Whatever a song is and whatever is asked, in any order and as often as the bound allows: the
\* Music operations write what they report, and take or change nothing they were not asked to
\* (meta/write.rs, meta/lyrics3.rs).  A song stays a song, which is what every step needs.
THEOREM TagsStayKept == TagsSpec => []TagsAreKept
<1>1. TagsInit => TagsInv
    BY TagsAssumption, TagsInitially
<1>2. TagsInv /\ [TagsNext]_tagsVars => TagsInv'
  <2> SUFFICES ASSUME TagsInv, [TagsNext]_tagsVars PROVE TagsInv'
      OBVIOUS
  <2>1. ASSUME NEW boxes \in Boxes, WriteFields(boxes) PROVE TagsInv'
      BY <2>1, TagsAssumption, WriteFieldsStep
  <2>2. ASSUME NEW kinds \in Strips, RemoveTags(kinds) PROVE TagsInv'
      BY <2>2, TagsAssumption, RemoveTagsStep
  <2>3. CASE RefuseLink
    <3>1. song' = song /\ was' = song /\ wrote' = {} /\ told' = {"link"}
        BY <2>3 DEF RefuseLink, Settled
    <3> QED BY <3>1, NothingDone DEF TagsInv
  <2>4. CASE UNCHANGED tagsVars
    <3>1. song' = song /\ told' = told /\ was' = was /\ wrote' = wrote /\ stripped' = stripped
        BY <2>4 DEF tagsVars
    <3>2. SoundIsKept' <=> SoundIsKept
        BY <3>1 DEF SoundIsKept
    <3>3. \A t, a, b : Alike(t, a, b)' <=> Alike(t, a, b)
        BY <3>1 DEF Alike, Untouched
    <3>4. TheRestStays' <=> TheRestStays
        BY <3>1, <3>2, <3>3 DEF TheRestStays
    <3>5. WrittenIsRead' <=> WrittenIsRead
        BY <3>1 DEF WrittenIsRead
    <3> QED BY <3>1, <3>4, <3>5 DEF TagsInv, TagsAreKept
  <2> QED BY <2>1, <2>2, <2>3, <2>4 DEF TagsNext
<1>3. TagsInv => TagsAreKept
    BY DEF TagsInv
<1> QED BY <1>1, <1>2, <1>3, PTL DEF TagsSpec

(***************************************************************************)
(* What is shown of the pipeline, and what is told of it.                  *)
(***************************************************************************)

\* A set that holds zero, and with every number the next one, holds them all.
LEMMA AllNumbers ==
    ASSUME NEW T, 0 \in T, \A n \in Nat : n \in T => n + 1 \in T
    PROVE  \A n \in Nat : n \in T
<1> DEFINE Out == {n \in Nat : n \notin T}
<1> SUFFICES ASSUME Out # {} PROVE FALSE
    OBVIOUS
<1>1. PICK m \in Out : \A k \in Out : m <= k
  <2>1. Out \in SUBSET Nat
      OBVIOUS
  <2> HIDE DEF Out
  <2> QED BY <2>1, Least
<1>2. m \in Nat /\ m \notin T /\ m # 0
    OBVIOUS
<1>3. m - 1 \in Nat /\ (m - 1) + 1 = m /\ ~(m <= m - 1)
    BY <1>2
<1>4. m - 1 \notin Out
  <2> HIDE DEF Out
  <2> QED BY <1>1, <1>3
<1>5. m - 1 \in T
    BY <1>3, <1>4
<1> QED BY <1>2, <1>3, <1>5

\* A row goes through the steps in one way only, and through fewer of them the same way.
LEMMA ThroughIs ==
    ASSUME NEW row, NEW ss
    PROVE  /\ Through(0, row, ss) = [at |-> Arrived(row), ss |-> ss]
           /\ \A n \in Nat : Through(n + 1, row, ss) = TakenOn(n + 1, row, Through(n, row, ss))
<1> DEFINE AtFirst == [at |-> Arrived(row), ss |-> ss]
           To(k, prior) == TakenOn(k, row, prior)
           Comes(m, f) == f = [k \in 0..m |-> IF k = 0 THEN AtFirst ELSE To(k, f[k - 1])]
           T == {m \in Nat : \E f : Comes(m, f)}
<1>0. \A m : Through(m, row, ss) = (CHOOSE f : Comes(m, f))[m]
    BY DEF Through
<1> HIDE DEF AtFirst, To
<1>1. \A n \in Nat : \E f : Comes(n, f)
  <2>1. 0 \in T
    <3> DEFINE f == [k \in 0..0 |-> AtFirst]
    <3>1. Comes(0, f)
        OBVIOUS
    <3> HIDE DEF f, Comes
    <3> QED BY <3>1
  <2>2. ASSUME NEW n \in Nat, n \in T PROVE n + 1 \in T
    <3>1. PICK f : Comes(n, f)
      <4> HIDE DEF Comes
      <4> QED BY <2>2
    <3> DEFINE g == [k \in 0..(n + 1) |-> IF k = n + 1 THEN To(n + 1, f[n]) ELSE f[k]]
    <3>2. \A k \in 0..n : f[k] = IF k = 0 THEN AtFirst ELSE To(k, f[k - 1])
        BY <3>1
    <3>3. \A k \in 0..(n + 1) : g[k] = IF k = 0 THEN AtFirst ELSE To(k, g[k - 1])
      <4> TAKE k \in 0..(n + 1)
      <4>1. CASE k = n + 1
        <5>1. k # 0 /\ k - 1 = n /\ k - 1 \in 0..(n + 1) /\ k - 1 # n + 1
            BY <4>1
        <5>2. g[k] = To(n + 1, f[n]) /\ g[k - 1] = f[n]
            BY <4>1, <5>1
        <5> QED BY <4>1, <5>1, <5>2
      <4>2. CASE k # n + 1
        <5>1. k \in 0..n /\ (k # 0 => k - 1 \in 0..(n + 1) /\ k - 1 # n + 1)
            BY <4>2
        <5>2. g[k] = f[k] /\ (k # 0 => g[k - 1] = f[k - 1])
            BY <4>2, <5>1
        <5> QED BY <3>2, <5>1, <5>2
      <4> QED BY <4>1, <4>2
    <3>4. Comes(n + 1, g)
      <4>1. g = [k \in 0..(n + 1) |-> g[k]]
          OBVIOUS
      <4> HIDE DEF g
      <4> QED BY <3>3, <4>1
    <3> HIDE DEF g, Comes
    <3> QED BY <3>4
  <2>3. \A n \in Nat : n \in T
    <3> HIDE DEF T
    <3> QED BY <2>1, <2>2, AllNumbers
  <2> HIDE DEF Comes
  <2> QED BY <2>3
<1>2. \A n \in Nat : Comes(n, CHOOSE f : Comes(n, f))
  <2> HIDE DEF Comes
  <2> QED BY <1>1
<1>3. ASSUME NEW n \in Nat, NEW f, NEW g, Comes(n, f), Comes(n + 1, g)
      PROVE  \A k \in 0..n : f[k] = g[k]
  <2> DEFINE Agreed == {k \in Nat : k \in 0..n => f[k] = g[k]}
  <2>1. 0 \in Agreed
      BY <1>3
  <2>2. ASSUME NEW k \in Nat, k \in Agreed PROVE k + 1 \in Agreed
    <3> SUFFICES ASSUME k + 1 \in 0..n PROVE f[k + 1] = g[k + 1]
        OBVIOUS
    <3>1. k \in 0..n /\ k + 1 # 0 /\ (k + 1) - 1 = k /\ k + 1 \in 0..(n + 1)
        OBVIOUS
    <3>2. f[k] = g[k]
        BY <2>2, <3>1
    <3>3. f[k + 1] = To(k + 1, f[k]) /\ g[k + 1] = To(k + 1, g[k])
        BY <1>3, <3>1
    <3> QED BY <3>2, <3>3
  <2>3. \A k \in Nat : k \in Agreed
    <3> HIDE DEF Agreed
    <3> QED BY <2>1, <2>2, AllNumbers
  <2> QED BY <2>3
<1>4. Through(0, row, ss) = AtFirst
  <2> DEFINE f == CHOOSE h : Comes(0, h)
  <2>1. Comes(0, f)
    <3> HIDE DEF Comes
    <3> QED BY <1>2
  <2> HIDE DEF f
  <2>2. f[0] = AtFirst
      BY <2>1
  <2>3. Through(0, row, ss) = f[0]
      BY <1>0 DEF f
  <2> QED BY <2>2, <2>3
<1>5. ASSUME NEW n \in Nat PROVE Through(n + 1, row, ss) = To(n + 1, Through(n, row, ss))
  <2> DEFINE f == CHOOSE h : Comes(n, h)
             g == CHOOSE h : Comes(n + 1, h)
  <2>1. Comes(n, f) /\ Comes(n + 1, g)
    <3> HIDE DEF Comes
    <3> QED BY <1>2
  <2> HIDE DEF f, g
  <2>2. f[n] = g[n]
    <3>1. n \in 0..n
        OBVIOUS
    <3> QED BY <1>3, <2>1, <3>1
  <2>3. g[n + 1] = To(n + 1, g[n])
    <3>1. n + 1 \in 0..(n + 1) /\ n + 1 # 0 /\ (n + 1) - 1 = n
        OBVIOUS
    <3> QED BY <2>1, <3>1
  <2>4. Through(n, row, ss) = f[n] /\ Through(n + 1, row, ss) = g[n + 1]
      BY <1>0 DEF f, g
  <2> QED BY <2>2, <2>3, <2>4
<1> QED BY <1>4, <1>5 DEF AtFirst, To
\* So has the replay of them.
LEMMA ReplayIs ==
    ASSUME NEW row
    PROVE  /\ NameBefore(1, row) = [name |-> row.current, failed |-> FALSE]
           /\ \A n \in Nat : NameBefore(n + 2, row) =
                 Replayed(stack[n + 1], row, NameBefore(n + 1, row),
                          SubjectOf(stack[n + 1], row, NameBefore(n + 1, row).name))
<1> DEFINE AtFirst == [name |-> row.current, failed |-> FALSE]
           To(k, prior) == Replayed(stack[k], row, prior, SubjectOf(stack[k], row, prior.name))
           Named0(m) == NameBefore(m + 1, row)
           Comes(m, f) == f = [k \in 0..m |-> IF k = 0 THEN AtFirst ELSE To(k, f[k - 1])]
           T == {m \in Nat : \E f : Comes(m, f)}
<1>0. \A m \in Nat : Named0(m) = (CHOOSE f : Comes(m, f))[m]
  <2> TAKE m \in Nat
  <2>1. (m + 1) - 1 = m
      OBVIOUS
  <2>2. Named0(m) = (CHOOSE f : Comes((m + 1) - 1, f))[(m + 1) - 1]
      BY DEF NameBefore
  <2> HIDE DEF Comes, Named0
  <2> QED BY <2>1, <2>2
<1> HIDE DEF AtFirst, To, Named0
<1>1. \A n \in Nat : \E f : Comes(n, f)
  <2>1. 0 \in T
    <3> DEFINE f == [k \in 0..0 |-> AtFirst]
    <3>1. Comes(0, f)
        OBVIOUS
    <3> HIDE DEF f, Comes
    <3> QED BY <3>1
  <2>2. ASSUME NEW n \in Nat, n \in T PROVE n + 1 \in T
    <3>1. PICK f : Comes(n, f)
      <4> HIDE DEF Comes
      <4> QED BY <2>2
    <3> DEFINE g == [k \in 0..(n + 1) |-> IF k = n + 1 THEN To(n + 1, f[n]) ELSE f[k]]
    <3>2. \A k \in 0..n : f[k] = IF k = 0 THEN AtFirst ELSE To(k, f[k - 1])
        BY <3>1
    <3>3. \A k \in 0..(n + 1) : g[k] = IF k = 0 THEN AtFirst ELSE To(k, g[k - 1])
      <4> TAKE k \in 0..(n + 1)
      <4>1. CASE k = n + 1
        <5>1. k # 0 /\ k - 1 = n /\ k - 1 \in 0..(n + 1) /\ k - 1 # n + 1
            BY <4>1
        <5>2. g[k] = To(n + 1, f[n]) /\ g[k - 1] = f[n]
            BY <4>1, <5>1
        <5> QED BY <4>1, <5>1, <5>2
      <4>2. CASE k # n + 1
        <5>1. k \in 0..n /\ (k # 0 => k - 1 \in 0..(n + 1) /\ k - 1 # n + 1)
            BY <4>2
        <5>2. g[k] = f[k] /\ (k # 0 => g[k - 1] = f[k - 1])
            BY <4>2, <5>1
        <5> QED BY <3>2, <5>1, <5>2
      <4> QED BY <4>1, <4>2
    <3>4. Comes(n + 1, g)
      <4>1. g = [k \in 0..(n + 1) |-> g[k]]
          OBVIOUS
      <4> HIDE DEF g
      <4> QED BY <3>3, <4>1
    <3> HIDE DEF g, Comes
    <3> QED BY <3>4
  <2>3. \A n \in Nat : n \in T
    <3> HIDE DEF T
    <3> QED BY <2>1, <2>2, AllNumbers
  <2> HIDE DEF Comes
  <2> QED BY <2>3
<1>2. \A n \in Nat : Comes(n, CHOOSE f : Comes(n, f))
  <2> HIDE DEF Comes
  <2> QED BY <1>1
<1>3. ASSUME NEW n \in Nat, NEW f, NEW g, Comes(n, f), Comes(n + 1, g)
      PROVE  \A k \in 0..n : f[k] = g[k]
  <2> DEFINE Agreed == {k \in Nat : k \in 0..n => f[k] = g[k]}
  <2>1. 0 \in Agreed
      BY <1>3
  <2>2. ASSUME NEW k \in Nat, k \in Agreed PROVE k + 1 \in Agreed
    <3> SUFFICES ASSUME k + 1 \in 0..n PROVE f[k + 1] = g[k + 1]
        OBVIOUS
    <3>1. k \in 0..n /\ k + 1 # 0 /\ (k + 1) - 1 = k /\ k + 1 \in 0..(n + 1)
        OBVIOUS
    <3>2. f[k] = g[k]
        BY <2>2, <3>1
    <3>3. f[k + 1] = To(k + 1, f[k]) /\ g[k + 1] = To(k + 1, g[k])
        BY <1>3, <3>1
    <3> QED BY <3>2, <3>3
  <2>3. \A k \in Nat : k \in Agreed
    <3> HIDE DEF Agreed
    <3> QED BY <2>1, <2>2, AllNumbers
  <2> QED BY <2>3
<1>4. Named0(0) = AtFirst
  <2> DEFINE f == CHOOSE h : Comes(0, h)
  <2>1. Comes(0, f)
    <3> HIDE DEF Comes
    <3> QED BY <1>2
  <2> HIDE DEF f
  <2>2. f[0] = AtFirst
      BY <2>1
  <2>3. Named0(0) = f[0]
      BY <1>0 DEF f
  <2> QED BY <2>2, <2>3
<1>5. ASSUME NEW n \in Nat PROVE Named0(n + 1) = To(n + 1, Named0(n))
  <2> DEFINE f == CHOOSE h : Comes(n, h)
             g == CHOOSE h : Comes(n + 1, h)
  <2>1. Comes(n, f) /\ Comes(n + 1, g)
    <3> HIDE DEF Comes
    <3> QED BY <1>2
  <2> HIDE DEF f, g
  <2>2. f[n] = g[n]
    <3>1. n \in 0..n
        OBVIOUS
    <3> QED BY <1>3, <2>1, <3>1
  <2>3. g[n + 1] = To(n + 1, g[n])
    <3>1. n + 1 \in 0..(n + 1) /\ n + 1 # 0 /\ (n + 1) - 1 = n
        OBVIOUS
    <3> QED BY <2>1, <3>1
  <2>4. Named0(n) = f[n] /\ Named0(n + 1) = g[n + 1]
      BY <1>0 DEF f, g
  <2> QED BY <2>2, <2>3, <2>4
<1>6. NameBefore(1, row) = AtFirst
    BY <1>4 DEF Named0
<1>7. ASSUME NEW n \in Nat PROVE NameBefore(n + 2, row) = To(n + 1, NameBefore(n + 1, row))
  <2>1. (n + 1) + 1 = n + 2
      OBVIOUS
  <2> QED BY <1>5, <2>1 DEF Named0
<1> QED BY <1>6, <1>7 DEF AtFirst, To
\* So have the rows of the listing, one after the other.
LEMMA ListedIs ==
    /\ Listed(0) = [out |-> Waiting, ss |-> Anew]
    /\ \A n \in Nat : Listed(n + 1) = Evaluated(n + 1, Listed(n).ss)
<1> DEFINE AtFirst == [out |-> Waiting, ss |-> Anew]
           To(k, prior) == Evaluated(k, prior.ss)
           Comes(m, f) == f = [k \in 0..m |-> IF k = 0 THEN AtFirst ELSE To(k, f[k - 1])]
           T == {m \in Nat : \E f : Comes(m, f)}
<1>0. \A m : Listed(m) = (CHOOSE f : Comes(m, f))[m]
    BY DEF Listed
<1> HIDE DEF AtFirst, To
<1>1. \A n \in Nat : \E f : Comes(n, f)
  <2>1. 0 \in T
    <3> DEFINE f == [k \in 0..0 |-> AtFirst]
    <3>1. Comes(0, f)
        OBVIOUS
    <3> HIDE DEF f, Comes
    <3> QED BY <3>1
  <2>2. ASSUME NEW n \in Nat, n \in T PROVE n + 1 \in T
    <3>1. PICK f : Comes(n, f)
      <4> HIDE DEF Comes
      <4> QED BY <2>2
    <3> DEFINE g == [k \in 0..(n + 1) |-> IF k = n + 1 THEN To(n + 1, f[n]) ELSE f[k]]
    <3>2. \A k \in 0..n : f[k] = IF k = 0 THEN AtFirst ELSE To(k, f[k - 1])
        BY <3>1
    <3>3. \A k \in 0..(n + 1) : g[k] = IF k = 0 THEN AtFirst ELSE To(k, g[k - 1])
      <4> TAKE k \in 0..(n + 1)
      <4>1. CASE k = n + 1
        <5>1. k # 0 /\ k - 1 = n /\ k - 1 \in 0..(n + 1) /\ k - 1 # n + 1
            BY <4>1
        <5>2. g[k] = To(n + 1, f[n]) /\ g[k - 1] = f[n]
            BY <4>1, <5>1
        <5> QED BY <4>1, <5>1, <5>2
      <4>2. CASE k # n + 1
        <5>1. k \in 0..n /\ (k # 0 => k - 1 \in 0..(n + 1) /\ k - 1 # n + 1)
            BY <4>2
        <5>2. g[k] = f[k] /\ (k # 0 => g[k - 1] = f[k - 1])
            BY <4>2, <5>1
        <5> QED BY <3>2, <5>1, <5>2
      <4> QED BY <4>1, <4>2
    <3>4. Comes(n + 1, g)
      <4>1. g = [k \in 0..(n + 1) |-> g[k]]
          OBVIOUS
      <4> HIDE DEF g
      <4> QED BY <3>3, <4>1
    <3> HIDE DEF g, Comes
    <3> QED BY <3>4
  <2>3. \A n \in Nat : n \in T
    <3> HIDE DEF T
    <3> QED BY <2>1, <2>2, AllNumbers
  <2> HIDE DEF Comes
  <2> QED BY <2>3
<1>2. \A n \in Nat : Comes(n, CHOOSE f : Comes(n, f))
  <2> HIDE DEF Comes
  <2> QED BY <1>1
<1>3. ASSUME NEW n \in Nat, NEW f, NEW g, Comes(n, f), Comes(n + 1, g)
      PROVE  \A k \in 0..n : f[k] = g[k]
  <2> DEFINE Agreed == {k \in Nat : k \in 0..n => f[k] = g[k]}
  <2>1. 0 \in Agreed
      BY <1>3
  <2>2. ASSUME NEW k \in Nat, k \in Agreed PROVE k + 1 \in Agreed
    <3> SUFFICES ASSUME k + 1 \in 0..n PROVE f[k + 1] = g[k + 1]
        OBVIOUS
    <3>1. k \in 0..n /\ k + 1 # 0 /\ (k + 1) - 1 = k /\ k + 1 \in 0..(n + 1)
        OBVIOUS
    <3>2. f[k] = g[k]
        BY <2>2, <3>1
    <3>3. f[k + 1] = To(k + 1, f[k]) /\ g[k + 1] = To(k + 1, g[k])
        BY <1>3, <3>1
    <3> QED BY <3>2, <3>3
  <2>3. \A k \in Nat : k \in Agreed
    <3> HIDE DEF Agreed
    <3> QED BY <2>1, <2>2, AllNumbers
  <2> QED BY <2>3
<1>4. Listed(0) = AtFirst
  <2> DEFINE f == CHOOSE h : Comes(0, h)
  <2>1. Comes(0, f)
    <3> HIDE DEF Comes
    <3> QED BY <1>2
  <2> HIDE DEF f
  <2>2. f[0] = AtFirst
      BY <2>1
  <2>3. Listed(0) = f[0]
      BY <1>0 DEF f
  <2> QED BY <2>2, <2>3
<1>5. ASSUME NEW n \in Nat PROVE Listed(n + 1) = To(n + 1, Listed(n))
  <2> DEFINE f == CHOOSE h : Comes(n, h)
             g == CHOOSE h : Comes(n + 1, h)
  <2>1. Comes(n, f) /\ Comes(n + 1, g)
    <3> HIDE DEF Comes
    <3> QED BY <1>2
  <2> HIDE DEF f, g
  <2>2. f[n] = g[n]
    <3>1. n \in 0..n
        OBVIOUS
    <3> QED BY <1>3, <2>1, <3>1
  <2>3. g[n + 1] = To(n + 1, g[n])
    <3>1. n + 1 \in 0..(n + 1) /\ n + 1 # 0 /\ (n + 1) - 1 = n
        OBVIOUS
    <3> QED BY <2>1, <3>1
  <2>4. Listed(n) = f[n] /\ Listed(n + 1) = g[n + 1]
      BY <1>0 DEF f, g
  <2> QED BY <2>2, <2>3, <2>4
<1> QED BY <1>4, <1>5 DEF AtFirst, To

\* What the scripts know after n rows.
KnownAfter(n) == Listed(n).ss

LEMMA KnownIs ==
    /\ KnownAfter(0) = Anew
    /\ \A n \in Nat : KnownAfter(n + 1) = Evaluated(n + 1, KnownAfter(n)).ss
BY ListedIs DEF KnownAfter

IsPlace(at) == DOMAIN at = {"name", "actions", "warned", "failed"}

\* A step moves a place to a place, and leaves a script that is not begun as it is.
LEMMA StepKeeps ==
    ASSUME NEW step, NEW k, NEW row, NEW at, NEW subject, NEW session, IsPlace(at)
    PROVE  /\ IsPlace(Stepped(step, k, row, at, subject, session).at)
           /\ session = Idle => Stepped(step, k, row, at, subject, session).session = Idle
<1>1. IsPlace(Acted(step, k, row, at))
  <2>1. CASE SaysNoTag(step.op)
      BY <2>1 DEF Acted, IsPlace
  <2>2. CASE ~SaysNoTag(step.op)
    <3>1. \A effect : IsPlace(Noted(k, at, effect))
        BY DEF Noted, IsPlace
    <3>2. Acted(step, k, row, at) = Noted(k, at, EffectOf(step.op, [row EXCEPT !.current = at.name]))
        BY <2>2 DEF Acted
    <3> QED BY <3>1, <3>2
  <2> QED BY <2>1, <2>2
<1>2. \A made : IsPlace(MovedOn(step, k, at, subject, made).at) /\ MovedOn(step, k, at, subject, made).session = made.session
  <2>1. \A text : IsPlace(Named(step, k, at, subject, text))
      BY DEF Named, IsPlace
  <2> QED BY <2>1 DEF MovedOn
<1>3. \A text : session = Idle => Made(step, row, at, text, session).session = Idle
  <2>1. \A s : session = Idle => Scripted(step.op, session, s).session = Idle
      BY DEF Scripted, Idle
  <2> QED BY <2>1 DEF Made
<1> HIDE DEF IsPlace
<1> QED BY <1>1, <1>2, <1>3 DEF Stepped

\* What each script knows, and what a row through some steps carries along.
AsKnown(ss) == ss = [k \in Steps |-> ss[k]] /\ \A k \in Steps : ~(stack[k].enabled /\ IsLive(stack[k].op)) => ss[k] = Idle
OnItsWay(gone) == IsPlace(gone.at) /\ AsKnown(gone.ss)

\* A step leaves a row somewhere, and what a resting script knows as it was.
LEMMA TakenOnKeeps ==
    ASSUME NEW k, NEW row, NEW gone, OnItsWay(gone)
    PROVE  OnItsWay(TakenOn(k, row, gone))
<1>1. CASE gone.at.failed
    BY <1>1 DEF TakenOn
<1>2. CASE ~gone.at.failed
  <2> DEFINE done == Stepped(stack[k], k, row, gone.at, SubjectOf(stack[k], row, gone.at.name), gone.ss[k])
  <2>1. IsPlace(done.at) /\ (gone.ss[k] = Idle => done.session = Idle)
      BY StepKeeps DEF OnItsWay
  <2>2. TakenOn(k, row, gone) = [at |-> done.at, ss |-> [gone.ss EXCEPT ![k] = done.session]]
      BY <1>2 DEF TakenOn, Onward
  <2> HIDE DEF done
  <2>3. AsKnown([gone.ss EXCEPT ![k] = done.session])
    <3>1. AsKnown(gone.ss)
        BY DEF OnItsWay
    <3> DEFINE prior == gone.ss
               x == done.session
    <3>2. prior = [j \in Steps |-> prior[j]] /\ (prior[k] = Idle => x = Idle)
        BY <2>1, <3>1 DEF AsKnown
    <3> HIDE DEF prior, x
    <3>3. [prior EXCEPT ![k] = x] = [j \in Steps |-> IF j = k THEN x ELSE prior[j]]
        BY <3>2
    <3>4. AsKnown([prior EXCEPT ![k] = x])
      <4>1. \A j \in Steps : ~(stack[j].enabled /\ IsLive(stack[j].op)) => prior[j] = Idle
          BY <3>1 DEF AsKnown, prior
      <4> DEFINE now == [j \in Steps |-> IF j = k THEN x ELSE prior[j]]
      <4>2. now = [j \in Steps |-> now[j]]
          OBVIOUS
      <4>3. \A j \in Steps : now[j] = IF j = k THEN x ELSE prior[j]
          OBVIOUS
      <4> HIDE DEF now
      <4>4. \A j \in Steps : ~(stack[j].enabled /\ IsLive(stack[j].op)) => now[j] = Idle
          BY <3>2, <4>1, <4>3
      <4>5. AsKnown(now)
          BY <4>2, <4>4 DEF AsKnown
      <4> QED BY <3>3, <4>5 DEF now
    <3> QED BY <3>4 DEF prior, x
  <2> QED BY <2>1, <2>2, <2>3 DEF OnItsWay
<1> QED BY <1>1, <1>2

\* So does the whole stack.
LEMMA ThroughKeeps ==
    ASSUME NEW row, NEW ss, AsKnown(ss)
    PROVE  \A n \in Nat : OnItsWay(Through(n, row, ss))
<1> DEFINE T == {n \in Nat : OnItsWay(Through(n, row, ss))}
<1>1. 0 \in T
  <2>1. IsPlace(Arrived(row))
      BY DEF IsPlace, Arrived
  <2>2. OnItsWay([at |-> Arrived(row), ss |-> ss])
      BY <2>1 DEF OnItsWay
  <2> QED BY <2>2, ThroughIs
<1>2. ASSUME NEW n \in Nat, n \in T PROVE n + 1 \in T
  <2>1. OnItsWay(TakenOn(n + 1, row, Through(n, row, ss)))
      BY <1>2, TakenOnKeeps
  <2>2. Through(n + 1, row, ss) = TakenOn(n + 1, row, Through(n, row, ss))
      BY ONLY n \in Nat, ThroughIs, Zenon
  <2>3. n + 1 \in Nat
      OBVIOUS
  <2> QED BY <2>1, <2>2, <2>3
<1>3. \A n \in Nat : n \in T
  <2> HIDE DEF T
  <2> QED BY <1>1, <1>2, AllNumbers
<1> QED BY <1>3

\* A row that is evaluated no longer waits.
LEMMA EvaluatedKeeps ==
    ASSUME NEW i, NEW ss, AsKnown(ss), Len(stack) \in Nat
    PROVE  AsKnown(Evaluated(i, ss).ss) /\ Evaluated(i, ss).out # Waiting
<1> DEFINE done == Through(Len(stack), InRun(i), ss)
<1>1. AsKnown(done.ss)
    BY ThroughKeeps DEF OnItsWay
<1> HIDE DEF done
<1>2. CameOut(done).ss = done.ss
    BY DEF CameOut
<1>3. CameOut(done).out # Waiting
  <2>1. Failed # Waiting
      BY PipelineAssumption
  <2> DEFINE r == [name |-> done.at.name, actions |-> done.at.actions, warned |-> done.at.warned]
  <2>2. r # Waiting
    <3>1. "name" \in DOMAIN r /\ "name" \notin DOMAIN Waiting
        BY DEF Waiting
    <3> HIDE DEF r
    <3> QED BY <3>1
  <2>3. CameOut(done).out = IF done.at.failed THEN Failed ELSE r
      BY DEF CameOut
  <2> HIDE DEF r
  <2> QED BY <2>1, <2>2, <2>3
<1> QED BY <1>1, <1>2, <1>3 DEF Evaluated, done

(***************************************************************************)
(* The rows.                                                               *)
(***************************************************************************)

Resting == [k \in Steps |-> Idle]
IsStack(steps) == steps \in Seq({steps[k] : k \in DOMAIN steps})

\* So far the first n rows are evaluated, and each script knows of those.
InOrder(n) == (\A i \in Order : out[i] # Waiting <=> i <= n) /\ sessions = KnownAfter(n)

\* What is so of the rows, in terms of what the scripts knew before each.
AsListed ==
    /\ \A i \in Order : out[i] # Waiting => out[i] = Evaluated(i, KnownAfter(i - 1)).out
    /\ ~running /\ (\A i \in Order : out[i] # Waiting) => notes = SaidBy(KnownAfter(Len(Rows)))

PipeInv ==
    /\ IsStack(stack)
    /\ running \in BOOLEAN
    /\ out = [i \in Order |-> out[i]]
    /\ AsKnown(sessions)
    /\ ~running => sessions = Resting
    /\ running /\ OrderSensitive => \E n \in 0..Len(Rows) : InOrder(n)
    /\ AsListed

\* The rows and the steps are numbered from 1.
LEMMA RowsAreListed == Rows # <<>> /\ Len(Rows) \in Nat /\ Order = 1..Len(Rows) /\ 1 \in Order
<1>1. Rows # <<>> /\ Len(Rows) \in Nat /\ DOMAIN Rows = 1..Len(Rows) /\ Len(Rows) # 0
    BY PipelineAssumption, LenProperties, EmptySeq
<1> QED BY <1>1 DEF Order

LEMMA StackIsListed == ASSUME IsStack(stack) PROVE Len(stack) \in Nat /\ Steps = 1..Len(stack)
BY LenProperties DEF IsStack, Steps

\* What the scripts know when a run begins, and nothing where no script is live.
LEMMA AnewIsKnown == AsKnown(Anew) /\ (~OrderSensitive => Anew = Resting)
<1>1. \A k \in Steps : ~(stack[k].enabled /\ IsLive(stack[k].op)) => Anew[k] = Idle
    BY DEF Anew, Session
<1>2. Anew = [k \in Steps |-> Anew[k]]
    BY DEF Anew
<1>3. AsKnown(Anew)
    BY <1>1, <1>2 DEF AsKnown
<1>4. ASSUME ~OrderSensitive PROVE Anew = Resting
  <2>1. \A k \in Steps : Anew[k] = Idle
      BY <1>1, <1>4 DEF OrderSensitive
  <2> QED BY <1>2, <2>1 DEF Resting
<1> QED BY <1>3, <1>4

\* With no script that lives, nothing is ever known.
LEMMA NothingKnown == ASSUME NEW ss, AsKnown(ss), ~OrderSensitive PROVE ss = Resting
<1>1. \A k \in Steps : ss[k] = Idle
    BY DEF AsKnown, OrderSensitive
<1>2. ss = [k \in Steps |-> ss[k]]
    BY DEF AsKnown
<1> QED BY <1>1, <1>2 DEF Resting

\* They know it of steps of the stack, whatever rows have gone by.
LEMMA KnownKeeps == ASSUME IsStack(stack) PROVE \A n \in Nat : AsKnown(KnownAfter(n))
<1> DEFINE T == {n \in Nat : AsKnown(KnownAfter(n))}
<1>1. 0 \in T
    BY KnownIs, AnewIsKnown
<1>2. ASSUME NEW n \in Nat, n \in T PROVE n + 1 \in T
  <2>1. AsKnown(Evaluated(n + 1, KnownAfter(n)).ss)
      BY <1>2, StackIsListed, EvaluatedKeeps
  <2>2. n + 1 \in Nat /\ KnownAfter(n + 1) = Evaluated(n + 1, KnownAfter(n)).ss
      BY KnownIs
  <2> QED BY <2>1, <2>2
<1>3. \A n \in Nat : n \in T
  <2> HIDE DEF T
  <2> QED BY <1>1, <1>2, AllNumbers
<1> QED BY <1>3

\* Every stack there can be is one.
LEMMA PipeTyped == ASSUME stack \in Stacks PROVE IsStack(stack)
BY PipelineAssumption DEF IsStack

\* The invariant, action by action.
LEMMA PipeInit == Init => PipeInv
<1> SUFFICES ASSUME Init PROVE PipeInv
    OBVIOUS
<1>1. IsStack(stack) /\ running = FALSE /\ sessions = Resting /\ out = [i \in Order |-> Waiting]
    BY PipeTyped DEF Init, Resting
<1>2. out = [i \in Order |-> out[i]] /\ \A i \in Order : out[i] = Waiting
    BY <1>1
<1>3. AsKnown(sessions)
    BY <1>1 DEF AsKnown, Resting
<1>4. AsListed
    BY <1>2, RowsAreListed DEF AsListed
<1> QED BY <1>1, <1>2, <1>3, <1>4 DEF PipeInv


\* While the stack is the same, a row goes through it the same way.
LEMMA SameTaken ==
    ASSUME stack' = stack, NEW k, NEW row, NEW gone
    PROVE  TakenOn(k, row, gone)' = TakenOn(k, row, gone)
BY DEF TakenOn

\* What is worked out from the stack is as it was while the stack is.
LEMMA SameThrough ==
    ASSUME stack' = stack, NEW n, NEW row, NEW ss
    PROVE  Through(n, row, ss)' = Through(n, row, ss)
<1> DEFINE P(f) == f = [k \in 0..n |-> IF k = 0 THEN [at |-> Arrived(row), ss |-> ss] ELSE TakenOn(k, row, f[k - 1])]
           Q(f) == f = [k \in 0..n |-> IF k = 0 THEN [at |-> Arrived(row), ss |-> ss] ELSE TakenOn(k, row, f[k - 1])']
<1>1. \A k, g : TakenOn(k, row, g)' = TakenOn(k, row, g)
    BY SameTaken
<1>2. \A f : P(f) <=> Q(f)
    BY <1>1
<1>3. Through(n, row, ss) = (CHOOSE f : P(f))[n]
    BY DEF Through
<1>4. Through(n, row, ss)' = (CHOOSE f : Q(f))[n]
    BY DEF Through
<1> HIDE DEF P, Q
<1>5. (CHOOSE f : P(f)) = (CHOOSE f : Q(f))
    BY <1>2
<1> QED BY <1>3, <1>4, <1>5

LEMMA SameRow == ASSUME stack' = stack, NEW i PROVE InRun(i)' = InRun(i)
<1>1. StackAsks' = StackAsks /\ StackNeeds' = StackNeeds
    BY DEF StackAsks, StackNeeds, Steps
<1> QED BY <1>1 DEF InRun

LEMMA SameEvaluated ==
    ASSUME stack' = stack, NEW i, NEW ss
    PROVE  Evaluated(i, ss)' = Evaluated(i, ss)
<1>1. InRun(i)' = InRun(i)
    BY SameRow
<1>2. Through(Len(stack), InRun(i), ss)' = Through(Len(stack), InRun(i), ss)
  <2>1. \A n, row : Through(n, row, ss)' = Through(n, row, ss)
      BY SameThrough
  <2> QED BY <1>1, <2>1
<1> QED BY <1>2 DEF Evaluated, CameOut

LEMMA SameListed ==
    ASSUME stack' = stack, NEW n
    PROVE  Listed(n)' = Listed(n)
<1> DEFINE P(f) == f = [i \in 0..n |-> IF i = 0 THEN [out |-> Waiting, ss |-> Anew] ELSE Evaluated(i, f[i - 1].ss)]
           Q(f) == f = [i \in 0..n |-> IF i = 0 THEN [out |-> Waiting, ss |-> Anew'] ELSE Evaluated(i, f[i - 1].ss)']
<1>1. Anew' = Anew /\ \A i, ss : Evaluated(i, ss)' = Evaluated(i, ss)
    BY SameEvaluated DEF Anew, Steps
<1>2. \A f : P(f) <=> Q(f)
    BY <1>1
<1>3. Listed(n) = (CHOOSE f : P(f))[n]
    BY DEF Listed
<1>4. Listed(n)' = (CHOOSE f : Q(f))[n]
    BY DEF Listed
<1> HIDE DEF P, Q
<1>5. (CHOOSE f : P(f)) = (CHOOSE f : Q(f))
    BY <1>2
<1> QED BY <1>3, <1>4, <1>5

LEMMA SameKnown ==
    ASSUME stack' = stack, NEW n
    PROVE  KnownAfter(n)' = KnownAfter(n)
BY SameListed DEF KnownAfter

LEMMA PipeBegin == PipeInv /\ BeginRun => PipeInv'
<1> SUFFICES ASSUME PipeInv, BeginRun PROVE PipeInv'
    OBVIOUS
<1>1. /\ ~running /\ running' = TRUE /\ out' = [i \in Order |-> Waiting] /\ stack' = stack
      /\ sessions' = [k \in Steps |-> IF OrderSensitive /\ stack[k].enabled /\ IsScript(stack[k].op)
                                      THEN Session(stack[k].op) ELSE sessions[k]]
    BY DEF BeginRun
<1>2. IsStack(stack) /\ sessions = Resting
    BY <1>1 DEF PipeInv
<1>3. out' = [i \in Order |-> out'[i]] /\ \A i \in Order : out'[i] = Waiting
    BY <1>1
<1>4. sessions' = Anew
  <2>1. CASE OrderSensitive
      BY <1>1, <1>2, <2>1 DEF Anew, Resting
  <2>2. CASE ~OrderSensitive
    <3>1. sessions' = Resting
        BY <1>1, <1>2, <2>2 DEF Resting
    <3> QED BY <2>2, <3>1, AnewIsKnown
  <2> QED BY <2>1, <2>2
<1>5. AsKnown(sessions)'
    BY <1>1, <1>4, AnewIsKnown DEF AsKnown, Steps
<1>6. AsListed'
    BY <1>1, <1>3 DEF AsListed
<1>7. InOrder(0)'
  <2>1. KnownAfter(0)' = Anew'
    <3>1. KnownAfter(0)' = KnownAfter(0)
        BY <1>1, SameKnown
    <3>2. KnownAfter(0) = Anew
        BY KnownIs
    <3>3. Anew' = Anew
        BY <1>1 DEF Anew, Steps
    <3> QED BY <3>1, <3>2, <3>3
  <2>2. Anew' = Anew
      BY <1>1 DEF Anew, Steps
  <2>3. \A i \in Order : ~(i <= 0)
      BY RowsAreListed
  <2> QED BY <1>3, <1>4, <2>1, <2>2, <2>3 DEF InOrder
<1>8. \E n \in 0..Len(Rows) : InOrder(n)'
  <2>1. 0 \in 0..Len(Rows)
      BY RowsAreListed
  <2> QED BY <1>7, <2>1
<1> QED BY <1>1, <1>2, <1>3, <1>5, <1>6, <1>8 DEF PipeInv

LEMMA PipeRow == ASSUME NEW i \in Order, PipeInv, Row(i) PROVE PipeInv'
<1>1. /\ running /\ out[i] = Waiting /\ UNCHANGED <<stack, running, notes>>
      /\ OrderSensitive => \A j \in 1..(i - 1) : out[j] # Waiting
      /\ out' = [out EXCEPT ![i] = Evaluated(i, sessions).out]
      /\ sessions' = Evaluated(i, sessions).ss
    BY DEF Row
<1>2. /\ IsStack(stack) /\ out = [j \in Order |-> out[j]] /\ AsKnown(sessions)
      /\ OrderSensitive => \E n \in 0..Len(Rows) : InOrder(n)
      /\ \A j \in Order : out[j] # Waiting => out[j] = Evaluated(j, KnownAfter(j - 1)).out
    BY <1>1 DEF PipeInv, AsListed
<1>3. Order = 1..Len(Rows) /\ Len(Rows) \in Nat /\ i - 1 \in Nat /\ (i - 1) + 1 = i /\ i \in 0..Len(Rows)
    BY RowsAreListed
<1>4. /\ OrderSensitive => InOrder(i - 1)
      /\ sessions = KnownAfter(i - 1)
  <2>1. CASE OrderSensitive
    <3>1. PICK n \in 0..Len(Rows) : InOrder(n)
        BY <1>2, <2>1
    <3>2. (\A j \in Order : out[j] # Waiting <=> j <= n) /\ sessions = KnownAfter(n)
        BY <3>1 DEF InOrder
    <3>3. ~(i <= n)
        BY <1>1, <3>2
    <3>4. i = 1 \/ (i - 1 \in Order /\ i - 1 \in 1..(i - 1))
        BY <1>3
    <3>5. i = 1 \/ i - 1 <= n
        BY <1>1, <2>1, <3>2, <3>4
    <3>6. n = i - 1
        BY <1>3, <3>3, <3>5
    <3> QED BY <3>1, <3>2, <3>6
  <2>2. CASE ~OrderSensitive
    <3>1. AsKnown(KnownAfter(i - 1))
        BY <1>2, <1>3, KnownKeeps
    <3> QED BY <1>2, <2>2, <3>1, NothingKnown
  <2> QED BY <2>1, <2>2
<1>5. AsKnown(sessions') /\ Evaluated(i, sessions).out # Waiting
    BY <1>1, <1>2, StackIsListed, EvaluatedKeeps
<1>6. AsKnown(sessions)'
    BY <1>1, <1>5 DEF AsKnown, Steps
<1>7. /\ out' = [j \in Order |-> out'[j]]
      /\ out'[i] = Evaluated(i, sessions).out
      /\ \A j \in Order : j # i => out'[j] = out[j]
    BY <1>1, <1>2
<1>8. \A n : KnownAfter(n)' = KnownAfter(n)
    BY <1>1, SameKnown
<1>9. AsListed'
  <2>1. \A j, ss : Evaluated(j, ss)' = Evaluated(j, ss)
      BY <1>1, SameEvaluated
  <2>2. \A j \in Order : out'[j] # Waiting => out'[j] = Evaluated(j, KnownAfter(j - 1)).out
      BY <1>2, <1>4, <1>7
  <2> QED BY <1>1, <1>8, <2>1, <2>2 DEF AsListed
<1>10. OrderSensitive' => InOrder(i)'
  <2> SUFFICES ASSUME OrderSensitive' PROVE InOrder(i)'
      OBVIOUS
  <2>1. OrderSensitive
      BY <1>1 DEF OrderSensitive, Steps
  <2>2. \A j \in Order : out[j] # Waiting <=> j <= i - 1
      BY <1>4, <2>1 DEF InOrder
  <2>3. \A j \in Order : out'[j] # Waiting <=> j <= i
    <3> TAKE j \in Order
    <3>1. j <= i <=> (j <= i - 1 \/ j = i)
        BY <1>3
    <3> QED BY <1>5, <1>7, <2>2, <3>1
  <2>4. sessions' = KnownAfter(i)
      BY <1>1, <1>3, <1>4, KnownIs
  <2> QED BY <1>8, <2>3, <2>4 DEF InOrder
<1> QED BY <1>1, <1>2, <1>3, <1>6, <1>7, <1>9, <1>10 DEF PipeInv, IsStack

LEMMA PipeEnd == PipeInv /\ EndRun => PipeInv'
<1> SUFFICES ASSUME PipeInv, EndRun PROVE PipeInv'
    OBVIOUS
<1>1. /\ running /\ running' = FALSE /\ UNCHANGED <<stack, out>> /\ notes' = SaidBy(sessions)
      /\ \A i \in Order : out[i] # Waiting
      /\ sessions' = [k \in Steps |-> IF stack[k].enabled THEN Idle ELSE sessions[k]]
    BY DEF EndRun
<1>2. /\ IsStack(stack) /\ out = [j \in Order |-> out[j]] /\ AsKnown(sessions)
      /\ OrderSensitive => \E n \in 0..Len(Rows) : InOrder(n)
      /\ \A j \in Order : out[j] # Waiting => out[j] = Evaluated(j, KnownAfter(j - 1)).out
    BY <1>1 DEF PipeInv, AsListed
<1>3. Order = 1..Len(Rows) /\ Len(Rows) \in Nat /\ Len(Rows) \in Order
    BY RowsAreListed
<1>4. sessions' = Resting
  <2>1. \A k \in Steps : ~stack[k].enabled => sessions[k] = Idle
      BY <1>2 DEF AsKnown
  <2> QED BY <1>1, <2>1 DEF Resting
<1>5. sessions = KnownAfter(Len(Rows))
  <2>1. CASE OrderSensitive
    <3>1. PICK n \in 0..Len(Rows) : InOrder(n)
        BY <1>2, <2>1
    <3>2. Len(Rows) <= n /\ sessions = KnownAfter(n)
        BY <1>1, <1>3, <3>1 DEF InOrder
    <3>3. n = Len(Rows)
        BY <1>3, <3>2
    <3> QED BY <3>2, <3>3
  <2>2. CASE ~OrderSensitive
    <3>1. AsKnown(KnownAfter(Len(Rows)))
        BY <1>2, <1>3, KnownKeeps
    <3> QED BY <1>2, <2>2, <3>1, NothingKnown
  <2> QED BY <2>1, <2>2
<1>6. AsListed'
  <2>1. \A j, ss : Evaluated(j, ss)' = Evaluated(j, ss)
      BY <1>1, SameEvaluated
  <2>2. \A n : KnownAfter(n)' = KnownAfter(n)
      BY <1>1, SameKnown
  <2>3. \A ss : SaidBy(ss)' = SaidBy(ss)
      BY <1>1 DEF SaidBy, Steps
  <2>4. notes' = SaidBy(KnownAfter(Len(Rows)))
      BY <1>1, <1>5
  <2> QED BY <1>1, <1>2, <2>1, <2>2, <2>3, <2>4 DEF AsListed
<1>7. AsKnown(sessions)' /\ Resting' = Resting
    BY <1>1, <1>4 DEF AsKnown, Resting, Steps
<1> QED BY <1>1, <1>2, <1>4, <1>6, <1>7 DEF PipeInv, IsStack

LEMMA PipeEdit == PipeInv /\ EditStack => PipeInv'
<1> SUFFICES ASSUME PipeInv, EditStack PROVE PipeInv'
    OBVIOUS
<1>1. /\ ~running /\ running' = running /\ stack' \in Stacks
      /\ sessions' = [k \in DOMAIN stack' |-> Idle] /\ out' = [i \in Order |-> Waiting]
    BY DEF EditStack
<1>2. out' = [j \in Order |-> out'[j]] /\ \A j \in Order : out'[j] = Waiting
    BY <1>1
<1>3. IsStack(stack') /\ sessions' = Resting' /\ AsKnown(sessions)'
    BY <1>1, PipelineAssumption DEF IsStack, Resting, AsKnown, Steps
<1>4. AsListed'
    BY <1>2, RowsAreListed DEF AsListed
<1> QED BY <1>1, <1>2, <1>3, <1>4 DEF PipeInv

LEMMA PipeStutter == PipeInv /\ UNCHANGED vars => PipeInv'
<1> SUFFICES ASSUME PipeInv, UNCHANGED vars PROVE PipeInv'
    OBVIOUS
<1>1. UNCHANGED <<stack, sessions, out, running, notes>>
    BY DEF vars
<1>2. /\ \A j, ss : Evaluated(j, ss)' = Evaluated(j, ss)
      /\ \A n : KnownAfter(n)' = KnownAfter(n)
      /\ \A ss : SaidBy(ss)' = SaidBy(ss)
    BY <1>1, SameEvaluated, SameKnown DEF SaidBy, Steps
<1>3. AsListed'
    BY <1>1, <1>2 DEF PipeInv, AsListed
<1>4. \A n : InOrder(n) => InOrder(n)'
    BY <1>1, <1>2 DEF InOrder
<1>5. OrderSensitive' = OrderSensitive /\ Resting' = Resting /\ (AsKnown(sessions) => AsKnown(sessions)')
    BY <1>1 DEF OrderSensitive, Resting, AsKnown, Steps
<1> QED BY <1>1, <1>3, <1>4, <1>5 DEF PipeInv, IsStack

LEMMA PipeNext == PipeInv /\ [Next]_vars => PipeInv'
BY PipeBegin, PipeRow, PipeEnd, PipeEdit, PipeStutter DEF Next

LEMMA PipeInductive == Spec => []PipeInv
BY PipeInit, PipeNext, PTL DEF Spec

(***************************************************************************)
(* The cards.                                                              *)
(***************************************************************************)

\* The replay stands where the row has come to.
Alongside(so, at) == so = [name |-> at.name, failed |-> at.failed]

\* A step the replay can follow takes it where it takes the row.
LEMMA StepIsReplayed ==
    ASSUME NEW step, NEW k, NEW row, NEW at, NEW so, NEW subject, NEW session,
           IsPlace(at), Alongside(so, at), ~at.failed,
           step.enabled /\ IsScript(step.op) => session = Idle,
           ~(IsAction(step.op) /\ SaysNoTag(step.op))
    PROVE  Alongside(Replayed(step, row, so, subject), Stepped(step, k, row, at, subject, session).at)
<1>1. so.name = at.name /\ so.failed = at.failed
    BY DEF Alongside
<1>2. CASE ~PassesGate(step, row, at.name)
    BY <1>1, <1>2 DEF Replayed, Stepped
<1>3. CASE PassesGate(step, row, at.name) /\ IsAction(step.op)
  <2>1. Replayed(step, row, so, subject) = so
      BY <1>3 DEF Replayed
  <2>2. Stepped(step, k, row, at, subject, session).at = Noted(k, at, EffectOf(step.op, [row EXCEPT !.current = at.name]))
      BY <1>3 DEF Stepped, Acted
  <2>3. \A effect : Noted(k, at, effect).name = at.name /\ Noted(k, at, effect).failed = at.failed
      BY DEF Noted, IsPlace
  <2> QED BY <2>1, <2>2, <2>3 DEF Alongside
<1>4. CASE PassesGate(step, row, at.name) /\ ~IsAction(step.op) /\ subject = None
    BY <1>4 DEF Replayed, Stepped
<1>5. CASE PassesGate(step, row, at.name) /\ ~IsAction(step.op) /\ subject # None
  <2> DEFINE text == Active(subject)
             made == Made(step, row, at, text, session)
  <2>1. Stepped(step, k, row, at, subject, session).at = Named(step, k, at, subject, made.text)
      BY <1>5 DEF Stepped, MovedOn
  <2> HIDE DEF text
  <2>2. CASE IsScript(step.op)
    <3>1. step.enabled
        BY <1>5 DEF PassesGate
    <3>2. made.text = text
        BY <2>2, <3>1 DEF Made, Scripted, Idle
    <3>3. Named(step, k, at, subject, text).name = at.name /\ Named(step, k, at, subject, text).failed = at.failed
        BY DEF Named, IsPlace, text
    <3>4. Replayed(step, row, so, subject) = so
        BY <2>2 DEF Replayed
    <3> HIDE DEF made
    <3> QED BY <2>1, <3>2, <3>3, <3>4 DEF Alongside
  <2>3. CASE ~IsScript(step.op)
    <3> DEFINE said == Applied(step.op, text, [row EXCEPT !.current = at.name])
    <3>1. made.text = said
        BY <2>3 DEF Made
    <3>2. Replayed(step, row, so, subject) = Back(so, subject, said)
        BY <1>1, <1>5, <2>3 DEF Replayed, text
    <3> HIDE DEF said, made
    <3>3. Alongside(Back(so, subject, said), Named(step, k, at, subject, said))
        BY DEF Alongside, Back, Named, IsPlace
    <3> QED BY <2>1, <3>1, <3>2, <3>3
  <2> QED BY <2>2, <2>3
<1> QED BY <1>2, <1>3, <1>4, <1>5

\* So at each card the replay is where the row was handed over.
LEMMA ShownAsHanded ==
    ASSUME NEW row, NEW ss, AsKnown(ss), NEW k \in Nat, 1..k \subseteq Steps,
           \A j \in 1..k : ~(stack[j].enabled /\ IsLive(stack[j].op)),
           \A j \in 1..k : ~(IsAction(stack[j].op) /\ SaysNoTag(stack[j].op))
    PROVE  Alongside(NameBefore(k + 1, row), Through(k, row, ss).at)
<1> DEFINE Is(n) == Alongside(NameBefore(n + 1, row), Through(n, row, ss).at)
           T == {n \in Nat : n <= k => Is(n)}
<1>1. 0 \in T
  <2>1. Through(0, row, ss) = [at |-> Arrived(row), ss |-> ss]
      BY ONLY ThroughIs, Zenon
  <2>2. NameBefore(1, row) = [name |-> row.current, failed |-> FALSE] /\ 0 + 1 = 1
      BY ReplayIs
  <2>3. Alongside([name |-> row.current, failed |-> FALSE], Arrived(row))
      BY DEF Alongside, Arrived
  <2>4. Alongside(NameBefore(1, row), Through(0, row, ss).at)
    <3>1. Through(0, row, ss).at = Arrived(row)
        BY <2>1
    <3>2. NameBefore(1, row) = [name |-> row.current, failed |-> FALSE]
        BY <2>2
    <3> QED BY ONLY <2>3, <3>1, <3>2, Zenon
  <2>5. Is(0)
      BY <2>2, <2>4
  <2> HIDE DEF Is
  <2> QED BY <2>5
<1>2. ASSUME NEW n \in Nat, n \in T PROVE n + 1 \in T
  <2> SUFFICES ASSUME n + 1 <= k PROVE Is(n + 1)
      OBVIOUS
  <2>1. n + 1 \in 1..k /\ n + 1 \in Steps /\ Is(n)
      BY <1>2
  <2> DEFINE j == n + 1
             gone == Through(n, row, ss)
             so == NameBefore(n + 1, row)
  <2>2. Alongside(so, gone.at)
      BY <2>1
  <2>3. OnItsWay(gone)
      BY ThroughKeeps
  <2>4. Through(n + 1, row, ss) = TakenOn(j, row, gone)
      BY ONLY n \in Nat, ThroughIs, Zenon DEF j, gone
  <2>5. NameBefore((n + 1) + 1, row) = Replayed(stack[j], row, so, SubjectOf(stack[j], row, so.name))
    <3>1. (n + 1) + 1 = n + 2
        OBVIOUS
    <3> QED BY <3>1, ReplayIs
  <2> HIDE DEF gone, so, j
  <2>6. so.name = gone.at.name /\ so.failed = gone.at.failed
      BY <2>2 DEF Alongside
  <2>7. Alongside(Replayed(stack[j], row, so, SubjectOf(stack[j], row, so.name)), TakenOn(j, row, gone).at)
    <3>1. CASE gone.at.failed
        BY <2>2, <2>6, <3>1 DEF Replayed, TakenOn
    <3>2. CASE ~gone.at.failed
      <4> DEFINE subject == SubjectOf(stack[j], row, gone.at.name)
      <4>1. TakenOn(j, row, gone).at = Stepped(stack[j], j, row, gone.at, subject, gone.ss[j]).at
          BY <3>2 DEF TakenOn, Onward
      <4>2. j \in Steps /\ ~(stack[j].enabled /\ IsLive(stack[j].op)) /\ ~(IsAction(stack[j].op) /\ SaysNoTag(stack[j].op))
          BY <2>1 DEF j
      <4>3. gone.ss[j] = Idle /\ IsPlace(gone.at)
          BY <2>3, <4>2 DEF OnItsWay, AsKnown
      <4>4. SubjectOf(stack[j], row, so.name) = subject
          BY <2>6
      <4> HIDE DEF subject
      <4> QED BY <2>2, <3>2, <4>1, <4>2, <4>3, <4>4, StepIsReplayed
    <3> QED BY <3>1, <3>2
  <2> QED BY <2>4, <2>5, <2>7
<1>3. \A n \in Nat : n \in T
  <2> HIDE DEF T
  <2> QED BY <1>1, <1>2, AllNumbers
<1> QED BY <1>3

\* What a card shows is what its step was handed.
LEMMA CardsAreTrue == ASSUME IsStack(stack), AsKnown(sessions) PROVE ShownIsHanded
<1> SUFFICES ASSUME NEW k \in Steps, NEW i \in Order, ~UnreplayedBefore(k),
                    ~(\E j \in 1..(k - 1) : IsAction(stack[j].op) /\ SaysNoTag(stack[j].op))
             PROVE  SubjectAt(k, InRun(i)) = Handed(k, i)
    BY DEF ShownIsHanded
<1>1. k \in 1..Len(stack) /\ k - 1 \in Nat /\ (k - 1) + 1 = k /\ 1..(k - 1) \subseteq Steps
    BY StackIsListed
<1> DEFINE so == NameBefore(k, InRun(i))
           at == Through(k - 1, InRun(i), sessions).at
<1>2. Alongside(so, at)
  <2>1. \A j \in 1..(k - 1) : ~(stack[j].enabled /\ IsLive(stack[j].op)) /\ ~(IsAction(stack[j].op) /\ SaysNoTag(stack[j].op))
      BY DEF UnreplayedBefore
  <2>2. Alongside(NameBefore((k - 1) + 1, InRun(i)), at)
      BY <1>1, <2>1, ShownAsHanded
  <2> QED BY <1>1, <2>2
<1> HIDE DEF so, at
<1>3. so.name = at.name /\ so.failed = at.failed
    BY <1>2 DEF Alongside
<1>4. OfCard(stack[k], InRun(i), so) = HandedTo(stack[k], InRun(i), at)
    BY <1>3 DEF OfCard, HandedTo
<1> QED BY <1>4 DEF SubjectAt, Handed, so, at

\* And so each row is as it is listed.
LEMMA ListedSo == AsListed => RowsAreAsListed
<1> SUFFICES ASSUME AsListed, NEW i \in Order, out[i] # Waiting
             PROVE  /\ out[i] = Listed(i).out
                    /\ i = Len(Rows) /\ ~running /\ (\A j \in Order : out[j] # Waiting) => notes = SaidBy(Listed(i).ss)
    BY DEF RowsAreAsListed
<1>1. i - 1 \in Nat /\ (i - 1) + 1 = i
    BY RowsAreListed
<1>2. Listed(i) = Evaluated(i, KnownAfter(i - 1))
    BY <1>1, ListedIs DEF KnownAfter
<1> QED BY <1>2 DEF AsListed, KnownAfter

\* What is shown of an evaluation, and what is told of it, is what the run
\* does, for every stack, every listing and every script: a row evaluated on
\* any thread comes out as it would in the listing's order from scripts just
\* begun, done() speaks of that run and no other, and a card shows what the
\* run will hand it (evaluate_all_with, Script::begin_run and end_run,
\* subject_at).
THEOREM TableStaysTrue == Spec => []TableIsTrue
<1>1. PipeInv => TableIsTrue
    BY CardsAreTrue, ListedSo DEF PipeInv, TableIsTrue
<1> QED BY <1>1, PipeInductive, PTL
=============================================================================
