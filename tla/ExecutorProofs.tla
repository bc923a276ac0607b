--------------------------- MODULE ExecutorProofs ---------------------------
(* What holds of every batch, however long its plan, however often the     *)
(* volume refuses a call, the process is killed, the power is cut or       *)
(* another program interferes.                                             *)
EXTENDS ExecutorInv, FileTreeProofs

USE DEF N, Op

\* Two records of the journal are the same only if they say the same.
LEMMA RecordFacts ==
    /\ \A i, j : Plan(i) = Plan(j) => i = j
    /\ \A i, j : Completed(i) = Completed(j) => i = j
    /\ \A i, j : Failed(i) = Failed(j) => i = j
    /\ \A i, j : Plan(i) # Completed(j) /\ Plan(i) # Failed(j) /\ Completed(i) # Failed(j)
    /\ \A i : /\ Plan(i) \notin {Begin, Commit, Undone}
              /\ Completed(i) \notin {Begin, Commit, Undone}
              /\ Failed(i) \notin {Begin, Commit, Undone}
    /\ Begin # Commit /\ Begin # Undone /\ Commit # Undone
    /\ \A i \in 1..N : Plan(i) \in Records /\ Completed(i) \in Records /\ Failed(i) \in Records
    /\ Begin \in Records /\ Commit \in Records /\ Undone \in Records
  BY DEF Plan, Completed, Failed, Begin, Commit, Undone, Records

\* What Planned says of the operations of a batch.
LEMMA PlanFacts ==
    ASSUME batch \in Batches
    PROVE  /\ N \in Nat
           /\ \A i \in 1..N : Op(i) \in Ops
           /\ IsTree(batch.trees[1]) /\ batch.dates[1] \in [Files -> Dates]
           /\ \A i \in 1..N : Creates(Op(i)) =>
                 Op(i).file \notin FilesIn(batch.trees[1]) \cup Strangers
           /\ \A i, j \in 1..N : i < j /\ Creates(Op(i)) /\ Creates(Op(j)) =>
                 Op(i).file # Op(j).file
  <1>1. Planned(batch)
    BY BatchesAssumption
  <1>2. batch.ops \in Seq(Ops)
    BY <1>1 DEF Planned
  <1>3. N \in Nat /\ \A i \in 1..N : Op(i) \in Ops
    BY <1>2, LenProperties, ElementOfSeq
  <1>4. 1 \in 1..(N + 1)
    BY <1>3
  <1> QED BY <1>1, <1>3, <1>4 DEF Planned

\* The fields of each kind of operation.
LEMMA OpFields ==
    ASSUME NEW o \in Ops
    PROVE  /\ o.kind \in {"rename", "mkdir", "write", "overwrite", "retag", "date"}
           /\ o.kind = "rename" => o.from \in Paths /\ o.to \in Paths
           /\ o.kind # "rename" => o.path \in Paths
           /\ o.kind = "mkdir" => o.file \in Dirs
           /\ o.kind \in {"write", "overwrite"} => o.file \in Files \ Dirs
           /\ o.kind \in {"write", "overwrite", "retag"} => o.text \in Texts
           /\ o.kind = "date" => o.value \in Dates
           /\ Creates(o) => o.file \in Files
  BY DirsAssumption DEF Ops, Creates

\* An operation that can be done leaves a tree, with at most its own new file
\* added to it.
LEMMA OpStep ==
    ASSUME NEW o \in Ops, NEW t, IsTree(t), CanDo(o, t),
           Creates(o) => o.file \notin FilesIn(t)
    PROVE  /\ IsTree(TreeAfter(o, t))
           /\ \/ FilesIn(TreeAfter(o, t)) = FilesIn(t)
              \/ Creates(o) /\ FilesIn(TreeAfter(o, t)) = FilesIn(t) \cup {o.file}
  <1>1. CASE o.kind = "rename"
  <2>1. /\ o.from \in Paths /\ o.to \in Paths
        /\ CanRename(t, o.from, o.to)
        /\ TreeAfter(o, t) = Renamed(t, o.from, o.to)
    BY <1>1, OpFields DEF CanDo, TreeAfter, Creates
  <2> QED BY <2>1, RenamedIsTree
  <1>2. CASE Creates(o) /\ CanCreate(t, o.path)
  <2>1. o.path \in Paths /\ o.file \in Files
    BY <1>2, OpFields DEF Creates
  <2>2. TreeAfter(o, t) = Created(t, o.path, o.file)
    BY <1>2 DEF TreeAfter, Creates, CanCreate
  <2> QED BY <1>2, <2>1, <2>2, CreatedIsTree
  <1>3. CASE o.kind = "overwrite" /\ Exists(t, o.path)
    BY <1>3 DEF TreeAfter
  <1>4. CASE o.kind \in {"retag", "date"}
    BY <1>4 DEF TreeAfter, Creates
  <1> QED BY <1>1, <1>2, <1>3, <1>4, OpFields DEF CanDo, Creates

\* Nothing lies under a file that is no folder.
LEMMA FileIsLeaf ==
    ASSUME NEW t, IsTree(t), NEW p \in DOMAIN t, t[p] \notin Dirs, NEW q \in DOMAIN t,
           AtOrUnder(p, q)
    PROVE  q = p
  <1>1. p \in Paths /\ q \in Paths
    BY DEF IsTree
  <1>2. Len(p) \in Nat \ {0} /\ Len(q) \in Nat \ {0} /\ Len(p) <= Len(q)
    BY <1>1, EmptySeq, LenProperties DEF Paths, AtOrUnder
  <1>3. Len(p) = Len(q)
  <2> SUFFICES ASSUME Len(p) # Len(q) PROVE FALSE
    OBVIOUS
  <2>1. Len(p) \in 1..(Len(q) - 1) /\ SubSeq(q, 1, Len(p)) = p
    BY <1>2 DEF AtOrUnder
  <2> QED BY <2>1 DEF IsTree
  <1>4. \A i \in 1..Len(p) : q[i] = p[i]
    BY <1>1, UnderFacts
  <1> QED BY <1>1, <1>3, <1>4, SeqEqual DEF Paths
-----------------------------------------------------------------------------
(* Type correctness, with the place of the loop, the journal and the files  *)
(* yet to be created, which it takes to be inductive.                       *)

\* Which operation is in hand.
LEMMA InHand ==
    ASSUME JInv
    PROVE  /\ N \in Nat /\ done \in 0..N
           /\ pc \in {"announce", "sync", "perform", "writing", "fail"} =>
                 cur \in 1..N /\ cur = done + 1 /\ at = cur /\ end = cur + 1
           /\ pc = "confirm" => cur \in 1..N /\ cur = done /\ at = cur /\ end = cur + 1
           /\ pc = "undo" => upos \in 0..N
  <1>1. N \in Nat /\ done \in 0..N /\ at \in 1..(N + 1) /\ upos \in 0..N
    BY PlanFacts DEF JInv, TypeOK
  <1> QED BY <1>1 DEF JInv, LoopInv

\* Before the run nothing is announced, done or recorded.
LEMMA JInit == Init => JInv
  <1> SUFFICES ASSUME Init PROVE JInv
    OBVIOUS
  <1>1. batch \in Batches
    BY DEF Init
  <1>2. /\ N \in Nat
        /\ IsTree(batch.trees[1]) /\ batch.dates[1] \in [Files -> Dates]
        /\ \A i \in 1..N : Creates(Op(i)) => Op(i).file \notin FilesIn(batch.trees[1])
    BY <1>1, PlanFacts
  <1>3. TypeOK
  <2>1. /\ IsTree(tree) /\ date \in [Files -> Dates] /\ body \in [Files -> Bodies]
        /\ image \in [1..N -> Nat]
    BY <1>2 DEF Init, Bodies
  <2>2. /\ at \in 1..(N + 1) /\ end \in 1..(N + 1) /\ cur \in 1..(N + 1)
        /\ completed \in 0..N /\ done \in 0..N /\ upos \in 0..N
        /\ refused \subseteq 1..N /\ folders \subseteq Paths
        /\ added \subseteq Files /\ gone \subseteq Files
        /\ undos \in Nat /\ faults \in Nat /\ kills \in Nat /\ cuts \in Nat /\ meddled \in Nat
    BY <1>2 DEF Init
  <2>3. /\ synced \subseteq journal /\ journal \subseteq Records
        /\ skipped \in BOOLEAN /\ kept \in BOOLEAN /\ torn \in BOOLEAN /\ balked \in BOOLEAN
    BY DEF Init
  <2>4. /\ batch \in Batches
        /\ options \in {"simulate", "allow_irreversible", "plain"}
        /\ pc = "idle" /\ outcome = "none" /\ result = "none"
    BY DEF Init
  <2> QED BY <2>1, <2>2, <2>3, <2>4 DEF TypeOK
  <1>4. LoopInv
    BY DEF Init, LoopInv, Running, Undoing
  <1>5. JournalInv
    BY <1>2 DEF Init, JournalInv, Announced, Running
  <1>6. FreshInv
    BY <1>2 DEF Init, FreshInv
  <1> QED BY <1>3, <1>4, <1>5, <1>6 DEF JInv

\* The file system, its dates and contents keep their types.
LEMMA DiskStep ==
    ASSUME JInv, Next
    PROVE  IsTree(tree') /\ date' \in [Files -> Dates] /\ body' \in [Files -> Bodies]
  <1>0. /\ batch \in Batches
        /\ IsTree(tree) /\ date \in [Files -> Dates] /\ body \in [Files -> Bodies]
        /\ \A p \in DOMAIN tree : tree[p] \in Files /\ p \in Paths
        /\ N \in Nat /\ \A i \in 1..N : Op(i) \in Ops
        /\ Texts \subseteq Bodies /\ {"old", "half", "edited"} \subseteq Bodies
    BY PlanFacts DEF JInv, TypeOK, Bodies, IsTree
  <1>1. CASE UNCHANGED disk
    BY <1>0, <1>1 DEF disk
  <1>2. CASE Perform
  <2> DEFINE o == Op(cur)
  <2>1. pc = "perform" /\ cur \in 1..N /\ cur > done
    BY <1>0, <1>2, InHand DEF Perform
  <2>2. o \in Ops /\ CanDo(o, tree) /\ (Creates(o) => o.file \notin FilesIn(tree))
    BY <1>0, <1>2, <2>1 DEF Perform, JInv, FreshInv
  <2>3. IsTree(tree')
    BY <1>0, <1>2, <2>2, OpStep DEF Perform
  <2>4. date' \in [Files -> Dates]
    BY <1>0, <1>2, <2>2, OpFields DEF Perform, DateAfter
  <2>5. body' \in [Files -> Bodies]
    BY <1>0, <1>2, <2>2, OpFields DEF Perform, Rewritten
  <2> QED BY <2>3, <2>4, <2>5
  <1>3. CASE FinishWriting
  <2>1. cur \in 1..N /\ Op(cur).kind \in {"write", "overwrite"}
    BY <1>3, InHand DEF FinishWriting, JInv, LoopInv
  <2> QED BY <1>0, <1>3, <2>1, OpFields DEF FinishWriting
  <1>4. CASE UndoOp
  <2> DEFINE o == Op(upos)
  <2>1. upos \in 1..N /\ o \in Ops
    BY <1>0, <1>4, InHand DEF UndoOp
  <2>2. CASE UNCHANGED disk
    BY <2>2, <1>1
  <2>3. CASE /\ o.kind = "rename" /\ CanRename(tree, o.to, o.from)
             /\ tree' = Renamed(tree, o.to, o.from) /\ UNCHANGED <<date, body>>
    BY <2>1, <2>3, <1>0, OpFields, RenamedIsTree
  <2>4. CASE IsFile(o.path) /\ tree' = Removed(tree, o.path) /\ UNCHANGED <<date, body>>
    BY <2>4, <1>0, FileIsLeaf, RemovedIsTree DEF IsFile, Exists
  <2>5. CASE /\ o.kind = "date" /\ ~Spared(upos)
             /\ date' = [date EXCEPT ![tree[o.path]] = image[upos]] /\ UNCHANGED <<tree, body>>
      <3>1. image[upos] \in Dates
        BY <2>1, <2>5 DEF JInv, JournalInv, Spared, Announced
      <3> QED BY <2>5, <3>1, <1>0
  <2>6. \/ UNCHANGED disk
        \/ /\ o.kind = "rename" /\ CanRename(tree, o.to, o.from)
           /\ tree' = Renamed(tree, o.to, o.from) /\ UNCHANGED <<date, body>>
        \/ IsFile(o.path) /\ tree' = Removed(tree, o.path) /\ UNCHANGED <<date, body>>
        \/ /\ o.kind = "date" /\ ~Spared(upos)
           /\ date' = [date EXCEPT ![tree[o.path]] = image[upos]] /\ UNCHANGED <<tree, body>>
      <3>1. CASE Leave(FALSE)
        BY <3>1 DEF Leave
      <3>2. CASE UndoRename(upos)
        BY <3>2 DEF UndoRename, Try, Leave, LookFails
      <3>3. CASE UndoCreateDir(upos)
        BY <3>3 DEF UndoCreateDir, Leave
      <3>4. CASE UndoWrite(upos)
        BY <3>4 DEF UndoWrite, Try, Leave, LookFails, Holds
      <3>5. CASE UndoDate(upos) /\ ~Spared(upos)
        BY <3>5 DEF UndoDate, Try, Leave, LookFails
      <3>6. CASE LookFails(upos)
        BY <3>6 DEF LookFails
      <3> QED BY <1>4, <3>1, <3>2, <3>3, <3>4, <3>5, <3>6 DEF UndoOp
  <2> QED BY <2>2, <2>3, <2>4, <2>5, <2>6
  <1>5. CASE RemoveFolder
  <2>1. UNCHANGED <<date, body>>
    BY <1>5 DEF RemoveFolder
  <2>2. UNCHANGED tree \/ \E p : Removable(p) /\ tree' = Removed(tree, p)
    BY <1>5 DEF RemoveFolder
  <2>3. ASSUME NEW p, Removable(p) PROVE IsTree(Removed(tree, p))
    BY <2>3, <1>0, RemovedIsTree DEF Removable, IsEmptyDir, Exists
  <2> QED BY <2>1, <2>2, <2>3, <1>0
  <1>6. CASE OutsideCreates
  <2>1. PICK f \in Strangers \ (FilesIn(tree) \cup gone), p \in Spots :
           CanCreate(tree, p) /\ tree' = Created(tree, p, f) /\ UNCHANGED <<date, body>>
    BY <1>6 DEF OutsideCreates
  <2>2. f \in Files /\ f \notin FilesIn(tree) /\ p \in Paths
    BY <2>1, ValuesAssumption
  <2> QED BY <2>1, <2>2, <1>0, CreatedIsTree
  <1>7. CASE OutsideRemoves
    BY <1>7, <1>0, FileIsLeaf, RemovedIsTree DEF OutsideRemoves
  <1>8. CASE OutsideMoves
  <2>1. PICK p \in DOMAIN tree, q \in Spots :
           CanRename(tree, p, q) /\ tree' = Renamed(tree, p, q) /\ UNCHANGED <<date, body>>
    BY <1>8 DEF OutsideMoves
  <2> QED BY <2>1, <1>0, RenamedIsTree, ValuesAssumption
  <1>9. CASE OutsideEdits
    BY <1>9, <1>0 DEF OutsideEdits
  <1>10. UNCHANGED disk \/ Perform \/ FinishWriting \/ UndoOp \/ RemoveFolder \/ Outside
    BY DEF Next, RunStep, UndoStep, disk, Start, NextWindow, Announce, AnnounceFails, Sync,
           PerformFails, Confirm, ConfirmFails, RecordFailure, RecordFailureFails, Close, Seal,
           CloseFails, Interrupted, BeginUndo, WalkIsOver, Stamp, ProcessKilled, PowerCut, Dies
  <1> QED BY <1>1, <1>2, <1>3, <1>4, <1>5, <1>6, <1>7, <1>8, <1>9, <1>10 DEF Outside

\* The plan and what the user agreed to stay what they were.
LEMMA FixedStep == ASSUME Next PROVE UNCHANGED fixed
  BY DEF Next, RunStep, UndoStep, Start, NextWindow, Announce, AnnounceFails, Sync, Perform,
     FinishWriting, PerformFails, Confirm, ConfirmFails, RecordFailure, RecordFailureFails,
     Close, Seal, CloseFails, Interrupted, BeginUndo, UndoOp, Walked, WalkIsOver, RemoveFolder,
     Stamp, ProcessKilled, PowerCut, Dies, Outside, OutsideCreates, OutsideRemoves, OutsideMoves,
     OutsideEdits, Meddle

\* Nothing but the batch brings about the files it has still to create.
LEMMA FreshStep == ASSUME JInv, Next PROVE FreshInv'
  <1> DEFINE L == {"idle", "head", "announce", "sync", "perform", "confirm", "writing"}
             Fresh(i) == Creates(Op(i)) /\ i > done /\ (pc = "writing" => i > done + 1)
  <1>0. /\ batch \in Batches /\ IsTree(tree) /\ N \in Nat /\ done \in 0..N
        /\ \A i \in 1..N : Op(i) \in Ops
        /\ \A i \in 1..N : Creates(Op(i)) => Op(i).file \notin Strangers
        /\ \A i, j \in 1..N : i < j /\ Creates(Op(i)) /\ Creates(Op(j)) =>
              Op(i).file # Op(j).file
        /\ batch' = batch
    BY PlanFacts, FixedStep DEF JInv, TypeOK, fixed
  <1>1. pc \in L => \A i \in 1..N : Fresh(i) => Op(i).file \notin FilesIn(tree)
    BY DEF JInv, FreshInv
  <1>2. SUFFICES ASSUME pc' \in L PROVE \A i \in 1..N :
             Creates(Op(i)) /\ i > done' /\ (pc' = "writing" => i > done' + 1)
             => Op(i).file \notin FilesIn(tree')
    BY <1>0 DEF FreshInv
  <1>3. CASE UNCHANGED <<tree, done>> /\ pc \in L /\ (pc = "writing" => pc' = "writing")
    BY <1>0, <1>1, <1>3
  <1>4. CASE Perform
  <2> DEFINE o == Op(cur)
  <2>1. pc = "perform" /\ cur \in 1..N /\ cur = done + 1
    BY <1>4, InHand DEF Perform
  <2>2. \/ pc' = "writing" /\ done' = done
        \/ pc' = "confirm" /\ done' = done + 1
    BY <1>4 DEF Perform, Goto, Performed
  <2>3. CanDo(o, tree) /\ tree' = TreeAfter(o, tree)
    BY <1>4 DEF Perform
  <2>4. \/ FilesIn(tree') = FilesIn(tree)
        \/ Creates(o) /\ FilesIn(tree') = FilesIn(tree) \cup {o.file}
    BY <1>0, <1>1, <2>1, <2>3, OpStep
  <2> SUFFICES ASSUME NEW i \in 1..N, Creates(Op(i)), i > cur
               PROVE  Op(i).file \notin FilesIn(tree')
    BY <1>0, <2>1, <2>2
  <2>5. Op(i).file \notin FilesIn(tree)
    BY <1>0, <1>1, <2>1
  <2>6. Creates(o) => Op(i).file # o.file
    BY <1>0, <2>1
  <2> QED BY <2>4, <2>5, <2>6
  <1>5. CASE FinishWriting
  <2>1. pc = "writing" /\ done' = done + 1 /\ tree' = tree /\ pc' = "confirm"
    BY <1>5 DEF FinishWriting, Performed, Goto
  <2> QED BY <1>0, <1>1, <2>1
  <1>6. CASE UNCHANGED <<pc, done>> /\ FilesIn(tree') \subseteq FilesIn(tree) \cup Strangers
    BY <1>0, <1>1, <1>2, <1>6
  <1>7. CASE Outside
  <2>1. UNCHANGED <<pc, done>>
    BY <1>7 DEF Outside, OutsideCreates, OutsideRemoves, OutsideMoves, OutsideEdits, Meddle
  <2>2. CASE OutsideCreates
      <3>1. PICK f \in Strangers \ (FilesIn(tree) \cup gone), p \in Spots :
               CanCreate(tree, p) /\ tree' = Created(tree, p, f)
        BY <2>2 DEF OutsideCreates
      <3> QED BY <1>0, <1>6, <2>1, <3>1, CreatedIsTree, ValuesAssumption
  <2>3. CASE OutsideRemoves
      <3>1. \A p \in DOMAIN tree : tree[p] \in Files /\ p \in Paths
        BY <1>0 DEF IsTree
      <3>2. FilesIn(tree') \subseteq FilesIn(tree)
        BY <1>0, <2>3, <3>1, FileIsLeaf, RemovedIsTree DEF OutsideRemoves
      <3> QED BY <1>6, <2>1, <3>2
  <2>4. CASE OutsideMoves
      <3>1. PICK p \in DOMAIN tree, q \in Spots :
               CanRename(tree, p, q) /\ tree' = Renamed(tree, p, q)
        BY <2>4 DEF OutsideMoves
      <3>2. p \in Paths /\ q \in Paths
        BY <1>0, ValuesAssumption DEF IsTree
      <3> QED BY <1>0, <1>6, <2>1, <3>1, <3>2, RenamedIsTree
  <2>5. CASE OutsideEdits
    BY <1>6, <2>1, <2>5 DEF OutsideEdits
  <2> QED BY <1>7, <2>2, <2>3, <2>4, <2>5 DEF Outside
  <1>8. CASE RunStep /\ ~Perform /\ ~FinishWriting
  <2>1. UNCHANGED <<tree, done>> /\ pc \in L /\ (pc = "writing" => pc' = "writing")
    BY <1>2, <1>8 DEF RunStep, Start, NextWindow, Announce, AnnounceFails, Sync, PerformFails,
       Confirm, ConfirmFails, RecordFailure, RecordFailureFails, Close, Seal, CloseFails,
       Interrupted, Goto, disk, NextToAnnounce
  <2> QED BY <1>3, <2>1
  <1>9. CASE UndoStep \/ ProcessKilled \/ PowerCut
    BY <1>2, <1>9 DEF UndoStep, BeginUndo, UndoOp, Walked, WalkIsOver, RemoveFolder, Stamp,
       ProcessKilled, PowerCut, Dies
  <1> QED BY <1>4, <1>5, <1>7, <1>8, <1>9 DEF Next

\* Every step keeps the loop's place and what it has done in step.
LEMMA LoopStep == ASSUME JInv, Next PROVE LoopInv'
  <1>0. /\ batch \in Batches /\ N \in Nat /\ done \in 0..N /\ at \in 1..(N + 1)
        /\ completed \in 0..N /\ undos \in Nat
        /\ \A i \in 1..N : Op(i) \in Ops
    BY PlanFacts DEF JInv, TypeOK
  <1>1. LoopInv
    BY DEF JInv
  <1> USE DEF Running, Undoing, fixed, log, run, walk
  <1>2. CASE Start
  <2>1. UNCHANGED <<batch, at, end, cur, completed, walk, done, undos>> /\ pc = "idle"
    BY <1>2 DEF Start, Goto
  <2>2. CASE pc' = "over" /\ outcome' \in {"refused", "nothing to do", "error"}
    BY <1>0, <1>1, <2>1, <2>2 DEF LoopInv
  <2>3. CASE pc' = "head" /\ outcome' = outcome
    BY <1>0, <1>1, <2>1, <2>3 DEF LoopInv
  <2> QED BY <1>2, <2>2, <2>3 DEF Start, Goto
  <1>3. CASE NextWindow
  <2>1. CASE at <= N /\ pc' = "announce"
      <3>1. WindowEnd(at) = at + 1
        BY <1>0, <2>1 DEF WindowEnd, WRITE_AHEAD_WINDOW
      <3> QED BY <1>0, <1>1, <1>3, <2>1, <3>1 DEF LoopInv, NextWindow, Goto, log, fixed
  <2>2. CASE pc' = "close"
    BY <1>0, <1>1, <1>3, <2>2 DEF LoopInv, NextWindow, Goto, log, fixed
  <2> QED BY <1>3, <2>1, <2>2 DEF NextWindow, Goto
  <1>4. CASE Announce \/ AnnounceFails
    BY <1>0, <1>1, <1>4 DEF LoopInv, Announce, AnnounceFails, Goto, NextToAnnounce, fixed
  <1>5. CASE Sync
    BY <1>0, <1>1, <1>5 DEF LoopInv, Sync, Goto, fixed
  <1>6. CASE Perform
    BY <1>0, <1>1, <1>6 DEF LoopInv, Perform, Performed, Goto, log, fixed
  <1>7. CASE FinishWriting
    BY <1>0, <1>1, <1>7 DEF LoopInv, FinishWriting, Performed, Goto, log, fixed
  <1>8. CASE PerformFails
    BY <1>0, <1>1, <1>8 DEF LoopInv, PerformFails, log, fixed, run
  <1>9. CASE Confirm
    BY <1>0, <1>1, <1>9 DEF LoopInv, Confirm, Goto, fixed
  <1>10. CASE ConfirmFails \/ RecordFailureFails \/ CloseFails
    BY <1>0, <1>1, <1>10 DEF LoopInv, ConfirmFails, RecordFailureFails, CloseFails, Interrupted, fixed
  <1>11. CASE RecordFailure \/ Close \/ Seal
    BY <1>0, <1>1, <1>11 DEF LoopInv, RecordFailure, Close, Seal, Goto, fixed, run
  <1>12. CASE UndoStep
  <2>1. UNCHANGED <<batch, at, end, cur, completed, outcome, done>>
    BY <1>12 DEF UndoStep, BeginUndo, UndoOp, Walked, WalkIsOver, RemoveFolder, Stamp, history
  <2>2. CASE BeginUndo
    BY <1>0, <1>1, <2>1, <2>2 DEF LoopInv, BeginUndo
  <2>3. CASE UndoOp \/ WalkIsOver \/ RemoveFolder
      <3>1. pc \in Undoing /\ pc' \in Undoing /\ UNCHANGED <<undos, result>>
        BY <2>3 DEF UndoOp, Walked, WalkIsOver, RemoveFolder, history
      <3> QED BY <1>0, <1>1, <2>1, <3>1 DEF LoopInv
  <2>4. CASE Stamp
      <3>1. pc = "folders" /\ pc' = "over" /\ undos' = undos
        BY <2>4 DEF Stamp
      <3>2. undos > 0
        BY <1>1, <3>1 DEF LoopInv
      <3> QED BY <1>0, <1>1, <2>1, <3>1, <3>2 DEF LoopInv
  <2> QED BY <1>12, <2>2, <2>3, <2>4 DEF UndoStep
  <1>13. CASE ProcessKilled \/ PowerCut
    BY <1>0, <1>1, <1>13 DEF LoopInv, ProcessKilled, PowerCut, Dies, fixed
  <1>14. CASE Outside
    BY <1>0, <1>1, <1>14 DEF LoopInv, Outside, OutsideCreates, OutsideRemoves, OutsideMoves,
       OutsideEdits, Meddle, log, fixed, run
  <1> QED BY <1>2, <1>3, <1>4, <1>5, <1>6, <1>7, <1>8, <1>9, <1>10, <1>11, <1>12, <1>13, <1>14
          DEF Next, RunStep

\* Every step keeps every variable what it is declared to be.
LEMMA TypeStep == ASSUME JInv, Next PROVE TypeOK'
  <1> USE DEF fixed, disk, log, run, walk, history
  <1>0. /\ batch \in Batches /\ N \in Nat /\ TypeOK
        /\ \A i \in 1..N : Op(i) \in Ops
        /\ \A p \in DOMAIN tree : tree[p] \in Files /\ p \in Paths
    BY PlanFacts DEF JInv, TypeOK, IsTree
  <1>1. batch' = batch /\ options' = options
    BY FixedStep
  <1>2. Records' = Records
    BY <1>1 DEF Records, Begin, Commit, Undone
  <1>3. IsTree(tree') /\ date' \in [Files -> Dates] /\ body' \in [Files -> Bodies]
    BY DiskStep
  <1>4. synced' \subseteq journal' /\ journal' \subseteq Records
  <2>0. synced \subseteq journal /\ journal \subseteq Records
    BY <1>0 DEF TypeOK
  <2>1. CASE UNCHANGED <<journal, synced>>
    BY <2>0, <2>1
  <2>2. ASSUME NEW r \in Records, journal' \in {journal, journal \cup {r}}, synced' \in {synced, journal'}
        PROVE  synced' \subseteq journal' /\ journal' \subseteq Records
    BY <2>0, <2>2
  <2>3. CASE Announce \/ AnnounceFails
      <3>1. Plan(cur) \in Records
        BY <2>3, InHand, RecordFacts DEF Announce, AnnounceFails
      <3>2. journal' \in {journal, journal \cup {Plan(cur)}} /\ synced' = synced
        BY <2>3 DEF Announce, AnnounceFails, WriteFails
      <3> QED BY <2>2, <3>1, <3>2
  <2>4. CASE Confirm \/ ConfirmFails
      <3>1. Completed(cur) \in Records
        BY <2>4, InHand, RecordFacts DEF Confirm, ConfirmFails
      <3>2. journal' \in {journal, journal \cup {Completed(cur)}} /\ synced' = synced
        BY <2>4 DEF Confirm, ConfirmFails, Interrupted, WriteFails
      <3> QED BY <2>2, <3>1, <3>2
  <2>5. CASE RecordFailure \/ RecordFailureFails
      <3>1. Failed(cur) \in Records
        BY <2>5, InHand, RecordFacts DEF RecordFailure, RecordFailureFails
      <3>2. journal' \in {journal, journal \cup {Failed(cur)}} /\ synced' \in {synced, journal'}
        BY <2>5 DEF RecordFailure, RecordFailureFails, Interrupted, WriteFails, Write
      <3> QED BY <2>2, <3>1, <3>2
  <2>6. CASE Start \/ Sync \/ Close \/ Seal \/ CloseFails \/ Stamp
      <3>1. /\ journal' \in {journal, journal \cup {Begin}, journal \cup {Commit}, journal \cup {Undone}}
            /\ synced' \in {synced, journal'}
        BY <2>6 DEF Start, Sync, Close, Seal, CloseFails, Interrupted, WriteFails, Write, Flush, Stamp
      <3> QED BY <2>0, <2>2, <3>1, RecordFacts
  <2>7. CASE PowerCut
    BY <2>0, <2>7 DEF PowerCut
  <2>8. CASE NextWindow \/ Perform \/ FinishWriting \/ PerformFails
    BY <2>1, <2>8 DEF NextWindow, Perform, FinishWriting, PerformFails
  <2>9. CASE BeginUndo \/ UndoOp \/ WalkIsOver \/ RemoveFolder \/ ProcessKilled \/ Outside
    BY <2>1, <2>9 DEF BeginUndo, UndoOp, Walked, WalkIsOver, RemoveFolder, ProcessKilled,
       Outside, OutsideCreates, OutsideRemoves, OutsideMoves, OutsideEdits, Meddle
  <2> QED BY <2>3, <2>4, <2>5, <2>6, <2>7, <2>8, <2>9 DEF Next, RunStep, UndoStep
  <1>5. image' \in [1..N -> Nat]
  <2>1. image' = image \/ (pc = "announce" /\ Readable(cur) /\ image' = BeforeImage(cur))
    BY DEF Next, RunStep, UndoStep, Start, NextWindow, Announce, AnnounceFails, Sync,
         Perform, FinishWriting, PerformFails, Confirm, ConfirmFails, RecordFailure,
         RecordFailureFails, Close, Seal, CloseFails, Interrupted,
         BeginUndo, UndoOp, Walked, WalkIsOver, RemoveFolder, Stamp, ProcessKilled, PowerCut,
         Dies, Outside, OutsideCreates, OutsideRemoves, OutsideMoves, OutsideEdits, Meddle
  <2>2. image \in [1..N -> Nat] /\ date \in [Files -> Dates] /\ Dates \subseteq Nat
    BY <1>0, ValuesAssumption DEF TypeOK
  <2>3. CASE pc = "announce" /\ Readable(cur) /\ Op(cur).kind = "date"
      <3>1. cur \in 1..N /\ date[tree[Op(cur).path]] \in Nat
        BY <1>0, <2>2, <2>3, InHand DEF Readable, Exists
      <3> QED BY <2>1, <2>2, <3>1 DEF BeforeImage
  <2> QED BY <2>1, <2>2, <2>3 DEF BeforeImage
  <1>6. pc' \in {"idle", "over"} \cup Running \cup Undoing
  <2>0. pc \in {"idle", "over"} \cup Running \cup Undoing
    BY <1>0 DEF TypeOK
  <2>1. CASE RunStep
    BY <2>0, <2>1 DEF RunStep, Start, NextWindow, Announce, AnnounceFails, Sync,
         Perform, FinishWriting, PerformFails, Confirm, ConfirmFails, RecordFailure,
         RecordFailureFails, Close, Seal, CloseFails, Interrupted, Goto, NextToAnnounce,
         Performed, Running
  <2>2. CASE UndoStep \/ ProcessKilled \/ PowerCut \/ Outside
    BY <2>0, <2>2 DEF UndoStep, BeginUndo, UndoOp, Walked, WalkIsOver, RemoveFolder, Stamp,
         ProcessKilled, PowerCut, Dies, Undoing,
         Outside, OutsideCreates, OutsideRemoves, OutsideMoves, OutsideEdits, Meddle
  <2> QED BY <2>1, <2>2 DEF Next
  <1>7. /\ at' \in 1..(N + 1) /\ end' \in 1..(N + 1) /\ cur' \in 1..(N + 1)
        /\ refused' \subseteq 1..N
        /\ completed' \in 0..N /\ done' \in 0..N
  <2>0. /\ at \in 1..(N + 1) /\ end \in 1..(N + 1) /\ cur \in 1..(N + 1)
        /\ refused \subseteq 1..N
        /\ completed \in 0..N /\ done \in 0..N
    BY <1>0 DEF TypeOK
  <2>1. CASE UNCHANGED <<at, end, cur, refused, completed, done>>
    BY <2>0, <2>1
  <2>2. CASE NextWindow
      <3>1. at <= N => WindowEnd(at) = at + 1
        BY <1>0, <2>0 DEF WindowEnd, WRITE_AHEAD_WINDOW
      <3>2. UNCHANGED <<at, completed, done>>
        BY <2>2 DEF NextWindow
      <3>3. \/ UNCHANGED <<end, cur, refused>>
            \/ at <= N /\ end' = WindowEnd(at) /\ cur' = at /\ refused' = {}
        BY <2>2 DEF NextWindow
      <3>4. at' \in 1..(N + 1) /\ end' \in 1..(N + 1) /\ cur' \in 1..(N + 1)
        <4>1. at \in 1..(N + 1) /\ end \in 1..(N + 1) /\ cur \in 1..(N + 1) /\ N \in Nat
          BY <1>0, <2>0
        <4> QED BY <4>1, <3>1, <3>2, <3>3
      <3>5. refused' \subseteq 1..N
        BY <2>0, <3>3
      <3> QED BY <2>0, <3>2, <3>4, <3>5
  <2>3. CASE Announce
      <3>1. cur \in 1..N /\ cur + 1 = end
        BY <2>3, InHand DEF Announce
      <3> QED BY <1>0, <2>0, <2>3, <3>1 DEF Announce, NextToAnnounce
  <2>4. CASE Perform \/ FinishWriting
      <3>1. done + 1 \in 1..N /\ completed = done
        <4>1. pc \in {"perform", "writing"}
          BY <2>4 DEF Perform, FinishWriting
        <4> QED BY <2>0, <4>1, InHand DEF JInv, LoopInv, Running
      <3>2. /\ UNCHANGED <<at, end, cur, refused>>
            /\ completed' \in {completed, completed + 1} /\ done' \in {done, done + 1}
        BY <2>4 DEF Perform, FinishWriting, Performed
      <3> QED BY <1>0, <2>0, <3>1, <3>2
  <2>5. CASE Confirm
      <3>1. cur \in 1..N /\ end = cur + 1
        BY <2>5, InHand DEF Confirm
      <3> QED BY <1>0, <2>0, <2>5, <3>1 DEF Confirm
  <2>6. CASE RunStep /\ ~(NextWindow \/ Announce \/ Perform \/ FinishWriting \/ Confirm)
    BY <2>1, <2>6 DEF RunStep, Start, AnnounceFails, Sync, PerformFails, ConfirmFails,
       RecordFailure, RecordFailureFails, Close, Seal, CloseFails, Interrupted
  <2>7. CASE UndoStep \/ ProcessKilled \/ PowerCut \/ Outside
    BY <2>1, <2>7 DEF UndoStep, BeginUndo, UndoOp, Walked, WalkIsOver, RemoveFolder, Stamp,
         ProcessKilled, PowerCut, Dies,
         Outside, OutsideCreates, OutsideRemoves, OutsideMoves, OutsideEdits, Meddle
  <2> QED BY <2>2, <2>3, <2>4, <2>5, <2>6, <2>7 DEF Next, RunStep
  <1>8. outcome' \in {"none", "refused", "nothing to do", "error", "finished",
                      "cancelled", "failed", "interrupted", "died"}
  <2>1. \/ outcome' = outcome
        \/ outcome' \in {"refused", "nothing to do", "error", "finished",
                         "cancelled", "failed", "interrupted", "died"}
      <3>1. CASE RunStep
        BY <3>1 DEF RunStep, Start, NextWindow, Announce, AnnounceFails, Sync,
           Perform, FinishWriting, PerformFails, Confirm, ConfirmFails, RecordFailure,
           RecordFailureFails, Close, Seal, CloseFails, Interrupted
      <3>2. CASE UndoStep \/ ProcessKilled \/ PowerCut \/ Outside
        BY <3>2 DEF UndoStep, BeginUndo, UndoOp, Walked, WalkIsOver, RemoveFolder, Stamp,
           ProcessKilled, PowerCut, Dies,
           Outside, OutsideCreates, OutsideRemoves, OutsideMoves, OutsideEdits, Meddle
      <3> QED BY <3>1, <3>2 DEF Next
  <2> QED BY <1>0, <2>1 DEF TypeOK
  <1>9. /\ upos' \in 0..N /\ folders' \subseteq Paths
        /\ result' \in {"none", "complete", "incomplete", "not recorded"}
  <2>0. /\ upos \in 0..N /\ folders \subseteq Paths
        /\ result \in {"none", "complete", "incomplete", "not recorded"}
    BY <1>0 DEF TypeOK
  <2>1. CASE UNCHANGED walk
    BY <2>0, <2>1
  <2>2. CASE BeginUndo
    BY <1>0, <2>2 DEF BeginUndo
  <2>3. CASE UndoOp
      <3>1. upos \in 1..N /\ Op(upos) \in Ops
        BY <1>0, <2>3, InHand DEF UndoOp
      <3>2. upos' = upos - 1 /\ result' = result
        BY <2>3 DEF UndoOp, Walked
      <3>3. folders' = folders \/ (Op(upos).kind = "mkdir" /\ folders' = folders \cup {Op(upos).path})
        BY <2>3 DEF UndoOp, UndoRename, UndoCreateDir, UndoWrite, UndoDate, LookFails
      <3>4. Op(upos).kind = "mkdir" => Op(upos).path \in Paths
        BY <3>1, OpFields
      <3>5. upos' \in 0..N
        BY <3>1, <3>2
      <3>6. folders' \subseteq Paths
        BY <2>0, <3>3, <3>4
      <3> QED BY <2>0, <3>2, <3>5, <3>6
  <2>4. CASE RemoveFolder
    BY <2>0, <2>4 DEF RemoveFolder
  <2>5. CASE Stamp
    BY <2>0, <2>5 DEF Stamp
  <2>6. CASE RunStep \/ WalkIsOver \/ ProcessKilled \/ PowerCut \/ Outside
    BY <2>1, <2>6 DEF RunStep, Start, NextWindow, Announce, AnnounceFails, Sync,
         Perform, FinishWriting, PerformFails, Confirm, ConfirmFails, RecordFailure,
         RecordFailureFails, Close, Seal, CloseFails, Interrupted, WalkIsOver,
         ProcessKilled, PowerCut, Dies,
         Outside, OutsideCreates, OutsideRemoves, OutsideMoves, OutsideEdits, Meddle
  <2> QED BY <2>2, <2>3, <2>4, <2>5, <2>6 DEF Next, UndoStep
  <1>10. torn' \in BOOLEAN /\ balked' \in BOOLEAN /\ skipped' \in BOOLEAN /\ kept' \in BOOLEAN
  <2>0. torn \in BOOLEAN /\ balked \in BOOLEAN /\ skipped \in BOOLEAN /\ kept \in BOOLEAN
    BY <1>0 DEF TypeOK
  <2>1. CASE RunStep
    BY <2>0, <2>1 DEF RunStep, Start, NextWindow, Announce, AnnounceFails, Sync,
         Perform, FinishWriting, PerformFails, Confirm, ConfirmFails, RecordFailure,
         RecordFailureFails, Close, Seal, CloseFails, Interrupted, Goto, NextToAnnounce, Performed
  <2>2. CASE UndoStep
    BY <2>0, <2>2 DEF UndoStep, BeginUndo, UndoOp, Walked, WalkIsOver, RemoveFolder, Stamp,
       UndoRename, UndoCreateDir, UndoWrite, UndoDate, Try, Leave, LookFails
  <2>3. CASE ProcessKilled \/ PowerCut \/ Outside
    BY <2>0, <2>3 DEF ProcessKilled, PowerCut, Dies,
         Outside, OutsideCreates, OutsideRemoves, OutsideMoves, OutsideEdits, Meddle
  <2> QED BY <2>1, <2>2, <2>3 DEF Next
  <1>11. added' \subseteq Files /\ gone' \subseteq Files
  <2>0. added \subseteq Files /\ gone \subseteq Files /\ Strangers \subseteq Files
    BY <1>0, ValuesAssumption DEF TypeOK
  <2>1. CASE Outside
    BY <1>0, <2>0, <2>1 DEF Outside, OutsideCreates, OutsideRemoves, OutsideMoves, OutsideEdits
  <2>2. CASE ~Outside
    BY <2>0, <2>2 DEF Next, RunStep, UndoStep, Start, NextWindow, Announce, AnnounceFails, Sync,
         Perform, FinishWriting, PerformFails, Confirm, ConfirmFails, RecordFailure,
         RecordFailureFails, Close, Seal, CloseFails, Interrupted, Goto, NextToAnnounce, Performed,
         BeginUndo, UndoOp, Walked, WalkIsOver, RemoveFolder, Stamp, ProcessKilled, PowerCut, Dies
  <2> QED BY <2>1, <2>2
  <1>12. undos' \in Nat /\ faults' \in Nat /\ kills' \in Nat /\ cuts' \in Nat /\ meddled' \in Nat
  <2>0. undos \in Nat /\ faults \in Nat /\ kills \in Nat /\ cuts \in Nat /\ meddled \in Nat
    BY <1>0 DEF TypeOK
  <2>1. /\ undos' \in {undos, undos + 1} /\ kills' \in {kills, kills + 1}
        /\ cuts' \in {cuts, cuts + 1} /\ meddled' \in {meddled, meddled + 1}
    BY DEF Next, RunStep, UndoStep, Start, NextWindow, Announce, AnnounceFails, Sync,
         Perform, FinishWriting, PerformFails, Confirm, ConfirmFails, RecordFailure,
         RecordFailureFails, Close, Seal, CloseFails, Interrupted, Goto, NextToAnnounce, Performed,
         BeginUndo, UndoOp, Walked, WalkIsOver, RemoveFolder, Stamp, ProcessKilled, PowerCut, Dies,
         Outside, OutsideCreates, OutsideRemoves, OutsideMoves, OutsideEdits, Meddle
  <2>2. faults' \in {faults, faults + 1}
      <3>1. CASE RunStep
        BY <3>1 DEF RunStep, Start, NextWindow, Announce, AnnounceFails, Sync,
           Perform, FinishWriting, PerformFails, Confirm, ConfirmFails, RecordFailure,
           RecordFailureFails, Close, Seal, CloseFails, Interrupted, WriteFails, NoFault, Fault
      <3>2. CASE ~RunStep
        BY <3>2 DEF Next, UndoStep, BeginUndo, UndoOp, Walked, WalkIsOver, RemoveFolder, Stamp,
           UndoRename, UndoCreateDir, UndoWrite, UndoDate, Try, Leave, LookFails, NoFault, Fault, WriteFails,
           ProcessKilled, PowerCut, Dies,
           Outside, OutsideCreates, OutsideRemoves, OutsideMoves, OutsideEdits, Meddle
      <3> QED BY <3>1, <3>2
  <2> QED BY <2>0, <2>1, <2>2
  <1>13. batch' \in Batches /\ options' \in {"simulate", "allow_irreversible", "plain"}
    BY <1>0, <1>1 DEF TypeOK
  <1> QED BY <1>1, <1>2, <1>3, <1>4, <1>5, <1>6, <1>7, <1>8, <1>9, <1>10, <1>11, <1>12, <1>13
          DEF TypeOK

\* Some steps leave the records, and what they are about, as they are or lose
\* some that were never synced.
LEMMA JournalKept ==
    ASSUME JInv, UNCHANGED <<batch, image, done>>,
           synced \subseteq synced', journal' \subseteq journal,
           pc' \in {"over", "undo", "folders"} \/ UNCHANGED <<pc, cur, refused, journal>>,
           \/ pc \notin Running /\ pc' \notin Running /\ outcome' = outcome
           \/ pc' = pc /\ outcome' = outcome
           \/ outcome' \notin {"finished", "cancelled", "failed"}
    PROVE  JournalInv'
  <1>1. JournalInv /\ done \in 0..N /\ N \in Nat
    BY InHand DEF JInv
  <1>2. (\A i \in Announced : i <= done + 1 /\ (Op(i).kind = "date" => image[i] \in Dates))'
    BY <1>1 DEF JournalInv, Announced
  <1>3. /\ (\A i \in 1..N : Completed(i) \in journal => i <= done)'
        /\ (\A i \in 1..N : Failed(i) \in journal => i = done + 1)'
        /\ (\A i \in 1..done : Plan(i) \in synced)'
        /\ (\A i \in 1..(done - 1) : Completed(i) \in synced)'
    BY <1>1 DEF JournalInv
  <1>4. /\ (pc = "writing" \/ (pc = "perform" /\ cur \notin refused) => Plan(cur) \in synced)'
        /\ (pc \in {"perform", "writing", "fail"} => \A i \in 1..done : Completed(i) \in synced)'
        /\ (pc \in {"head", "announce", "sync", "close", "seal"} =>
              \A i \in 1..done : Completed(i) \in journal)'
        /\ (pc = "sync" /\ cur \notin refused => Plan(cur) \in journal)'
        /\ (pc \in {"idle", "head", "announce", "sync", "perform", "writing", "confirm", "fail"} =>
              \A i \in 1..N : Failed(i) \notin journal)'
        /\ (pc = "seal" => Commit \in journal)'
    BY <1>1 DEF JournalInv
  <1>5. (outcome \in {"finished", "cancelled", "failed"} /\ pc \notin Running =>
              Commit \in synced /\ \A i \in 1..done : Completed(i) \in synced)'
    BY <1>1 DEF JournalInv
  <1> QED BY <1>2, <1>3, <1>4, <1>5 DEF JournalInv

\* The before-image of an operation is a date the file had.
LEMMA BeforeImageFacts ==
    ASSUME JInv, pc = "announce", Readable(cur), NEW i \in 1..N
    PROVE  /\ i # cur => BeforeImage(cur)[i] = image[i]
           /\ Op(cur).kind = "date" =>
                 BeforeImage(cur)[cur] = date[tree[Op(cur).path]] /\ BeforeImage(cur)[cur] \in Dates
  <1>1. image \in [1..N -> Nat] /\ cur \in 1..N /\ date \in [Files -> Dates]
    BY InHand DEF JInv, TypeOK
  <1>2. Op(cur).kind = "date" => tree[Op(cur).path] \in Files
    BY DEF JInv, TypeOK, IsTree, Readable, Exists
  <1> QED BY <1>1, <1>2 DEF BeforeImage

\* Every step keeps the journal what recovery takes it to be.
LEMMA JournalStep == ASSUME JInv, Next PROVE JournalInv'
  <1> USE DEF fixed, disk, log, run, walk, history, Running
  <1>0. /\ JournalInv /\ LoopInv /\ synced \subseteq journal /\ journal \subseteq Records
        /\ N \in Nat /\ done \in 0..N /\ batch' = batch
    BY InHand, FixedStep DEF JInv, TypeOK
  <1>1. CASE UndoStep
  <2>1. CASE BeginUndo \/ UndoOp \/ WalkIsOver \/ RemoveFolder
      <3>1. /\ UNCHANGED <<batch, image, done, journal, synced, outcome>>
            /\ pc \in {"over", "undo", "folders"} /\ pc' \in {"undo", "folders"}
        BY <2>1 DEF BeginUndo, UndoOp, Walked, WalkIsOver, RemoveFolder
      <3> QED BY <3>1, JournalKept
  <2>2. CASE Stamp
      <3>1. UNCHANGED <<batch, image, done, outcome>> /\ pc = "folders" /\ pc' = "over"
        BY <2>2 DEF Stamp
      <3>2. journal' \in {journal, journal \cup {Undone}} /\ synced \subseteq synced'
        BY <1>0, <2>2 DEF Stamp, Write, WriteFails
      <3>3. /\ \A i : Plan(i) \in journal' <=> Plan(i) \in journal
            /\ \A i : Completed(i) \in journal' <=> Completed(i) \in journal
            /\ \A i : Failed(i) \in journal' <=> Failed(i) \in journal
        BY <3>2, RecordFacts
      <3> QED BY <1>0, <3>1, <3>2, <3>3 DEF JournalInv, Announced
  <2> QED BY <1>1, <2>1, <2>2 DEF UndoStep
  <1>2. CASE ProcessKilled \/ PowerCut
  <2>1. /\ UNCHANGED <<batch, image, done>> /\ pc' = "over"
        /\ synced \subseteq synced' /\ journal' \subseteq journal
        /\ outcome' = IF pc \in Running THEN "died" ELSE outcome
    BY <1>0, <1>2 DEF ProcessKilled, PowerCut, Dies
  <2> QED BY <2>1, JournalKept
  <1>3. CASE Outside
  <2>1. UNCHANGED <<batch, image, done, pc, cur, refused, journal, synced, outcome>>
    BY <1>3 DEF Outside, OutsideCreates, OutsideRemoves, OutsideMoves, OutsideEdits, Meddle
  <2> QED BY <2>1, JournalKept
  <1>4. CASE Start
  <2>1. /\ UNCHANGED <<batch, image, done>> /\ journal = {} /\ synced = {} /\ done = 0
        /\ pc = "idle" /\ pc' \in {"over", "head"}
    BY <1>0, <1>4 DEF Start, Goto, LoopInv
  <2>2. journal' \in {{}, {Begin}}
    BY <1>4, <2>1 DEF Start, Write
  <2>3. \A i : Plan(i) \notin journal' /\ Completed(i) \notin journal' /\ Failed(i) \notin journal'
    BY <2>2, RecordFacts
  <2>4. outcome' \in {"refused", "nothing to do", "error"} \/ pc' = "head"
    BY <1>4 DEF Start, Goto
  <2> QED BY <1>0, <2>1, <2>3, <2>4 DEF JournalInv, Announced
  <1>5. CASE NextWindow
  <2>1. UNCHANGED <<batch, image, done, journal, synced>> /\ pc = "head" /\ pc' \in {"close", "announce"}
    BY <1>5 DEF NextWindow, Goto
  <2> QED BY <1>0, <2>1 DEF JournalInv, Announced
  <1>6. CASE Announce
  <2>1. /\ pc = "announce" /\ pc' = "sync" /\ cur' = cur /\ cur \in 1..N /\ cur = done + 1
        /\ UNCHANGED <<batch, done, synced, outcome>>
      <3>1. pc = "announce"
        BY <1>6 DEF Announce
      <3>2. cur + 1 = end /\ at = cur /\ cur \in 1..N /\ cur = done + 1
        BY <3>1, InHand
      <3> QED BY <1>6, <3>1, <3>2 DEF Announce, NextToAnnounce, Goto
  <2>2. CASE journal' = journal \cup {Plan(cur)} /\ Readable(cur) /\ image' = BeforeImage(cur)
             /\ refused' = refused
      <3>1. /\ \A i : Plan(i) \in journal' => Plan(i) \in journal \/ i = cur
            /\ Plan(cur) \in journal'
            /\ \A i : Completed(i) \in journal' <=> Completed(i) \in journal
            /\ \A i : Failed(i) \in journal' <=> Failed(i) \in journal
        BY <2>2, RecordFacts
      <3>2. \A i \in 1..N : /\ i # cur => image'[i] = image[i]
                            /\ i = cur /\ Op(i).kind = "date" => image'[i] \in Dates
        BY <2>1, <2>2, BeforeImageFacts
      <3>3. (\A i \in Announced : i <= done + 1 /\ (Op(i).kind = "date" => image[i] \in Dates))'
        BY <1>0, <2>1, <3>1, <3>2 DEF JournalInv, Announced
      <3> QED BY <1>0, <2>1, <2>2, <3>1, <3>3 DEF JournalInv
  <2>3. CASE UNCHANGED <<journal, image>> /\ refused' = refused \cup {cur}
    BY <1>0, <2>1, <2>3 DEF JournalInv, Announced
  <2> QED BY <1>6, <2>2, <2>3 DEF Announce
  <1>7. CASE AnnounceFails
  <2>1. /\ pc = "announce" /\ pc' = "over" /\ cur \in 1..N /\ cur = done + 1
        /\ UNCHANGED <<batch, done, synced>> /\ outcome' = "interrupted"
        /\ journal' \in {journal, journal \cup {Plan(cur)}}
        /\ Readable(cur) /\ image' = BeforeImage(cur)
    BY <1>7, InHand DEF AnnounceFails, WriteFails, Goto
  <2>2. /\ \A i : Plan(i) \in journal' => Plan(i) \in journal \/ i = cur
        /\ \A i : Completed(i) \in journal' <=> Completed(i) \in journal
        /\ \A i : Failed(i) \in journal' <=> Failed(i) \in journal
    BY <2>1, RecordFacts
  <2>3. \A i \in 1..N : /\ i # cur => image'[i] = image[i]
                        /\ i = cur /\ Op(i).kind = "date" => image'[i] \in Dates
    BY <2>1, BeforeImageFacts
  <2>4. (\A i \in Announced : i <= done + 1 /\ (Op(i).kind = "date" => image[i] \in Dates))'
    BY <1>0, <2>1, <2>2, <2>3 DEF JournalInv, Announced
  <2> QED BY <1>0, <2>1, <2>2, <2>4 DEF JournalInv
  <1>8. CASE Sync
  <2>1. /\ pc = "sync" /\ UNCHANGED <<batch, done, image, journal, cur, refused>>
        /\ \/ pc' = "perform" /\ synced' = journal /\ outcome' = outcome
           \/ pc' = "over" /\ synced' = synced /\ outcome' = "interrupted"
    BY <1>8 DEF Sync, Flush, Goto
  <2>2. JournalInv /\ synced \subseteq journal
    BY <1>0
  <2> QED BY <1>0, <2>1, <2>2 DEF JournalInv, Announced
  <1>9. CASE Perform \/ FinishWriting
  <2>1. /\ pc \in {"perform", "writing"} /\ cur \in 1..N /\ cur = done + 1
        /\ UNCHANGED <<batch, image, journal, synced, cur, outcome, refused>>
        /\ pc = "perform" => cur \notin refused
    BY <1>9, InHand DEF Perform, FinishWriting
  <2>2. \/ pc' = "confirm" /\ done' = done + 1
        \/ pc' = "writing" /\ done' = done
    BY <1>9 DEF Perform, FinishWriting, Performed, Goto
  <2>3. Plan(cur) \in synced /\ \A i \in 1..done : Completed(i) \in synced
    BY <1>0, <2>1 DEF JournalInv
  <2>4. \A i \in 1..N : Failed(i) \notin journal
    BY <1>0, <2>1 DEF JournalInv
  <2>5. CASE pc' = "confirm" /\ done' = done + 1
      <3>1. (\A i \in 1..done : Plan(i) \in synced)' /\ (\A i \in 1..(done - 1) : Completed(i) \in synced)'
        <4>1. \A i \in 1..done : Plan(i) \in synced
          BY <1>0 DEF JournalInv
        <4> QED BY <1>0, <2>1, <2>3, <2>5, <4>1
      <3>2. (\A i \in Announced : i <= done + 1 /\ (Op(i).kind = "date" => image[i] \in Dates))'
        BY <1>0, <2>1, <2>5 DEF JournalInv, Announced
      <3>3. (\A i \in 1..N : Completed(i) \in journal => i <= done)'
        BY <1>0, <2>1, <2>5 DEF JournalInv
      <3> QED BY <1>0, <2>1, <2>4, <2>5, <3>1, <3>2, <3>3 DEF JournalInv
  <2>6. CASE pc' = "writing" /\ done' = done
    BY <1>0, <2>1, <2>3, <2>4, <2>6 DEF JournalInv, Announced
  <2> QED BY <2>2, <2>5, <2>6
  <1>10. CASE PerformFails
  <2>1. /\ pc \in {"perform", "writing"} /\ pc' = "fail"
        /\ UNCHANGED <<batch, image, journal, synced, cur, outcome, refused, done>>
    BY <1>10 DEF PerformFails
  <2> QED BY <1>0, <2>1 DEF JournalInv, Announced
  <1>11. CASE Confirm \/ ConfirmFails
  <2>1. /\ pc = "confirm" /\ cur \in 1..N /\ cur = done
        /\ UNCHANGED <<batch, image, synced, done>>
    BY <1>11, InHand DEF Confirm, ConfirmFails, Interrupted, WriteFails
  <2>2. \/ pc' = "head" /\ outcome' = outcome /\ journal' = journal \cup {Completed(cur)}
        \/ /\ pc' = "over" /\ outcome' = "interrupted"
           /\ journal' \in {journal, journal \cup {Completed(cur)}}
      <3>1. cur + 1 = end
        BY <2>1, InHand
      <3> QED BY <1>11, <3>1 DEF Confirm, ConfirmFails, Interrupted, WriteFails, Goto
  <2>3. /\ \A i : Plan(i) \in journal' <=> Plan(i) \in journal
        /\ \A i : Completed(i) \in journal' => Completed(i) \in journal \/ i = cur
        /\ \A i : Failed(i) \in journal' <=> Failed(i) \in journal
        /\ journal \subseteq journal'
        /\ pc' = "head" => Completed(cur) \in journal'
    BY <2>2, RecordFacts
  <2>4. \A i \in 1..(done - 1) : Completed(i) \in journal
    BY <1>0 DEF JournalInv
  <2>5. pc' = "head" => \A i \in 1..done : Completed(i) \in journal'
    BY <1>0, <2>1, <2>3, <2>4
  <2>6. (\A i \in Announced : i <= done + 1 /\ (Op(i).kind = "date" => image[i] \in Dates))'
    BY <1>0, <2>1, <2>3 DEF JournalInv, Announced
  <2>7. \A i \in 1..N : Failed(i) \notin journal'
    BY <1>0, <2>1, <2>3 DEF JournalInv
  <2> QED BY <1>0, <2>1, <2>2, <2>3, <2>5, <2>6, <2>7 DEF JournalInv
  <1>12. CASE RecordFailure \/ RecordFailureFails
  <2>1. /\ pc = "fail" /\ cur \in 1..N /\ cur = done + 1
        /\ UNCHANGED <<batch, image, done>> /\ synced \subseteq synced'
        /\ journal' \in {journal, journal \cup {Failed(cur)}}
    BY <1>0, <1>12, InHand
       DEF RecordFailure, RecordFailureFails, Interrupted, WriteFails, Write
  <2>2. \/ pc' = "close" /\ outcome' = "failed"
        \/ pc' = "over" /\ outcome' = "interrupted"
    BY <1>12 DEF RecordFailure, RecordFailureFails, Interrupted, Goto
  <2>3. /\ \A i : Plan(i) \in journal' <=> Plan(i) \in journal
        /\ \A i : Completed(i) \in journal' <=> Completed(i) \in journal
        /\ \A i : Failed(i) \in journal' => Failed(i) \in journal \/ i = cur
    BY <2>1, RecordFacts
  <2>4. \A i \in 1..done : Completed(i) \in journal'
    BY <1>0, <2>1 DEF JournalInv
  <2>5. (\A i \in Announced : i <= done + 1 /\ (Op(i).kind = "date" => image[i] \in Dates))'
    BY <1>0, <2>1, <2>3 DEF JournalInv, Announced
  <2> QED BY <1>0, <2>1, <2>2, <2>3, <2>4, <2>5 DEF JournalInv
  <1>13. CASE Close \/ Seal \/ CloseFails
  <2>1. /\ pc \in {"close", "seal"} /\ UNCHANGED <<batch, image, done>>
        /\ journal' \in {journal, journal \cup {Commit}}
    BY <1>13 DEF Close, Seal, CloseFails, Interrupted, WriteFails
  <2>2. \/ pc' = "seal" /\ Commit \in journal' /\ synced' = synced
        \/ pc' = "over" /\ synced' = journal' /\ Commit \in journal'
        \/ pc' = "over" /\ synced' = synced /\ outcome' = "interrupted"
    BY <1>0, <1>13 DEF Close, Seal, CloseFails, Interrupted, WriteFails, Flush, Goto, JournalInv
  <2>3. /\ \A i : Plan(i) \in journal' <=> Plan(i) \in journal
        /\ \A i : Completed(i) \in journal' <=> Completed(i) \in journal
        /\ \A i : Failed(i) \in journal' <=> Failed(i) \in journal
        /\ synced \subseteq synced'
    BY <1>0, <2>1, <2>2, RecordFacts
  <2>4. \A i \in 1..done : Completed(i) \in journal'
    BY <1>0, <2>1 DEF JournalInv
  <2>5. (\A i \in Announced : i <= done + 1 /\ (Op(i).kind = "date" => image[i] \in Dates))'
    BY <1>0, <2>1, <2>3 DEF JournalInv, Announced
  <2> QED BY <1>0, <2>1, <2>2, <2>3, <2>4, <2>5 DEF JournalInv
  <1> QED BY <1>1, <1>2, <1>3, <1>4, <1>5, <1>6, <1>7, <1>8, <1>9, <1>10, <1>11, <1>12, <1>13
          DEF Next, RunStep

\* The invariant of a batch on files that anything may happen to.
LEMMA JStep == JInv /\ [Next]_vars => JInv'
  <1> SUFFICES ASSUME JInv, [Next]_vars PROVE JInv'
    OBVIOUS
  <1>1. CASE Next
    BY <1>1, TypeStep, LoopStep, JournalStep, FreshStep DEF JInv
  <1>2. CASE UNCHANGED vars
  <2>1. TypeOK'
      <3>1. TypeOK
        BY DEF JInv
      <3>2. /\ UNCHANGED <<batch, options, tree, date, body, journal, synced, image, pc>>
            /\ UNCHANGED <<at, end, cur, refused, completed, outcome, upos, folders, result>>
            /\ UNCHANGED <<done, added, gone, undos, faults, kills, cuts, meddled>>
            /\ UNCHANGED <<skipped, kept, torn, balked>>
        BY <1>2 DEF vars, fixed, disk, log, run, walk, history
      <3>3. Records' = Records
        BY <3>2 DEF Records, Begin, Commit, Undone
      <3>4. skipped' \in BOOLEAN /\ kept' \in BOOLEAN /\ torn' \in BOOLEAN /\ balked' \in BOOLEAN
        BY <3>1, <3>2 DEF TypeOK
      <3> QED BY <3>1, <3>2, <3>3, <3>4 DEF TypeOK
  <2>2. LoopInv'
    BY <1>2 DEF JInv, LoopInv, vars, fixed, disk, log, run, walk, history
  <2>3. JournalInv'
    BY <1>2 DEF JInv, JournalInv, Announced, vars, fixed, disk, log, run, walk, history
  <2>4. FreshInv'
    BY <1>2 DEF JInv, FreshInv, vars, fixed, disk, log, run, walk, history
  <2> QED BY <2>1, <2>2, <2>3, <2>4 DEF JInv
  <1> QED BY <1>1, <1>2

\* It holds throughout: what the theorems below are read off from
\* (apply_journalled of exec/apply.rs).
THEOREM Journaling == Spec => []JInv
  BY JInit, JStep, PTL DEF Spec

\* The volume stays a tree of names, whatever meets it, and every variable of
\* the program stays what it is declared to be.
THEOREM TypeCorrect == Spec => []TypeOK
  BY Journaling, PTL DEF JInv

\* No change is ever on the volume before its intent is where a power cut
\* cannot take it (announce, sync and perform of exec/apply.rs).
THEOREM WriteAheadHolds == Spec => []WriteAhead
  <1>1. JInv => WriteAhead
    BY DEF JInv, JournalInv, WriteAhead
  <1> QED BY <1>1, Journaling, PTL

\* Only the operation in hand and the one before it are ever in doubt, so that
\* the disk decides for recovery (WRITE_AHEAD_WINDOW of exec/apply.rs).
THEOREM TwoUnconfirmedHolds == Spec => []TwoUnconfirmed
  <1>1. JInv => TwoUnconfirmed
  <2> SUFFICES ASSUME JInv, NEW i \in Unconfirmed PROVE i \in {done, done + 1}
    BY DEF TwoUnconfirmed
  <2>1. /\ i \in 1..N /\ i <= done + 1 /\ done \in 0..N /\ N \in Nat
        /\ Completed(i) \notin journal /\ synced \subseteq journal
    BY InHand DEF JInv, TypeOK, JournalInv, Unconfirmed, Announced, Settled
  <2>2. ~(i \in 1..(done - 1))
    BY <2>1 DEF JInv, JournalInv
  <2> QED BY <2>1, <2>2
  <1> QED BY <1>1, Journaling, PTL

\* A run that told its caller how it ended is never again taken for one that
\* did not end, whatever the power does (Commit and its sync in apply_journalled).
THEOREM ReportedIsDurableHolds == Spec => []ReportedIsDurable
  <1>1. JInv => ReportedIsDurable
    BY DEF JInv, JournalInv, ReportedIsDurable
  <1> QED BY <1>1, Journaling, PTL

\* The count in ExecError::Interrupted is of the changes that were made.
THEOREM InterruptedTellsAllHolds == Spec => []InterruptedTellsAll
  <1>1. JInv => InterruptedTellsAll
    BY DEF JInv, LoopInv, InterruptedTellsAll
  <1> QED BY <1>1, Journaling, PTL
-----------------------------------------------------------------------------
(* An undo of files only the batch has changed puts every one of them back, *)
(* wherever the run stopped: the invariant IInv of ExecutorInv, one part at *)
(* a time, and what it shows of the undo.                                   *)

\* What the planner put into a batch about its i-th operation.
LEMMA PlanStep ==
    ASSUME batch \in Batches, NEW i \in 1..N
    PROVE  /\ Op(i) \in Ops
           /\ i + 1 \in 1..(N + 1) /\ i \in 1..(N + 1)
           /\ IsTree(batch.trees[i]) /\ IsTree(batch.trees[i + 1])
           /\ batch.dates[i] \in [Files -> Dates]
           /\ CanDo(Op(i), batch.trees[i])
           /\ Op(i).kind = "overwrite" => Exists(batch.trees[i], Op(i).path)
           /\ batch.trees[i + 1] = TreeAfter(Op(i), batch.trees[i])
           /\ batch.dates[i + 1] = DateAfter(Op(i), batch.trees[i], batch.dates[i])
  <1>1. N \in Nat /\ Op(i) \in Ops /\ Planned(batch)
    BY PlanFacts, BatchesAssumption
  <1>2. i \in 1..(N + 1) /\ i + 1 \in 1..(N + 1)
    BY <1>1
  <1> QED BY <1>1, <1>2 DEF Planned

\* The order of the kinds: new folders first, scripts' files last.
LEMMA PlanOrder ==
    ASSUME batch \in Batches, NEW i \in 1..N, NEW j \in 1..N, i < j
    PROVE  /\ Op(j).kind = "mkdir" => Op(i).kind = "mkdir"
           /\ Op(i).kind \in {"write", "overwrite"} => Op(j).kind \in {"write", "overwrite"}
           /\ Creates(Op(i)) /\ Creates(Op(j)) =>
                 Op(i).file # Op(j).file
           /\ Op(i).kind \in {"write", "overwrite"} => Op(i).path # Op(j).path
  <1>1. N \in Nat /\ Op(i) \in Ops /\ Op(j) \in Ops /\ Planned(batch)
    BY PlanFacts, BatchesAssumption
  <1>2. /\ Phase(Op(i)) <= Phase(Op(j))
        /\ Creates(Op(i)) /\ Creates(Op(j)) =>
              /\ Op(i).file # Op(j).file
              /\ Phase(Op(i)) = Phase(Op(j)) => Op(i).path # Op(j).path
    BY <1>1 DEF Planned
  <1>3. \A o \in Ops :
           /\ o.kind = "mkdir" => Phase(o) = 1
           /\ o.kind = "rename" => Phase(o) = 2
           /\ o.kind \in {"date", "retag"} => Phase(o) = 3
           /\ o.kind \in {"write", "overwrite"} => Phase(o) = 4
    BY DEF Phase
  <1>4. Op(i).kind \in {"write", "overwrite"} => Op(j).kind \in {"write", "overwrite"}
    BY <1>1, <1>2, <1>3, OpFields
  <1>5. Op(i).kind \in {"write", "overwrite"} => Op(i).path # Op(j).path
    BY <1>1, <1>2, <1>3, <1>4 DEF Creates
  <1> QED BY <1>1, <1>2, <1>3, <1>4, <1>5, OpFields

\* A new folder among new folders: it is one more name, and no date changes.
LEMMA MkdirStep ==
    ASSUME batch \in Batches, NEW i \in 1..N, Op(i).kind = "mkdir"
    PROVE  /\ Op(i).path \in Paths /\ Op(i).file \in Dirs
           /\ Op(i).path \notin DOMAIN batch.trees[i]
           /\ DOMAIN batch.trees[i + 1] = DOMAIN batch.trees[i] \cup {Op(i).path}
           /\ batch.trees[i + 1][Op(i).path] = Op(i).file
           /\ \A p \in DOMAIN batch.trees[i] : batch.trees[i + 1][p] = batch.trees[i][p]
           /\ batch.dates[i + 1] = batch.dates[i]
  <1> DEFINE o == Op(i)
             t == batch.trees[i]
  <1>1. /\ o \in Ops /\ CanDo(o, t) /\ batch.trees[i + 1] = TreeAfter(o, t)
        /\ batch.dates[i + 1] = DateAfter(o, t, batch.dates[i])
    BY PlanStep
  <1>2. o.path \in Paths /\ o.file \in Dirs
    BY <1>1, OpFields
  <1>3. ~Exists(t, o.path)
    BY <1>1 DEF CanDo, CanCreate, Creates
  <1>4. batch.trees[i + 1] = Created(t, o.path, o.file)
    BY <1>1, <1>3 DEF TreeAfter, Creates
  <1>5. batch.dates[i + 1] = batch.dates[i]
    BY <1>1 DEF DateAfter
  <1> QED BY <1>2, <1>3, <1>4, <1>5 DEF Created, Exists

\* Undoing the i-th operation from the state it left.
LEMMA StepBack ==
    ASSUME batch \in Batches, NEW i \in 1..N
    PROVE  LET o == Op(i)
               t == batch.trees[i]
               u == batch.trees[i + 1]
               d == batch.dates[i]
               e == batch.dates[i + 1]
           IN  /\ o.kind = "rename" =>
                     /\ Reversible(o, u) /\ CanRename(u, o.to, o.from)
                     /\ Renamed(u, o.to, o.from) = t /\ e = d
               /\ o.kind = "write" =>
                     /\ Exists(u, o.path) /\ u[o.path] = o.file /\ o.file \notin Dirs
                     /\ Removed(u, o.path) = t /\ e = d
               /\ o.kind = "date" =>
                     /\ Exists(u, o.path) /\ Exists(t, o.path) /\ u = t
                     /\ e[u[o.path]] = o.value
                     /\ [e EXCEPT ![u[o.path]] = d[t[o.path]]] = d
               /\ Irreversible(o) => u = t /\ e = d
  <1> DEFINE o == Op(i)
             t == batch.trees[i]
             u == batch.trees[i + 1]
             d == batch.dates[i]
             e == batch.dates[i + 1]
  <1>1. /\ o \in Ops /\ IsTree(t) /\ d \in [Files -> Dates]
        /\ CanDo(o, t) /\ u = TreeAfter(o, t) /\ e = DateAfter(o, t, d)
        /\ o.kind = "overwrite" => Exists(t, o.path)
    BY PlanStep
  <1> HIDE DEF o, t, u, d, e
  <1>2. o.kind # "date" => e = d
    BY <1>1 DEF DateAfter
  <1>3. CASE o.kind = "rename"
  <2>1. o.from \in Paths /\ o.to \in Paths /\ CanRename(t, o.from, o.to)
        /\ u = Renamed(t, o.from, o.to)
    BY <1>1, <1>3, OpFields DEF CanDo, TreeAfter, Creates
  <2>2. CanRename(u, o.to, o.from) /\ Renamed(u, o.to, o.from) = t
    BY <1>1, <2>1, RenamedBack
  <2>3. Reversible(o, u)
    BY <2>2 DEF CanRename, Reversible
  <2> QED BY <1>2, <1>3, <2>2, <2>3 DEF o, t, u, d, e, Irreversible
  <1>4. CASE o.kind = "write"
  <2>1. /\ o.path \in Paths /\ o.file \in Files \ Dirs /\ CanCreate(t, o.path)
        /\ u = Created(t, o.path, o.file)
    BY <1>1, <1>4, OpFields DEF CanDo, TreeAfter, Creates, CanCreate
  <2>2. Exists(u, o.path) /\ u[o.path] = o.file
    BY <2>1 DEF Created, Exists
  <2>3. Removed(u, o.path) = t
      <3> DEFINE r == Removed(u, o.path)
      <3>1. DOMAIN r = DOMAIN u \ {o.path} /\ \A q \in DOMAIN u \ {o.path} : r[q] = u[q]
        BY DEF Removed
      <3>2. r = [q \in DOMAIN r |-> r[q]]
        BY DEF Removed
      <3>3. /\ DOMAIN u = DOMAIN t \cup {o.path} /\ o.path \notin DOMAIN t
            /\ \A q \in DOMAIN t : u[q] = t[q]
        BY <2>1 DEF Created, CanCreate, Exists
      <3> HIDE DEF r
      <3>4. DOMAIN r = DOMAIN t /\ \A q \in DOMAIN t : r[q] = t[q]
        BY <3>1, <3>3
      <3>5. t = [q \in DOMAIN t |-> t[q]]
        BY <1>1 DEF IsTree
      <3>6. r = t
        BY <3>2, <3>4, <3>5
      <3> QED BY <3>6 DEF r
  <2> QED BY <1>2, <1>4, <2>1, <2>2, <2>3 DEF o, t, u, d, e, Irreversible
  <1>5. CASE o.kind = "date"
  <2>1. o.value \in Dates /\ Exists(t, o.path) /\ u = t
    BY <1>1, <1>5, OpFields DEF CanDo, TreeAfter, Creates
  <2>2. t[o.path] \in Files
    BY <1>1, <2>1 DEF IsTree, Exists
  <2>3. e = [d EXCEPT ![t[o.path]] = o.value]
    BY <1>1, <1>5 DEF DateAfter
  <2>4. [e EXCEPT ![t[o.path]] = d[t[o.path]]] = d
    BY <1>1, <2>2, <2>3
  <2>5. e[t[o.path]] = o.value
    BY <1>1, <2>2, <2>3
  <2> QED BY <1>5, <2>1, <2>4, <2>5 DEF o, t, u, d, e, Irreversible
  <1>6. CASE Irreversible(o)
  <2>1. u = t
    BY <1>1, <1>6 DEF CanDo, TreeAfter, Creates, Irreversible
  <2> QED BY <1>2, <1>6, <2>1 DEF o, t, u, d, e, Irreversible
  <1>7. CASE o.kind = "mkdir"
    BY <1>7 DEF o, t, u, d, e, Irreversible
  <1> QED BY <1>1, <1>3, <1>4, <1>5, <1>6, <1>7, OpFields DEF Irreversible
-----------------------------------------------------------------------------
\* As the run moves on, its first operations stay what they were: new folders.
LEMMA FolderStep ==
    ASSUME JInv, FolderInv, UNCHANGED batch, done' \in {done, done + 1}, done' <= N
    PROVE  FolderInv'
  <1>1. batch \in Batches /\ N \in Nat /\ done \in 0..N
    BY InHand DEF JInv, TypeOK
  <1>2. CASE done' = done
    BY <1>2 DEF FolderInv
  <1>3. CASE done' = done + 1
  <2> DEFINE k == done + 1
  <2>1. k \in 1..N /\ k \in 1..(N + 1)
    BY <1>1, <1>3
  <2> DEFINE New(j) ==
               (\A i \in 1..j : Op(i).kind = "mkdir") =>
                  /\ DOMAIN batch.trees[j + 1]
                        = DOMAIN batch.trees[1] \cup {Op(i).path : i \in 1..j}
                  /\ \A p \in DOMAIN batch.trees[1] : batch.trees[j + 1][p] = batch.trees[1][p]
                  /\ \A i \in 1..j : batch.trees[j + 1][Op(i).path] \in Dirs
                  /\ \A i \in 1..j : Op(i).path \notin DOMAIN batch.trees[1]
                  /\ batch.dates[j + 1] = batch.dates[1]
  <2>a. FolderInv <=> \A j \in 0..done : New(j)
    BY DEF FolderInv
  <2>b. FolderInv' <=> \A j \in 0..done' : New(j)
    BY DEF FolderInv
  <2>c. \A j \in 0..done' : j \in 0..done \/ j = k
    BY <1>1, <1>3
  <2> SUFFICES New(k)
      <3> HIDE DEF New, k
      <3> QED BY <2>a, <2>b, <2>c
  <2> SUFFICES ASSUME \A i \in 1..k : Op(i).kind = "mkdir"
               PROVE  /\ DOMAIN batch.trees[k + 1]
                            = DOMAIN batch.trees[1] \cup {Op(i).path : i \in 1..k}
                      /\ \A p \in DOMAIN batch.trees[1] :
                            batch.trees[k + 1][p] = batch.trees[1][p]
                      /\ \A i \in 1..k : batch.trees[k + 1][Op(i).path] \in Dirs
                      /\ \A i \in 1..k : Op(i).path \notin DOMAIN batch.trees[1]
                      /\ batch.dates[k + 1] = batch.dates[1]
    OBVIOUS
  <2>2. /\ DOMAIN batch.trees[k] = DOMAIN batch.trees[1] \cup {Op(i).path : i \in 1..done}
        /\ \A p \in DOMAIN batch.trees[1] : batch.trees[k][p] = batch.trees[1][p]
        /\ \A i \in 1..done : batch.trees[k][Op(i).path] \in Dirs
        /\ \A i \in 1..done : Op(i).path \notin DOMAIN batch.trees[1]
        /\ batch.dates[k] = batch.dates[1]
      <3>1. \A i \in 1..done : Op(i).kind = "mkdir"
        BY <1>1
      <3> QED BY <1>1, <3>1 DEF FolderInv
  <2>3. Op(k).kind = "mkdir"
    BY <2>1
  <2>4. /\ Op(k).path \notin DOMAIN batch.trees[k] /\ Op(k).file \in Dirs
        /\ DOMAIN batch.trees[k + 1] = DOMAIN batch.trees[k] \cup {Op(k).path}
        /\ batch.trees[k + 1][Op(k).path] = Op(k).file
        /\ \A p \in DOMAIN batch.trees[k] : batch.trees[k + 1][p] = batch.trees[k][p]
        /\ batch.dates[k + 1] = batch.dates[k]
    BY <1>1, <2>1, <2>3, MkdirStep
  <2>5. \A i \in 1..k : i = k \/ i \in 1..done
    BY <1>1
  <2> HIDE DEF k
  <2>6. {Op(i).path : i \in 1..k} = {Op(i).path : i \in 1..done} \cup {Op(k).path}
      <3>1. k \in 1..k /\ \A i \in 1..done : i \in 1..k
        BY <1>1, <2>1 DEF k
      <3> QED BY <2>5, <3>1
  <2>7. \A i \in 1..k : batch.trees[k + 1][Op(i).path] \in Dirs
    BY <2>2, <2>4, <2>5
  <2>8. \A i \in 1..k : Op(i).path \notin DOMAIN batch.trees[1]
    BY <2>2, <2>4, <2>5
  <2>9. \A p \in DOMAIN batch.trees[1] : batch.trees[k + 1][p] = batch.trees[1][p]
    BY <2>2, <2>4
  <2> QED BY <2>2, <2>4, <2>6, <2>7, <2>8, <2>9
  <1> QED BY <1>2, <1>3

\* How far the run is only ever moves on, by one change at a time.
LEMMA DoneStep ==
    ASSUME JInv, Next
    PROVE  /\ done' \in {done, done + 1} /\ done' <= N
           /\ done' # done => Perform \/ FinishWriting
  <1>1. done' \in 0..N /\ N \in Nat
    BY TypeStep, FixedStep, InHand DEF TypeOK, fixed
  <1>2. CASE RunStep /\ ~Perform /\ ~FinishWriting
  <2>1. done' = done
    BY <1>2 DEF RunStep, Start, NextWindow, Announce, AnnounceFails, Sync, PerformFails,
       Confirm, ConfirmFails, RecordFailure, RecordFailureFails, Close, Seal, CloseFails, Interrupted
  <2> QED BY <1>1, <2>1
  <1>3. CASE Perform \/ FinishWriting
  <2>1. done' \in {done, done + 1}
    BY <1>3 DEF Perform, FinishWriting, Performed
  <2> QED BY <1>1, <1>3, <2>1
  <1>4. CASE ~RunStep
  <2>1. done' = done
    BY <1>4 DEF Next, UndoStep, BeginUndo, UndoOp, Walked, WalkIsOver, RemoveFolder, Stamp,
       ProcessKilled, PowerCut, Dies, history,
       Outside, OutsideCreates, OutsideRemoves, OutsideMoves, OutsideEdits, Meddle
  <2> QED BY <1>1, <2>1
  <1> QED BY <1>2, <1>3, <1>4

\* Another program has been at the files, or a write was cut short: for good.
LEMMA UntouchedStep ==
    ASSUME JInv, Next, Untouched'
    PROVE  Untouched /\ ~Outside
  <1>1. meddled \in Nat /\ meddled' = 0 /\ torn' = FALSE
  <2>1. meddled \in Nat /\ torn' \in BOOLEAN
    BY TypeStep DEF JInv, TypeOK
  <2> QED BY <2>1 DEF Untouched
  <1>2. ~Outside
    BY <1>1 DEF Outside, OutsideCreates, OutsideRemoves, OutsideMoves, OutsideEdits, Meddle
  <1>3. meddled' = meddled
    BY <1>2 DEF Next, RunStep, Start, NextWindow, Announce, AnnounceFails, Sync,
       Perform, FinishWriting, PerformFails, Confirm, ConfirmFails, RecordFailure,
       RecordFailureFails, Close, Seal, CloseFails, Interrupted, Goto, NextToAnnounce, Performed,
       UndoStep, BeginUndo, UndoOp, Walked, WalkIsOver, RemoveFolder, Stamp,
       ProcessKilled, PowerCut, Dies, history
  <1>4. torn => torn'
  <2>1. CASE RunStep
    BY <2>1 DEF RunStep, Start, NextWindow, Announce, AnnounceFails, Sync,
       Perform, FinishWriting, PerformFails, Confirm, ConfirmFails, RecordFailure,
       RecordFailureFails, Close, Seal, CloseFails, Interrupted, Goto, NextToAnnounce, Performed
  <2>2. CASE ~RunStep
    BY <1>2, <2>2 DEF Next, UndoStep, BeginUndo, UndoOp, Walked, WalkIsOver, RemoveFolder, Stamp,
       ProcessKilled, PowerCut, Dies, history
  <2> QED BY <2>1, <2>2
  <1> QED BY <1>1, <1>2, <1>3, <1>4 DEF Untouched

\* The before-images of what has been announced are those of the plan.
Imaged == \A i \in Announced : Op(i).kind = "date" =>
              image[i] = batch.dates[i][batch.trees[i][Op(i).path]]

\* An announcement takes its before-image from a volume that is as planned.
LEMMA ImagedStep ==
    ASSUME JInv, RunInv, Untouched, Next
    PROVE  Imaged'
  <1>0. Imaged /\ batch' = batch
    BY FixedStep DEF RunInv, Imaged, fixed
  <1>1. CASE Announce \/ AnnounceFails
  <2>1. pc = "announce" /\ undos = 0 /\ cur \in 1..N /\ cur = done + 1
      <3>1. pc = "announce"
        BY <1>1 DEF Announce, AnnounceFails
      <3>2. ~(undos > 0) /\ undos \in Nat
        BY <3>1 DEF JInv, LoopInv, TypeOK, Undoing
      <3> QED BY <3>1, <3>2, InHand
  <2>2. Reached(done)
    BY <2>1 DEF RunInv
  <2>3. CASE UNCHANGED <<journal, image>>
    BY <1>0, <2>3 DEF Imaged, Announced
  <2>4. CASE Readable(cur) /\ journal' \in {journal, journal \cup {Plan(cur)}} /\ image' = BeforeImage(cur)
      <3>1. \A i : Plan(i) \in journal' => Plan(i) \in journal \/ i = cur
        BY <2>4, RecordFacts
      <3>2. \A i \in 1..N : i # cur => image'[i] = image[i]
        BY <2>1, <2>4, BeforeImageFacts
      <3>3. Op(cur).kind = "date" =>
              image'[cur] = batch.dates[cur][batch.trees[cur][Op(cur).path]]
        BY <2>1, <2>2, <2>4, BeforeImageFacts DEF Reached
      <3> QED BY <1>0, <3>1, <3>2, <3>3 DEF Imaged, Announced
  <2> QED BY <1>1, <2>3, <2>4 DEF Announce, AnnounceFails, WriteFails
  <1>2. CASE UNCHANGED image /\ \A i : Plan(i) \in journal' => Plan(i) \in journal
    BY <1>0, <1>2 DEF Imaged, Announced
  <1>3. CASE RunStep /\ ~Announce /\ ~AnnounceFails
  <2>1. UNCHANGED image /\ \E r \in {Begin, Commit, Completed(cur), Failed(cur)} :
           journal' \in {journal, journal \cup {r}}
    BY <1>3 DEF RunStep, Start, NextWindow, Sync,
       Perform, FinishWriting, PerformFails, Confirm, ConfirmFails, RecordFailure, log,
       RecordFailureFails, Close, Seal, CloseFails, Interrupted, WriteFails, Write
  <2> QED BY <1>2, <2>1, RecordFacts
  <1>4. CASE UndoStep
  <2>1. UNCHANGED image /\ journal' \in {journal, journal \cup {Undone}}
    BY <1>4 DEF UndoStep, BeginUndo, UndoOp, Walked, WalkIsOver, RemoveFolder, Stamp, log,
       WriteFails, Write
  <2> QED BY <1>2, <2>1, RecordFacts
  <1>5. CASE ProcessKilled \/ PowerCut \/ Outside
    BY <1>2, <1>5 DEF ProcessKilled, PowerCut, Dies, log,
         Outside, OutsideCreates, OutsideRemoves, OutsideMoves, OutsideEdits, Meddle
  <1> QED BY <1>1, <1>3, <1>4, <1>5 DEF Next

\* A run nothing interferes with stays on its plan.
LEMMA RunStepInv ==
    ASSUME JInv, RunInv, Next
    PROVE  RunInv'
  <1> SUFFICES ASSUME Untouched' PROVE RunInv'
    BY DEF RunInv
  <1>0. /\ Untouched /\ ~Outside /\ batch' = batch /\ batch \in Batches
        /\ N \in Nat /\ done \in 0..N /\ undos \in Nat
        /\ IsTree(tree) /\ body \in [Files -> Bodies]
        /\ Texts \cap {"half"} = {}
    BY UntouchedStep, FixedStep, InHand, ValuesAssumption DEF JInv, TypeOK, fixed
  <1>1. /\ pc = "writing" => Reached(done + 1) /\ Op(done + 1).kind \in {"write", "overwrite"}
        /\ undos = 0 /\ pc # "writing" => Reached(done)
        /\ pc = "writing" => Exists(tree, Op(done + 1).path) /\ body[tree[Op(done + 1).path]] = "half"
        /\ \A f \in Files : body[f] = "half" => pc = "writing" /\ f = tree[Op(done + 1).path]
    BY <1>0 DEF RunInv
  <1>2. Imaged'
    BY <1>0, ImagedStep
  <1>3. SUFFICES
           /\ pc' = "writing" => Reached(done + 1)' /\ Op(done' + 1).kind \in {"write", "overwrite"}
           /\ undos' = 0 /\ pc' # "writing" => Reached(done)'
           /\ pc' = "writing" => /\ Exists(tree', Op(done' + 1).path)
                                 /\ body'[tree'[Op(done' + 1).path]] = "half"
           /\ \A f \in Files : body'[f] = "half" => pc' = "writing" /\ f = tree'[Op(done' + 1).path]
    BY <1>0, <1>2 DEF RunInv, Imaged
  <1>4. CASE /\ UNCHANGED <<tree, date, body, done>> /\ pc # "writing" /\ pc' # "writing"
             /\ undos' = 0 => undos = 0
    BY <1>0, <1>1, <1>4 DEF Reached
  <1>5. CASE Perform
  <2> DEFINE o == Op(cur)
  <2>1. pc = "perform" /\ cur \in 1..N /\ cur = done + 1 /\ undos = 0
      <3>1. pc = "perform"
        BY <1>5 DEF Perform
      <3> QED BY <1>0, <3>1, InHand DEF JInv, LoopInv, Undoing
  <2>2. tree = batch.trees[cur] /\ date = batch.dates[cur]
    BY <1>1, <2>1 DEF Reached
  <2>3. /\ o \in Ops /\ CanDo(o, tree)
        /\ tree' = TreeAfter(o, tree) /\ date' = DateAfter(o, tree, date)
        /\ batch.trees[cur + 1] = TreeAfter(o, batch.trees[cur])
        /\ batch.dates[cur + 1] = DateAfter(o, batch.trees[cur], batch.dates[cur])
    BY <1>0, <1>5, <2>1, PlanStep DEF Perform
  <2>4. tree' = batch.trees[cur + 1] /\ date' = batch.dates[cur + 1]
    BY <2>2, <2>3
  <2>5. \A f \in Files : body[f] # "half"
    BY <1>1, <2>1
  <2>6. CASE /\ o.kind \in {"write", "overwrite"} /\ pc' = "writing" /\ done' = done
             /\ body' = Rewritten(o, tree', "half")
      <3>1. Exists(tree', o.path)
        BY <2>3, <2>6 DEF CanDo, TreeAfter, Creates, Created, Exists, CanCreate
      <3>2. IsTree(tree')
        BY DiskStep
      <3>3. tree'[o.path] \in Files
        BY <3>1, <3>2 DEF IsTree, Exists
      <3>4. \A f \in Files : body'[f] = IF f = tree'[o.path] THEN "half" ELSE body[f]
        BY <1>0, <2>6, <3>3 DEF Rewritten
      <3> QED BY <1>0, <2>1, <2>4, <2>5, <2>6, <3>1, <3>3, <3>4 DEF Reached
  <2>7. CASE /\ pc' = "confirm" /\ done' = done + 1
             /\ \/ body' = body
                \/ o.kind = "retag" /\ body' = Rewritten(o, tree, o.text)
      <3>1. o.kind = "retag" => o.text # "half"
        BY <1>0, <2>3, OpFields
      <3>2. \A f \in Files : body'[f] # "half"
        BY <1>0, <2>5, <2>7, <3>1 DEF Rewritten
      <3> QED BY <1>0, <2>1, <2>4, <2>7, <3>2 DEF Reached
  <2> QED BY <1>5, <2>6, <2>7 DEF Perform, Performed, Goto
  <1>6. CASE FinishWriting
  <2>1. pc = "writing" /\ cur \in 1..N /\ cur = done + 1 /\ undos = 0
      <3>1. pc = "writing"
        BY <1>6 DEF FinishWriting
      <3> QED BY <1>0, <3>1, InHand DEF JInv, LoopInv, Undoing
  <2>2. /\ UNCHANGED <<tree, date>> /\ pc' = "confirm" /\ done' = done + 1
        /\ body' = [body EXCEPT ![Handle] = Op(cur).text]
    BY <1>6 DEF FinishWriting, Performed, Goto
  <2>3. tree[Op(cur).path] \in Files
    BY <1>0, <1>1, <2>1 DEF IsTree, Exists
  <2>4. Handle = tree[Op(cur).path]
    BY <1>1, <2>1, <2>3 DEF Handle
  <2>5. Op(cur).text # "half"
      <3>1. Op(cur).kind \in {"write", "overwrite"} /\ Op(cur) \in Ops
        BY <1>0, <1>1, <2>1, PlanStep
      <3> QED BY <1>0, <3>1, OpFields
  <2>6. \A f \in Files : body'[f] # "half"
    BY <1>0, <1>1, <2>1, <2>2, <2>3, <2>4, <2>5
  <2> QED BY <1>0, <1>1, <2>1, <2>2, <2>6 DEF Reached
  <1>7. CASE RunStep /\ ~Perform /\ ~FinishWriting
  <2>1. UNCHANGED <<tree, date, body, done, undos>> /\ pc' # "writing"
    BY <1>7 DEF RunStep, Start, NextWindow, Announce, AnnounceFails, Sync, PerformFails,
       Confirm, ConfirmFails, RecordFailure, RecordFailureFails, Close, Seal, CloseFails,
       Interrupted, Goto, disk, NextToAnnounce
  <2>2. pc # "writing"
      <3>1. torn' = FALSE
        <4>1. torn' \in BOOLEAN
          BY TypeStep DEF TypeOK
        <4> QED BY <4>1 DEF Untouched
      <3> QED BY <1>7, <3>1 DEF RunStep, Start, NextWindow, Announce, AnnounceFails, Sync, PerformFails,
         Confirm, ConfirmFails, RecordFailure, RecordFailureFails, Close, Seal, CloseFails
  <2> QED BY <1>4, <2>1, <2>2
  <1>8. CASE UndoStep
  <2>1. UNCHANGED <<body, done>> /\ pc # "writing" /\ pc' # "writing" /\ undos' > 0
      <3>1. body' = body
        BY <1>8 DEF UndoStep, BeginUndo, UndoOp, UndoRename, UndoCreateDir, UndoWrite, UndoDate,
           Try, Leave, LookFails, WalkIsOver, RemoveFolder, Stamp, disk
      <3>2. /\ UNCHANGED done /\ pc \in {"over", "undo", "folders"}
            /\ pc' \in {"over", "undo", "folders"}
            /\ undos' = undos + 1 \/ (undos' = undos /\ pc \in Undoing)
        BY <1>8 DEF UndoStep, BeginUndo, UndoOp, Walked, WalkIsOver, RemoveFolder, Stamp, history, Undoing
      <3>3. pc \in Undoing => undos > 0
        BY DEF JInv, LoopInv
      <3> QED BY <1>0, <3>1, <3>2, <3>3
  <2> QED BY <1>0, <1>1, <2>1
  <1>9. CASE ProcessKilled \/ PowerCut
  <2>1. UNCHANGED <<tree, date, body, done, undos>> /\ pc' = "over"
    BY <1>9 DEF ProcessKilled, PowerCut, Dies, disk
  <2>2. pc # "writing"
      <3>1. torn' \in BOOLEAN
        BY TypeStep DEF TypeOK
      <3> QED BY <1>9, <3>1 DEF ProcessKilled, PowerCut, Dies, Untouched
  <2> QED BY <1>4, <2>1, <2>2
  <1> QED BY <1>0, <1>5, <1>6, <1>7, <1>8, <1>9 DEF Next

\* A script's file, once written, is at its path until an undo begins, and
\* keeps its contents.
LEMMA WrittenStep ==
    ASSUME JInv, RunInv, WrittenInv, Next
    PROVE  WrittenInv'
  <1> SUFFICES ASSUME Untouched' PROVE WrittenInv'
    BY DEF WrittenInv
  <1>0. /\ Untouched /\ ~Outside /\ batch' = batch /\ batch \in Batches
        /\ N \in Nat /\ done \in 0..N /\ undos \in Nat
        /\ IsTree(tree) /\ body \in [Files -> Bodies]
        /\ \A i \in 1..N : Op(i) \in Ops
    BY UntouchedStep, FixedStep, InHand, PlanFacts DEF JInv, TypeOK, fixed
  <1>1. \A i \in 1..done : Op(i).kind = "write" =>
           /\ body[Op(i).file] = Op(i).text
           /\ undos = 0 => Exists(tree, Op(i).path) /\ tree[Op(i).path] = Op(i).file
    BY <1>0 DEF WrittenInv
  <1>2. CASE UNCHANGED <<tree, body, done>> /\ (undos' = 0 => undos = 0)
    BY <1>0, <1>1, <1>2 DEF WrittenInv
  <1>3. CASE Perform
  <2> DEFINE o == Op(cur)
  <2>1. pc = "perform" /\ cur \in 1..N /\ cur = done + 1 /\ undos = 0
      <3>1. pc = "perform"
        BY <1>3 DEF Perform
      <3> QED BY <1>0, <3>1, InHand DEF JInv, LoopInv, Undoing
  <2>2. o \in Ops /\ CanDo(o, tree) /\ tree' = TreeAfter(o, tree)
    BY <1>0, <1>3, <2>1 DEF Perform
  \* after a script's file, only other scripts' files follow
  <2>3. ASSUME NEW i \in 1..done, Op(i).kind = "write"
        PROVE  /\ o.kind \in {"write", "overwrite"} /\ o.path # Op(i).path
               /\ Op(i).file \in Files
      <3>1. i \in 1..N /\ i < cur
        BY <1>0, <2>1
      <3>2. o.kind \in {"write", "overwrite"}
        BY <1>0, <2>1, <2>3, <3>1, PlanOrder
      <3> QED BY <1>0, <2>1, <2>3, <3>1, <3>2, PlanOrder, OpFields DEF Creates
  <2>4. CASE o.kind \in {"write", "overwrite"}
      <3>1. /\ done' = done /\ undos' = undos
            /\ body' = Rewritten(o, tree', "half")
        BY <1>3, <2>4 DEF Perform, Goto
      <3>2. IsTree(tree')
        BY DiskStep
      <3>3. Exists(tree', o.path)
        BY <2>2, <2>4 DEF CanDo, TreeAfter, Creates, Created, Exists, CanCreate
      <3>4. \A p \in DOMAIN tree : p # o.path => p \in DOMAIN tree' /\ tree'[p] = tree[p]
        BY <2>2, <2>4 DEF TreeAfter, Created, Exists, Creates
      <3>5. ASSUME NEW i \in 1..done, Op(i).kind = "write"
            PROVE  /\ Exists(tree', Op(i).path) /\ tree'[Op(i).path] = Op(i).file
                   /\ body'[Op(i).file] = Op(i).text
        <4>1. Exists(tree', Op(i).path) /\ tree'[Op(i).path] = Op(i).file
          BY <1>1, <2>1, <2>3, <3>4, <3>5 DEF Exists
        <4>2. tree'[o.path] # Op(i).file
          BY <2>3, <3>2, <3>3, <3>5, <4>1 DEF IsTree, Exists
        <4> QED BY <1>0, <1>1, <2>3, <3>1, <3>5, <4>1, <4>2 DEF Rewritten
      <3> QED BY <1>0, <3>1, <3>5 DEF WrittenInv
  <2>5. CASE o.kind \notin {"write", "overwrite"}
      <3>1. done' = done + 1
        BY <1>3, <2>5 DEF Perform, Performed
      <3>2. \A i \in 1..done' : Op(i).kind # "write"
        BY <1>0, <2>1, <2>3, <2>5, <3>1
      <3> QED BY <1>0, <3>2 DEF WrittenInv
  <2> QED BY <2>4, <2>5
  <1>4. CASE FinishWriting
  <2>1. pc = "writing" /\ cur \in 1..N /\ cur = done + 1 /\ undos = 0
      <3>1. pc = "writing"
        BY <1>4 DEF FinishWriting
      <3> QED BY <1>0, <3>1, InHand DEF JInv, LoopInv, Undoing
  <2>2. /\ UNCHANGED tree /\ done' = done + 1 /\ undos' = undos
        /\ body' = [body EXCEPT ![Handle] = Op(cur).text]
    BY <1>4 DEF FinishWriting, Performed, Goto
  <2>3. /\ Exists(tree, Op(cur).path) /\ tree[Op(cur).path] \in Files
        /\ Handle = tree[Op(cur).path]
      <3>1. /\ Exists(tree, Op(cur).path) /\ body[tree[Op(cur).path]] = "half"
            /\ \A f \in Files : body[f] = "half" => f = tree[Op(cur).path]
        BY <1>0, <2>1 DEF RunInv
      <3>2. tree[Op(cur).path] \in Files
        BY <1>0, <3>1 DEF IsTree, Exists
      <3> QED BY <3>1, <3>2 DEF Handle
  <2>4. Op(cur).kind = "write" => tree[Op(cur).path] = Op(cur).file
      <3>1. tree = batch.trees[cur + 1]
        BY <1>0, <2>1 DEF RunInv, Reached
      <3> QED BY <1>0, <2>1, <3>1, StepBack
  <2>5. ASSUME NEW i \in 1..done', Op(i).kind = "write"
        PROVE  /\ Exists(tree', Op(i).path) /\ tree'[Op(i).path] = Op(i).file
               /\ body'[Op(i).file] = Op(i).text
      <3>1. CASE i = cur
        BY <1>0, <2>2, <2>3, <2>4, <2>5, <3>1
      <3>2. CASE i # cur
        <4>1. i \in 1..done /\ i \in 1..N /\ i < cur
          BY <1>0, <2>1, <2>2, <3>2
        <4>2. Exists(tree, Op(i).path) /\ tree[Op(i).path] = Op(i).file /\ body[Op(i).file] = Op(i).text
          BY <1>1, <2>1, <2>5, <4>1
        <4>3. Op(i).path # Op(cur).path
          <5>1. Op(cur).kind \in {"write", "overwrite"}
            BY <1>0, <2>1 DEF RunInv
          <5> QED BY <1>0, <2>1, <2>5, <4>1, <5>1, PlanOrder DEF Creates
        <4>4. tree[Op(i).path] # tree[Op(cur).path] /\ tree[Op(i).path] \in Files
          BY <1>0, <2>3, <4>2, <4>3 DEF IsTree, Exists
        <4> QED BY <1>0, <2>2, <2>3, <4>2, <4>4
      <3> QED BY <3>1, <3>2
  <2> QED BY <1>0, <2>5 DEF WrittenInv
  <1>5. CASE RunStep /\ ~Perform /\ ~FinishWriting
  <2>1. UNCHANGED <<tree, body, done, undos>>
    BY <1>5 DEF RunStep, Start, NextWindow, Announce, AnnounceFails, Sync, PerformFails,
       Confirm, ConfirmFails, RecordFailure, RecordFailureFails, Close, Seal, CloseFails,
       Interrupted, Goto, disk, NextToAnnounce
  <2> QED BY <1>2, <2>1
  <1>6. CASE UndoStep
  <2>1. body' = body
    BY <1>6 DEF UndoStep, BeginUndo, UndoOp, UndoRename, UndoCreateDir, UndoWrite, UndoDate,
       Try, Leave, LookFails, WalkIsOver, RemoveFolder, Stamp, disk
  <2>2. UNCHANGED done /\ (undos' = undos + 1 \/ (undos' = undos /\ pc \in Undoing))
    BY <1>6 DEF UndoStep, BeginUndo, UndoOp, Walked, WalkIsOver, RemoveFolder, Stamp, history, Undoing
  <2>3. undos' # 0
    BY <1>0, <2>2 DEF JInv, LoopInv
  <2> QED BY <1>0, <1>1, <2>1, <2>2, <2>3 DEF WrittenInv
  <1>7. CASE ProcessKilled \/ PowerCut
    BY <1>2, <1>7 DEF ProcessKilled, PowerCut, Dies, disk
  <1> QED BY <1>0, <1>3, <1>4, <1>5, <1>6, <1>7 DEF Next

\* A refusal during the first undo shows: as a skip, as a folder kept, or in
\* the journal, where what it was about was never confirmed.
LEMMA BalkedStep ==
    ASSUME JInv, BalkedInv, Next
    PROVE  BalkedInv'
  <1>0. undos \in Nat /\ batch' = batch /\ synced \subseteq journal
    BY FixedStep DEF JInv, TypeOK, fixed
  <1>1. /\ skipped \in BOOLEAN /\ kept \in BOOLEAN /\ balked \in BOOLEAN
        /\ skipped' \in BOOLEAN /\ kept' \in BOOLEAN /\ balked' \in BOOLEAN
    BY TypeStep DEF JInv, TypeOK
  <1>2. CASE RunStep
  <2>1. UNCHANGED <<undos, balked, result>>
    BY <1>2 DEF RunStep, Start, NextWindow, Announce, AnnounceFails, Sync, PerformFails,
       Perform, Performed, FinishWriting, walk,
       Confirm, ConfirmFails, RecordFailure, RecordFailureFails, Close, Seal, CloseFails,
       Interrupted, Goto, NextToAnnounce
  <2>2. undos = 0 /\ result = "none"
      <3>1. pc \notin {"over"} \cup Undoing
        BY <1>2 DEF RunStep, Start, NextWindow, Announce, AnnounceFails, Sync, PerformFails,
           Perform, FinishWriting, Confirm, ConfirmFails, RecordFailure,
           RecordFailureFails, Close, Seal, CloseFails, Undoing
      <3>2. ~(undos > 0)
        BY <3>1 DEF JInv, LoopInv
      <3> QED BY <1>0, <3>2 DEF JInv, LoopInv
  <2> QED BY <2>1, <2>2 DEF BalkedInv
  <1>3. CASE BeginUndo
  <2>1. undos' = undos + 1 /\ UNCHANGED balked /\ result' = "none"
    BY <1>3 DEF BeginUndo
  <2> QED BY <1>0, <2>1 DEF BalkedInv
  <1>4. CASE UndoOp \/ RemoveFolder
  <2>1. /\ pc \in Undoing /\ pc' = pc /\ UNCHANGED <<undos, result, log>>
        /\ result = "none" /\ undos > 0
      <3>1. pc \in Undoing /\ pc' = pc /\ UNCHANGED <<undos, result, log>>
        BY <1>4 DEF UndoOp, Walked, RemoveFolder, Undoing
      <3> QED BY <3>1 DEF JInv, LoopInv
  <2>2. Unconfirmed' = Unconfirmed
    BY <1>0, <2>1 DEF Unconfirmed, Announced, Settled, log
  <2>3. /\ skipped \/ kept => skipped' \/ kept'
        /\ balked' => balked \/ skipped' \/ kept' \/ Unconfirmed # {}
      <3>1. CASE UndoOp
        <4>1. kept' = kept
          BY <3>1 DEF UndoOp, Walked
        <4>2. CASE ~LookFails(upos)
          <5>1. \/ balked' = balked /\ (skipped' = skipped \/ skipped' = TRUE)
                \/ balked' = TRUE /\ skipped' = TRUE
            BY <1>1, <3>1, <4>2
               DEF UndoOp, UndoRename, UndoCreateDir, UndoWrite, UndoDate, Try, Leave
          <5> QED BY <1>1, <4>1, <5>1
        <4>3. CASE LookFails(upos) /\ ~Spared(upos)
          <5>1. Confirmed(upos) => skipped' = TRUE
            BY <1>1, <4>3 DEF LookFails
          <5>2. skipped => skipped'
            BY <1>1, <4>3 DEF LookFails
          <5>3. ~Confirmed(upos) => upos \in Unconfirmed
            BY <4>3 DEF Spared, Unconfirmed, Settled, Confirmed
          <5> QED BY <1>1, <4>1, <5>1, <5>2, <5>3
        <4>4. CASE Spared(upos) /\ Leave(FALSE)
          BY <1>1, <4>1, <4>4 DEF Leave
        <4> QED BY <3>1, <4>2, <4>3, <4>4 DEF UndoOp
      <3>2. CASE RemoveFolder
        <4>1. skipped' = skipped
          BY <3>2 DEF RemoveFolder
        <4>2. \/ balked' = balked /\ (kept' = kept \/ kept' = TRUE)
              \/ balked' = TRUE /\ kept' = TRUE
          BY <3>2 DEF RemoveFolder
        <4> QED BY <1>1, <4>1, <4>2
      <3> QED BY <1>4, <3>1, <3>2
  <2>4. undos = 1 /\ balked => skipped \/ kept \/ Unconfirmed # {}
    BY <2>1 DEF BalkedInv
  <2>5. undos' = 1 /\ balked' => skipped' \/ kept' \/ Unconfirmed' # {}
    BY <1>1, <2>1, <2>2, <2>3, <2>4
  <2> QED BY <1>0, <2>1, <2>5 DEF BalkedInv
  <1>5. CASE Stamp
  <2>1. /\ UNCHANGED <<undos, balked, skipped, kept>> /\ pc \in Undoing /\ undos > 0
        /\ journal' \in {journal, journal \cup {Undone}}
      <3>1. pc \in Undoing
        BY <1>5 DEF Stamp, Undoing
      <3> QED BY <1>5, <3>1 DEF Stamp, Write, WriteFails, JInv, LoopInv
  <2>2. result' = "complete" => ~skipped' /\ Undone \in journal' /\ synced' = journal'
    BY <1>1, <1>5, <2>1 DEF Stamp, Write
  <2>3. Unconfirmed' = Unconfirmed
    BY <1>0, <2>1, RecordFacts DEF Unconfirmed, Announced, Settled
  <2> QED BY <1>0, <2>1, <2>2, <2>3 DEF BalkedInv, Undone
  <1>6. CASE WalkIsOver
  <2>1. UNCHANGED <<undos, balked, skipped, kept, result, journal, synced>> /\ pc \in Undoing
    BY <1>6 DEF WalkIsOver, walk, log, history, Undoing
  <2>2. Unconfirmed' = Unconfirmed
    BY <1>0, <2>1 DEF Unconfirmed, Announced, Settled
  <2> QED BY <2>1, <2>2 DEF BalkedInv, Undone
  <1>7. CASE ProcessKilled \/ PowerCut \/ Outside
  <2>1. /\ UNCHANGED <<undos, balked, skipped, kept, result>>
        /\ pc' = "over" \/ pc' = pc
    BY <1>7 DEF ProcessKilled, PowerCut, Dies, walk, history,
       Outside, OutsideCreates, OutsideRemoves, OutsideMoves, OutsideEdits, Meddle
  <2>2. CASE UNCHANGED <<journal, synced>>
      <3>1. Unconfirmed' = Unconfirmed
        BY <1>0, <2>2 DEF Unconfirmed, Announced, Settled
      <3> QED BY <2>1, <2>2, <3>1 DEF BalkedInv, Undone, Undoing
  <2>3. CASE PowerCut
      <3>1. PICK lost \in SUBSET (journal \ synced) :
               journal' = journal \ lost /\ synced' = journal' /\ pc' = "over"
        BY <2>3 DEF PowerCut, Dies
      <3>2. result = "complete" => journal' = journal /\ synced' = synced
        BY <3>1 DEF BalkedInv
      <3>3. result = "complete" => Unconfirmed' = Unconfirmed
        BY <1>0, <3>2 DEF Unconfirmed, Announced, Settled
      <3> QED BY <2>1, <3>1, <3>2, <3>3 DEF BalkedInv, Undone, Undoing
  <2> QED BY <1>7, <2>2, <2>3 DEF ProcessKilled, Outside, OutsideCreates, OutsideRemoves,
          OutsideMoves, OutsideEdits, Meddle, log
  <1> QED BY <1>2, <1>3, <1>4, <1>5, <1>6, <1>7 DEF Next, UndoStep
-----------------------------------------------------------------------------
(* The walk back.                                                           *)

\* Where the first undo is, when it is about to take back operation upos.
OnTheWay(k) ==
    /\ k \in Low..done
    /\ Reached(k)
    /\ \A i \in (Low + 1)..k : Op(i).kind = "mkdir"
    /\ folders = {Op(i).path : i \in (Low + 1)..k}

\* What did not happen leaves the walk nothing to do: the operation after the
\* last one that did looks undone already.
LEMMA BackOverUndone ==
    ASSUME JInv, RunInv, WrittenInv, FirstWalk, ~balked', pc = "undo", upos > done, UndoOp,
           skipped = FALSE, Reached(done), folders = {}
    PROVE  Reached(done)' /\ folders' = {} /\ skipped' = FALSE
  <1> DEFINE o == Op(upos)
  <1>0. /\ batch \in Batches /\ batch' = batch /\ done' = done /\ N \in Nat /\ done \in 0..N
        /\ upos \in 1..N /\ o \in Ops /\ balked \in BOOLEAN /\ balked' \in BOOLEAN
        /\ date \in [Files -> Dates] /\ IsTree(tree)
  <2>1. batch \in Batches /\ N \in Nat /\ done \in 0..N /\ upos \in 0..N
    BY InHand DEF JInv, TypeOK
  <2>2. upos \in 1..N
    BY <2>1 DEF UndoOp
  <2>3. UNCHANGED <<fixed, done>>
    BY DEF UndoOp, Walked
  <2>4. Next
    BY DEF Next, UndoStep
  <2> QED BY <2>1, <2>2, <2>3, <2>4, PlanFacts, TypeStep DEF JInv, TypeOK, fixed
  <1>1. SUFFICES UNCHANGED <<tree, date, folders>> /\ skipped' = FALSE
    BY <1>0 DEF Reached
  <1>2. CASE Spared(upos)
    BY <1>2 DEF UndoOp, Leave, disk
  <1>3. CASE ~Spared(upos)
  <2>1. upos = done + 1
      <3>1. upos \in Announced
        BY <1>3 DEF Spared
      <3> QED BY <1>0, <3>1 DEF JInv, JournalInv
  <2>2. ~Confirmed(upos)
    BY <1>0, <2>1 DEF JInv, JournalInv, Confirmed
  <2>3. tree = batch.trees[upos] /\ date = batch.dates[upos] /\ CanDo(o, tree)
    BY <1>0, <2>1, PlanStep DEF Reached
  <2>4. CASE o.kind = "rename"
      <3>1. ~Reversible(o, tree)
        BY <2>3, <2>4 DEF CanDo, CanRename, Reversible, Creates
      <3>2. UndoRename(upos)
        BY <1>3, <2>4 DEF UndoOp, UndoCreateDir, UndoWrite, UndoDate, LookFails
      <3> QED BY <2>2, <3>1, <3>2 DEF UndoRename, Leave, disk
  <2>5. CASE o.kind = "mkdir"
      <3>1. ~Exists(tree, o.path)
        BY <2>3, <2>5 DEF CanDo, CanCreate, Creates
      <3>2. UndoCreateDir(upos)
        BY <1>3, <2>5 DEF UndoOp, UndoRename, UndoWrite, UndoDate, LookFails
      <3> QED BY <2>2, <3>1, <3>2 DEF UndoCreateDir, Leave, disk
  <2>6. CASE o.kind = "write"
      <3>1. ~Exists(tree, o.path)
        BY <2>3, <2>6 DEF CanDo, CanCreate, Creates
      <3>2. UndoWrite(upos)
        BY <1>3, <2>6 DEF UndoOp, UndoRename, UndoCreateDir, UndoDate, LookFails
      <3> QED BY <2>2, <3>1, <3>2 DEF UndoWrite, Leave, disk, Holds, IsFile
  <2>7. CASE o.kind = "date"
      <3>1. UndoDate(upos)
        BY <1>3, <2>7 DEF UndoOp, UndoRename, UndoCreateDir, UndoWrite, LookFails
      <3>2. CASE Leave(Confirmed(upos))
        BY <2>2, <3>1, <3>2 DEF UndoDate, Leave, disk
      <3>3. CASE /\ date' = [date EXCEPT ![tree[o.path]] = image[upos]]
                 /\ UNCHANGED <<tree, body, balked, skipped>>
        <4>1. image[upos] = date[tree[o.path]]
          <5>1. upos \in Announced
            BY <1>3 DEF Spared
          <5> QED BY <2>3, <2>7, <5>1 DEF RunInv, FirstWalk
        <4>2. date' = date
          BY <1>0, <3>3, <4>1
        <4> QED BY <3>1, <3>3, <4>2 DEF UndoDate
      <3>4. balked' = TRUE \/ Leave(Confirmed(upos)) \/
            (/\ date' = [date EXCEPT ![tree[o.path]] = image[upos]]
             /\ UNCHANGED <<tree, body, balked, skipped>>)
        BY <3>1 DEF UndoDate, Try
      <3> QED BY <3>2, <3>3, <3>4
  <2>8. o.kind \in {"rename", "mkdir", "write", "date"}
    BY <1>0, <1>3, OpFields DEF Spared, Irreversible
  <2> QED BY <2>4, <2>5, <2>6, <2>7, <2>8
  <1> QED BY <1>2, <1>3

\* A change that happened, and is not a folder, is taken back.
LEMMA BackOverDone ==
    ASSUME JInv, RunInv, WrittenInv, FirstWalk, ~balked', pc = "undo",
           upos \in 1..done, UndoOp, skipped = FALSE, Reached(upos),
           Op(upos).kind # "mkdir"
    PROVE  /\ tree' = batch.trees[upos] /\ date' = batch.dates[upos]
           /\ folders' = folders /\ skipped' = FALSE
  <1> DEFINE o == Op(upos)
             t == batch.trees[upos]
             d == batch.dates[upos]
  <1>0. /\ batch \in Batches /\ N \in Nat /\ done \in 0..N
        /\ upos \in 1..N /\ o \in Ops
  <2>1. batch \in Batches
    BY DEF JInv, TypeOK
  <2>2. N \in Nat /\ done \in 0..N
    BY InHand DEF JInv, TypeOK
  <2>3. upos \in 1..N
      <3>1. upos \in 1..done
        OBVIOUS
      <3> HIDE DEF N
      <3> QED BY <2>2, <3>1
  <2> QED BY <2>1, <2>2, <2>3, PlanFacts
  <1>1. SUFFICES tree' = t /\ date' = d /\ folders' = folders /\ skipped' = FALSE
    OBVIOUS
  <1>2. tree = batch.trees[upos + 1] /\ date = batch.dates[upos + 1]
    BY DEF Reached
  <1>3. upos \in Announced /\ Failed(upos) \notin journal
  <2>1. Plan(upos) \in synced /\ synced \subseteq journal
    BY DEF JInv, JournalInv, TypeOK
  <2>2. Failed(upos) \notin journal
      <3>1. upos # done + 1
        BY <1>0
      <3> QED BY <1>0, <3>1 DEF JInv, JournalInv
  <2> QED BY <1>0, <2>1, <2>2 DEF Announced
  <1>4. CASE Irreversible(o)
  <2>1. tree = t /\ date = d
    BY <1>0, <1>2, <1>4, StepBack
  <2>2. UNCHANGED <<disk, folders>> /\ skipped' = FALSE
    BY <1>4 DEF UndoOp, Spared, Leave
  <2> QED BY <2>1, <2>2 DEF disk
  <1>5. CASE ~Irreversible(o)
  <2>0. ~Spared(upos)
    BY <1>3, <1>5 DEF Spared
  <2>1. CASE o.kind = "rename"
      <3>1. /\ Reversible(o, tree) /\ CanRename(tree, o.to, o.from)
            /\ Renamed(tree, o.to, o.from) = t /\ date = d
        BY <1>0, <1>2, <2>1, StepBack
      <3>2. UndoRename(upos)
        BY <2>0, <2>1 DEF UndoOp, UndoCreateDir, UndoWrite, UndoDate, LookFails
      <3>3. tree' = Renamed(tree, o.to, o.from) /\ UNCHANGED <<date, skipped, folders>>
        BY <3>1, <3>2 DEF UndoRename, Try
      <3> QED BY <3>1, <3>3
  <2>2. CASE o.kind = "write"
      <3>1. /\ Exists(tree, o.path) /\ tree[o.path] = o.file /\ o.file \notin Dirs
            /\ Removed(tree, o.path) = t /\ date = d
        BY <1>0, <1>2, <2>2, StepBack
      <3>2. body[o.file] = o.text
        BY <1>0, <2>2 DEF WrittenInv, FirstWalk
      <3>3. Holds(o)
        BY <3>1, <3>2 DEF Holds, IsFile
      <3>4. UndoWrite(upos)
        BY <2>0, <2>2 DEF UndoOp, UndoRename, UndoCreateDir, UndoDate, LookFails
      <3>5. tree' = Removed(tree, o.path) /\ UNCHANGED <<date, skipped, folders>>
        BY <3>3, <3>4 DEF UndoWrite, Try
      <3> QED BY <3>1, <3>5
  <2>3. CASE o.kind = "date"
      <3>1. /\ Exists(tree, o.path) /\ tree = t
            /\ date[tree[o.path]] = o.value
            /\ [date EXCEPT ![tree[o.path]] = d[t[o.path]]] = d
        BY <1>0, <1>2, <2>3, StepBack
      <3>2. StillOurs(o)
        <4>1. o.value \in Nat
          BY <1>0, <2>3, OpFields, ValuesAssumption
        <4>2. o.value - o.value <= TIME_TOLERANCE
          BY <4>1 DEF TIME_TOLERANCE
        <4>3. Agree(date[tree[o.path]], o.value)
          BY <3>1, <4>2, Zenon DEF Agree
        <4> QED BY <3>1, <4>3, Zenon DEF StillOurs
      <3>3. image[upos] = d[t[o.path]]
        BY <1>3, <2>3 DEF RunInv, FirstWalk
      <3>4. UndoDate(upos)
        BY <2>0, <2>3 DEF UndoOp, UndoRename, UndoCreateDir, UndoWrite, LookFails
      <3>5. /\ date' = [date EXCEPT ![tree[o.path]] = image[upos]]
            /\ UNCHANGED <<tree, skipped, folders>>
        BY <3>2, <3>4 DEF UndoDate, Try
      <3> QED BY <3>1, <3>3, <3>5
  <2> QED BY <1>0, <1>5, <2>1, <2>2, <2>3, OpFields DEF Irreversible
  <1> QED BY <1>4, <1>5

\* The deepest of the folders set aside is empty: the batch began without it,
\* and what went into it since has gone, or is a folder that went before it.
LEMMA DeepestIsEmpty ==
    ASSUME IsTree(tree), NEW t, IsTree(t), NEW p \in folders,
           DOMAIN tree = DOMAIN t \cup folders, folders \subseteq Paths,
           p \notin DOMAIN t, tree[p] \in Dirs,
           \A q \in folders : Len(q) <= Len(p)
    PROVE  IsEmptyDir(tree, p)
  <1>1. Exists(tree, p)
    BY DEF Exists
  <1>2. ASSUME NEW q \in DOMAIN tree, AtOrUnder(p, q) PROVE q = p
  <2>1. CASE q \in DOMAIN t
      <3>1. ~Exists(t, p) /\ p \in Paths
        BY DEF Exists
      <3> QED BY <1>2, <2>1, <3>1, FreeIsEmpty
  <2>2. CASE q \in folders
      <3>1. q \in Seq(Names) /\ p \in Seq(Names)
        BY <2>2 DEF Paths
      <3>2. Len(q) \in Nat /\ Len(p) \in Nat /\ Len(q) <= Len(p) /\ Len(p) <= Len(q)
        BY <1>2, <2>2, <3>1, LenProperties DEF AtOrUnder
      <3>3. Len(q) = Len(p) /\ SubSeq(q, 1, Len(q)) = p
        BY <1>2, <3>2 DEF AtOrUnder
      <3>4. SubSeq(q, 1, Len(q)) = q
        BY <3>1
      <3> QED BY <3>3, <3>4
  <2> QED BY <1>2, <2>1, <2>2
  <1> QED BY <1>1, <1>2 DEF IsEmptyDir

\* Two trees with the same names, and the same file behind each, are one.
LEMMA SameTree ==
    ASSUME NEW t, IsTree(t), NEW u, IsTree(u), DOMAIN t = DOMAIN u,
           \A p \in DOMAIN t : t[p] = u[p]
    PROVE  t = u
  <1>1. t \in [DOMAIN t -> Files] /\ u \in [DOMAIN t -> Files]
    BY DEF IsTree
  <1> QED BY <1>1

\* The walk over one operation.
LEMMA WalkOn ==
    ASSUME JInv, FolderInv, RunInv, WrittenInv, FirstWalk, ~balked', UndoOp,
           skipped = FALSE, kept = FALSE, NEW k \in Low..done, OnTheWay(k)
    PROVE  /\ \E j \in Low'..done' :
                 /\ Reached(j)'
                 /\ \A i \in (Low' + 1)..j : Op(i).kind = "mkdir"
                 /\ folders' = {Op(i).path : i \in (Low' + 1)..j}
           /\ skipped' = FALSE /\ kept' = FALSE
  <1>0. /\ batch \in Batches /\ N \in Nat /\ done \in 0..N /\ upos \in 1..N
  <2>1. batch \in Batches /\ N \in Nat /\ done \in 0..N /\ upos \in 0..N
    BY InHand DEF JInv, TypeOK
  <2> QED BY <2>1 DEF UndoOp
  <1>1. /\ batch' = batch /\ done' = done /\ upos' = upos - 1 /\ kept' = FALSE
        /\ pc = "undo"
    BY DEF UndoOp, Walked, fixed
  <1>2. CASE upos > done
  <2>1. Low = done /\ Low' = done /\ k = done
    BY <1>0, <1>1, <1>2 DEF Low
  <2>2. folders = {} /\ Reached(done)
    BY <1>0, <2>1 DEF OnTheWay
  <2>3. Reached(done)' /\ folders' = {} /\ skipped' = FALSE
    BY <1>1, <1>2, <2>2, BackOverUndone
  <2>4. done \in Low'..done' /\ {Op(i).path : i \in (Low' + 1)..done} = {}
        /\ \A i \in (Low' + 1)..done : FALSE
    BY <1>0, <1>1, <2>1
  <2> QED BY <1>1, <2>3, <2>4
  <1>3. CASE upos \in 1..done
  <2>1. Low = upos /\ Low' = upos - 1 /\ k \in upos..done
    BY <1>0, <1>1, <1>3 DEF Low
  <2>2. /\ Reached(k)
        /\ \A i \in (upos + 1)..k : Op(i).kind = "mkdir"
        /\ folders = {Op(i).path : i \in (upos + 1)..k}
    BY <2>1 DEF OnTheWay
  <2>3. CASE Op(upos).kind = "mkdir"
      <3>1. \A i \in 1..k : Op(i).kind = "mkdir"
        <4>1. \A i \in 1..k : i \in 1..N /\ (i < upos \/ i = upos \/ i \in (upos + 1)..k)
          BY <1>0, <2>1
        <4> QED BY <1>0, <2>2, <2>3, <4>1, PlanOrder
      <3>2. Exists(tree, Op(upos).path)
        <4>1. k \in 0..done /\ upos \in 1..k
          BY <1>0, <2>1
        <4>2. DOMAIN batch.trees[k + 1]
                = DOMAIN batch.trees[1] \cup {Op(i).path : i \in 1..k}
          BY <3>1, <4>1 DEF FolderInv
        <4> QED BY <2>2, <4>1, <4>2 DEF Reached, Exists
      <3>3. ~Spared(upos)
        <4>1. Plan(upos) \in synced /\ synced \subseteq journal
          BY <1>3 DEF JInv, JournalInv, TypeOK
        <4>2. Failed(upos) \notin journal
          <5>1. upos # done + 1
            BY <1>0, <1>3
          <5> QED BY <1>0, <5>1 DEF JInv, JournalInv
        <4> QED BY <1>0, <2>3, <4>1, <4>2 DEF Announced, Spared, Irreversible
      <3>4. UndoCreateDir(upos)
        BY <2>3, <3>3 DEF UndoOp, UndoRename, UndoWrite, UndoDate, LookFails
      <3>5. /\ UNCHANGED <<tree, date>> /\ folders' = folders \cup {Op(upos).path}
            /\ skipped' = FALSE
        BY <3>2, <3>4 DEF UndoCreateDir, Leave, disk
      <3>6. Reached(k)'
        BY <1>1, <2>2, <3>5 DEF Reached
      <3>7. \A i \in upos..k : i = upos \/ i \in (upos + 1)..k
        BY <1>0, <2>1
      <3>8. upos \in upos..k /\ \A i \in (upos + 1)..k : i \in upos..k
        BY <1>0, <2>1
      <3>9. folders' = {Op(i).path : i \in upos..k}
        BY <2>2, <3>5, <3>7, <3>8
      <3>10. \A i \in upos..k : Op(i).kind = "mkdir"
        BY <2>2, <2>3, <3>7
      <3>11. Low' + 1 = upos /\ k \in Low'..done'
        BY <1>0, <1>1, <2>1
      <3> QED BY <1>1, <3>5, <3>6, <3>9, <3>10, <3>11
  <2>4. CASE Op(upos).kind # "mkdir"
      <3>1. k = upos
        <4>1. CASE upos + 1 <= k
          <5>1. upos + 1 \in (upos + 1)..k /\ upos + 1 \in 1..N /\ upos < upos + 1
            BY <1>0, <2>1, <4>1
          <5> QED BY <1>0, <2>2, <2>4, <5>1, PlanOrder
        <4> QED BY <1>0, <2>1, <4>1
      <3>2. Reached(upos) /\ folders = {}
        BY <1>0, <2>2, <3>1
      <3>3. /\ tree' = batch.trees[upos] /\ date' = batch.dates[upos]
            /\ folders' = {} /\ skipped' = FALSE
        BY <1>1, <1>3, <2>4, <3>2, BackOverDone
      <3>4. Low' \in Low'..done' /\ {Op(i).path : i \in (Low' + 1)..Low'} = {}
            /\ \A i \in (Low' + 1)..Low' : FALSE
        BY <1>0, <1>1, <1>3, <2>1
      <3>5. PICK j \in Low'..done' : j = upos - 1
        BY <2>1, <3>4
      <3>6. Reached(j)'
        <4>1. j + 1 = upos
          BY <1>0, <3>5
        <4> QED BY <1>1, <3>3, <4>1 DEF Reached
      <3> QED BY <1>1, <2>1, <3>3, <3>4, <3>5, <3>6
  <2> QED BY <2>3, <2>4
  <1>4. upos > done \/ upos \in 1..done
    BY <1>0
  <1> QED BY <1>2, <1>3, <1>4

\* An undo follows a run, and nothing of the run happens after it has begun.
LEMMA RunIsOver ==
    ASSUME JInv, Next, FirstWalk'
    PROVE  ~RunStep /\ ~Outside /\ Untouched
  <1>1. Untouched /\ ~Outside
    BY UntouchedStep DEF FirstWalk
  <1>2. CASE RunStep
  <2>1. undos' = undos
    BY <1>2 DEF RunStep, Start, NextWindow, Announce, AnnounceFails, Sync, PerformFails,
       Perform, Performed, FinishWriting, Confirm, ConfirmFails, RecordFailure,
       RecordFailureFails, Close, Seal, CloseFails, Interrupted, Goto, NextToAnnounce
  <2>2. pc \notin {"over"} \cup Undoing
    BY <1>2 DEF RunStep, Start, NextWindow, Announce, AnnounceFails, Sync, PerformFails,
       Perform, FinishWriting, Confirm, ConfirmFails, RecordFailure,
       RecordFailureFails, Close, Seal, CloseFails, Undoing
  <2>3. undos > 0
    BY <2>1 DEF FirstWalk
  <2> QED BY <2>2, <2>3 DEF JInv, LoopInv
  <1> QED BY <1>1, <1>2

\* Every step of the first undo leaves it on the way back, or at its end.
LEMMA WalkStep ==
    ASSUME JInv, FolderInv, RunInv, WrittenInv, WalkInv, Next
    PROVE  WalkInv'
  <1> SUFFICES ASSUME FirstWalk' PROVE WalkInv'
    BY DEF WalkInv
  <1>0. /\ ~RunStep /\ ~Outside /\ Untouched
        /\ batch' = batch /\ batch \in Batches /\ N \in Nat /\ done \in 0..N
        /\ undos' = 1 /\ ~balked' /\ undos \in Nat
  <2>1. batch \in Batches /\ undos \in Nat
    BY DEF JInv, TypeOK
  <2>2. batch' = batch
    BY FixedStep DEF fixed
  <2>3. N \in Nat /\ done \in 0..N
    BY InHand
  <2>4. undos' = 1 /\ ~balked'
    BY DEF FirstWalk
  <2> QED BY <2>1, <2>2, <2>3, <2>4, RunIsOver
  <1>1. /\ skipped \in BOOLEAN /\ kept \in BOOLEAN /\ balked \in BOOLEAN
        /\ skipped' \in BOOLEAN /\ kept' \in BOOLEAN /\ balked' \in BOOLEAN
        /\ IsTree(tree) /\ IsTree(tree') /\ IsTree(batch.trees[1])
    BY <1>0, TypeStep, PlanFacts DEF JInv, TypeOK
  <1>2. CASE BeginUndo
  <2>1. /\ pc = "over" /\ undos = 0 /\ pc' = "undo" /\ upos' = N /\ folders' = {}
        /\ skipped' = FALSE /\ kept' = FALSE
        /\ UNCHANGED <<tree, date, done>>
      <3>1. undos' = undos + 1
        BY <1>2 DEF BeginUndo
      <3> QED BY <1>0, <1>2, <3>1 DEF BeginUndo, disk
  <2>2. Reached(done)'
    BY <1>0, <2>1 DEF RunInv, Reached
  <2>3. Low' = done
    BY <1>0, <2>1 DEF Low
  <2>4. done \in Low'..done' /\ {Op(i).path : i \in (Low' + 1)..done} = {}
        /\ \A i \in (Low' + 1)..done : FALSE
    BY <1>0, <2>1, <2>3
  <2>5. \E k \in Low'..done' : /\ Reached(k)'
                               /\ \A i \in (Low' + 1)..k : Op(i).kind = "mkdir"
                               /\ folders' = {Op(i).path : i \in (Low' + 1)..k}
    BY <2>1, <2>2, <2>4
  <2>6. pc' = "undo" /\ skipped' = FALSE /\ kept' = FALSE
    BY <2>1
  <2> QED BY <1>0, <2>5, <2>6 DEF WalkInv, Reached
  <1>3. CASE UndoOp
  <2>1. /\ pc = "undo" /\ pc' = "undo" /\ undos = 1 /\ ~balked
      <3>1. pc = "undo" /\ pc' = pc /\ undos' = undos
        BY <1>3 DEF UndoOp, Walked
      <3>2. balked' = balked \/ balked' = TRUE
        BY <1>3 DEF UndoOp, UndoRename, UndoCreateDir, UndoWrite, UndoDate, Try, Leave, LookFails
      <3> QED BY <1>0, <1>1, <3>1, <3>2
  <2>2. FirstWalk
    BY <1>0, <2>1 DEF FirstWalk
  <2>3. ~skipped /\ ~kept
    BY <2>1, <2>2 DEF WalkInv, Undoing
  <2>4. PICK m \in Low..done : OnTheWay(m)
    BY <2>1, <2>2 DEF WalkInv, OnTheWay
  <2>5. /\ \E k \in Low'..done' :
               /\ Reached(k)'
               /\ \A i \in (Low' + 1)..k : Op(i).kind = "mkdir"
               /\ folders' = {Op(i).path : i \in (Low' + 1)..k}
        /\ skipped' = FALSE /\ kept' = FALSE
    BY <1>0, <1>1, <1>3, <2>2, <2>3, <2>4, WalkOn
  <2>6. \E k \in Low'..done' : /\ Reached(k)'
                               /\ \A i \in (Low' + 1)..k : Op(i).kind = "mkdir"
                               /\ folders' = {Op(i).path : i \in (Low' + 1)..k}
    BY <2>5
  <2>7. skipped' = FALSE /\ kept' = FALSE
    BY <2>5
  <2> QED BY <1>0, <2>1, <2>6, <2>7 DEF WalkInv, Reached
  <1>4. CASE WalkIsOver
  <2>1. /\ pc = "undo" /\ upos = 0 /\ pc' = "folders"
        /\ UNCHANGED <<tree, date, folders, skipped, kept>>
        /\ undos = 1 /\ ~balked
    BY <1>0, <1>4 DEF WalkIsOver, disk, walk, history
  <2>2. FirstWalk /\ ~skipped /\ ~kept
    BY <1>0, <2>1 DEF WalkInv, FirstWalk, Undoing
  <2>3. PICK k \in Low..done : OnTheWay(k)
    BY <2>1, <2>2 DEF WalkInv, OnTheWay
  <2>4. Low = 0 /\ k \in 0..done
    BY <1>0, <2>1 DEF Low
  <2>5. \A i \in 1..k : Op(i).kind = "mkdir"
    BY <2>3, <2>4 DEF OnTheWay
  <2>6. tree = batch.trees[k + 1] /\ date = batch.dates[k + 1]
        /\ folders = {Op(i).path : i \in 1..k}
    BY <2>3, <2>4 DEF OnTheWay, Reached
  <2>7. /\ DOMAIN batch.trees[k + 1] = DOMAIN batch.trees[1] \cup {Op(i).path : i \in 1..k}
        /\ \A p \in DOMAIN batch.trees[1] : batch.trees[k + 1][p] = batch.trees[1][p]
        /\ \A i \in 1..k : batch.trees[k + 1][Op(i).path] \in Dirs
        /\ \A i \in 1..k : Op(i).path \notin DOMAIN batch.trees[1]
        /\ batch.dates[k + 1] = batch.dates[1]
    BY <2>4, <2>5 DEF FolderInv
  <2>8. /\ DOMAIN tree = DOMAIN batch.trees[1] \cup folders
        /\ \A p \in DOMAIN batch.trees[1] : tree[p] = batch.trees[1][p]
        /\ \A p \in folders : p \notin DOMAIN batch.trees[1] /\ tree[p] \in Dirs
        /\ date = batch.dates[1]
    BY <2>6, <2>7
  <2> QED BY <1>0, <2>1, <2>2, <2>8 DEF WalkInv
  <1>5. CASE RemoveFolder
  <2>1. /\ pc = "folders" /\ pc' = "folders" /\ undos = 1
        /\ UNCHANGED <<date, skipped>>
    BY <1>0, <1>5 DEF RemoveFolder
  <2>2. balked' = balked \/ balked' = TRUE
    BY <1>5 DEF RemoveFolder
  <2>3. FirstWalk
    BY <1>0, <1>1, <2>1, <2>2 DEF FirstWalk
  <2>4. /\ ~skipped /\ ~kept
        /\ DOMAIN tree = DOMAIN batch.trees[1] \cup folders
        /\ \A p \in DOMAIN batch.trees[1] : tree[p] = batch.trees[1][p]
        /\ \A p \in folders : p \notin DOMAIN batch.trees[1] /\ tree[p] \in Dirs
        /\ date = batch.dates[1]
    BY <2>1, <2>3 DEF WalkInv, Undoing
  <2>5. PICK p \in folders :
           /\ \A q \in folders : Len(q) <= Len(p)
           /\ folders' = folders \ {p}
           /\ \/ ~Exists(tree, p) /\ UNCHANGED <<tree, kept, balked>>
              \/ Removable(p) /\ tree' = Removed(tree, p) /\ UNCHANGED <<kept, balked>>
              \/ /\ Exists(tree, p) /\ ~Removable(p)
                 /\ kept' = TRUE /\ UNCHANGED <<tree, balked>>
              \/ Removable(p) /\ kept' = TRUE /\ balked' = TRUE /\ UNCHANGED tree
    BY <1>5 DEF RemoveFolder
  <2>6. IsEmptyDir(tree, p)
      <3>1. folders \subseteq Paths
        BY DEF JInv, TypeOK
      <3> QED BY <1>1, <2>4, <2>5, <3>1, DeepestIsEmpty
  <2>7. tree' = Removed(tree, p) /\ kept' = kept
    BY <1>0, <2>5, <2>6 DEF Removable, IsEmptyDir
  <2>8. /\ DOMAIN tree' = DOMAIN batch.trees[1] \cup folders'
        /\ \A q \in DOMAIN batch.trees[1] : tree'[q] = batch.trees[1][q]
        /\ \A q \in folders' : q \notin DOMAIN batch.trees[1] /\ tree'[q] \in Dirs
    BY <2>4, <2>5, <2>7 DEF Removed
  <2> QED BY <1>0, <2>1, <2>4, <2>7, <2>8 DEF WalkInv
  <1>6. CASE Stamp
  <2>1. /\ pc = "folders" /\ pc' = "over" /\ undos = 1 /\ folders = {}
        /\ UNCHANGED <<tree, date, skipped, kept, balked>>
    BY <1>0, <1>6 DEF Stamp, disk
  <2>2. FirstWalk
    BY <1>0, <2>1 DEF FirstWalk
  <2>3. /\ ~skipped /\ ~kept
        /\ DOMAIN tree = DOMAIN batch.trees[1]
        /\ \A p \in DOMAIN batch.trees[1] : tree[p] = batch.trees[1][p]
        /\ date = batch.dates[1]
    BY <2>1, <2>2 DEF WalkInv, Undoing
  <2>4. tree = batch.trees[1]
    BY <1>1, <2>3, SameTree
  <2> QED BY <1>0, <2>1, <2>3, <2>4 DEF WalkInv, Restored, Undoing
  <1>7. CASE ProcessKilled \/ PowerCut
  <2>1. /\ pc' = "over" /\ undos = 1
        /\ UNCHANGED <<tree, date, skipped, kept, balked, result>>
    BY <1>0, <1>7 DEF ProcessKilled, PowerCut, Dies, disk, walk
  <2>2. FirstWalk
    BY <1>0, <2>1 DEF FirstWalk
  <2>3. pc = "over" \/ result = "none"
    BY <2>1 DEF JInv, LoopInv
  <2> QED BY <1>0, <2>1, <2>2, <2>3 DEF WalkInv, Restored, Undoing
  <1> QED BY <1>0, <1>2, <1>3, <1>4, <1>5, <1>6, <1>7 DEF Next, UndoStep
-----------------------------------------------------------------------------
\* The invariant holds at the start: nothing has been done or announced yet.
LEMMA IInit == Init => IInv
  <1> SUFFICES ASSUME Init PROVE IInv
    OBVIOUS
  <1>1. JInv
    BY JInit
  <1>2. batch \in Batches /\ N \in Nat /\ done = 0 /\ undos = 0 /\ journal = {}
        /\ pc = "idle" /\ ~balked /\ result = "none" /\ balked = FALSE
    BY PlanFacts DEF Init
  <1>3. FolderInv
  <2>1. \A k \in 0..done : k = 0
    BY <1>2
  <2>2. {Op(i).path : i \in 1..0} = {}
    OBVIOUS
  <2> QED BY <2>1, <2>2 DEF FolderInv
  <1>4. RunInv
  <2>1. Announced = {}
    BY <1>2 DEF Announced
  <2>2. Reached(done)
    BY <1>2 DEF Init, Reached
  <2>3. \A f \in Files : body[f] # "half"
    BY DEF Init
  <2> QED BY <1>2, <2>1, <2>2, <2>3 DEF RunInv
  <1>5. WrittenInv
    BY <1>2 DEF WrittenInv
  <1>6. WalkInv /\ BalkedInv
    BY <1>2 DEF WalkInv, BalkedInv, FirstWalk
  <1> QED BY <1>1, <1>3, <1>4, <1>5, <1>6 DEF IInv

\* ... and every step keeps it.
LEMMA IStep == IInv /\ [Next]_vars => IInv'
  <1> SUFFICES ASSUME IInv, [Next]_vars PROVE IInv'
    OBVIOUS
  <1>0. JInv /\ FolderInv /\ RunInv /\ WrittenInv /\ WalkInv /\ BalkedInv /\ JInv'
    BY JStep DEF IInv
  <1>1. CASE Next
  <2>1. FolderInv'
      <3>1. batch' = batch
        BY <1>1, FixedStep DEF fixed
      <3> QED BY <1>0, <1>1, <3>1, DoneStep, FolderStep
  <2>2. RunInv' /\ WrittenInv' /\ WalkInv' /\ BalkedInv'
    BY <1>0, <1>1, RunStepInv, WrittenStep, WalkStep, BalkedStep
  <2> QED BY <1>0, <2>1, <2>2 DEF IInv
  <1>2. CASE UNCHANGED vars
  <2> USE <1>0, <1>2 DEF vars, fixed, disk, log, run, walk, history
  <2>1. FolderInv'
    BY DEF FolderInv
  <2>2. RunInv'
    BY DEF RunInv, Untouched, Reached, Announced
  <2>3. WrittenInv'
    BY DEF WrittenInv, Untouched
  <2>4. WalkInv'
    BY DEF WalkInv, FirstWalk, Untouched, Reached, Low, Restored
  <2>5. BalkedInv'
    BY DEF BalkedInv, Unconfirmed, Announced, Settled, Undone
  <2> QED BY <2>1, <2>2, <2>3, <2>4, <2>5 DEF IInv
  <1> QED BY <1>1, <1>2

\* Where the run, and the first undo, can be: the invariant of ExecutorInv.
THEOREM Inductive == Spec => []IInv
  BY IInit, IStep, PTL DEF Spec

\* Wherever the run stopped and whatever a power cut took, one undo of files
\* only the batch has changed puts every name and every date back, skips
\* nothing and keeps nothing (undo_transaction of exec/undo.rs).
THEOREM UndoIsExactHolds == Spec => []UndoIsExact
  <1>1. IInv => UndoIsExact
  <2> SUFFICES ASSUME IInv, FirstUndo, ~balked PROVE Restored /\ ~skipped /\ ~kept
    BY DEF UndoIsExact
  <2>1. FirstWalk
    BY DEF FirstUndo, FirstWalk, Untouched
  <2> QED BY <2>1 DEF IInv, WalkInv, FirstUndo
  <1> QED BY <1>1, Inductive, PTL

\* An undo that reports no skip and kept no folder has restored everything,
\* calls of it refused or not, when every change was confirmed (UndoReport of
\* exec/undo.rs).
THEOREM CompleteMeansRestoredHolds == Spec => []CompleteMeansRestored
  <1>1. IInv => CompleteMeansRestored
  <2> SUFFICES ASSUME IInv, FirstUndo, result = "complete", ~kept, Unconfirmed = {}
               PROVE  Restored
    BY DEF CompleteMeansRestored
  <2>1. ~balked
    BY DEF IInv, BalkedInv, FirstUndo
  <2>2. FirstWalk
    BY <2>1 DEF FirstUndo, FirstWalk, Untouched
  <2> QED BY <2>2 DEF IInv, WalkInv, FirstUndo
  <1> QED BY <1>1, Inductive, PTL

-----------------------------------------------------------------------------
(* What holds of a batch and of its undo while another program makes,       *)
(* removes, moves and edits files among theirs, whenever it likes.          *)

\* What a step of the undo's walk can do to the volume.
LEMMA WalkChanges ==
    ASSUME JInv, UndoOp
    PROVE  /\ upos \in 1..N
           /\ UNCHANGED <<batch, done, added, gone, pc>>
           /\ body' = body
           /\ \/ tree' = tree
              \/ /\ Op(upos).kind = "rename" /\ CanRename(tree, Op(upos).to, Op(upos).from)
                 /\ tree' = Renamed(tree, Op(upos).to, Op(upos).from)
              \/ /\ Op(upos).kind = "write" /\ Holds(Op(upos))
                 /\ tree' = Removed(tree, Op(upos).path)
  <1>1. upos \in 1..N
    BY InHand DEF UndoOp
  <1>2. UNCHANGED <<batch, done, added, gone, pc>>
    BY DEF UndoOp, Walked, fixed
  <1>3. CASE Leave(FALSE) \/ LookFails(upos)
    BY <1>1, <1>2, <1>3 DEF Leave, LookFails, disk
  <1>4. CASE UndoRename(upos)
    BY <1>1, <1>2, <1>4 DEF UndoRename, Try, Leave, disk
  <1>5. CASE UndoCreateDir(upos)
    BY <1>1, <1>2, <1>5 DEF UndoCreateDir, Leave, disk
  <1>6. CASE UndoWrite(upos)
    BY <1>1, <1>2, <1>6 DEF UndoWrite, Try, Leave, disk
  <1>7. CASE UndoDate(upos)
    BY <1>1, <1>2, <1>7 DEF UndoDate, Try, Leave, disk
  <1> QED BY <1>3, <1>4, <1>5, <1>6, <1>7 DEF UndoOp

\* The texts of a batch, and what is apart from them.
LEMMA OwnFacts ==
    ASSUME batch \in Batches
    PROVE  /\ OwnTexts \subseteq Texts
           /\ "old" \notin OwnTexts /\ "half" \notin OwnTexts /\ "edited" \notin OwnTexts
           /\ \A i \in 1..N : Op(i).kind = "write" => Op(i).text \in OwnTexts
           /\ WrittenApart(batch) =>
                 \A i \in 1..N : Op(i).kind \in {"overwrite", "retag"} => Op(i).text \notin OwnTexts
  <1>1. N \in Nat /\ \A i \in 1..N : Op(i) \in Ops
    BY PlanFacts
  <1>2. OwnTexts \subseteq Texts
    BY <1>1, OpFields DEF OwnTexts
  <1>3. \A i \in 1..N : Op(i).kind = "write" => Op(i).text \in OwnTexts
    BY DEF OwnTexts
  <1>4. ASSUME WrittenApart(batch), NEW i \in 1..N, Op(i).kind \in {"overwrite", "retag"}
        PROVE  Op(i).text \notin OwnTexts
    BY <1>4 DEF OwnTexts, WrittenApart
  <1> QED BY <1>2, <1>3, <1>4, ValuesAssumption

LEMMA TheirsInit == Init => TheirsInv
  <1> SUFFICES ASSUME Init PROVE TheirsInv
    OBVIOUS
  <1>1. batch \in Batches
    BY DEF Init
  <1>2. NothingLost
    BY DEF Init, NothingLost
  <1>3. \A f \in Files : body[f] = "old"
    BY DEF Init
  <1>4. Theirs \subseteq Files
  <2>1. FilesIn(batch.trees[1]) \subseteq Files
    BY <1>1, PlanFacts DEF IsTree, FilesIn
  <2> QED BY <2>1, ValuesAssumption DEF Theirs, Init
  <1> QED BY <1>1, <1>2, <1>3, <1>4, OwnFacts DEF Init, TheirsInv

\* A step of the program that touches no file, in the midst of none.
LEMMA TheirsKept ==
    ASSUME TheirsInv, UNCHANGED <<batch, tree, body, added, gone>>,
           pc' \in Ahead => /\ pc \in Ahead \ {"writing"} /\ pc' # "writing"
                            /\ done' = done
    PROVE  TheirsInv'
  <1>1. NothingLost' /\ (\A f \in Theirs : body[f] \notin OwnTexts)'
    BY DEF TheirsInv, NothingLost, Theirs, OwnTexts
  <1>2. (pc = "writing" => \E f \in Files : body[f] = "half")'
    BY DEF Ahead
  <1>3. (/\ pc \in Ahead => \A f, g \in Files : body[f] = "half" /\ body[g] = "half" => f = g
         /\ pc \in Ahead => \A f \in Files : body[f] = "half" =>
               pc = "writing" /\ (Op(cur).kind = "write" => f = Op(cur).file))'
    BY DEF TheirsInv
  <1>4. (pc \in Ahead => \A i \in 1..N :
            Op(i).kind = "write" /\ i > done => Op(i).file \notin added)'
    BY DEF TheirsInv
  <1> QED BY <1>1, <1>2, <1>3, <1>4 DEF TheirsInv

\* Carrying out an operation of the batch.
LEMMA TheirsPerform ==
    ASSUME JInv, TheirsInv, WrittenApart(batch), Perform
    PROVE  TheirsInv'
  <1> DEFINE o == Op(cur)
  <1>1. /\ batch \in Batches /\ N \in Nat /\ IsTree(tree) /\ body \in [Files -> Bodies]
        /\ pc = "perform" /\ pc \in Ahead
        /\ cur \in 1..N /\ cur = done + 1 /\ done \in 0..N /\ o \in Ops
    BY InHand, PlanFacts DEF Perform, JInv, TypeOK, Ahead
  <1>2. /\ UNCHANGED <<batch, added, gone, cur>>
        /\ CanDo(o, tree) /\ tree' = TreeAfter(o, tree)
        /\ \/ /\ o.kind \in {"write", "overwrite"} /\ done' = done /\ pc' = "writing"
              /\ body' = [body EXCEPT ![tree'[o.path]] = "half"]
           \/ /\ o.kind = "retag" /\ done' = done + 1 /\ pc' = "confirm"
              /\ body' = [body EXCEPT ![tree[o.path]] = o.text]
           \/ /\ o.kind \in {"rename", "mkdir", "date"} /\ done' = done + 1 /\ pc' = "confirm"
              /\ body' = body
    BY DEF Perform, Goto, Performed, Rewritten, fixed
  <1>3. Creates(o) => o.file \notin FilesIn(tree)
    BY <1>1 DEF JInv, FreshInv
  <1>4. /\ IsTree(tree')
        /\ FilesIn(tree) \subseteq FilesIn(tree')
    BY <1>1, <1>2, <1>3, OpStep
  <1>5. NothingLost'
    BY <1>2, <1>4 DEF TheirsInv, NothingLost
  <1>6. (\A f \in Theirs : body[f] \notin OwnTexts)'
  <2>1. Theirs' = Theirs /\ OwnTexts' = OwnTexts
    BY <1>2 DEF Theirs, OwnTexts
  <2>2. SUFFICES ASSUME NEW f \in Theirs PROVE body'[f] \notin OwnTexts
    BY <2>1
  <2>3. f \in Files
      <3>1. FilesIn(batch.trees[1]) \subseteq Files
        BY <1>1, PlanFacts DEF IsTree, FilesIn
      <3>2. added \subseteq Files
        BY DEF JInv, TypeOK
      <3> QED BY <3>1, <3>2, ValuesAssumption DEF Theirs
  <2>4. body[f] \notin OwnTexts
    BY DEF TheirsInv
  <2> QED BY <1>1, <1>2, <2>3, <2>4, OwnFacts
  <1>7. (pc = "writing" => \E f \in Files : body[f] = "half")'
  <2>1. CASE o.kind \in {"write", "overwrite"} /\ pc' = "writing"
      <3>1. o.path \in DOMAIN tree'
        BY <1>1, <1>2, <2>1 DEF CanDo, Creates, CanCreate, Exists, TreeAfter, Created
      <3>2. tree'[o.path] \in Files
        BY <1>4, <3>1 DEF IsTree
      <3> QED BY <1>1, <1>2, <2>1, <3>2
  <2> QED BY <1>2, <2>1
  <1>8. (/\ pc \in Ahead => \A f, g \in Files : body[f] = "half" /\ body[g] = "half" => f = g
         /\ pc \in Ahead => \A f \in Files : body[f] = "half" =>
               pc = "writing" /\ (Op(cur).kind = "write" => f = Op(cur).file))'
  <2>1. \A f \in Files : body[f] # "half"
    BY <1>1 DEF TheirsInv
  <2>2. o.kind = "write" => tree'[o.path] = o.file
    BY <1>2 DEF CanDo, Creates, CanCreate, Exists, TreeAfter, Created
  <2>3. o.kind = "retag" => o.text # "half"
    BY <1>1, OpFields, ValuesAssumption
  <2> QED BY <1>1, <1>2, <2>1, <2>2, <2>3
  <1>9. (pc \in Ahead => \A i \in 1..N :
            Op(i).kind = "write" /\ i > done => Op(i).file \notin added)'
    BY <1>1, <1>2 DEF TheirsInv
  <1> QED BY <1>5, <1>6, <1>7, <1>8, <1>9 DEF TheirsInv

\* The text gets into the file that was opened for it, wherever that is by now.
LEMMA TheirsWritten ==
    ASSUME JInv, TheirsInv, WrittenApart(batch), FinishWriting
    PROVE  TheirsInv'
  <1> DEFINE o == Op(cur)
  <1>1. /\ batch \in Batches /\ N \in Nat /\ body \in [Files -> Bodies]
        /\ pc = "writing" /\ pc \in Ahead
        /\ cur \in 1..N /\ cur = done + 1 /\ done \in 0..N /\ o \in Ops
        /\ o.kind \in {"write", "overwrite"}
    BY InHand, PlanFacts DEF FinishWriting, JInv, TypeOK, LoopInv, Ahead
  <1>2. /\ UNCHANGED <<batch, tree, added, gone, cur>>
        /\ done' = done + 1 /\ pc' = "confirm"
        /\ body' = [body EXCEPT ![Handle] = o.text]
    BY DEF FinishWriting, Goto, Performed, fixed
  <1>3. Handle \in Files /\ body[Handle] = "half"
    BY <1>1 DEF TheirsInv, Handle
  <1>4. o.kind = "write" => Handle = o.file /\ o.file \notin Theirs
  <2>1. o.kind = "write" => Handle = o.file
    BY <1>1, <1>3 DEF TheirsInv
  <2>2. o.kind = "write" => o.file \notin added
    BY <1>1 DEF TheirsInv, Creates
  <2> QED BY <1>1, <2>1, <2>2, PlanFacts DEF Theirs, Creates
  <1>5. NothingLost'
    BY <1>2 DEF TheirsInv, NothingLost
  <1>6. (\A f \in Theirs : body[f] \notin OwnTexts)'
  <2>1. Theirs' = Theirs /\ OwnTexts' = OwnTexts
    BY <1>2 DEF Theirs, OwnTexts
  <2>2. SUFFICES ASSUME NEW f \in Theirs PROVE body'[f] \notin OwnTexts
    BY <2>1
  <2>3. body[f] \notin OwnTexts
    BY DEF TheirsInv
  <2>4. o.kind = "overwrite" => o.text \notin OwnTexts
    BY <1>1, OwnFacts
  <2> QED BY <1>1, <1>2, <1>4, <2>3, <2>4
  <1>7. (/\ pc \in Ahead => \A f, g \in Files : body[f] = "half" /\ body[g] = "half" => f = g
         /\ pc \in Ahead => \A f \in Files : body[f] = "half" =>
               pc = "writing" /\ (Op(cur).kind = "write" => f = Op(cur).file))'
  <2>1. \A f \in Files : body[f] = "half" => f = Handle
    BY <1>1, <1>3 DEF TheirsInv
  <2>2. o.text # "half"
    BY <1>1, OpFields, ValuesAssumption
  <2>3. \A f \in Files : body'[f] # "half"
    BY <1>1, <1>2, <1>3, <2>1, <2>2
  <2> QED BY <2>3
  <1>8. (pc \in Ahead => \A i \in 1..N :
            Op(i).kind = "write" /\ i > done => Op(i).file \notin added)'
    BY <1>1, <1>2 DEF TheirsInv
  <1> QED BY <1>2, <1>5, <1>6, <1>7, <1>8 DEF TheirsInv

\* The walk back removes nothing but a file that holds the batch's own text.
LEMMA TheirsWalk == ASSUME JInv, TheirsInv, UndoOp PROVE TheirsInv'
  <1>1. /\ batch \in Batches /\ N \in Nat /\ IsTree(tree) /\ body \in [Files -> Bodies]
        /\ upos \in 1..N /\ Op(upos) \in Ops
        /\ pc = "undo" /\ UNCHANGED <<batch, body, added, gone, pc>>
    BY WalkChanges, PlanFacts DEF UndoOp, JInv, TypeOK
  <1>2. pc \notin Ahead /\ pc' \notin Ahead
    BY <1>1 DEF Ahead
  <1>3. NothingLost'
  <2>1. CASE FilesIn(tree') = FilesIn(tree)
    BY <1>1, <2>1 DEF TheirsInv, NothingLost
  <2>2. CASE /\ Op(upos).kind = "rename" /\ CanRename(tree, Op(upos).to, Op(upos).from)
             /\ tree' = Renamed(tree, Op(upos).to, Op(upos).from)
      <3>1. FilesIn(tree') = FilesIn(tree)
        BY <1>1, <2>2, OpFields, RenamedIsTree
      <3> QED BY <3>1, <2>1
  <2>3. CASE /\ Op(upos).kind = "write" /\ Holds(Op(upos))
             /\ tree' = Removed(tree, Op(upos).path)
      <3> DEFINE p == Op(upos).path
      <3>1. p \in DOMAIN tree /\ tree[p] \notin Dirs /\ body[tree[p]] = Op(upos).text
        BY <2>3 DEF Holds, IsFile, Exists
      <3>2. FilesIn(tree') = FilesIn(tree) \ {tree[p]}
        BY <1>1, <2>3, <3>1, FileIsLeaf, RemovedIsTree
      <3>3. tree[p] \notin Theirs
        BY <1>1, <2>3, <3>1, OwnFacts DEF TheirsInv
      <3> QED BY <1>1, <3>2, <3>3 DEF TheirsInv, NothingLost, Theirs
  <2> QED BY <2>1, <2>2, <2>3, WalkChanges
  <1>4. (\A f \in Theirs : body[f] \notin OwnTexts)'
    BY <1>1 DEF TheirsInv, Theirs, OwnTexts
  <1> QED BY <1>2, <1>3, <1>4 DEF TheirsInv, Ahead

\* ... and nothing but an empty folder.
LEMMA TheirsFolders == ASSUME JInv, TheirsInv, RemoveFolder PROVE TheirsInv'
  <1>1. /\ IsTree(tree) /\ pc = "folders" /\ UNCHANGED <<batch, body, added, gone, pc>>
    BY DEF RemoveFolder, JInv, TypeOK, fixed
  <1>2. pc \notin Ahead /\ pc' \notin Ahead
    BY <1>1 DEF Ahead
  <1>3. NothingLost'
  <2>1. CASE tree' = tree
    BY <1>1, <2>1 DEF TheirsInv, NothingLost
  <2>2. ASSUME NEW p, Removable(p), tree' = Removed(tree, p) PROVE NothingLost'
      <3>1. /\ p \in DOMAIN tree /\ tree[p] \in Dirs
            /\ FilesIn(tree') = FilesIn(tree) \ {tree[p]}
        BY <1>1, <2>2, RemovedIsTree DEF Removable, IsEmptyDir, Exists
      <3> QED BY <1>1, <3>1 DEF TheirsInv, NothingLost
  <2>3. tree' = tree \/ \E p : Removable(p) /\ tree' = Removed(tree, p)
    BY DEF RemoveFolder
  <2> QED BY <2>1, <2>2, <2>3
  <1>4. (\A f \in Theirs : body[f] \notin OwnTexts)'
    BY <1>1 DEF TheirsInv, Theirs, OwnTexts
  <1> QED BY <1>2, <1>3, <1>4 DEF TheirsInv, Ahead

\* Another program brings only its own files along, and what it edits is no
\* longer the batch's own.
LEMMA TheirsOutside == ASSUME JInv, TheirsInv, Outside PROVE TheirsInv'
  <1>1. /\ batch \in Batches /\ N \in Nat /\ IsTree(tree) /\ body \in [Files -> Bodies]
        /\ \A p \in DOMAIN tree : p \in Paths /\ tree[p] \in Files
        /\ done \in 0..N /\ Strangers \subseteq Files \ Dirs /\ Spots \subseteq Paths
    BY InHand, ValuesAssumption DEF JInv, TypeOK, IsTree
  <1>2. UNCHANGED <<batch, pc, done, cur>>
    BY DEF Outside, OutsideCreates, OutsideRemoves, OutsideMoves, OutsideEdits, Meddle, fixed, run
  <1>3. CASE /\ UNCHANGED body /\ added \subseteq added' /\ added' \subseteq added \cup Strangers
             /\ NothingLost'
  <2>1. Theirs' = Theirs /\ OwnTexts' = OwnTexts
    BY <1>2, <1>3 DEF Theirs, OwnTexts
  <2>2. \A i \in 1..N : Op(i).kind = "write" => Op(i).file \notin Strangers
    BY <1>1, PlanFacts DEF Creates
  <2>3. (pc \in Ahead => \A i \in 1..N :
            Op(i).kind = "write" /\ i > done => Op(i).file \notin added)'
    BY <1>2, <1>3, <2>2 DEF TheirsInv
  <2> QED BY <1>2, <1>3, <2>1, <2>3 DEF TheirsInv
  <1>4. CASE OutsideCreates
  <2>1. PICK f \in Strangers \ (FilesIn(tree) \cup gone), p \in Spots :
           /\ CanCreate(tree, p) /\ tree' = Created(tree, p, f)
           /\ added' = added \cup {f} /\ UNCHANGED <<body, gone>>
    BY <1>4 DEF OutsideCreates
  <2>2. FilesIn(tree') = FilesIn(tree) \cup {f}
    BY <1>1, <2>1, CreatedIsTree
  <2>3. NothingLost'
    BY <1>2, <2>1, <2>2 DEF TheirsInv, NothingLost
  <2> QED BY <1>3, <2>1, <2>3
  <1>5. CASE OutsideRemoves
  <2>1. PICK p \in DOMAIN tree :
           /\ tree[p] \notin Dirs /\ tree' = Removed(tree, p)
           /\ gone' = gone \cup {tree[p]} /\ UNCHANGED <<body, added>>
    BY <1>5 DEF OutsideRemoves
  <2>2. FilesIn(tree') = FilesIn(tree) \ {tree[p]}
    BY <1>1, <2>1, FileIsLeaf, RemovedIsTree
  <2>3. NothingLost'
    BY <1>2, <2>1, <2>2 DEF TheirsInv, NothingLost
  <2> QED BY <1>3, <2>1, <2>3
  <1>6. CASE OutsideMoves
  <2>1. PICK p \in DOMAIN tree, q \in Spots :
           CanRename(tree, p, q) /\ tree' = Renamed(tree, p, q)
    BY <1>6 DEF OutsideMoves
  <2>2. FilesIn(tree') = FilesIn(tree) /\ UNCHANGED <<body, added, gone>>
    BY <1>1, <1>6, <2>1, RenamedIsTree DEF OutsideMoves
  <2> QED BY <1>2, <1>3, <2>2 DEF TheirsInv, NothingLost
  <1>7. CASE OutsideEdits
  <2>1. PICK p \in DOMAIN tree :
           /\ body[tree[p]] # "half" /\ body' = [body EXCEPT ![tree[p]] = "edited"]
           /\ added' = added \cup {tree[p]} /\ UNCHANGED <<tree, gone>>
    BY <1>7 DEF OutsideEdits
  <2> DEFINE e == tree[p]
  <2>2. e \in Files /\ e \in FilesIn(tree)
    BY <1>1 DEF FilesIn
  <2>3. NothingLost'
    BY <1>2, <2>1, <2>2 DEF TheirsInv, NothingLost
  <2>4. (\A f \in Theirs : body[f] \notin OwnTexts)'
      <3>1. Theirs' = Theirs \cup {e} /\ OwnTexts' = OwnTexts
        BY <1>2, <2>1 DEF Theirs, OwnTexts
      <3>2. Theirs \subseteq Files
        <4>1. FilesIn(batch.trees[1]) \subseteq Files
          BY <1>1, PlanFacts DEF IsTree, FilesIn
        <4> QED BY <1>1, <4>1 DEF Theirs, JInv, TypeOK
      <3> QED BY <1>1, <2>1, <2>2, <3>1, <3>2, OwnFacts DEF TheirsInv
  <2>5. \A f \in Files : body'[f] = "half" <=> body[f] = "half"
    BY <1>1, <2>1, <2>2
  <2>6. (pc \in Ahead => \A i \in 1..N :
            Op(i).kind = "write" /\ i > done => Op(i).file \notin added)'
      <3> SUFFICES ASSUME pc \in Ahead, NEW i \in 1..N, Op(i).kind = "write", i > done
                   PROVE  Op(i).file # e
        BY <1>2, <2>1 DEF TheirsInv
      <3>1. CASE pc = "writing" /\ i = done + 1
        <4>1. i = cur
          BY <3>1, InHand
        <4>2. body[Op(i).file] = "half"
          BY <3>1, <4>1 DEF TheirsInv, Ahead
        <4> QED BY <2>1, <4>2
      <3>2. CASE ~(pc = "writing" /\ i = done + 1)
        <4>1. Op(i).file \notin FilesIn(tree)
          BY <1>1, <3>2 DEF Ahead, JInv, FreshInv, Creates
        <4> QED BY <2>2, <4>1
      <3> QED BY <3>1, <3>2
  <2> QED BY <1>2, <2>3, <2>4, <2>5, <2>6 DEF TheirsInv
  <1> QED BY <1>4, <1>5, <1>6, <1>7 DEF Outside

LEMMA TheirsStep == JInv /\ TheirsInv /\ WrittenApart(batch) /\ [Next]_vars => TheirsInv'
  <1> SUFFICES ASSUME JInv, TheirsInv, WrittenApart(batch), [Next]_vars PROVE TheirsInv'
    OBVIOUS
  <1> USE DEF fixed, disk, log, run, walk, history
  <1>1. CASE UNCHANGED vars
  <2>1. UNCHANGED <<batch, tree, body, added, gone, pc, done, cur>>
    BY <1>1 DEF vars
  <2> QED BY <2>1 DEF TheirsInv, NothingLost, Theirs, OwnTexts
  <1>2. CASE Start \/ NextWindow \/ Announce \/ AnnounceFails \/ Sync \/ PerformFails
  <2>1. /\ UNCHANGED <<batch, tree, body, added, gone, done>>
        /\ pc \in {"idle", "head", "announce", "sync", "perform"} \/ PerformFails
        /\ pc' \in {"over", "head", "close", "announce", "sync", "perform", "fail"}
        /\ PerformFails => pc' = "fail"
    BY <1>2 DEF Start, NextWindow, Announce, AnnounceFails, Sync, PerformFails, Goto,
                NextToAnnounce
  <2> QED BY <2>1, TheirsKept DEF Ahead
  <1>3. CASE Confirm \/ ConfirmFails \/ RecordFailure \/ RecordFailureFails \/ Close
             \/ Seal \/ CloseFails
  <2>1. /\ UNCHANGED <<batch, tree, body, added, gone, done>>
        /\ pc \in {"confirm", "fail", "close", "seal"}
        /\ pc = "confirm" \/ pc' \in {"over", "close", "seal"}
        /\ pc' # "writing"
    BY <1>3 DEF Confirm, ConfirmFails, RecordFailure, RecordFailureFails, Close, Seal,
                CloseFails, Interrupted, Goto
  <2> QED BY <2>1, TheirsKept DEF Ahead
  <1>4. CASE BeginUndo \/ WalkIsOver \/ Stamp \/ ProcessKilled \/ PowerCut
  <2>1. /\ UNCHANGED <<batch, tree, body, added, gone, done>>
        /\ pc' \in {"over", "undo", "folders"}
    BY <1>4 DEF BeginUndo, WalkIsOver, Stamp, ProcessKilled, PowerCut, Dies
  <2> QED BY <2>1, TheirsKept DEF Ahead
  <1> QED BY <1>1, <1>2, <1>3, <1>4, TheirsPerform, TheirsWritten, TheirsWalk, TheirsFolders,
             TheirsOutside DEF Next, RunStep, UndoStep

\* No file is lost to a batch or to its undo, whatever another program does
\* meanwhile and wherever either is interrupted (exec/apply.rs; remove_written,
\* undo_transaction and remove_dir in exec/undo.rs): given that no batch writes
\* one text both over a file and into one of its own.
THEOREM NothingLostHolds ==
    ASSUME \A b \in Batches : WrittenApart(b)
    PROVE  Spec => []NothingLost
  <1>1. Init => JInv /\ TheirsInv
    BY JInit, TheirsInit
  <1>2. JInv /\ TheirsInv /\ [Next]_vars => (JInv /\ TheirsInv)'
  <2>1. JInv => WrittenApart(batch)
    BY DEF JInv, TypeOK
  <2> QED BY <2>1, JStep, TheirsStep
  <1>3. TheirsInv => NothingLost
    BY DEF TheirsInv
  <1> QED BY <1>1, <1>2, <1>3, PTL DEF Spec
-----------------------------------------------------------------------------
(* What a batch has changed can be taken back as long as its journal is     *)
(* whole.                                                                   *)

\* A step that confirms nothing and changes nothing of the batch's.
LEMMA SealKept ==
    ASSUME JInv, SealInv, UNCHANGED <<batch, done, cuts>>, journal \subseteq journal',
           Commit \in journal' => Commit \in journal,
           pc' \in Ahead \cup {"fail"} => pc \in Ahead \cup {"fail"}
    PROVE  SealInv'
  BY DEF SealInv

LEMMA SealStep == JInv /\ SealInv /\ [Next]_vars => SealInv'
  <1> SUFFICES ASSUME JInv, SealInv, [Next]_vars PROVE SealInv'
    OBVIOUS
  <1> USE DEF fixed, disk, log, run, walk, history
  <1>0. /\ N \in Nat /\ done \in 0..N /\ cuts \in Nat
        /\ \A i : Plan(i) # Commit /\ Completed(i) # Commit /\ Failed(i) # Commit
        /\ Begin # Commit /\ Undone # Commit
    BY InHand, RecordFacts DEF JInv, TypeOK
  <1>1. CASE UNCHANGED vars
    BY <1>1 DEF vars, SealInv
  <1>2. CASE Start \/ NextWindow \/ Announce \/ AnnounceFails \/ Sync
  <2>1. /\ UNCHANGED <<batch, done, cuts>> /\ pc \in Ahead
        /\ journal' \in {journal, journal \cup {Begin}, journal \cup {Plan(cur)}}
    BY <1>2 DEF Start, NextWindow, Announce, AnnounceFails, Sync, Goto, Write, WriteFails,
                NextToAnnounce, Ahead
  <2> QED BY <1>0, <2>1, SealKept
  <1>3. CASE Perform \/ FinishWriting
  <2>1. /\ UNCHANGED <<batch, journal, cuts>> /\ pc \in Ahead
    BY <1>3 DEF Perform, FinishWriting, Performed, Goto, Ahead
  <2> QED BY <2>1 DEF SealInv
  <1>4. CASE PerformFails \/ Confirm \/ ConfirmFails \/ RecordFailure \/ RecordFailureFails
  <2>1. /\ UNCHANGED <<batch, done, cuts>> /\ pc \in Ahead \cup {"fail"}
        /\ journal' \in {journal, journal \cup {Completed(cur)}, journal \cup {Failed(cur)}}
    BY <1>4 DEF PerformFails, Confirm, ConfirmFails, RecordFailure, RecordFailureFails,
                Interrupted, Goto, Write, WriteFails, Ahead
  <2> QED BY <1>0, <2>1, SealKept
  <1>5. CASE Close \/ Seal \/ CloseFails
  <2>1. /\ UNCHANGED <<batch, done, cuts>> /\ pc \in {"close", "seal"}
        /\ journal \subseteq journal' /\ pc' \in {"seal", "over"}
    BY <1>5 DEF Close, Seal, CloseFails, Interrupted, Goto, WriteFails
  <2>2. \A i \in 1..done : Completed(i) \in journal
    BY <2>1 DEF JInv, JournalInv
  <2> QED BY <2>1, <2>2 DEF SealInv, Ahead
  <1>6. CASE UndoStep
  <2>1. /\ UNCHANGED <<batch, done, cuts>> /\ pc' \in {"over", "undo", "folders"}
        /\ journal' \in {journal, journal \cup {Undone}}
      <3>1. CASE BeginUndo \/ WalkIsOver \/ RemoveFolder
        BY <3>1 DEF BeginUndo, WalkIsOver, RemoveFolder
      <3>2. CASE UndoOp
        BY <3>2 DEF UndoOp, Walked
      <3>3. CASE Stamp
        BY <3>3 DEF Stamp, Write, WriteFails
      <3> QED BY <1>6, <3>1, <3>2, <3>3 DEF UndoStep
  <2> QED BY <1>0, <2>1, SealKept DEF Ahead
  <1>7. CASE ProcessKilled
  <2>1. UNCHANGED <<batch, done, cuts, journal>> /\ pc' = "over"
    BY <1>7 DEF ProcessKilled, Dies
  <2> QED BY <2>1, SealKept DEF Ahead
  <1>8. CASE PowerCut
  <2>1. cuts' = cuts + 1 /\ pc' = "over"
    BY <1>8 DEF PowerCut, Dies
  <2> QED BY <1>0, <2>1 DEF SealInv, Ahead
  <1>9. CASE Outside
  <2>1. UNCHANGED <<batch, done, cuts, journal, pc>>
    BY <1>9 DEF Outside, OutsideCreates, OutsideRemoves, OutsideMoves, OutsideEdits, Meddle
  <2> QED BY <2>1, SealKept
  <1> QED BY <1>1, <1>2, <1>3, <1>4, <1>5, <1>6, <1>7, <1>8, <1>9 DEF Next, RunStep

\* Until a power cut takes a record away, a change that can be taken back is on
\* offer, as an unfinished batch or as an undo, however the run ended
\* (unfinished and latest_undoable of exec/recover.rs).
THEOREM ChangesAreOfferedHolds == Spec => [](cuts = 0 => ChangesAreOffered)
  <1>1. Init => SealInv
    BY RecordFacts DEF Init, SealInv
  <1>2. JInv /\ SealInv => (cuts = 0 => ChangesAreOffered)
  <2> SUFFICES ASSUME JInv, SealInv, cuts = 0, NEW i \in 1..done, ~Irreversible(Op(i)),
                      Undone \notin journal, ~Unfinished
               PROVE  HasReversibleWork
    BY DEF ChangesAreOffered
  <2>1. i \in 1..N /\ Plan(i) \in journal
      <3>1. N \in Nat /\ done \in 0..N /\ synced \subseteq journal
        BY InHand DEF JInv, TypeOK
      <3>2. Plan(i) \in synced
        BY DEF JInv, JournalInv
      <3> QED BY <3>1, <3>2
  <2>2. i \in Announced
    BY <2>1 DEF Announced
  <2>3. Completed(i) \in journal
    BY <2>2 DEF Unfinished, SealInv
  <2> QED BY <2>2, <2>3 DEF HasReversibleWork
  <1> QED BY <1>1, <1>2, JInit, JStep, SealStep, PTL DEF Spec
=============================================================================
