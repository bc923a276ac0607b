---------------------------- MODULE ExecutorInv ----------------------------
(* The inductive invariant behind the theorems of ExecutorProofs.           *)
EXTENDS Executor

\* Where the loop is, by its place in the code: the window is one op wide.
LoopInv ==
    /\ pc = "idle" => done = 0 /\ at = 1 /\ journal = {} /\ synced = {} /\ completed = 0
    /\ pc = "head" => at = done + 1
    /\ pc \in {"announce", "sync", "perform", "writing", "fail"} =>
          cur = at /\ at = done + 1 /\ at <= N /\ end = at + 1
    /\ pc = "writing" => Op(cur).kind \in {"write", "overwrite"}
    /\ pc = "confirm" => cur = at /\ at = done /\ done > 0 /\ end = at + 1
    /\ pc \in Running \/ outcome = "interrupted" => completed = done
    /\ pc = "idle" \/ pc \in Running \ {"close", "seal"} => outcome = "none"
    /\ undos > 0 => pc \in {"over"} \cup Undoing
    /\ pc \in Undoing => undos > 0
    /\ (undos = 0 => result = "none") /\ (pc \in Undoing => result = "none")

\* What is in the journal, and how far it has got to the disk.
JournalInv ==
    /\ \A i \in Announced : i <= done + 1 /\ (Op(i).kind = "date" => image[i] \in Dates)
    /\ \A i \in 1..N : Completed(i) \in journal => i <= done
    /\ \A i \in 1..N : Failed(i) \in journal => i = done + 1
    /\ \A i \in 1..done : Plan(i) \in synced
    /\ \A i \in 1..(done - 1) : Completed(i) \in synced
    /\ pc = "writing" \/ (pc = "perform" /\ cur \notin refused) => Plan(cur) \in synced
    /\ pc \in {"perform", "writing", "fail"} => \A i \in 1..done : Completed(i) \in synced
    /\ pc \in {"head", "announce", "sync", "close", "seal"} =>
          \A i \in 1..done : Completed(i) \in journal
    /\ pc = "sync" /\ cur \notin refused => Plan(cur) \in journal
    /\ pc \in {"idle", "head", "announce", "sync", "perform", "writing", "confirm", "fail"} =>
          \A i \in 1..N : Failed(i) \notin journal
    /\ pc = "seal" => Commit \in journal
    /\ outcome \in {"finished", "cancelled", "failed"} /\ pc \notin Running =>
          Commit \in synced /\ \A i \in 1..done : Completed(i) \in synced

\* The files the rest of the batch will create do not exist yet.
FreshInv ==
    pc \in {"idle", "head", "announce", "sync", "perform", "confirm", "writing"} =>
        \A i \in 1..N :
            /\ Creates(Op(i)) /\ i > done /\ (pc = "writing" => i > done + 1)
            => Op(i).file \notin FilesIn(tree)

\* The part of the plan that is only new folders, as far as the run has got.
FolderInv ==
    \A k \in 0..done : (\A i \in 1..k : Op(i).kind = "mkdir") =>
        /\ DOMAIN batch.trees[k + 1] = DOMAIN batch.trees[1] \cup {Op(i).path : i \in 1..k}
        /\ \A p \in DOMAIN batch.trees[1] : batch.trees[k + 1][p] = batch.trees[1][p]
        /\ \A i \in 1..k : batch.trees[k + 1][Op(i).path] \in Dirs
        /\ \A i \in 1..k : Op(i).path \notin DOMAIN batch.trees[1]
        /\ batch.dates[k + 1] = batch.dates[1]

\* What holds whatever happens to the files.
JInv == TypeOK /\ LoopInv /\ JournalInv /\ FreshInv

\* On files nothing else has changed, a run is somewhere along its plan.
Untouched == meddled = 0 /\ ~torn

Reached(k) == tree = batch.trees[k + 1] /\ date = batch.dates[k + 1]

RunInv ==
    Untouched =>
        /\ pc = "writing" => Reached(done + 1) /\ Op(done + 1).kind \in {"write", "overwrite"}
        /\ undos = 0 /\ pc # "writing" => Reached(done)
        /\ pc = "writing" => /\ Exists(tree, Op(done + 1).path)
                             /\ body[tree[Op(done + 1).path]] = "half"
        /\ \A f \in Files : body[f] = "half" =>
              pc = "writing" /\ f = tree[Op(done + 1).path]
        /\ \A i \in Announced : Op(i).kind = "date" =>
              image[i] = batch.dates[i][batch.trees[i][Op(i).path]]

\* A script's file, once written, stays as it was written.
WrittenInv ==
    Untouched => \A i \in 1..done : Op(i).kind = "write" =>
        /\ body[Op(i).file] = Op(i).text
        /\ undos = 0 => Exists(tree, Op(i).path) /\ tree[Op(i).path] = Op(i).file

\* The first undo walks the plan back: at upos, it is where the run was before
\* the op after it, except for the folders set aside on the way.
FirstWalk == undos = 1 /\ Untouched /\ ~balked

Low == IF upos < done THEN upos ELSE done

WalkInv ==
    FirstWalk =>
        /\ pc \in Undoing => ~skipped /\ ~kept
        /\ pc = "undo" => \E k \in Low..done :
              /\ Reached(k)
              /\ \A i \in (Low + 1)..k : Op(i).kind = "mkdir"
              /\ folders = {Op(i).path : i \in (Low + 1)..k}
        /\ pc = "folders" =>
              /\ DOMAIN tree = DOMAIN batch.trees[1] \cup folders
              /\ \A p \in DOMAIN batch.trees[1] : tree[p] = batch.trees[1][p]
              /\ \A p \in folders : p \notin DOMAIN batch.trees[1] /\ tree[p] \in Dirs
              /\ date = batch.dates[1]
        /\ pc = "over" /\ result # "none" => Restored /\ ~skipped /\ ~kept

\* An undo of which a step was refused knows that it is not complete, unless
\* what it was about had never been confirmed.
BalkedInv ==
    /\ undos = 0 => ~balked
    /\ undos = 1 /\ balked /\ (pc \in Undoing \/ result = "complete") =>
          skipped \/ kept \/ Unconfirmed # {}
    /\ result = "complete" => ~skipped /\ Undone \in journal /\ synced = journal

IInv ==
    /\ JInv
    /\ FolderInv /\ RunInv /\ WrittenInv /\ WalkInv /\ BalkedInv

\* Whatever another program does to the files.  Theirs are the user's files and
\* the other program's; none of them ever holds a text the undo takes for the
\* batch's own, and a file half-written is the one in hand.
Theirs == FilesIn(batch.trees[1]) \cup Strangers \cup added
OwnTexts == {Op(i).text : i \in {j \in 1..N : Op(j).kind = "write"}}

Ahead == {"idle", "head", "announce", "sync", "perform", "writing", "confirm"}

TheirsInv ==
    /\ NothingLost
    /\ \A f \in Theirs : body[f] \notin OwnTexts
    /\ pc = "writing" => \E f \in Files : body[f] = "half"
    /\ pc \in Ahead => \A f, g \in Files : body[f] = "half" /\ body[g] = "half" => f = g
    /\ pc \in Ahead => \A f \in Files : body[f] = "half" =>
          pc = "writing" /\ (Op(cur).kind = "write" => f = Op(cur).file)
    /\ pc \in Ahead => \A i \in 1..N :
          Op(i).kind = "write" /\ i > done => Op(i).file \notin added

\* A batch is sealed only with all it changed confirmed; as long as no power cut
\* takes a record away.
SealInv ==
    /\ pc \in Ahead \cup {"fail"} => Commit \notin journal
    /\ cuts = 0 /\ Commit \in journal => \A i \in 1..done : Completed(i) \in journal

OutsideInv == JInv /\ TheirsInv /\ SealInv
=============================================================================
